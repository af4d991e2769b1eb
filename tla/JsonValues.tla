----------------------------- MODULE JsonValues -----------------------------
(***************************************************************************)
(* JSON values as the system stores and hashes them, and what both zkTLS   *)
(* adapters do with one: read a path, take the first of several.           *)
(*                                                                         *)
(* A value is a tuple that starts with its kind.  An object is a function  *)
(* of its keys, which have no order: equal values are what canonicalize    *)
(* (packages/sdk-core/src/canonicalize/index.ts) gives equal text, and the *)
(* hash of a value (hash/index.ts) is the value itself, tagged.            *)
(***************************************************************************)
EXTENDS Integers, Sequences, SequencesExt

Null == <<"null">>
Undefined == <<"undefined">>
Fraction == <<"fraction">>          \* 1.5, and what is no safe integer
Bool(b) == <<"boolean", b>>
Str(s) == <<"string", s>>
Digits(n) == <<"digits", n>>        \* a string of decimal digits, "12"
Num(n) == <<"number", n>>
Arr(items) == <<"array", items>>
Obj(fields) == <<"object", fields>>

\* A string that holds JSON, and one that holds it in HTTP chunks whose data
\* has so many lines.
Text(value) == <<"text", value>>
Chunked(value, lines) == <<"chunked", value, lines>>

Kind(value) == value[1]
IsString(value) == Kind(value) \in {"string", "digits", "text", "chunked"}
IsRecord(value) == Kind(value) = "object"
IsNonEmptyString(value) == IsString(value) /\ value # Str("")
IsCount(value) == Kind(value) = "number" /\ value[2] \in Nat
IsDigits(value) == Kind(value) = "digits" /\ value[2] \in Nat

Keys(object) == DOMAIN object[2]
Field(object, key) == IF key \in Keys(object) THEN object[2][key] ELSE Undefined

\* What hashObject returns where it returns.
Hash(value) == <<"keccak256", value>>

\* One key further down.  The only index the paths of the code hold is 0.
ReadKey(value, key) ==
    CASE Kind(value) = "array" /\ key = "0" /\ value[2] # <<>> -> Head(value[2])
      [] IsRecord(value) -> Field(value, key)
      [] OTHER -> Undefined

ReadPath(value, path) == FoldLeft(ReadKey, value, path)

\* The first of the values that has the property, as the loops over
\* candidates and the ?? chains take it.
FirstOf(values, Is(_)) ==
    LET found == SelectSeq(values, Is) IN IF found = <<>> THEN Undefined ELSE Head(found)
=============================================================================
