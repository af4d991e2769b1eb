--------------------------- MODULE CanonicalJson ---------------------------
(***************************************************************************)
(* The two recursive descents into a JSON value: what canonicalize         *)
(* (packages/sdk-core/src/canonicalize/index.ts) accepts, and leaving out  *)
(* the nulls, which both zkTLS adapters do.                                *)
(***************************************************************************)
EXTENDS JsonValues

\* canonicalize throws on everything else.
RECURSIVE CanonicalizesJson(_)
CanonicalizesJson(value) ==
    \/ IsString(value)
    \/ Kind(value) \in {"boolean", "number"}
    \/ Kind(value) = "array" /\ \A i \in DOMAIN value[2] : CanonicalizesJson(value[2][i])
    \/ IsRecord(value) /\ \A key \in Keys(value) : CanonicalizesJson(value[2][key])

\* sanitizeCanonicalJson: null items and fields are dropped, a fraction stays.
RECURSIVE SanitizedJson(_)
SanitizedJson(value) ==
    CASE value = Null -> Undefined
      [] Kind(value) = "array" ->
            Arr(SelectSeq([i \in DOMAIN value[2] |-> SanitizedJson(value[2][i])],
                          LAMBDA item : item # Undefined))
      [] IsRecord(value) ->
            LET kept == {key \in Keys(value) : SanitizedJson(value[2][key]) # Undefined}
            IN  Obj([key \in kept |-> SanitizedJson(value[2][key])])
      [] OTHER -> value
=============================================================================
