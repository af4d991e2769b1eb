------------------------ MODULE ConsumptionRegistry ------------------------
(***************************************************************************)
(* The registry of consumed proofs of the verifier service                 *)
(* (apps/verifier-service/src/index.ts): a map from consumption keys to    *)
(* the record that reserved them, in memory or in a database table with a  *)
(* unique constraint on the keys.                                          *)
(*                                                                         *)
(* markConsumed awaits hasAny and then writes: two steps, and other        *)
(* requests run between them.  The write itself is one step in both        *)
(* registries: a loop without an await, or one insert statement.           *)
(***************************************************************************)

CONSTANTS
    Keys,        \* consumption keys, each with its type
    NoRecord,    \* a key that is not in the map
    Persistent   \* the database registry, and not the one in memory

VARIABLES
    consumed,    \* consumed[k]: the record that key k is reserved by
    lost         \* history: a record was overwritten, or gone with its process

NothingConsumed == [k \in Keys |-> NoRecord]

ConsumptionInit == consumed = NothingConsumed /\ lost = FALSE

hasAny(keys) == \E k \in keys : consumed[k] # NoRecord

\* A deliberately wrong variant of Recorded, for a run that shows that a property
\* can fail: puts a new map in the place of the old one.
RecordedAlone(keys, record) == [k \in keys |-> record]

Recorded(keys, record) ==
    [k \in Keys |-> IF k \in keys THEN record ELSE consumed[k]]

\* createMany inserts all rows or none: the unique constraint refuses the
\* insert when one key is there.
createMany(keys, record) ==
    /\ ~hasAny(keys)
    /\ consumed' = Recorded(keys, record)
    /\ UNCHANGED lost

\* The loop of the memory registry overwrites what is there.
setAll(keys, record) ==
    /\ consumed' = Recorded(keys, record)
    /\ lost' = (lost \/ hasAny(keys))

-----------------------------------------------------------------------------
(* Deliberately wrong variants of writeKeys, for runs that show that a property can
   fail; no specification uses them. *)

\* Writes like an upsert.
writeKeysOverwriting(keys, record) ==
    consumed' = Recorded(keys, record) /\ UNCHANGED lost

\* Skips the rows that are there, as createMany does on request.
writeKeysSkippingTaken(keys, record) ==
    /\ consumed' = Recorded({k \in keys : consumed[k] = NoRecord}, record)
    /\ UNCHANGED lost

-----------------------------------------------------------------------------

writeKeys(keys, record) ==
    IF Persistent THEN createMany(keys, record) ELSE setAll(keys, record)

\* What a new process finds.
restart ==
    IF Persistent
    THEN UNCHANGED <<consumed, lost>>
    ELSE /\ consumed' = NothingConsumed
         /\ lost' = (lost \/ consumed # NothingConsumed)

=============================================================================
