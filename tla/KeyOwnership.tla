---------------------------- MODULE KeyOwnership ----------------------------
(***************************************************************************)
(* What a consumption registry promises, with requests, reports and        *)
(* restarts left out: keys are claimed in groups, each group by one owner  *)
(* and only as a whole, and a key stays with its owner for ever.           *)
(***************************************************************************)

CONSTANTS
    Keys,      \* what can be owned
    Owners,    \* who can own: a task together with a proof bundle
    NoOwner    \* the owner of a key that is still free

VARIABLE
    owner      \* owner[k]: the owner of key k

OwnershipInit == owner = [k \in Keys |-> NoOwner]

Claim(keys, who) ==
    /\ \A k \in keys : owner[k] = NoOwner
    /\ owner' = [k \in Keys |-> IF k \in keys THEN who ELSE owner[k]]

OwnershipNext == \E keys \in SUBSET Keys, who \in Owners : Claim(keys, who)

OwnershipSpec == OwnershipInit /\ [][OwnershipNext]_owner

=============================================================================
