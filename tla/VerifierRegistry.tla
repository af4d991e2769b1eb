-------------------------- MODULE VerifierRegistry --------------------------
(***************************************************************************)
(* The on-chain list of verifiers whose signed reports the settlement      *)
(* contract accepts (packages/contracts/contracts/VerifierRegistry.sol).   *)
(*                                                                         *)
(* A call is an action; its guard is the conjunction of the checks that    *)
(* would revert it, so a reverted call is a stuttering step.  Ownership is *)
(* taken as fixed at deployment: transferOwnership and renounceOwnership   *)
(* belong to the imported Ownable library.                                 *)
(***************************************************************************)

CONSTANTS
    Verifiers,      \* the addresses that may ever be listed
    NoAddress,      \* address(0)
    RegistryOwner   \* the account that deployed the registry

VARIABLE
    authorizedVerifiers   \* the addresses mapped to true

RegistryTypeOK == authorizedVerifiers \in SUBSET Verifiers

RegistryInit == authorizedVerifiers = {}

addVerifier(caller, verifier) ==
    /\ caller = RegistryOwner
    /\ verifier # NoAddress
    /\ authorizedVerifiers' = authorizedVerifiers \cup {verifier}

removeVerifier(caller, verifier) ==
    /\ caller = RegistryOwner
    /\ verifier # NoAddress
    /\ authorizedVerifiers' = authorizedVerifiers \ {verifier}

isVerifier(address) == address \in authorizedVerifiers

=============================================================================
