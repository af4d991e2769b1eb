---------------------------- MODULE MCScriptRuns ----------------------------
(***************************************************************************)
(* The instance of ScriptRuns for TLC: the suite alone, the two loops at   *)
(* once, and the smoke test alone.                                         *)
(***************************************************************************)
EXTENDS ScriptRuns

CONSTANTS boundaryToken, mockToken, reclaimToken, smokeToken

MCTokenOf ==
    [p \in Programs |->
        CASE p = "boundaries" -> boundaryToken
          [] p = "mock loop" -> mockToken
          [] p = "reclaim loop" -> reclaimToken
          [] p = "smoke" -> smokeToken]

=============================================================================
