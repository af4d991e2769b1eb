--------------------------- MODULE MCBuyerClient ---------------------------
(***************************************************************************)
(* Small instances of BuyerClient for TLC.                                 *)
(***************************************************************************)
EXTENDS BuyerClient, TLC

CONSTANTS alice, bob, oracle, usd, h1, h2, nobody, zero, settlement, none,
          c1, c2, job

\* The seller may commit to what the agent ordered, or with one model more.
MCCommitments ==
    LET ordered == [taskId |-> 1, buyer |-> alice, seller |-> bob, deadline |-> 4,
                    endpoint |-> "api", allowedModels |-> {"small"}, minUsage |-> 1,
                    verifier |-> oracle]
    IN  h1 :> ordered @@ h2 :> [ordered EXCEPT !.allowedModels = {"small", "other"}]

\* The seller commits to what was ordered, for each of two tasks.
MCCommitmentsOfTwo ==
    h1 :> MCCommitments[h1] @@ h2 :> [MCCommitments[h1] EXCEPT !.taskId = 2]

MCOrder ==
    [j \in Jobs |->
        [seller |-> bob, token |-> usd, amount |-> 1, deadlineMs |-> 4,
         expectations |-> [endpoints |-> {"api"}, models |-> {"small"},
                           verifiers |-> {oracle}, minUsage |-> 1, nowMs |-> 0]]]

\* A report of either verdict.
MCReports ==
    {r \in [taskId : {1}, buyer : {alice}, seller : {bob}, commitmentHash : {h1},
            proofBundleHash : {h1}, passed : BOOLEAN,
            settlementAction : {"RELEASE", "REFUND"}, settlementAmount : {1},
            verifiedAt : {4}, reportHash : {h1}, signer : Verifiers] :
        r.passed = (r.settlementAction = "RELEASE")}

MCSymmetry == Permutations(Calls)

=============================================================================
