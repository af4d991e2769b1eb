------------------------- MODULE MCTyrPaySettlement -------------------------
(***************************************************************************)
(* Small instances of TyrPaySettlement for TLC.                            *)
(***************************************************************************)
EXTENDS SettlementAccounting, TLC

CONSTANTS alice, bob, oracle, usd, h1, h2, nobody, zero, settlement

\* Reports by one verifier key, for either task and bundle and both verdicts;
\* among them some with the wrong action for their verdict, some made too late
\* and some for another commitment.
MCReports ==
    {r \in [taskId : TaskIds, buyer : Accounts, seller : Accounts,
            commitmentHash : Hashes, proofBundleHash : Hashes,
            passed : BOOLEAN, settlementAction : {"RELEASE", "REFUND"},
            settlementAmount : Amounts, verifiedAt : {4, 9},
            reportHash : Hashes, signer : Verifiers] :
        /\ r.buyer # r.seller
        /\ r.reportHash = r.proofBundleHash
        /\ r.settlementAction = "REFUND" => ~r.passed
        /\ r.verifiedAt = 9 => r.passed}

\* Bounds on the state space: nobody buys from itself, which the contract
\* allows and no property tells apart; the second task alone may have the
\* deadline that leaves no room for the grace period, and the first alone the
\* second commitment.
Late == MaxUint
InBounds ==
    /\ \A t \in TaskIds : Exists(tasks[t]) => tasks[t].buyer # tasks[t].seller
    /\ tasks[1].deadlineMs # Late
    /\ tasks[2].commitmentHash # h2

=============================================================================
