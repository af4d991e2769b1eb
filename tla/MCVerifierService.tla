------------------------- MODULE MCVerifierService -------------------------
(***************************************************************************)
(* Small instances of VerifierService for TLC: two tasks, and bundles of   *)
(* which some share a proof.                                               *)
(***************************************************************************)
EXTENDS VerifierService, FiniteSets, TLC

CONSTANTS alice, oracle, usd, h1, h2, nobody, zero, settlement, none,
          r1, r2, k1, k2, SecondVerdict

\* Two bundles that share the key k1, as for two calls with the same answer.
MCBundles ==
    h1 :> [keys |-> {k1}, repeated |-> FALSE]
    @@ h2 :> [keys |-> {k1, k2}, repeated |-> FALSE]

MCWork ==
    [taskId : TaskIds, buyer : Accounts, seller : Accounts, commitmentHash : {h1},
     proofBundleHash : Hashes, fundedAtMs : {MsPerSecond}, deadlineMs : Deadlines]

\* The first bundle is work for the first task, the second for the second.
MCEligible ==
    {work \in MCWork : work.proofBundleHash = IF work.taskId = 1 THEN h1 ELSE h2}

MCPassing ==
    {work \in MCEligible : work.taskId = 1 \/ SecondVerdict = "passes"}

MCAssigned == [h \in Hashes |-> Verifier]

MCAgreements ==
    [buyer : Accounts, seller : Accounts, token : Tokens, amount : Amounts \ {0},
     deadlineMs : Deadlines, commitmentHash : {h1}]

\* Bounds: there are at most two reports; the first task gets the bundle that is made
\* for it, the second either; and a client leaves the marks out for the first only.
InBounds ==
    /\ Cardinality(stored) <= 2
    /\ tasks[1].proofBundleHash # h2
    /\ \A r \in Requests :
           At(r, "idle") \/ requests[r].mark \/ requests[r].taskId = 1

MCSymmetry == Permutations(Requests)

=============================================================================
