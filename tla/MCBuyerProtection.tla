------------------------- MODULE MCBuyerProtection -------------------------
(***************************************************************************)
(* A small instance of BuyerProtection for TLC: a task for each of two     *)
(* jobs, with a commitment and a bundle for each as they were ordered; the *)
(* answer in both bundles is the same.  The third hash is that of a        *)
(* commitment to another model than the one ordered, and of a bundle of    *)
(* work that was done before it was paid for.                              *)
(***************************************************************************)
EXTENDS BuyerProtection, TLC

CONSTANTS alice, bob, oracle, usd, h1, h2, h3, nobody, zero, settlement, none,
          c1, r1, firstJob, secondJob

MCOrder ==
    [j \in Jobs |->
        [seller |-> bob, token |-> usd, amount |-> 1, deadlineMs |-> 4,
         expectations |-> [endpoints |-> {"api"}, models |-> {"small"},
                           verifiers |-> {oracle}, minUsage |-> 1, nowMs |-> 0]]]

\* The task that the objects of a hash are about, the commitment that a bundle was
\* made under, and the time that its proof tells.
TaskOf == h1 :> 1 @@ h2 :> 2 @@ h3 :> 1
CommitmentOf == h1 :> h1 @@ h2 :> h2 @@ h3 :> h1
ObservedAt == h1 :> 4 @@ h2 :> 4 @@ h3 :> 2

MCCommitments ==
    [h \in Hashes |->
        [taskId |-> TaskOf[h], buyer |-> alice, seller |-> bob, deadline |-> 4,
         endpoint |-> "api", minUsage |-> 1, verifier |-> oracle,
         allowedModels |-> {IF h = h3 THEN "other" ELSE "small"}]]

\* The two jobs ask for the same.
MCSymmetry == Permutations(Jobs)

MCNonces == [t \in TaskIds |-> t]

Context(h) ==
    [taskId |-> TaskOf[h], commitmentHash |-> CommitmentOf[h],
     buyer |-> alice, seller |-> bob, rest |-> MCNonces[TaskOf[h]]]

\* The operators that make the objects, away from the objects themselves.
Making == INSTANCE VerificationChecks WITH
    Inputs <- {}, inputs <- none, outcome <- [kind |-> "pending"]

Raw(h) ==
    LET request == [target |-> "api", model |-> "small", body |-> "b"]
    IN  [valid |-> TRUE, provider |-> "tls", providerProofId |-> h,
         request |-> request, response |-> "answer", observedAt |-> ObservedAt[h],
         model |-> "small", totalTokens |-> 1,
         proofContext |->
             [taskContext |-> Context(h), callIndex |-> 1,
              callIntentHash |-> Making!callIntentHash(Context(h), 1, request)]]

MCProofBundles ==
    [h \in Hashes |->
        [hash |-> h, taskId |-> TaskOf[h], commitmentHash |-> CommitmentOf[h],
         seller |-> bob, totalTokens |-> 1,
         receipts |-> <<Making!NormalizedReceipt(Raw(h))>>]]

\* Bounds: the verifiers stay as they are and there is one report on a task at most
\* (MCVerifierService has both change), the agent only posts and funds (MCBuyerClient
\* has it ask and claim, and refunds come from others here), and a client leaves the
\* marks out for the first task only.
InBounds ==
    /\ authorizedVerifiers = Verifiers
    /\ \A p, q \in stored : p.taskId = q.taskId => p = q
    /\ \A c \in Calls :
           calls[c].pc \notin {"checking", "refundAfterProofSubmissionDeadline",
                               "refundAfterVerificationTimeout"}
    /\ \A r \in Requests :
           Service!At(r, "idle") \/ requests[r].mark \/ requests[r].taskId = 1

=============================================================================
