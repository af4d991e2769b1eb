------------------------- MODULE VerificationChecks -------------------------
(***************************************************************************)
(* The decision of the verifier service on one proof bundle                *)
(* (apps/verifier-service/src/index.ts: evaluate, buildUnsignedReport and  *)
(* the helpers they call; packages/sdk-core/src/types: assertProofBundle). *)
(*                                                                         *)
(* A hash is represented by the value it is the hash of, so that equal     *)
(* hashes are equal values.  The raw proof of a receipt is therefore the   *)
(* value of its rawProofHash: storage hands out nothing else under that    *)
(* hash.  A raw proof is valid when its adapter verifies it and can read   *)
(* the evidence out of it.  Fields that are compared with one value of the *)
(* task only (chain, contract, nonce) are one field, rest.                 *)
(***************************************************************************)
EXTENDS Naturals, FiniteSets, Functions

CONSTANTS
    Adapters,   \* the names of the zkTLS adapters the service has
    NoModel,    \* the model of a request body that names none
    Inputs      \* what verifyTask may have loaded

VARIABLES
    inputs,     \* what verifyTask loaded
    outcome     \* what came of it

vars == <<inputs, outcome>>

Receipts(in) == DOMAIN in.proofBundle.receipts

Receipt(in, i) == in.proofBundle.receipts[i]

RawProof(in, i) == Receipt(in, i).rawProofHash

Claimed(in, i) == Receipt(in, i).totalTokens

\* Storage has compared the hashes of what it loaded; a bundle has finitely many
\* receipts, and a raw proof that evidence can be read out of shows a count that is
\* a natural number.
ASSUME InputsAssumption ==
    \A in \in Inputs :
        /\ in.commitment.hash = in.task.commitmentHash
        /\ in.proofBundle.hash = in.task.proofBundleHash
        /\ IsFiniteSet(Receipts(in))
        /\ \A i \in Receipts(in) :
               RawProof(in, i).valid => RawProof(in, i).totalTokens \in Nat

buildExpectedTaskContext(in) ==
    [taskId |-> in.task.taskId, commitmentHash |-> in.task.commitmentHash,
     buyer |-> in.task.buyer, seller |-> in.task.seller, rest |-> in.task.rest]

callIntentHash(taskContext, callIndex, request) ==
    [taskContext |-> taskContext, callIndex |-> callIndex, request |-> request]

Unique(in, Field(_)) ==
    \A i, j \in Receipts(in) :
        Field(Receipt(in, i)) = Field(Receipt(in, j)) => i = j

callIndicesUnique(in) == Unique(in, LAMBDA receipt : receipt.callIndex)

\* The claims of the receipts add up to the claim of the bundle.
claimsAddUp(in) ==
    SumFunctionOnSet([i \in Receipts(in) |-> Claimed(in, i)], Receipts(in))
        = in.proofBundle.totalTokens

\* What assertExecutionCommitment and assertProofBundle demand of the loaded
\* objects beyond the shape of their fields; otherwise verifyTask throws.
WellFormed(in) ==
    /\ in.commitment.allowedModels # {}
    /\ Receipts(in) # {}
    /\ \A i \in Receipts(in) :
           /\ Receipt(in, i).taskContext.taskId = in.proofBundle.taskId
           /\ Receipt(in, i).taskContext.commitmentHash = in.proofBundle.commitmentHash
           /\ Receipt(in, i).taskContext.seller = in.proofBundle.seller
    /\ callIndicesUnique(in)
    /\ claimsAddUp(in)

evidenceMatchesReceipt(raw, receipt) ==
    /\ raw.provider = receipt.provider
    /\ raw.providerProofId = receipt.providerProofId
    /\ raw.request = receipt.requestHash
    /\ raw.response = receipt.responseHash
    /\ raw.observedAt = receipt.observedAt
    /\ raw.model = receipt.model
    /\ raw.totalTokens = receipt.totalTokens

\* receiptMatchesVerifiedRawProof of verifyReceiptProofs.
hasAcceptedReceiptEvidence(in, i) ==
    /\ Receipt(in, i).provider \in Adapters
    /\ RawProof(in, i).valid
    /\ evidenceMatchesReceipt(RawProof(in, i), Receipt(in, i))

-----------------------------------------------------------------------------
(* Deliberately wrong variants of the definitions they name, for runs that show
   that a property can fail; no specification uses them. *)

\* For isReceiptAcceptedForUsage: counts every receipt with a verified proof.
isReceiptVerified(in, i) == hasAcceptedReceiptEvidence(in, i)

\* For providerProofContextMatchesReceipt: looks at the call intent only.
providerProofIntentMatchesReceipt(in, i) ==
    RawProof(in, i).proofContext.callIntentHash = Receipt(in, i).callIntentHash

\* For isWithinTaskWindow: the first and last moment are outside.
isStrictlyWithinTaskWindow(in, i) ==
    /\ in.task.fundedAt < RawProof(in, i).observedAt
    /\ RawProof(in, i).observedAt < in.task.deadline
    /\ RawProof(in, i).observedAt <= in.commitment.deadline

\* For isWithinTaskWindow: work that was done before the funding counts as well.
isDoneByTheDeadline(in, i) ==
    /\ RawProof(in, i).observedAt <= in.task.deadline
    /\ RawProof(in, i).observedAt <= in.commitment.deadline

-----------------------------------------------------------------------------
(* The conditions on one receipt, and on the bundle *)

isEndpointMatched(in, i) == RawProof(in, i).request.target = in.commitment.target

isWithinTaskWindow(in, i) ==
    /\ in.task.fundedAt <= RawProof(in, i).observedAt
    /\ RawProof(in, i).observedAt <= in.task.deadline
    /\ RawProof(in, i).observedAt <= in.commitment.deadline

isModelAllowed(in, i) == RawProof(in, i).model \in in.commitment.allowedModels

isCommitmentBoundToTask(in) ==
    /\ in.commitment.taskId = in.task.taskId
    /\ in.commitment.buyer = in.task.buyer
    /\ in.commitment.seller = in.task.seller
    /\ in.commitment.deadline <= in.task.deadline

isProofBundleBoundToTask(in) ==
    /\ in.proofBundle.taskId = in.task.taskId
    /\ in.proofBundle.commitmentHash = in.task.commitmentHash
    /\ in.proofBundle.seller = in.task.seller

providerProofContextMatchesReceipt(in, i) ==
    LET proofContext == RawProof(in, i).proofContext
    IN  /\ proofContext.taskContext = buildExpectedTaskContext(in)
        /\ proofContext.callIndex = Receipt(in, i).callIndex
        /\ proofContext.callIntentHash = Receipt(in, i).callIntentHash

receiptCallIntentMatchesEvidence(in, i) ==
    /\ RawProof(in, i).request.model # NoModel
    /\ Receipt(in, i).callIntentHash =
           callIntentHash(buildExpectedTaskContext(in), Receipt(in, i).callIndex,
                          RawProof(in, i).request)

isReceiptBoundToExpectedContext(in, i) ==
    /\ Receipt(in, i).taskContext = buildExpectedTaskContext(in)
    /\ providerProofContextMatchesReceipt(in, i)
    /\ hasAcceptedReceiptEvidence(in, i)
    /\ receiptCallIntentMatchesEvidence(in, i)

isReceiptAcceptedForUsage(in, i) ==
    /\ hasAcceptedReceiptEvidence(in, i)
    /\ isEndpointMatched(in, i)
    /\ isReceiptBoundToExpectedContext(in, i)
    /\ isWithinTaskWindow(in, i)
    /\ isModelAllowed(in, i)

-----------------------------------------------------------------------------
(* The evaluation *)

aggregateAcceptedUsage(in) ==
    SumFunctionOnSet([i \in Receipts(in) |-> RawProof(in, i).totalTokens],
                     {i \in Receipts(in) : isReceiptAcceptedForUsage(in, i)})

hasDuplicateConsumptionKey(in) ==
    \/ ~Unique(in, LAMBDA receipt : receipt.providerProofId)
    \/ ~Unique(in, LAMBDA receipt : receipt)
    \/ ~Unique(in, LAMBDA receipt : receipt.callIntentHash)

\* The checks of a report.  Storage has compared both hashes on loading.
Checks(in) ==
    [commitmentHashMatched |-> in.commitment.hash = in.task.commitmentHash,
     proofBundleHashMatched |-> in.proofBundle.hash = in.task.proofBundleHash,
     zkTlsProofValid |-> \A i \in Receipts(in) : hasAcceptedReceiptEvidence(in, i),
     endpointMatched |->
         \A i \in Receipts(in) :
             hasAcceptedReceiptEvidence(in, i) /\ isEndpointMatched(in, i),
     taskContextMatched |->
         /\ isCommitmentBoundToTask(in)
         /\ isProofBundleBoundToTask(in)
         /\ \A i \in Receipts(in) : isReceiptBoundToExpectedContext(in, i),
     callIndicesUnique |-> callIndicesUnique(in),
     proofNotConsumed |-> ~in.keyConsumed /\ ~in.bundleConsumed,
     withinTaskWindow |->
         \A i \in Receipts(in) :
             hasAcceptedReceiptEvidence(in, i) /\ isWithinTaskWindow(in, i),
     modelMatched |->
         \A i \in Receipts(in) :
             hasAcceptedReceiptEvidence(in, i) /\ isModelAllowed(in, i),
     usageSatisfied |-> aggregateAcceptedUsage(in) >= in.commitment.minUsage]

Passed(checks) == \A check \in DOMAIN checks : checks[check]

EligibleForConsumption(checks) ==
    checks.zkTlsProofValid /\ checks.taskContextMatched /\ checks.callIndicesUnique

Report(in) ==
    [kind |-> "report", checks |-> Checks(in), passed |-> Passed(Checks(in)),
     settlementAction |-> IF Passed(Checks(in)) THEN "RELEASE" ELSE "REFUND",
     aggregateUsage |-> aggregateAcceptedUsage(in)]

\* The outcome of verifyTask: an error before a report is built, or a report.
Verified(in) ==
    CASE ~WellFormed(in) -> [kind |-> "malformed"]
      [] WellFormed(in) /\ (in.keyConsumed \/ in.bundleConsumed) ->
             [kind |-> "already consumed"]
      [] OTHER -> Report(in)

Init == inputs \in Inputs /\ outcome = [kind |-> "pending"]

Verify ==
    /\ outcome.kind = "pending"
    /\ outcome' = Verified(inputs)
    /\ UNCHANGED inputs

Spec == Init /\ [][Verify]_vars

-----------------------------------------------------------------------------
(* Properties *)

Released == outcome.kind = "report" /\ outcome.passed

\* A raw proof shows work for the task: verified, of a call that was meant as
\* the given call of this task, to the committed endpoint, answered by an allowed
\* model, inside the window.  It is stated of the raw proof alone, without the
\* receipt that the seller wrote for it.
Genuine(raw, in) ==
    /\ raw.valid /\ raw.provider \in Adapters
    /\ raw.proofContext.taskContext = buildExpectedTaskContext(in)
    /\ raw.proofContext.callIntentHash =
           callIntentHash(buildExpectedTaskContext(in), raw.proofContext.callIndex,
                          raw.request)
    /\ raw.request.target = in.commitment.target
    /\ raw.model \in in.commitment.allowedModels
    /\ in.task.fundedAt <= raw.observedAt /\ raw.observedAt <= in.task.deadline
    /\ raw.observedAt <= in.commitment.deadline

GenuineProofs(in) ==
    {raw \in {RawProof(in, i) : i \in Receipts(in)} : Genuine(raw, in)}

\* A report that releases the money was made for at least one receipt, every one
\* of them stands for genuine work, no two for the same work, and the receipts
\* claim what the proofs show.
ReleasedWorkIsGenuine ==
    Released =>
        /\ Receipts(inputs) # {}
        /\ \A i \in Receipts(inputs) :
               /\ Genuine(RawProof(inputs, i), inputs)
               /\ Claimed(inputs, i) = RawProof(inputs, i).totalTokens
        /\ \A i, j \in Receipts(inputs) :
               RawProof(inputs, i) = RawProof(inputs, j) => i = j

\* The usage in a report is what genuine raw proofs show, each counted once,
\* however the seller wrote and repeated the receipts.
UsageIsProven ==
    outcome.kind = "report" =>
        outcome.aggregateUsage <=
            SumFunctionOnSet([raw \in GenuineProofs(inputs) |-> raw.totalTokens],
                             GenuineProofs(inputs))

\* The receipt that an adapter writes for a raw proof.
NormalizedReceipt(raw) ==
    [taskContext |-> raw.proofContext.taskContext,
     callIndex |-> raw.proofContext.callIndex,
     callIntentHash |-> raw.proofContext.callIntentHash,
     provider |-> raw.provider, providerProofId |-> raw.providerProofId,
     requestHash |-> raw.request, responseHash |-> raw.response,
     observedAt |-> raw.observedAt, model |-> raw.model,
     totalTokens |-> raw.totalTokens, rawProofHash |-> raw]

HonestBundle(in) ==
    /\ isProofBundleBoundToTask(in) /\ isCommitmentBoundToTask(in)
    /\ in.commitment.allowedModels # {} /\ Receipts(in) # {}
    /\ \A i \in Receipts(in) :
           /\ Receipt(in, i) = NormalizedReceipt(RawProof(in, i))
           /\ Genuine(RawProof(in, i), in)
           /\ RawProof(in, i).request.model # NoModel
    /\ callIndicesUnique(in)
    /\ claimsAddUp(in)
    /\ in.proofBundle.totalTokens >= in.commitment.minUsage
    /\ ~in.keyConsumed /\ ~in.bundleConsumed

\* A seller who did the work, and wrote it down as the adapters do, is paid.
HonestWorkPasses ==
    HonestBundle(inputs) /\ outcome.kind # "pending" => Released

=============================================================================
