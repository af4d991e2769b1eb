---------------------- MODULE VerificationChecks_proofs ----------------------
(***************************************************************************)
(* Theorems about VerificationChecks, for all inputs: bundles with any     *)
(* number of receipts, written by the seller in any way; and one about the *)
(* scenarios of MockZkTls, for any task they are used on.                  *)
(***************************************************************************)
EXTENDS MockZkTls, FiniteSums

\* The outcome is undecided or the one that the inputs lead to.
Decided == outcome.kind = "pending" \/ outcome = Verified(inputs)

LEMMA AlwaysDecided == Spec => []Decided
<1>1. Init => Decided
  BY DEF Init, Decided
<1>2. Decided /\ [Verify]_vars => Decided'
  <2> SUFFICES ASSUME Decided, [Verify]_vars PROVE Decided'
    OBVIOUS
  <2>1. CASE Verify
    <3>1. outcome' = Verified(inputs) /\ inputs' = inputs
      BY <2>1 DEF Verify
    <3>2. Verified(inputs)' = Verified(inputs)
      BY <3>1
    <3> QED
      BY <3>1, <3>2 DEF Decided
  <2>2. CASE UNCHANGED vars
    BY <2>2 DEF Decided, vars
  <2> QED
    BY <2>1, <2>2
<1> QED
  BY <1>1, <1>2, PTL DEF Spec

\* A released outcome is the report on the inputs, with every check true.
LEMMA ReleasedReport ==
  ASSUME Decided, Released
  PROVE  /\ WellFormed(inputs)
         /\ outcome.checks = Checks(inputs)
         /\ Passed(Checks(inputs))
<1>1. outcome = Verified(inputs) /\ outcome.kind = "report"
  BY DEF Decided, Released
<1>2. WellFormed(inputs)
  BY <1>1 DEF Verified
<1>3. outcome = Report(inputs)
  BY <1>1, <1>2 DEF Verified
<1> QED
  BY <1>2, <1>3 DEF Report, Released

\* Each check of a passing report, for each receipt.
LEMMA PassedChecks ==
  ASSUME NEW in, Passed(Checks(in))
  PROVE  /\ Checks(in).zkTlsProofValid
         /\ Checks(in).taskContextMatched
         /\ Checks(in).callIndicesUnique
         /\ callIndicesUnique(in)
         /\ \A i \in Receipts(in) :
                /\ hasAcceptedReceiptEvidence(in, i)
                /\ isEndpointMatched(in, i)
                /\ isReceiptBoundToExpectedContext(in, i)
                /\ isWithinTaskWindow(in, i)
                /\ isModelAllowed(in, i)
<1> DEFINE checks == Checks(in)
<1>1. /\ checks.zkTlsProofValid /\ checks.endpointMatched
      /\ checks.taskContextMatched /\ checks.callIndicesUnique
      /\ checks.withinTaskWindow /\ checks.modelMatched
  BY DEF Passed, Checks
<1> QED
  BY <1>1 DEF Checks

\* A receipt bound to the task pins down the context of its raw proof.
LEMMA BoundContext ==
  ASSUME NEW in, NEW i \in Receipts(in), isReceiptBoundToExpectedContext(in, i)
  PROVE  /\ RawProof(in, i).proofContext.taskContext = buildExpectedTaskContext(in)
         /\ RawProof(in, i).proofContext.callIndex = Receipt(in, i).callIndex
         /\ RawProof(in, i).proofContext.callIntentHash = Receipt(in, i).callIntentHash
         /\ Receipt(in, i).callIntentHash =
                callIntentHash(buildExpectedTaskContext(in), Receipt(in, i).callIndex,
                               RawProof(in, i).request)
BY DEF isReceiptBoundToExpectedContext, providerProofContextMatchesReceipt,
       receiptCallIntentMatchesEvidence

\* A call intent holds the call index it was made for.
LEMMA CallIndexOfIntent ==
  ASSUME NEW taskContext, NEW callIndex, NEW request
  PROVE  callIntentHash(taskContext, callIndex, request).callIndex = callIndex
BY DEF callIntentHash

\* Receipts for one raw proof, or with one call intent, have one call index.
LEMMA OneReceiptPerCall ==
  ASSUME NEW in, Passed(Checks(in)), NEW i \in Receipts(in), NEW j \in Receipts(in),
         \/ RawProof(in, i) = RawProof(in, j)
         \/ Receipt(in, i).callIntentHash = Receipt(in, j).callIntentHash
  PROVE  i = j
<1>1. /\ isReceiptBoundToExpectedContext(in, i)
      /\ isReceiptBoundToExpectedContext(in, j)
      /\ callIndicesUnique(in)
  BY PassedChecks
<1>2. Receipt(in, i).callIndex = Receipt(in, j).callIndex
  <2>1. CASE RawProof(in, i) = RawProof(in, j)
    BY <1>1, <2>1, BoundContext
  <2>2. CASE Receipt(in, i).callIntentHash = Receipt(in, j).callIntentHash
    <3>1. Receipt(in, i).callIntentHash.callIndex = Receipt(in, i).callIndex
      <4>1. Receipt(in, i).callIntentHash =
                callIntentHash(buildExpectedTaskContext(in), Receipt(in, i).callIndex,
                               RawProof(in, i).request)
        BY <1>1, BoundContext
      <4> QED
        BY <4>1, CallIndexOfIntent
    <3>2. Receipt(in, j).callIntentHash.callIndex = Receipt(in, j).callIndex
      <4>1. Receipt(in, j).callIntentHash =
                callIntentHash(buildExpectedTaskContext(in), Receipt(in, j).callIndex,
                               RawProof(in, j).request)
        BY <1>1, BoundContext
      <4> QED
        BY <4>1, CallIndexOfIntent
    <3> QED
      BY <2>2, <3>1, <3>2
  <2> QED
    BY <2>1, <2>2
<1> QED
  BY <1>1, <1>2 DEF callIndicesUnique, Unique

\* What passes was made for genuine work only, each piece of it once.
LEMMA PassedIsGenuine ==
  ASSUME NEW in, WellFormed(in), Passed(Checks(in))
  PROVE  /\ Receipts(in) # {}
         /\ \A i \in Receipts(in) :
                /\ Genuine(RawProof(in, i), in)
                /\ Claimed(in, i) = RawProof(in, i).totalTokens
         /\ \A i, j \in Receipts(in) : RawProof(in, i) = RawProof(in, j) => i = j
<1>1. ASSUME NEW i \in Receipts(in)
      PROVE  /\ Genuine(RawProof(in, i), in)
             /\ Claimed(in, i) = RawProof(in, i).totalTokens
  <2>1. /\ hasAcceptedReceiptEvidence(in, i)
        /\ isEndpointMatched(in, i)
        /\ isReceiptBoundToExpectedContext(in, i)
        /\ isWithinTaskWindow(in, i)
        /\ isModelAllowed(in, i)
    BY PassedChecks
  <2>2. /\ RawProof(in, i).valid
        /\ RawProof(in, i).provider \in Adapters
        /\ Claimed(in, i) = RawProof(in, i).totalTokens
    BY <2>1 DEF hasAcceptedReceiptEvidence, evidenceMatchesReceipt, Claimed
  <2>3. /\ RawProof(in, i).proofContext.taskContext = buildExpectedTaskContext(in)
        /\ RawProof(in, i).proofContext.callIntentHash =
               callIntentHash(buildExpectedTaskContext(in),
                              RawProof(in, i).proofContext.callIndex,
                              RawProof(in, i).request)
    BY <2>1, BoundContext
  <2> QED
    BY <2>1, <2>2, <2>3
    DEF Genuine, isEndpointMatched, isWithinTaskWindow, isModelAllowed
<1> QED
  BY <1>1, OneReceiptPerCall DEF WellFormed

\* A release is made for genuine work only, each piece of it once.
THEOREM ReleasesAreGenuine == Spec => []ReleasedWorkIsGenuine
<1>1. Decided => ReleasedWorkIsGenuine
  BY ReleasedReport, PassedIsGenuine DEF ReleasedWorkIsGenuine
<1> QED
  BY <1>1, AlwaysDecided, PTL

-----------------------------------------------------------------------------
(* Usage *)

\* What was loaded stays one of the inputs.
Loaded == inputs \in Inputs

LEMMA AlwaysLoaded == Spec => []Loaded
<1>1. Init => Loaded
  BY DEF Init, Loaded
<1>2. Loaded /\ [Verify]_vars => Loaded'
  BY DEF Verify, vars, Loaded
<1> QED
  BY <1>1, <1>2, PTL DEF Spec

Accepted(in) == {i \in Receipts(in) : isReceiptAcceptedForUsage(in, i)}

LEMMA InputsAre ==
  ASSUME NEW in \in Inputs
  PROVE  /\ IsFiniteSet(Receipts(in)) /\ IsFiniteSet(Accepted(in))
         /\ \A i \in Receipts(in) :
                RawProof(in, i).valid => RawProof(in, i).totalTokens \in Nat
<1>1. IsFiniteSet(Receipts(in))
  BY InputsAssumption
<1>2. Accepted(in) \subseteq Receipts(in)
  BY DEF Accepted
<1> QED
  BY <1>1, <1>2, InputsAssumption, FS_Subset

\* A raw proof that is counted is genuine, whatever the other receipts are.
LEMMA AcceptedIsGenuine ==
  ASSUME NEW in, NEW i \in Accepted(in)
  PROVE  /\ i \in Receipts(in)
         /\ Genuine(RawProof(in, i), in)
         /\ RawProof(in, i).valid
         /\ RawProof(in, i).proofContext.callIndex = Receipt(in, i).callIndex
<1>1. /\ i \in Receipts(in)
      /\ hasAcceptedReceiptEvidence(in, i) /\ isEndpointMatched(in, i)
      /\ isReceiptBoundToExpectedContext(in, i)
      /\ isWithinTaskWindow(in, i) /\ isModelAllowed(in, i)
  BY DEF Accepted, isReceiptAcceptedForUsage
<1>2. RawProof(in, i).valid /\ RawProof(in, i).provider \in Adapters
  BY <1>1 DEF hasAcceptedReceiptEvidence, evidenceMatchesReceipt
<1>3. /\ RawProof(in, i).proofContext.taskContext = buildExpectedTaskContext(in)
      /\ RawProof(in, i).proofContext.callIndex = Receipt(in, i).callIndex
      /\ RawProof(in, i).proofContext.callIntentHash =
             callIntentHash(buildExpectedTaskContext(in),
                            RawProof(in, i).proofContext.callIndex, RawProof(in, i).request)
  BY <1>1, BoundContext
<1> QED
  BY <1>1, <1>2, <1>3 DEF Genuine, isEndpointMatched, isWithinTaskWindow, isModelAllowed

\* The aggregate is a sum over distinct genuine proofs: the call index that a proof
\* was made for tells its receipt, and no two receipts have the same.
LEMMA UsageBounded ==
  ASSUME NEW in \in Inputs, callIndicesUnique(in)
  PROVE  aggregateAcceptedUsage(in) <=
             SumFunctionOnSet([raw \in GenuineProofs(in) |-> raw.totalTokens],
                              GenuineProofs(in))
<1> DEFINE S == Accepted(in)
           G == GenuineProofs(in)
           tokens == [raw \in G |-> raw.totalTokens]
           h == [i \in Receipts(in) |-> RawProof(in, i)]
<1>1. IsFiniteSet(S) /\ S \subseteq Receipts(in)
  BY InputsAre DEF Accepted
<1>2. \A i \in S : h[i] \in G /\ tokens[h[i]] = RawProof(in, i).totalTokens
  BY AcceptedIsGenuine DEF GenuineProofs
<1>3. IsFiniteSet(G) /\ \A raw \in G : tokens[raw] \in Nat
  <2>1. G \subseteq {RawProof(in, i) : i \in Receipts(in)}
    BY DEF GenuineProofs
  <2>2. IsFiniteSet({RawProof(in, i) : i \in Receipts(in)})
    <3> DEFINE image == {RawProof(in, i) : i \in Receipts(in)}
    <3>1. h \in Surjection(Receipts(in), image)
      BY DEF Surjection
    <3> HIDE DEF h, image
    <3>2. IsFiniteSet(Receipts(in))
      BY InputsAre
    <3>3. IsFiniteSet(image)
      BY <3>1, <3>2, FS_Surjection
    <3> QED
      BY <3>3 DEF image
  <2>3. \A raw \in G : raw.totalTokens \in Nat
    BY <2>1, InputsAre DEF GenuineProofs, Genuine
  <2> QED
    BY <2>1, <2>2, <2>3, FS_Subset
<1>4. \A i, j \in S : h[i] = h[j] => i = j
  BY <1>1, AcceptedIsGenuine DEF callIndicesUnique, Unique
<1>5. \A i \in S : h[i] \in G /\ tokens[h[i]] \in Nat
  BY <1>2, <1>3
<1> DEFINE counted == [i \in Receipts(in) |-> RawProof(in, i).totalTokens]
           mapped == [i \in S |-> tokens[h[i]]]
           image == {h[i] : i \in S}
<1>6. \A i \in S : counted[i] = mapped[i]
  BY <1>1, <1>2
<1>7. aggregateAcceptedUsage(in) = SumFunctionOnSet(counted, S)
  BY DEF aggregateAcceptedUsage, Accepted
<1> HIDE DEF counted, S, G, tokens, h
<1>8. SumFunctionOnSet(mapped, S) = SumFunctionOnSet(tokens, image)
  BY <1>1, <1>4, <1>5, SumImage
<1>9. image \in SUBSET G
  BY <1>5
<1> HIDE DEF mapped, image
<1>10. SumFunctionOnSet(counted, S) = SumFunctionOnSet(mapped, S)
  BY <1>1, <1>6, SumSame
<1>11. SumFunctionOnSet(tokens, image) <= SumFunctionOnSet(tokens, G)
  BY <1>3, <1>9, SumSubset
<1>12. aggregateAcceptedUsage(in) <= SumFunctionOnSet(tokens, G)
  BY <1>7, <1>8, <1>10, <1>11
<1> QED
  BY <1>12 DEF tokens, G

\* evaluate and aggregateAcceptedUsage: the usage in a report, passing or not, is
\* at most what distinct genuine proofs show.
THEOREM UsageStaysProven == Spec => []UsageIsProven
<1>1. Loaded /\ Decided => UsageIsProven
  <2> SUFFICES ASSUME Loaded, Decided, outcome.kind = "report"
               PROVE  outcome.aggregateUsage <=
                          SumFunctionOnSet([raw \in GenuineProofs(inputs) |-> raw.totalTokens],
                                           GenuineProofs(inputs))
    BY DEF UsageIsProven
  <2>1. outcome = Verified(inputs)
    BY DEF Decided
  <2>2. WellFormed(inputs)
    BY <2>1 DEF Verified
  <2>3. outcome = Report(inputs)
    BY <2>1, <2>2 DEF Verified
  <2>4. outcome.aggregateUsage = aggregateAcceptedUsage(inputs)
    BY <2>3 DEF Report
  <2> QED
    BY <2>2, <2>4, UsageBounded DEF WellFormed, Loaded
<1> QED
  BY <1>1, AlwaysDecided, AlwaysLoaded, PTL

\* What passes shows at least the usage that was committed to.
LEMMA PassedUsage ==
  ASSUME NEW in \in Inputs, WellFormed(in), Passed(Checks(in)),
         in.commitment.minUsage \in Nat
  PROVE  LET shown == {RawProof(in, i) : i \in Receipts(in)}
             usage == SumFunctionOnSet([raw \in shown |-> raw.totalTokens], shown)
         IN  usage \in Nat /\ usage >= in.commitment.minUsage
<1> DEFINE shown == {RawProof(in, i) : i \in Receipts(in)}
           tokens == [raw \in shown |-> raw.totalTokens]
           counted == [i \in Receipts(in) |-> RawProof(in, i).totalTokens]
<1>1. GenuineProofs(in) = shown
  BY PassedIsGenuine DEF GenuineProofs
<1>2. aggregateAcceptedUsage(in) >= in.commitment.minUsage
  <2> DEFINE checks == Checks(in)
  <2>1. checks.usageSatisfied
    BY DEF Passed, Checks
  <2> QED
    BY <2>1 DEF Checks
<1>3. aggregateAcceptedUsage(in) <= SumFunctionOnSet(tokens, shown)
  BY <1>1, UsageBounded DEF WellFormed
<1>4. aggregateAcceptedUsage(in) \in Nat
  <2>1. \A i \in Accepted(in) : counted[i] \in Nat
    BY AcceptedIsGenuine, InputsAre
  <2>2. aggregateAcceptedUsage(in) = SumFunctionOnSet(counted, Accepted(in))
    BY DEF aggregateAcceptedUsage, Accepted
  <2> HIDE DEF counted
  <2> QED
    BY <2>1, <2>2, InputsAre, SumNat
<1>5. SumFunctionOnSet(tokens, shown) \in Nat
  <2>1. IsFiniteSet(shown)
    <3> DEFINE h == [i \in Receipts(in) |-> RawProof(in, i)]
    <3>1. h \in Surjection(Receipts(in), shown)
      BY DEF Surjection
    <3> HIDE DEF h, shown
    <3> QED
      BY <3>1, InputsAre, FS_Surjection
  <2>2. \A raw \in shown : tokens[raw] \in Nat
    BY PassedIsGenuine, InputsAre DEF Genuine
  <2> HIDE DEF tokens, shown
  <2> QED
    BY <2>1, <2>2, SumNat
<1> HIDE DEF tokens, shown
<1>6. SumFunctionOnSet(tokens, shown) >= in.commitment.minUsage
  BY <1>2, <1>3, <1>4, <1>5
<1> QED
  BY <1>5, <1>6 DEF tokens, shown

-----------------------------------------------------------------------------
(* The honest seller *)

\* A receipt that an adapter wrote for genuine work passes every condition.
LEMMA HonestReceipt ==
  ASSUME NEW in, HonestBundle(in), NEW i \in Receipts(in)
  PROVE  /\ isReceiptAcceptedForUsage(in, i)
         /\ Claimed(in, i) = RawProof(in, i).totalTokens
<1> DEFINE raw == RawProof(in, i)
<1>1. /\ Receipt(in, i) = NormalizedReceipt(raw) /\ Genuine(raw, in)
      /\ raw.request.model # NoModel
  BY DEF HonestBundle
<1>2. /\ Receipt(in, i).taskContext = raw.proofContext.taskContext
      /\ Receipt(in, i).callIndex = raw.proofContext.callIndex
      /\ Receipt(in, i).callIntentHash = raw.proofContext.callIntentHash
      /\ evidenceMatchesReceipt(raw, Receipt(in, i))
      /\ Receipt(in, i).provider = raw.provider
      /\ Receipt(in, i).totalTokens = raw.totalTokens
  BY <1>1 DEF NormalizedReceipt, evidenceMatchesReceipt
<1>3. hasAcceptedReceiptEvidence(in, i)
  BY <1>1, <1>2 DEF hasAcceptedReceiptEvidence, Genuine
<1>4. isReceiptBoundToExpectedContext(in, i)
  BY <1>1, <1>2, <1>3
  DEF isReceiptBoundToExpectedContext, providerProofContextMatchesReceipt,
      receiptCallIntentMatchesEvidence, Genuine
<1> QED
  BY <1>1, <1>2, <1>3, <1>4
  DEF isReceiptAcceptedForUsage, isEndpointMatched, isWithinTaskWindow, isModelAllowed,
      Claimed, Genuine

\* An honest bundle passes assertProofBundle, and then every check of the report.
LEMMA HonestPasses ==
  ASSUME NEW in \in Inputs, HonestBundle(in)
  PROVE  /\ Verified(in).kind = "report"
         /\ Verified(in).passed
<1>1. \A i \in Receipts(in) : /\ isReceiptAcceptedForUsage(in, i)
                              /\ hasAcceptedReceiptEvidence(in, i)
                              /\ isEndpointMatched(in, i)
                              /\ isReceiptBoundToExpectedContext(in, i)
                              /\ isWithinTaskWindow(in, i)
                              /\ isModelAllowed(in, i)
  BY HonestReceipt DEF isReceiptAcceptedForUsage
<1>2. /\ isProofBundleBoundToTask(in) /\ isCommitmentBoundToTask(in)
      /\ in.commitment.allowedModels # {} /\ Receipts(in) # {}
      /\ callIndicesUnique(in) /\ claimsAddUp(in)
      /\ in.proofBundle.totalTokens >= in.commitment.minUsage
      /\ ~in.keyConsumed /\ ~in.bundleConsumed
  BY DEF HonestBundle
<1>3. WellFormed(in)
  <2>1. \A i \in Receipts(in) : Receipt(in, i).taskContext = buildExpectedTaskContext(in)
    BY <1>1 DEF isReceiptBoundToExpectedContext
  <2> QED
    BY <1>2, <2>1 DEF WellFormed, buildExpectedTaskContext, isProofBundleBoundToTask
<1>4. aggregateAcceptedUsage(in) = in.proofBundle.totalTokens
  <2> DEFINE shown == [i \in Receipts(in) |-> RawProof(in, i).totalTokens]
             claimed == [i \in Receipts(in) |-> Claimed(in, i)]
  <2>1. {i \in Receipts(in) : isReceiptAcceptedForUsage(in, i)} = Receipts(in)
    BY <1>1
  <2>2. \A i \in Receipts(in) : shown[i] = claimed[i]
    BY HonestReceipt
  <2>3. /\ aggregateAcceptedUsage(in) = SumFunctionOnSet(shown, Receipts(in))
        /\ in.proofBundle.totalTokens = SumFunctionOnSet(claimed, Receipts(in))
    BY <1>2, <2>1 DEF aggregateAcceptedUsage, claimsAddUp
  <2> HIDE DEF shown, claimed
  <2> QED
    BY <2>2, <2>3, InputsAre, SumSame
<1>5. Verified(in) = Report(in)
  BY <1>2, <1>3 DEF Verified
<1>6. Passed(Checks(in))
  <2>1. aggregateAcceptedUsage(in) >= in.commitment.minUsage
    BY <1>2, <1>4
  <2>2. /\ in.commitment.hash = in.task.commitmentHash
        /\ in.proofBundle.hash = in.task.proofBundleHash
    BY InputsAssumption
  <2>3. /\ \A i \in Receipts(in) : hasAcceptedReceiptEvidence(in, i)
        /\ \A i \in Receipts(in) : isReceiptBoundToExpectedContext(in, i)
        /\ \A i \in Receipts(in) : hasAcceptedReceiptEvidence(in, i) /\ isEndpointMatched(in, i)
        /\ \A i \in Receipts(in) : hasAcceptedReceiptEvidence(in, i) /\ isWithinTaskWindow(in, i)
        /\ \A i \in Receipts(in) : hasAcceptedReceiptEvidence(in, i) /\ isModelAllowed(in, i)
    BY <1>1
  <2> DEFINE checks == Checks(in)
  <2>4. /\ checks.commitmentHashMatched /\ checks.proofBundleHashMatched
        /\ checks.zkTlsProofValid /\ checks.endpointMatched /\ checks.taskContextMatched
        /\ checks.callIndicesUnique /\ checks.proofNotConsumed
        /\ checks.withinTaskWindow /\ checks.modelMatched /\ checks.usageSatisfied
    BY <1>2, <2>1, <2>2, <2>3 DEF Checks
  <2>5. DOMAIN checks =
            {"commitmentHashMatched", "proofBundleHashMatched", "zkTlsProofValid",
             "endpointMatched", "taskContextMatched", "callIndicesUnique",
             "proofNotConsumed", "withinTaskWindow", "modelMatched", "usageSatisfied"}
    BY DEF Checks
  <2> HIDE DEF checks
  <2>6. \A check \in DOMAIN checks : checks[check]
    BY <2>4, <2>5
  <2> QED
    BY <2>6 DEF Passed, checks
<1> QED
  BY <1>5, <1>6 DEF Report

\* evaluate: a seller who did the work, and wrote it down as the adapters do, is
\* paid: there is no condition in which the checks disagree with the adapters.
THEOREM HonestSellersArePaid == Spec => []HonestWorkPasses
<1>1. Loaded /\ Decided => HonestWorkPasses
  <2> SUFFICES ASSUME Loaded, Decided, HonestBundle(inputs), outcome.kind # "pending"
               PROVE  Released
    BY DEF HonestWorkPasses
  <2>1. outcome = Verified(inputs)
    BY DEF Decided
  <2> QED
    BY <2>1, HonestPasses DEF Loaded, Released
<1> QED
  BY <1>1, AlwaysDecided, AlwaysLoaded, PTL

-----------------------------------------------------------------------------
(* The scenarios of the mock *)

\* The scenarios that are not about the time.
Timeless == {"pass", "model_mismatch", "usage_insufficient"}

LEMMA MockProof ==
  ASSUME NEW in, NEW input, MadeByMock(in, input)
  PROVE  LET raw == RawProof(in, 1)
         IN  /\ raw.valid /\ raw.provider = MOCK_ZKTLS_PROVIDER
             /\ raw.scenario = input.scenario /\ raw.request = input.request
             /\ raw.observedAt \in resolveObservedAt(input)
             /\ raw.model = ExtractedModel(input)
             /\ raw.totalTokens = ExtractedTokens(input)
             /\ raw.proofContext.taskContext = input.taskContext
             /\ raw.proofContext.callIndex = input.callIndex
             /\ raw.proofContext.callIntentHash = input.callIntentHash
<1>1. PICK at \in resolveObservedAt(input) : RawProof(in, 1) = MockRawProof(input, at)
  BY DEF MadeByMock, MockProvenFetch
<1> QED
  BY <1>1 DEF MockRawProof

\* What the scenario puts into the time, the model and the tokens.
LEMMA ScenarioTime ==
  ASSUME NEW in, NEW input, MeantFor(input, in), NEW at \in resolveObservedAt(input)
  PROVE  InWindow(at, in) <=> input.scenario \in Timeless
<1>1. CASE input.scenario \in Timeless
  BY <1>1 DEF MeantFor, Timeless
<1>2. CASE input.scenario \notin Timeless
  <2>1. at \in Observed(input.scenario, input.timeWindow)
    BY <1>2 DEF MeantFor, Timeless, resolveObservedAt
  <2>2. /\ in.task.fundedAt \in Nat /\ in.task.deadline \in Nat
        /\ input.timeWindow.fundedAt \subseteq {in.task.fundedAt}
        /\ input.timeWindow.deadline \subseteq {in.task.deadline}
    BY DEF MeantFor
  <2>3. input.scenario \in MockScenario \ Timeless
    BY <1>2 DEF MeantFor
  <2>4. /\ Before(input.timeWindow.fundedAt) \subseteq {in.task.fundedAt - 1}
        /\ After(input.timeWindow.deadline) \subseteq {in.task.deadline + 1}
    BY <2>2 DEF Before, After
  <2>5. at \in {in.task.fundedAt - 1, in.task.deadline + 1}
    BY <2>1, <2>3, <2>4 DEF Observed, MockScenario, Timeless
  <2>6. ~InWindow(at, in)
    BY <2>2, <2>5 DEF InWindow
  <2> QED
    BY <1>2, <2>6
<1> QED
  BY <1>1, <1>2

LEMMA ScenarioModel ==
  ASSUME NEW in, NEW input, MeantFor(input, in)
  PROVE  ExtractedModel(input) \in in.commitment.allowedModels
             <=> input.scenario # "model_mismatch"
<1>1. /\ input.declaredModel \in in.commitment.allowedModels
      /\ input.observedModel \subseteq in.commitment.allowedModels
      /\ input.scenario = "model_mismatch" => input.observedModel = {}
      /\ MismatchedModel \notin in.commitment.allowedModels
  BY DEF MeantFor
<1>2. CASE input.observedModel = {}
  BY <1>1, <1>2 DEF ExtractedModel, Default
<1>3. CASE input.observedModel # {}
  <2>1. ExtractedModel(input) \in input.observedModel
    BY <1>3 DEF ExtractedModel, Default
  <2> QED
    BY <1>1, <1>3, <2>1
<1> QED
  BY <1>2, <1>3

LEMMA ScenarioTokens ==
  ASSUME NEW in, NEW input, MeantFor(input, in)
  PROVE  ExtractedTokens(input) >= in.commitment.minUsage
             <=> input.scenario # "usage_insufficient"
<1> DEFINE base == Default(input.totalTokens, DEFAULT_TOTAL_TOKENS)
<1>1. /\ base \in Nat /\ base >= in.commitment.minUsage
      /\ in.commitment.minUsage \in Nat \ {0}
  BY DEF MeantFor
<1>2. CASE input.scenario # "usage_insufficient"
  BY <1>1, <1>2 DEF ExtractedTokens
<1>3. CASE input.scenario = "usage_insufficient"
  <2>1. input.commitmentMinTokens = {in.commitment.minUsage}
    BY <1>3 DEF MeantFor
  <2>2. Default(input.commitmentMinTokens, base) = in.commitment.minUsage
    BY <2>1 DEF Default
  <2>3. ExtractedTokens(input) = in.commitment.minUsage - 1
    BY <1>1, <1>3, <2>2 DEF ExtractedTokens
  <2> QED
    BY <1>1, <1>3, <2>3
<1> QED
  BY <1>2, <1>3

\* Where the checks of the report on such a bundle stand.
LEMMA MockChecks ==
  ASSUME NEW in \in Inputs, NEW input, MadeByMock(in, input), Receipts(in) = {1},
         WellFormed(in), ~in.keyConsumed, ~in.bundleConsumed
  PROVE  /\ input.scenario \in MockScenario
         /\ \A check \in DOMAIN Checks(in) \
                     {"withinTaskWindow", "modelMatched", "usageSatisfied"} :
                Checks(in)[check]
         /\ Checks(in).withinTaskWindow <=> input.scenario \in Timeless
         /\ Checks(in).modelMatched <=> input.scenario # "model_mismatch"
         /\ input.scenario = "pass" => Checks(in).usageSatisfied
         /\ input.scenario = "usage_insufficient" => ~Checks(in).usageSatisfied
<1> DEFINE raw == RawProof(in, 1)
           receipt == Receipt(in, 1)
<1>1. /\ raw.valid /\ raw.provider = MOCK_ZKTLS_PROVIDER
      /\ raw.scenario = input.scenario /\ raw.request = input.request
      /\ raw.observedAt \in resolveObservedAt(input)
      /\ raw.model = ExtractedModel(input)
      /\ raw.totalTokens = ExtractedTokens(input)
      /\ raw.proofContext.taskContext = input.taskContext
      /\ raw.proofContext.callIndex = input.callIndex
      /\ raw.proofContext.callIntentHash = input.callIntentHash
  BY MockProof
<1>2. /\ MOCK_ZKTLS_PROVIDER \in Adapters /\ MeantFor(input, in)
      /\ receipt = NormalizedReceipt(raw)
      /\ isCommitmentBoundToTask(in) /\ isProofBundleBoundToTask(in)
  BY DEF MadeByMock
<1>3. /\ input.scenario \in MockScenario
      /\ input.taskContext = buildExpectedTaskContext(in)
      /\ input.callIntentHash =
             callIntentHash(input.taskContext, input.callIndex, input.request)
      /\ input.request.target = in.commitment.target
      /\ input.request.model # NoModel
      /\ in.commitment.minUsage \in Nat \ {0}
  BY <1>2 DEF MeantFor
<1>4. /\ receipt.taskContext = raw.proofContext.taskContext
      /\ receipt.callIndex = raw.proofContext.callIndex
      /\ receipt.callIntentHash = raw.proofContext.callIntentHash
      /\ receipt.provider = raw.provider
      /\ evidenceMatchesReceipt(raw, receipt)
  BY <1>2 DEF NormalizedReceipt, evidenceMatchesReceipt
<1>5. hasAcceptedReceiptEvidence(in, 1)
  BY <1>1, <1>2, <1>4 DEF hasAcceptedReceiptEvidence
<1>6. isEndpointMatched(in, 1)
  BY <1>1, <1>3 DEF isEndpointMatched
<1>7. isReceiptBoundToExpectedContext(in, 1)
  BY <1>1, <1>3, <1>4, <1>5
  DEF isReceiptBoundToExpectedContext, providerProofContextMatchesReceipt,
      receiptCallIntentMatchesEvidence
<1>8. isWithinTaskWindow(in, 1) <=> input.scenario \in Timeless
  BY <1>1, <1>2, ScenarioTime DEF isWithinTaskWindow, InWindow
<1>9. isModelAllowed(in, 1) <=> input.scenario # "model_mismatch"
  BY <1>1, <1>2, ScenarioModel DEF isModelAllowed
<1>10. aggregateAcceptedUsage(in) =
           IF input.scenario \in Timeless \ {"model_mismatch"}
           THEN ExtractedTokens(input) ELSE 0
  <2> DEFINE shown == [i \in Receipts(in) |-> RawProof(in, i).totalTokens]
  <2>1. Accepted(in) = IF input.scenario \in Timeless \ {"model_mismatch"} THEN {1} ELSE {}
    BY <1>5, <1>6, <1>7, <1>8, <1>9 DEF Accepted, isReceiptAcceptedForUsage
  <2>2. aggregateAcceptedUsage(in) = SumFunctionOnSet(shown, Accepted(in))
    BY DEF aggregateAcceptedUsage, Accepted
  <2>3. shown[1] = ExtractedTokens(input) /\ shown[1] \in Nat
    BY <1>1, InputsAre
  <2> HIDE DEF shown
  <2>4. SumFunctionOnSet(shown, {}) = 0
    BY SumEmpty
  <2>5. SumFunctionOnSet(shown, {1}) = shown[1] + SumFunctionOnSet(shown, {1} \ {1})
    <3>1. IsFiniteSet({1}) /\ 1 \in {1} /\ \A i \in {1} : shown[i] \in Nat
      BY <2>3, FS_Singleton
    <3> QED
      BY <3>1, SumRemove
  <2>6. SumFunctionOnSet(shown, {1}) = shown[1]
    BY <2>3, <2>4, <2>5
  <2> QED
    BY <2>1, <2>2, <2>3, <2>4, <2>6
<1>11. /\ input.scenario = "pass" => aggregateAcceptedUsage(in) >= in.commitment.minUsage
       /\ input.scenario = "usage_insufficient" =>
              ~(aggregateAcceptedUsage(in) >= in.commitment.minUsage)
  BY <1>2, <1>10, ScenarioTokens DEF Timeless
<1>12. in.commitment.hash = in.task.commitmentHash
       /\ in.proofBundle.hash = in.task.proofBundleHash /\ callIndicesUnique(in)
  BY InputsAssumption DEF WellFormed
<1> DEFINE checks == Checks(in)
<1>13. /\ checks.commitmentHashMatched /\ checks.proofBundleHashMatched
       /\ checks.zkTlsProofValid /\ checks.endpointMatched /\ checks.taskContextMatched
       /\ checks.callIndicesUnique /\ checks.proofNotConsumed
  BY <1>2, <1>5, <1>6, <1>7, <1>12 DEF Checks
<1>14. /\ checks.withinTaskWindow <=> input.scenario \in Timeless
       /\ checks.modelMatched <=> input.scenario # "model_mismatch"
       /\ checks.usageSatisfied <=> aggregateAcceptedUsage(in) >= in.commitment.minUsage
  BY <1>5, <1>8, <1>9 DEF Checks
<1>15. DOMAIN checks =
           {"commitmentHashMatched", "proofBundleHashMatched", "zkTlsProofValid",
            "endpointMatched", "taskContextMatched", "callIndicesUnique",
            "proofNotConsumed", "withinTaskWindow", "modelMatched", "usageSatisfied"}
  BY DEF Checks
<1> HIDE DEF checks
<1>16. \A check \in DOMAIN checks \
              {"withinTaskWindow", "modelMatched", "usageSatisfied"} : checks[check]
  BY <1>13, <1>15
<1> QED
  BY <1>3, <1>11, <1>14, <1>16 DEF checks

\* provenFetch of the mock and evaluate: on any task, with any window and minimum,
\* a bundle of the mock that was made for the task fails the check its scenario is
\* made for, and no other but the sum of the usage.
THEOREM ScenariosTestTheirCheck ==
  ASSUME \A in \in Inputs : MockBundle(in) => \E input : MadeByMock(in, input)
  PROVE  Spec => []ScenariosFailTheirCheck
<1>1. Loaded /\ Decided => ScenariosFailTheirCheck
  <2> SUFFICES ASSUME Loaded, Decided, outcome.kind = "report", MockBundle(inputs)
               PROVE  LET scenario == RawProof(inputs, 1).scenario
                          failed == FailedChecks(outcome.checks)
                      IN  /\ MeantToFail(scenario) \subseteq failed
                          /\ failed \subseteq MeantToFail(scenario) \cup {"usageSatisfied"}
                          /\ scenario = "pass" => failed = {}
    BY DEF ScenariosFailTheirCheck
  <2> DEFINE checks == Checks(inputs)
  <2>1. outcome = Verified(inputs)
    BY DEF Decided
  <2>2. /\ WellFormed(inputs) /\ ~inputs.keyConsumed /\ ~inputs.bundleConsumed
        /\ outcome.checks = checks
    BY <2>1 DEF Verified, Report
  <2>3. inputs \in Inputs
    BY DEF Loaded
  <2>4. PICK input : MadeByMock(inputs, input)
    BY <2>3
  <2>5. RawProof(inputs, 1).scenario = input.scenario
    BY <2>4, MockProof
  <2>6. /\ input.scenario \in MockScenario
        /\ \A check \in DOMAIN checks \
                    {"withinTaskWindow", "modelMatched", "usageSatisfied"} :
               checks[check]
        /\ checks.withinTaskWindow <=> input.scenario \in Timeless
        /\ checks.modelMatched <=> input.scenario # "model_mismatch"
        /\ input.scenario = "pass" => checks.usageSatisfied
        /\ input.scenario = "usage_insufficient" => ~checks.usageSatisfied
    BY <2>2, <2>3, <2>4, MockChecks DEF MockBundle
  <2>7. {"withinTaskWindow", "modelMatched", "usageSatisfied"} \subseteq DOMAIN checks
    BY DEF Checks
  <2> HIDE DEF checks
  <2> QED
    BY <2>2, <2>5, <2>6, <2>7 DEF FailedChecks, MeantToFail, MockScenario, Timeless
<1> QED
  BY <1>1, AlwaysLoaded, AlwaysDecided, PTL

=============================================================================
