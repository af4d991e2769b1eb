----------------------------- MODULE MockZkTls -----------------------------
(***************************************************************************)
(* The mock adapter packages/zktls-adapter/src/mock/index.ts: raw proofs   *)
(* made up for a scenario, in the form VerificationChecks has for them.    *)
(*                                                                         *)
(* An input names the scenario and may give the time, the tokens and so on *)
(* that go into the proof; a field that is not given is the empty set, one *)
(* that is given a set of one.  The hash that the identifier is made of is *)
(* kept as what it is a hash of.                                           *)
(***************************************************************************)
EXTENDS VerificationChecks

CONSTANTS
    DEFAULT_MOCK_OBSERVED_AT,   \* an old time: the last day of 2024 in the code
    MismatchedModel             \* the declared model with "-mismatch" behind it

MOCK_ZKTLS_PROVIDER == "mock"
DEFAULT_TOTAL_TOKENS == 128

MockScenario == {"pass", "model_mismatch", "usage_insufficient",
                 "timestamp_before_funded", "timestamp_after_deadline",
                 "timestamp_invalid"}

Default(given, value) == IF given = {} THEN value ELSE CHOOSE v \in given : TRUE

\* shiftUnixMillis by one either way; what would be below zero is an error.
Before(times) == {t - 1 : t \in times \ {0}}
After(times) == {t + 1 : t \in times}

\* A deliberately wrong variant of Observed, for a run that shows that a property
\* can fail: the scenario of an early proof gives the first moment that counts.
ObservedAtFunding(scenario, window) ==
    CASE scenario = "timestamp_before_funded" -> window.fundedAt
      [] scenario = "timestamp_after_deadline" -> After(window.deadline)
      [] OTHER -> {DEFAULT_MOCK_OBSERVED_AT}

\* The time that a scenario comes with.
Observed(scenario, window) ==
    CASE scenario = "timestamp_before_funded" -> Before(window.fundedAt)
      [] scenario = "timestamp_after_deadline" -> After(window.deadline)
      [] scenario = "timestamp_invalid" ->
             IF window.fundedAt # {} THEN Before(window.fundedAt)
                                     ELSE After(window.deadline)
      [] OTHER -> {DEFAULT_MOCK_OBSERVED_AT}

\* resolveObservedAt: a given time goes before the scenario.  Empty when it throws.
resolveObservedAt(input) ==
    IF input.observedAt # {} THEN input.observedAt
    ELSE Observed(input.scenario, input.timeWindow)

\* buildExtractedFields.
ExtractedModel(input) ==
    Default(input.observedModel,
            IF input.scenario = "model_mismatch"
            THEN MismatchedModel ELSE input.declaredModel)

ExtractedTokens(input) ==
    LET baseTokens == Default(input.totalTokens, DEFAULT_TOTAL_TOKENS)
        minTokens == Default(input.commitmentMinTokens, baseTokens)
    IN  IF input.scenario # "usage_insufficient" THEN baseTokens
        ELSE IF minTokens = 0 THEN 0 ELSE minTokens - 1

\* The time in an answer has seconds only.
buildDefaultResponseBody(model, totalTokens, observedAt) ==
    [created |-> observedAt \div 1000, model |-> model, totalTokens |-> totalTokens]

\* The raw proof of an input that is observed at the given time.  Whatever the
\* scenario, it is a proof that verifyRawProof accepts.
MockRawProof(input, observedAt) ==
    LET model == ExtractedModel(input)
        totalTokens == ExtractedTokens(input)
        payload ==
            [scenario |-> input.scenario,
             proofContext |-> [taskContext |-> input.taskContext,
                               callIndex |-> input.callIndex,
                               callIntentHash |-> input.callIntentHash],
             request |-> input.request,
             response |-> buildDefaultResponseBody(model, totalTokens, observedAt),
             observedAt |-> observedAt, model |-> model, totalTokens |-> totalTokens]
    IN  [scenario |-> payload.scenario, proofContext |-> payload.proofContext,
         request |-> payload.request, response |-> payload.response,
         observedAt |-> observedAt, model |-> model, totalTokens |-> totalTokens,
         provider |-> MOCK_ZKTLS_PROVIDER, providerProofId |-> payload,
         valid |-> TRUE]

\* provenFetch: one proof, or none when it throws.
MockProvenFetch(input) ==
    {MockRawProof(input, observedAt) : observedAt \in resolveObservedAt(input)}

-----------------------------------------------------------------------------
(* What a test does with the mock *)

InWindow(time, in) ==
    /\ in.task.fundedAt <= time /\ time <= in.task.deadline
    /\ time <= in.commitment.deadline

\* The input asks for a call of the task to the committed endpoint; a field that
\* it gives is right for the task, unless the scenario is about it.
MeantFor(input, in) ==
    /\ input.scenario \in MockScenario
    /\ input.taskContext = buildExpectedTaskContext(in)
    /\ input.callIntentHash =
           callIntentHash(input.taskContext, input.callIndex, input.request)
    /\ input.request.target = in.commitment.target
    /\ input.request.model # NoModel
    /\ input.declaredModel \in in.commitment.allowedModels
    /\ input.observedModel \subseteq in.commitment.allowedModels
    /\ input.scenario = "model_mismatch" => input.observedModel = {}
    /\ MismatchedModel \notin in.commitment.allowedModels
    /\ in.commitment.minUsage \in Nat \ {0}
    /\ Default(input.totalTokens, DEFAULT_TOTAL_TOKENS) \in Nat
    /\ Default(input.totalTokens, DEFAULT_TOTAL_TOKENS) >= in.commitment.minUsage
    /\ input.scenario = "usage_insufficient" =>
           input.commitmentMinTokens = {in.commitment.minUsage}
    /\ in.task.fundedAt \in Nat /\ in.task.deadline \in Nat
    /\ input.timeWindow.fundedAt \subseteq {in.task.fundedAt}
    /\ input.timeWindow.deadline \subseteq {in.task.deadline}
    /\ input.scenario \in {"pass", "model_mismatch", "usage_insufficient"} =>
           \A time \in resolveObservedAt(input) : InWindow(time, in)
    /\ input.scenario \notin {"pass", "model_mismatch", "usage_insufficient"} =>
           input.observedAt = {}

\* The one receipt of the bundle is the one normalizeReceipt writes for a proof of
\* such an input, commitment and bundle are those of the task, and the service has
\* the mock.
MadeByMock(in, input) ==
    /\ MOCK_ZKTLS_PROVIDER \in Adapters
    /\ MeantFor(input, in)
    /\ RawProof(in, 1) \in MockProvenFetch(input)
    /\ Receipt(in, 1) = NormalizedReceipt(RawProof(in, 1))
    /\ isCommitmentBoundToTask(in) /\ isProofBundleBoundToTask(in)

MockBundle(in) ==
    Receipts(in) = {1} /\ RawProof(in, 1).provider = MOCK_ZKTLS_PROVIDER

-----------------------------------------------------------------------------
(* Properties *)

FailedChecks(checks) == {check \in DOMAIN checks : ~checks[check]}

\* The checks a scenario is there to fail.
MeantToFail(scenario) ==
    CASE scenario = "pass" -> {}
      [] scenario = "model_mismatch" -> {"modelMatched"}
      [] scenario = "usage_insufficient" -> {"usageSatisfied"}
      [] OTHER -> {"withinTaskWindow"}

\* A bundle with one proof of the mock fails the check its scenario is made for,
\* whatever window and usage the task has, and no other but the sum of the usage
\* that counts, which a receipt with a failed check does not add to.  So a test
\* that sees the check fail has seen the check, and not another reason.
ScenariosFailTheirCheck ==
    LET raw == RawProof(inputs, 1)
    IN  /\ outcome.kind = "report"
        /\ MockBundle(inputs)
        => LET failed == FailedChecks(outcome.checks)
           IN  /\ MeantToFail(raw.scenario) \subseteq failed
               /\ failed \subseteq MeantToFail(raw.scenario) \cup {"usageSatisfied"}
               /\ raw.scenario = "pass" => failed = {}

=============================================================================
