------------------------ MODULE MCVerificationChecks ------------------------
(***************************************************************************)
(* Inputs of VerificationChecks for TLC: an honest bundle of up to two     *)
(* receipts, in which each raw proof, each receipt and the commitment may  *)
(* differ from the honest one in one field; and a bundle with one proof of *)
(* the mock adapter for each of its scenarios.                             *)
(***************************************************************************)
EXTENDS MockZkTls, Sequences

CONSTANTS MaxReceipts, MinUsages

Context(t) == [taskId |-> t, commitmentHash |-> "c", buyer |-> "a",
               seller |-> "s", rest |-> "own"]

Task ==
    [taskId |-> "t", commitmentHash |-> "c", buyer |-> "a", seller |-> "s",
     rest |-> "own", proofBundleHash |-> "b", fundedAt |-> 2, deadline |-> 4]

Id(i) == [id |-> i]
Answer(text) == [text |-> text]

HonestRaw(i) ==
    LET request == [target |-> "api", model |-> "m", body |-> i]
    IN  [valid |-> TRUE, provider |-> "tls", providerProofId |-> Id(i),
         request |-> request, response |-> Answer("r"), observedAt |-> 1 + i, model |-> "m",
         totalTokens |-> i,
         proofContext |->
             [taskContext |-> Context("t"), callIndex |-> i,
              callIntentHash |-> callIntentHash(Context("t"), i, request)]]

RawProofs(i) ==
    LET raw == HonestRaw(i)
        otherRequest == [raw.request EXCEPT !.target = "other"]
    IN  {raw, HonestRaw(1),
         [raw EXCEPT !.valid = FALSE],
         [raw EXCEPT !.provider = "unknown"],
         [raw EXCEPT !.providerProofId = Id(1)],
         [raw EXCEPT !.model = "other"],
         [raw EXCEPT !.request = otherRequest],
         [raw EXCEPT !.request = otherRequest,
                     !.proofContext.callIntentHash.request = otherRequest],
         [raw EXCEPT !.request.model = NoModel,
                     !.proofContext.callIntentHash.request.model = NoModel],
         [raw EXCEPT !.proofContext.taskContext = Context("u")],
         [raw EXCEPT !.proofContext.taskContext = Context("u"),
                     !.proofContext.callIntentHash.taskContext = Context("u")]}
        \cup {[raw EXCEPT !.observedAt = at] : at \in {1, 4, 5}}

Edited(receipt, i) ==
    {receipt,
     [receipt EXCEPT !.callIndex = 1],
     [receipt EXCEPT !.callIndex = i, !.callIntentHash.callIndex = i],
     [receipt EXCEPT !.taskContext = Context("t"),
                     !.callIntentHash.taskContext = Context("t")],
     [receipt EXCEPT !.providerProofId = Id(3)],
     [receipt EXCEPT !.totalTokens = 3],
     [receipt EXCEPT !.observedAt = 3],
     [receipt EXCEPT !.responseHash = Answer("other")],
     [receipt EXCEPT !.model = "m"]}

ReceiptChoices(i) == UNION {Edited(NormalizedReceipt(raw), i) : raw \in RawProofs(i)}

ReceiptLists ==
    {<<>>} \cup {<<r>> : r \in ReceiptChoices(1)}
    \cup (IF MaxReceipts < 2 THEN {}
          ELSE {<<r, s>> : r \in ReceiptChoices(1), s \in ReceiptChoices(2)})

Sum(receipts) ==
    SumFunctionOnSet([i \in DOMAIN receipts |-> receipts[i].totalTokens], DOMAIN receipts)

Bundle(receipts) ==
    [hash |-> "b", taskId |-> "t", commitmentHash |-> "c", seller |-> "s",
     receipts |-> receipts, totalTokens |-> Sum(receipts)]

Commitment(minUsage) ==
    [hash |-> "c", taskId |-> "t", buyer |-> "a", seller |-> "s", target |-> "api",
     allowedModels |-> {"m"}, minUsage |-> minUsage, deadline |-> 4]

Loaded(commitment, bundle) ==
    [task |-> Task, commitment |-> commitment, proofBundle |-> bundle,
     keyConsumed |-> FALSE, bundleConsumed |-> FALSE]

HonestInput == Loaded(Commitment(1), Bundle(<<NormalizedReceipt(HonestRaw(1))>>))

\* What a test gives the mock: the window of the task, the commitment's minimum.
MockInput(scenario, minUsage, timeWindow) ==
    LET request == [target |-> "api", model |-> "m", body |-> 1]
    IN  [taskContext |-> Context("t"), callIndex |-> 1,
         callIntentHash |-> callIntentHash(Context("t"), 1, request),
         request |-> request, declaredModel |-> "m", scenario |-> scenario,
         observedModel |-> {}, totalTokens |-> {}, observedAt |-> {},
         commitmentMinTokens |-> {minUsage}, timeWindow |-> timeWindow]

TimeWindows == [fundedAt : {{}, {Task.fundedAt}}, deadline : {{}, {Task.deadline}}]

MockMinUsages == {1, DEFAULT_TOTAL_TOKENS}

MockInputs ==
    {Loaded(Commitment(minUsage), Bundle(<<NormalizedReceipt(raw)>>)) :
        <<minUsage, raw>> \in UNION {
            {<<minUsage, raw>> :
                raw \in MockProvenFetch(MockInput(scenario, minUsage, timeWindow))} :
            scenario \in MockScenario, minUsage \in MockMinUsages,
            timeWindow \in TimeWindows}}

MCInputs ==
    MockInputs \cup
    {Loaded(Commitment(minUsage), Bundle(receipts)) :
        minUsage \in MinUsages, receipts \in ReceiptLists}
    \cup {[HonestInput EXCEPT !.keyConsumed = a, !.bundleConsumed = b] :
              a \in BOOLEAN, b \in BOOLEAN}
    \cup {[HonestInput EXCEPT !.commitment = c] :
              c \in {[Commitment(1) EXCEPT !.deadline = 5],
                     [Commitment(1) EXCEPT !.deadline = 1],
                     [Commitment(1) EXCEPT !.taskId = "u"],
                     [Commitment(1) EXCEPT !.allowedModels = {}]}}
    \cup {[HonestInput EXCEPT !.proofBundle = b] :
              b \in {[HonestInput.proofBundle EXCEPT !.taskId = "u"],
                     [HonestInput.proofBundle EXCEPT !.totalTokens = 2]}}

\* What the theorem about the mock assumes of the inputs: each bundle of the mock
\* was made for its task.
ASSUME MockAssumption ==
    \A in \in MCInputs : MockBundle(in) =>
        \E input \in {MockInput(scenario, minUsage, timeWindow) :
                         scenario \in MockScenario, minUsage \in MockMinUsages,
                         timeWindow \in TimeWindows} :
            MadeByMock(in, input)

=============================================================================
