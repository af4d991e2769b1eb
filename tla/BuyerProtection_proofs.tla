------------------------ MODULE BuyerProtection_proofs ------------------------
(***************************************************************************)
(* Theorems about BuyerProtection, for every value of its constants.  The  *)
(* lemmas of the buyer's agent are those of BuyerClient_proofs, those of   *)
(* the service and of its checks come from instances of their modules, so  *)
(* that the invariant of the composition is the two invariants together.   *)
(***************************************************************************)
EXTENDS BuyerProtection, BuyerClient_proofs

VP == INSTANCE VerifierService_proofs WITH
    AssignedVerifier <- NamedVerifier, Bundles <- KeysAndRepetition,
    Agreements <- {}, MaxEscrow <- 0

CP == INSTANCE VerificationChecks_proofs WITH
    Inputs <- {InputOf(work) : work \in Works},
    inputs <- NoModel, outcome <- [kind |-> "pending"],
    DEFAULT_MOCK_OBSERVED_AT <- 0, MismatchedModel <- NoModel

-----------------------------------------------------------------------------
(* The instance speaks of the same things *)

\* The standard operators of an instance are those of the instance.
LEMMA SameFinite == \A S : CP!IsFiniteSet(S) <=> IsFiniteSet(S)
BY DEF CP!IsFiniteSet, IsFiniteSet

LEMMA SameSum ==
  ASSUME NEW f, NEW S
  PROVE  /\ CP!SumFunctionOnSet(f, S) = SumFunctionOnSet(f, S)
         /\ Checking!SumFunctionOnSet(f, S) = SumFunctionOnSet(f, S)
BY DEF CP!SumFunctionOnSet, CP!FoldFunctionOnSet, CP!MapThenFoldSet,
       Checking!SumFunctionOnSet, Checking!FoldFunctionOnSet, Checking!MapThenFoldSet,
       SumFunctionOnSet, FoldFunctionOnSet, MapThenFoldSet

LEMMA ChecksFit == CP!InputsAssumption
<1>1. ASSUME NEW work \in Works
      PROVE  LET in == InputOf(work)
             IN  /\ in.commitment.hash = in.task.commitmentHash
                 /\ in.proofBundle.hash = in.task.proofBundleHash
                 /\ CP!IsFiniteSet(CP!Receipts(in))
                 /\ \A i \in CP!Receipts(in) :
                        CP!RawProof(in, i).valid => CP!RawProof(in, i).totalTokens \in Nat
  <2>1. work.proofBundleHash \in Hashes
    BY DEF Works
  <2> QED
    BY <2>1, ObjectsAssumption, SameFinite
    DEF InputOf, CP!Receipts, CP!RawProof, CP!Receipt, ReceiptsOf, ReceiptOf
<1> QED
  BY <1>1 DEF CP!InputsAssumption

LEMMA SameUsage ==
  ASSUME NEW in
  PROVE  CP!aggregateAcceptedUsage(in) = Checking!aggregateAcceptedUsage(in)
<1>1. \A i : /\ CP!isReceiptAcceptedForUsage(in, i)
                    <=> Checking!isReceiptAcceptedForUsage(in, i)
             /\ CP!RawProof(in, i) = Checking!RawProof(in, i)
  BY DEF CP!Receipts, Checking!Receipts, CP!Receipt, Checking!Receipt, CP!RawProof,
         Checking!RawProof, CP!buildExpectedTaskContext, Checking!buildExpectedTaskContext,
         CP!callIntentHash, Checking!callIntentHash, CP!evidenceMatchesReceipt,
         Checking!evidenceMatchesReceipt, CP!hasAcceptedReceiptEvidence,
         Checking!hasAcceptedReceiptEvidence, CP!isEndpointMatched,
         Checking!isEndpointMatched, CP!isWithinTaskWindow, Checking!isWithinTaskWindow,
         CP!isModelAllowed, Checking!isModelAllowed, CP!providerProofContextMatchesReceipt,
         Checking!providerProofContextMatchesReceipt, CP!receiptCallIntentMatchesEvidence,
         Checking!receiptCallIntentMatchesEvidence, CP!isReceiptBoundToExpectedContext,
         Checking!isReceiptBoundToExpectedContext, CP!isReceiptAcceptedForUsage,
         Checking!isReceiptAcceptedForUsage
<1>2. CP!Receipts(in) = Checking!Receipts(in)
  BY DEF CP!Receipts, Checking!Receipts
<1> DEFINE tokens == [i \in Checking!Receipts(in) |-> Checking!RawProof(in, i).totalTokens]
           accepted ==
               {i \in Checking!Receipts(in) : Checking!isReceiptAcceptedForUsage(in, i)}
<1>3. /\ [i \in CP!Receipts(in) |-> CP!RawProof(in, i).totalTokens] = tokens
      /\ {i \in CP!Receipts(in) : CP!isReceiptAcceptedForUsage(in, i)} = accepted
  BY <1>1, <1>2
<1>4. /\ CP!aggregateAcceptedUsage(in) = CP!SumFunctionOnSet(tokens, accepted)
      /\ Checking!aggregateAcceptedUsage(in) = Checking!SumFunctionOnSet(tokens, accepted)
  BY <1>3 DEF CP!aggregateAcceptedUsage, Checking!aggregateAcceptedUsage
<1> QED
  BY <1>4, SameSum

LEMMA SameWellFormed ==
  ASSUME NEW in
  PROVE  CP!WellFormed(in) <=> Checking!WellFormed(in)
BY SameSum
DEF CP!Receipts, Checking!Receipts, CP!Receipt, Checking!Receipt, CP!Claimed,
    Checking!Claimed, CP!Unique, Checking!Unique, CP!callIndicesUnique,
    Checking!callIndicesUnique, CP!claimsAddUp, Checking!claimsAddUp, CP!WellFormed,
    Checking!WellFormed

LEMMA SameChecks ==
  ASSUME NEW in
  PROVE  CP!Checks(in) = Checking!Checks(in)
BY SameUsage
DEF CP!Receipts, Checking!Receipts, CP!Receipt, Checking!Receipt, CP!RawProof,
    Checking!RawProof, CP!buildExpectedTaskContext, Checking!buildExpectedTaskContext,
    CP!callIntentHash, Checking!callIntentHash, CP!Unique, Checking!Unique,
    CP!callIndicesUnique, Checking!callIndicesUnique, CP!evidenceMatchesReceipt,
    Checking!evidenceMatchesReceipt, CP!hasAcceptedReceiptEvidence,
    Checking!hasAcceptedReceiptEvidence, CP!isEndpointMatched, Checking!isEndpointMatched,
    CP!isWithinTaskWindow, Checking!isWithinTaskWindow, CP!isModelAllowed,
    Checking!isModelAllowed, CP!isCommitmentBoundToTask, Checking!isCommitmentBoundToTask,
    CP!isProofBundleBoundToTask, Checking!isProofBundleBoundToTask,
    CP!providerProofContextMatchesReceipt, Checking!providerProofContextMatchesReceipt,
    CP!receiptCallIntentMatchesEvidence, Checking!receiptCallIntentMatchesEvidence,
    CP!isReceiptBoundToExpectedContext, Checking!isReceiptBoundToExpectedContext,
    CP!Checks, Checking!Checks

LEMMA ServiceFits == VP!SettlementAssumption /\ VP!ServiceAssumption
<1>1. VP!SettlementAssumption
  <2>1. VP!VerificationReport = VerificationReport
    BY DEF VP!VerificationReport, VerificationReport, VP!TaskIds, TaskIds
  <2> QED
    BY <2>1, SettlementAssumption DEF VP!SettlementAssumption
<1>2. VP!ServiceAssumption
  <2>1. VP!VerificationReport = VerificationReport
    BY DEF VP!VerificationReport, VerificationReport, VP!TaskIds, TaskIds
  <2>2. KeysAndRepetition \in [Hashes -> VP!ProofBundle]
    BY DEF KeysAndRepetition, VP!ProofBundle, Keys,
           Checking!hasDuplicateConsumptionKey
  <2>3. PassingWork \subseteq EligibleWork
    BY DEF PassingWork, EligibleWork, Checking!Passed, Checking!EligibleForConsumption,
           Checking!Checks
  <2> QED
    BY <2>1, <2>2, <2>3, ProtectionAssumption DEF VP!ServiceAssumption
<1> QED
  BY <1>1, <1>2

LEMMA SameTypes ==
  /\ VP!TaskIds = TaskIds /\ VP!Task = Task
  /\ VP!VerificationReport = VerificationReport
BY DEF VP!TaskIds, TaskIds, VP!Task, Task, VP!Status, Status,
       VP!VerificationReport, VerificationReport

\* The parts of the invariant of the contract.
LEMMA SameInv == IInv <=> VP!IInv
<1>1. \A task, time : GoodSlot(task, time) <=> VP!GoodSlot(task, time)
  BY DEF GoodSlot, VP!GoodSlot, Lawful, VP!Lawful, Proved, VP!Proved, Live, VP!Live,
         Terminal, VP!Terminal, ByReport, VP!ByReport
<1>2. SlotsInv <=> VP!SlotsInv
  BY <1>1, SameTypes DEF SlotsInv, VP!SlotsInv, EmptySlot, VP!EmptySlot,
                         CurrentTimeMs, VP!CurrentTimeMs
<1>3. TypeOK <=> VP!TypeOK
  BY SameTypes DEF TypeOK, VP!TypeOK, Holders, VP!Holders,
                   Registry!RegistryTypeOK, VP!Registry!RegistryTypeOK
<1>4. BundleSpentOnce <=> VP!BundleSpentOnce
  BY SameTypes DEF BundleSpentOnce, VP!BundleSpentOnce, ByReport, VP!ByReport
<1> QED
  BY <1>2, <1>3, <1>4 DEF IInv, VP!IInv

LEMMA SameInvNext == IInv' <=> VP!IInv'
BY SameInv, PTL

LEMMA SameEffect ==
  /\ \A old, new : TermsKept(old, new) <=> VP!TermsKept(old, new)
  /\ \A reports, ts, ts2 : EndedOnlyBy(reports, ts, ts2)
                               <=> VP!EndedOnlyBy(reports, ts, ts2)
<1>1. \A old, new : TermsKept(old, new) <=> VP!TermsKept(old, new)
  BY DEF TermsKept, VP!TermsKept, Exists, VP!Exists, Live, VP!Live,
         Terminal, VP!Terminal
<1>2. \A reports, ts, ts2 : EndedOnlyBy(reports, ts, ts2)
                               <=> VP!EndedOnlyBy(reports, ts, ts2)
  BY SameTypes DEF EndedOnlyBy, VP!EndedOnlyBy, ByReport, VP!ByReport,
                   EndedBy, VP!EndedBy
<1> QED
  BY <1>1, <1>2

-----------------------------------------------------------------------------
(* The invariant: that of the buyer and that of the service *)

ProtectionInv == BuyerInv /\ VP!ServiceInv

\* What happens on the chain, with reports of the service only, leaves the service
\* what it knows.
LEMMA ContractSteps ==
  ASSUME VP!ServiceInv, StepWith(released), UNCHANGED serviceVars
  PROVE  /\ VP!ServiceInv'
         /\ \A t \in TaskIds : TermsKept(tasks[t], tasks'[t])
<1>1. IInv
  BY SameInv DEF VP!ServiceInv
<1>2. released \in SUBSET VerificationReport
  BY SameTypes DEF VP!ServiceInv, VP!ServiceTypeOK
<1>3. /\ IInv' /\ \A t \in TaskIds : TermsKept(tasks[t], tasks'[t])
      /\ EndedOnlyBy(released, tasks, tasks')
  BY <1>1, <1>2, StepEffect
<1>4. UNCHANGED VP!serviceVars
  BY DEF serviceVars, VP!serviceVars
<1>5. /\ VP!IInv' /\ \A t \in VP!TaskIds : VP!TermsKept(tasks[t], tasks'[t])
      /\ VP!EndedOnlyBy(released, tasks, tasks')
  BY <1>3, SameInvNext, SameTypes, SameEffect
<1> QED
  BY <1>3, <1>4, <1>5, ServiceFits, VP!ContractEffectInv

LEMMA SameRequestSteps ==
  ASSUME NEW r \in Requests, Service!RequestStep(r)
  PROVE  VP!RequestStep(r) /\ UNCHANGED vars
<1>1. ASSUME NEW t \in TaskIds, NEW mark \in BOOLEAN,
             Service!loadInputs(r, t, mark)
      PROVE  VP!loadInputs(r, t, mark)
  BY <1>1
  DEF Service!loadInputs, VP!loadInputs, Service!At, VP!At, Service!Proceed, VP!Proceed,
      Service!vars, VP!vars, Service!InState, VP!InState, Service!Exists, VP!Exists,
      Service!SubmittedInGrace, VP!SubmittedInGrace, Service!Work, VP!Work
<1>2. ASSUME NEW time \in LocalTimes, Service!assertVerifierCanSign(r, time)
      PROVE  VP!assertVerifierCanSign(r, time)
  BY <1>2
  DEF Service!assertVerifierCanSign, VP!assertVerifierCanSign, Service!At, VP!At,
      Service!Proceed, VP!Proceed, Service!vars, VP!vars, Service!Registry!isVerifier,
      VP!Registry!isVerifier, Service!BeforeTimeout, VP!BeforeTimeout
<1>3. ASSUME Service!findAny(r) PROVE VP!findAny(r)
  BY <1>3
  DEF Service!findAny, VP!findAny, Service!At, VP!At, Service!Proceed, VP!Proceed,
      Service!vars, VP!vars, Service!readConsumption, VP!readConsumption, Service!Idle,
      VP!Idle, Service!Bundle, VP!Bundle, Service!Consumption!hasAny,
      VP!Consumption!hasAny
<1>4. ASSUME Service!isProofBundleConsumed(r) PROVE VP!isProofBundleConsumed(r)
  BY <1>4
  DEF Service!isProofBundleConsumed, VP!isProofBundleConsumed, Service!At, VP!At,
      Service!Proceed, VP!Proceed, Service!vars, VP!vars, Service!readConsumption,
      VP!readConsumption, Service!Idle, VP!Idle, Service!Unused, VP!Unused
<1>5. ASSUME Service!verifyReceiptProofs(r) PROVE VP!verifyReceiptProofs(r)
  BY <1>5
  DEF Service!verifyReceiptProofs, VP!verifyReceiptProofs, Service!At, VP!At,
      Service!Proceed, VP!Proceed, Service!vars, VP!vars, Service!Outcomes, VP!Outcomes,
      Service!Verdict, VP!Verdict, Service!Work, VP!Work
<1>6. ASSUME Service!putReport(r) PROVE VP!putReport(r)
  BY <1>6
  DEF Service!putReport, VP!putReport, Service!At, VP!At, Service!Proceed, VP!Proceed,
      Service!vars, VP!vars, Service!Stored, VP!Stored, Service!ReportOf, VP!ReportOf
<1>7. ASSUME Service!markConsumedCheck(r) PROVE VP!markConsumedCheck(r)
  BY <1>7
  DEF Service!markConsumedCheck, VP!markConsumedCheck, Service!At, VP!At, Service!Proceed,
      VP!Proceed, Service!vars, VP!vars, Service!MustReserve, VP!MustReserve,
      Service!Eligible, VP!Eligible, Service!Bundle, VP!Bundle,
      Service!Consumption!hasAny, VP!Consumption!hasAny
<1>8. ASSUME Service!markConsumedWrite(r) PROVE VP!markConsumedWrite(r)
  BY <1>8
  DEF Service!markConsumedWrite, VP!markConsumedWrite, Service!At, VP!At, Service!Proceed,
      VP!Proceed, Service!vars, VP!vars, Service!Bundle, VP!Bundle, Service!ReportOf,
      VP!ReportOf, Service!Consumption!writeKeys, VP!Consumption!writeKeys,
      Service!Consumption!createMany, VP!Consumption!createMany,
      Service!Consumption!setAll, VP!Consumption!setAll, Service!Consumption!Recorded,
      VP!Consumption!Recorded, Service!Consumption!hasAny, VP!Consumption!hasAny
<1>9. ASSUME Service!maybeSettle(r) PROVE VP!maybeSettle(r)
  BY <1>9
  DEF Service!maybeSettle, VP!maybeSettle, Service!At, VP!At, Service!Proceed, VP!Proceed,
      Service!vars, VP!vars, Service!MustReserve, VP!MustReserve, Service!Eligible,
      VP!Eligible, Service!ReservationDue, VP!ReservationDue, Service!ReportOf,
      VP!ReportOf, Service!Idle, VP!Idle
<1>10. ASSUME Service!Fail(r) PROVE VP!Fail(r)
  BY <1>10
  DEF Service!Fail, VP!Fail, Service!At, VP!At, Service!Proceed, VP!Proceed, Service!vars,
      VP!vars, Service!Idle, VP!Idle
<1>11. VP!RequestStep(r)
  BY <1>1, <1>2, <1>3, <1>4, <1>5, <1>6, <1>7, <1>8, <1>9, <1>10, SameTypes
  DEF Service!RequestStep, VP!RequestStep, Service!TaskIds, TaskIds
<1>12. UNCHANGED vars
  BY DEF Service!RequestStep, Service!loadInputs, Service!assertVerifierCanSign,
         Service!readConsumption, Service!findAny, Service!isProofBundleConsumed,
         Service!verifyReceiptProofs, Service!putReport, Service!markConsumedCheck,
         Service!markConsumedWrite, Service!maybeSettle, Service!Fail, Service!vars, vars
<1> QED
  BY <1>11, <1>12

LEMMA SameRestart ==
  ASSUME Service!Restart
  PROVE  VP!Restart /\ UNCHANGED vars
BY DEF Service!Restart, VP!Restart, Service!Idle, VP!Idle, Service!Consumption!restart,
       VP!Consumption!restart, Service!Consumption!NothingConsumed,
       VP!Consumption!NothingConsumed, Service!vars, VP!vars, vars

-----------------------------------------------------------------------------
(* The invariant holds *)

LEMMA ProtectionStart == ProtectionInit => ProtectionInv
<1> SUFFICES ASSUME ProtectionInit PROVE ProtectionInv
  OBVIOUS
<1>1. BuyerInv
  BY BuyerStart DEF ProtectionInit
<1>2. VP!IInv
  BY <1>1, SameInv DEF BuyerInv
<1>3. /\ requests = [r \in Requests |-> VP!Idle] /\ stored = {} /\ released = {}
      /\ due = {} /\ consumed = [k \in Keys |-> NoRecord] /\ lost = FALSE
  BY DEF ProtectionInit, Service!Idle, VP!Idle, Service!Consumption!ConsumptionInit,
         Service!Consumption!NothingConsumed
<1>4. VP!EndsInv
  <2>1. \A t \in TaskIds : ~VP!ByReport(tasks[t])
    BY DEF ProtectionInit, BuyerInit, EmptySlot, VP!ByReport
  <2> QED
    BY <2>1, SameTypes DEF VP!EndsInv
<1>5. VP!ServiceTypeOK /\ VP!RequestsInv /\ VP!StoreInv /\ VP!ReservationsHaveReports
  BY <1>3 DEF VP!ServiceTypeOK, VP!RequestsInv, VP!StoreInv, VP!ReservationsHaveReports
<1>6. VP!ServiceInv
  BY <1>2, <1>3, <1>4, <1>5 DEF VP!ServiceInv
<1> QED
  BY <1>1, <1>6 DEF ProtectionInv

\* A step that leaves the chain and the buyer alone leaves the buyer what it knows.
LEMMA BuyerFrame ==
  ASSUME BuyerInv, UNCHANGED <<vars, buyerVars>>
  PROVE  BuyerInv'
<1>1. UNCHANGED <<vars, unposted, orderedBy, known, calls, nextSequence, tasks>>
  BY DEF buyerVars, vars
<1> QED
  BY <1>1, OtherStepKeeps, NextSteps

\* What every step of the composition does, seen from its three parts.
LEMMA ProtectionStep ==
  ASSUME ProtectionInv, [ProtectionNext]_protectionVars
  PROVE  /\ ProtectionInv'
         /\ \/ /\ UNCHANGED serviceVars
               /\ \A t \in TaskIds : TermsKept(tasks[t], tasks'[t])
            \/ UNCHANGED vars /\ \E r \in Requests : VP!RequestStep(r)
            \/ UNCHANGED vars /\ VP!Restart
<1> USE DEF ProtectionInv
<1>1. CASE \E c \in Calls : CallStep(c) /\ UNCHANGED serviceVars
  <2>1. BuyerInv' /\ StepWith(released)
    BY <1>1, CallKeeps, CallsBringNoReport DEF StepWith
  <2> QED
    BY <1>1, <2>1, ContractSteps
<1>2. CASE OutsideStep /\ UNCHANGED <<buyerVars, serviceVars>>
  <2>1. released \in SUBSET VerificationReport
    BY SameTypes DEF VP!ServiceInv, VP!ServiceTypeOK
  <2>2. /\ StepWith(released) /\ nextSequence' = nextSequence
        /\ \A u \in TaskIds : WasFunded(tasks'[u]) => WasFunded(tasks[u])
    BY <1>2, <2>1, OthersFundNothing DEF OutsideStep, OthersStep
  <2>3. StepWith(VerificationReport)
    BY <2>1, <2>2, StepsGrow
  <2>4. BuyerInv'
    BY <1>2, <2>2, <2>3, OtherStepKeeps DEF buyerVars
  <2> QED
    BY <1>2, <2>2, <2>4, ContractSteps
<1>3. ASSUME NEW r \in Requests, Service!RequestStep(r), UNCHANGED buyerVars
      PROVE  /\ ProtectionInv' /\ VP!RequestStep(r) /\ UNCHANGED vars
  <2>1. VP!RequestStep(r) /\ UNCHANGED vars
    BY <1>3, SameRequestSteps
  <2>2. VP!ServiceInv'
    BY <2>1, ServiceFits, VP!RequestStepInv
  <2> QED
    BY <1>3, <2>1, <2>2, BuyerFrame
<1>4. CASE Service!Restart /\ UNCHANGED buyerVars
  <2>1. VP!Restart /\ UNCHANGED vars
    BY <1>4, SameRestart
  <2>2. VP!ServiceInv'
    BY <2>1, ServiceFits, VP!RestartStep
  <2> QED
    BY <1>4, <2>1, <2>2, BuyerFrame
<1>5. CASE UNCHANGED protectionVars
  <2>1. UNCHANGED <<vars, buyerVars>> /\ UNCHANGED serviceVars
    BY <1>5 DEF protectionVars
  <2>2. BuyerInv' /\ StepWith(released)
    BY <2>1, BuyerFrame DEF StepWith, WithoutReport
  <2> QED
    BY <2>1, <2>2, ContractSteps
<1> QED
  BY <1>1, <1>2, <1>3, <1>4, <1>5 DEF ProtectionNext

\* The invariants of the buyer and of the service hold together: what either relies
\* on, the contract keeps from the steps of the other.
THEOREM ProtectionInvariance == ProtectionSpec => []ProtectionInv
<1>1. ProtectionInv /\ [ProtectionNext]_protectionVars => ProtectionInv'
  BY ProtectionStep
<1> QED
  BY <1>1, ProtectionStart, PTL DEF ProtectionSpec

-----------------------------------------------------------------------------
(* What the buyer has from it *)

\* What a work that passes is made of.
LEMMA PassingShows ==
  ASSUME NEW work \in PassingWork
  PROVE  LET commitment == Commitments[work.commitmentHash]
             shown == Shown(work.proofBundleHash)
             usage == SumFunctionOnSet([raw \in shown |-> raw.totalTokens], shown)
         IN  /\ shown # {}
             /\ usage \in Nat /\ usage >= commitment.minUsage
             /\ \A raw \in shown :
                    /\ raw.valid /\ raw.provider \in Adapters
                    /\ raw.proofContext.taskContext =
                           [taskId |-> work.taskId, commitmentHash |-> work.commitmentHash,
                            buyer |-> work.buyer, seller |-> work.seller,
                            rest |-> Nonces[work.taskId]]
                    /\ raw.request.target = commitment.endpoint
                    /\ raw.model \in commitment.allowedModels
                    /\ work.fundedAtMs <= raw.observedAt
                    /\ raw.observedAt <= work.deadlineMs
<1> DEFINE in == InputOf(work)
           shown == Shown(work.proofBundleHash)
<1>1. work \in Works /\ CP!WellFormed(in) /\ CP!Passed(CP!Checks(in))
  BY SameWellFormed, SameChecks
  DEF PassingWork, LoadableWork, CP!Passed, Checking!Passed
<1>2. in \in {InputOf(w) : w \in Works}
  BY <1>1
<1>3. work.commitmentHash \in Hashes /\ in.commitment.minUsage \in Nat
  BY <1>1, BuyerAssumption DEF Works, InputOf, Commitment
<1>4. /\ {CP!RawProof(in, i) : i \in CP!Receipts(in)} = shown
      /\ CP!Receipts(in) # {} => shown # {}
  BY DEF CP!RawProof, CP!Receipt, CP!Receipts, InputOf, Shown, ReceiptsOf, ReceiptOf
<1>5. shown # {} /\ \A raw \in shown : CP!Genuine(raw, in)
  <2>1. /\ CP!Receipts(in) # {}
        /\ \A i \in CP!Receipts(in) : CP!Genuine(CP!RawProof(in, i), in)
    BY <1>1, ChecksFit, CP!PassedIsGenuine
  <2> QED
    BY <1>4, <2>1
<1>6. LET usage == CP!SumFunctionOnSet([raw \in shown |-> raw.totalTokens], shown)
      IN  usage \in Nat /\ usage >= in.commitment.minUsage
  BY <1>1, <1>2, <1>3, <1>4, ChecksFit, CP!PassedUsage
<1>7. LET usage == SumFunctionOnSet([raw \in shown |-> raw.totalTokens], shown)
      IN  usage \in Nat /\ usage >= Commitments[work.commitmentHash].minUsage
  BY <1>6, SameSum DEF InputOf
<1>8. ASSUME NEW raw \in shown
      PROVE  /\ raw.valid /\ raw.provider \in Adapters
             /\ raw.proofContext.taskContext =
                    [taskId |-> work.taskId, commitmentHash |-> work.commitmentHash,
                     buyer |-> work.buyer, seller |-> work.seller,
                     rest |-> Nonces[work.taskId]]
             /\ raw.request.target = Commitments[work.commitmentHash].endpoint
             /\ raw.model \in Commitments[work.commitmentHash].allowedModels
             /\ work.fundedAtMs <= raw.observedAt /\ raw.observedAt <= work.deadlineMs
  BY <1>5 DEF CP!Genuine, CP!buildExpectedTaskContext, InputOf
<1> HIDE DEF in, shown
<1> QED
  BY <1>5, <1>7, <1>8 DEF shown

\* A task was settled by a report that fits it and tells the truth about its work.
LEMMA SettledByReport ==
  ASSUME ProtectionInv, NEW t \in TaskIds, tasks[t].status = "SETTLED"
  PROVE  /\ \E report \in released :
                /\ report.taskId = t /\ report.passed
                /\ report.proofBundleHash = tasks[t].proofBundleHash
         /\ tasks[t].proofBundleHash \in Hashes
         /\ VP!Work(t, tasks[t]) \in PassingWork
         /\ NamedVerifier[tasks[t].commitmentHash] = Verifier
<1>1. ByReport(tasks[t])
  <2>1. tasks[t] # EmptySlot
    BY DEF EmptySlot
  <2> QED
    BY <2>1 DEF ProtectionInv, BuyerInv, IInv, SlotsInv, GoodSlot, Lawful
<1>2. PICK report \in released :
          report.taskId = t /\ (report.passed <=> tasks[t].status = "SETTLED")
  BY <1>1, SameTypes DEF ProtectionInv, VP!ServiceInv, VP!EndsInv, VP!EndedBy,
                         ByReport, VP!ByReport
<1>3. /\ report \in stored /\ VP!Fits(report, tasks[t]) /\ VP!Truthful(report, tasks[t])
      /\ report.proofBundleHash \in Hashes
  BY <1>2, SameTypes DEF ProtectionInv, VP!ServiceInv, VP!StoreInv, VP!ServiceTypeOK,
                         VerificationReport
<1>4. VP!Verdict(VP!Work(t, tasks[t])) = "passes"
  BY <1>2, <1>3 DEF VP!Truthful
<1>5. VP!Work(t, tasks[t]) \in PassingWork
  BY <1>4 DEF VP!Verdict
<1> QED
  BY <1>2, <1>3, <1>5 DEF VP!Fits

\* A seller is paid only what was ordered of it, and for work that was ordered: for
\* any sellers, commitments and bundles, whatever the adapters can reach, whichever
\* requests and calls run at the same time, fail or are cut off by a restart, with
\* either registry.
THEOREM PaymentsAreForOrderedWork == ProtectionSpec => []PaidForOrderedWork
<1>1. ProtectionInv => PaidForOrderedWork
  <2> SUFFICES ASSUME ProtectionInv, NEW t \in TaskIds, tasks[t].status = "SETTLED"
               PROVE  LET order == Order[orderedBy[t]]
                          expectations == order.expectations
                          shown == Shown(tasks[t].proofBundleHash)
                      IN  /\ tasks[t].seller = order.seller /\ tasks[t].token = order.token
                          /\ tasks[t].amount = order.amount
                          /\ shown # {}
                          /\ \A raw \in shown : ShowsOrderedWork(raw, t, expectations)
                          /\ SumFunctionOnSet([raw \in shown |-> raw.totalTokens], shown)
                                 >= expectations.minUsage
                          /\ accepts(expectations.verifiers, {Verifier})
    BY DEF PaidForOrderedWork
  <2> DEFINE task == tasks[t]
             work == VP!Work(t, task)
             commitment == Commitments[task.commitmentHash]
             expectations == Order[orderedBy[t]].expectations
             shown == Shown(task.proofBundleHash)
  <2>1. work \in PassingWork /\ NamedVerifier[task.commitmentHash] = Verifier
    BY SettledByReport
  <2>2. /\ work.taskId = t /\ work.buyer = task.buyer /\ work.seller = task.seller
        /\ work.commitmentHash = task.commitmentHash
        /\ work.proofBundleHash = task.proofBundleHash
        /\ work.fundedAtMs = task.fundedAtMs /\ work.deadlineMs = task.deadlineMs
    BY DEF VP!Work
  <2>3. WasFunded(task) /\ t < nextSequence
    BY FundedExists DEF ProtectionInv, BuyerInv, WasFunded, Terminal
  <2>4. /\ OrderedAs(task, orderedBy[t])
        /\ meetsExpectations(commitment, expectations)
        /\ task.commitmentHash \in Hashes
    <3>1. OrderedAs(task, orderedBy[t]) /\ Accepted(task, t, orderedBy[t])
      BY <2>3 DEF ProtectionInv, BuyerInv
    <3>2. task \in Task
      BY BuyerValues DEF ProtectionInv
    <3> QED
      BY <3>1, <3>2 DEF Accepted, Validated, Task
  <2>5. /\ commitment \in Commitment /\ expectations \in Expectations
        /\ commitment.verifier = Verifier
    BY <2>1, <2>4, BuyerAssumption DEF OrderedAs, Orders, NamedVerifier
  <2> HIDE DEF work
  <2>6. LET usage == SumFunctionOnSet([raw \in shown |-> raw.totalTokens], shown)
        IN  /\ shown # {} /\ usage \in Nat /\ usage >= commitment.minUsage
            /\ \A raw \in shown : ShowsOrderedWork(raw, t, expectations)
    <3>1. PICK w \in PassingWork : w = work
      BY <2>1
    <3>2. LET usage == SumFunctionOnSet([raw \in shown |-> raw.totalTokens], shown)
          IN  shown # {} /\ usage \in Nat /\ usage >= commitment.minUsage
      BY <2>2, <3>1, PassingShows
    <3>3. ASSUME NEW raw \in shown
          PROVE  ShowsOrderedWork(raw, t, expectations)
      <4>1. /\ raw.valid /\ raw.provider \in Adapters
            /\ raw.proofContext.taskContext =
                   [taskId |-> t, commitmentHash |-> task.commitmentHash,
                    buyer |-> task.buyer, seller |-> task.seller, rest |-> Nonces[t]]
            /\ raw.request.target = commitment.endpoint
            /\ raw.model \in commitment.allowedModels
            /\ task.fundedAtMs <= raw.observedAt /\ raw.observedAt <= task.deadlineMs
        <5>1. /\ w.taskId = t /\ w.buyer = task.buyer /\ w.seller = task.seller
              /\ w.commitmentHash = task.commitmentHash
              /\ w.fundedAtMs = task.fundedAtMs /\ w.deadlineMs = task.deadlineMs
              /\ raw \in Shown(w.proofBundleHash)
          BY <2>2, <3>1
        <5>2. /\ raw.valid /\ raw.provider \in Adapters
              /\ raw.proofContext.taskContext =
                     [taskId |-> w.taskId, commitmentHash |-> w.commitmentHash,
                      buyer |-> w.buyer, seller |-> w.seller, rest |-> Nonces[w.taskId]]
              /\ raw.request.target = Commitments[w.commitmentHash].endpoint
              /\ raw.model \in Commitments[w.commitmentHash].allowedModels
              /\ w.fundedAtMs <= raw.observedAt /\ raw.observedAt <= w.deadlineMs
          BY <5>1, PassingShows
        <5> HIDE DEF task
        <5> QED
          BY <5>1, <5>2
      <4>2. /\ accepts(expectations.endpoints, {raw.request.target})
            /\ accepts(expectations.models, {raw.model})
        BY <2>4, <4>1 DEF meetsExpectations, accepts
      <4> QED
        BY <4>1, <4>2 DEF ShowsOrderedWork
    <3> QED
      BY <3>2, <3>3
  <2>7. /\ commitment.minUsage >= expectations.minUsage
        /\ commitment.minUsage \in Nat /\ expectations.minUsage \in Nat
        /\ accepts(expectations.verifiers, {Verifier})
    BY <2>4, <2>5 DEF meetsExpectations, Commitment, Expectations
  <2>8. SumFunctionOnSet([raw \in shown |-> raw.totalTokens], shown)
            >= expectations.minUsage
    <3> DEFINE usage == SumFunctionOnSet([raw \in shown |-> raw.totalTokens], shown)
    <3>1. usage \in Nat /\ usage >= commitment.minUsage
      BY <2>6
    <3> HIDE DEF usage
    <3> QED
      BY <2>7, <3>1 DEF usage
  <2> QED
    BY <2>4, <2>6, <2>7, <2>8 DEF OrderedAs
<1> QED
  BY <1>1, ProtectionInvariance, PTL

-----------------------------------------------------------------------------
(* No proof is paid for twice *)

LEMMA OwnersStart == ProtectionInit => VP!OwnersInv
BY DEF ProtectionInit, Service!Idle, VP!Idle, VP!OwnersInv

\* The steps of the buyer and of the contract take nothing from the registry, and those
\* of the service keep what is in it.
LEMMA OwnersKept ==
  ASSUME ProtectionInv, VP!OwnersInv, [ProtectionNext]_protectionVars
  PROVE  VP!OwnersInv'
<1>1. VP!ServiceInv
  BY DEF ProtectionInv
<1>2. CASE UNCHANGED serviceVars
  <2>1. UNCHANGED VP!serviceVars
    BY <1>2 DEF serviceVars, VP!serviceVars
  <2> QED
    BY <2>1, ServiceFits, VP!OwnersFrame
<1>3. CASE VP!Restart \/ \E r \in Requests : VP!RequestStep(r)
  <2>1. [VP!ServiceNext]_(VP!allVars)
    BY <1>3 DEF VP!ServiceNext
  <2> QED
    BY <1>1, <2>1, ServiceFits, VP!OwnersStep
<1> QED
  BY <1>2, <1>3, ProtectionStep

\* The reports of the service hold the proofs that they release, next to a buyer and a
\* contract that do as they like.
THEOREM ProtectionOwners == ProtectionSpec => []VP!OwnersInv
<1>1. /\ ProtectionInv /\ VP!OwnersInv /\ [ProtectionNext]_protectionVars
      => VP!OwnersInv'
  BY OwnersKept
<1> QED
  BY <1>1, OwnersStart, ProtectionInvariance, PTL DEF ProtectionSpec

\* Two tasks that were paid share no key of a proof, with either registry and whatever
\* clients ask for: each settlement has a passing report, which left only after its keys
\* were reserved for its task, unless the client had waived that; and the registry keeps
\* them so, unless it lost a record.
THEOREM NoProofIsPaidTwice == ProtectionSpec => []PaidOnce
<1>1. ASSUME ProtectionInv, VP!OwnersInv, ~lost,
             NEW t \in TaskIds, tasks[t].status = "SETTLED", ~Waived(t),
             NEW k \in KeysOf(tasks[t].proofBundleHash)
      PROVE  consumed[k].taskId = t
  <2>1. PICK report \in released :
            /\ report.taskId = t /\ report.passed
            /\ report.proofBundleHash = tasks[t].proofBundleHash
    BY <1>1, SettledByReport
  <2>2. report \in due
    BY <1>1, <2>1 DEF Waived
  <2>3. VP!Holds(consumed, tasks[t].proofBundleHash, t)
    BY <1>1, <2>1, <2>2 DEF VP!OwnersInv
  <2>4. KeysAndRepetition[tasks[t].proofBundleHash].keys = KeysOf(tasks[t].proofBundleHash)
    BY <1>1, SettledByReport DEF KeysAndRepetition
  <2> QED
    BY <1>1, <2>3, <2>4 DEF VP!Holds
<1>2. ProtectionInv /\ VP!OwnersInv => PaidOnce
  BY <1>1 DEF PaidOnce
<1> QED
  BY <1>2, ProtectionInvariance, ProtectionOwners, PTL

=============================================================================
