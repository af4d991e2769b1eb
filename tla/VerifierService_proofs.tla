----------------------- MODULE VerifierService_proofs -----------------------
(***************************************************************************)
(* Theorems about VerifierService, for every value of its constants: any   *)
(* number of requests, tasks, bundles and keys.                            *)
(***************************************************************************)
EXTENDS VerifierService, TyrPaySettlement_proofs

-----------------------------------------------------------------------------
(* The inductive invariant.  Its parts take the tasks and the store as arguments
   where they speak of two states. *)

\* A slot that was read earlier still tells the terms of the slot.
SameTerms(read, task) ==
    /\ Proved(task)
    /\ read.buyer = task.buyer /\ read.seller = task.seller
    /\ read.commitmentHash = task.commitmentHash
    /\ read.proofBundleHash = task.proofBundleHash
    /\ read.amount = task.amount
    /\ read.proofSubmittedAtMs = task.proofSubmittedAtMs
    /\ read.fundedAtMs = task.fundedAtMs /\ read.deadlineMs = task.deadlineMs

Onward(old, new) == Proved(old) => SameTerms(old, new)

\* What is known of a request that is not idle.
InFlight(request, ts, st) ==
    /\ SameTerms(request.task, ts[request.taskId])
    /\ request.pc # "loaded" =>
           /\ BeforeTimeout(request.task, request.verifiedAt)
           /\ AssignedVerifier[request.task.commitmentHash] = Verifier
    /\ request.verdict \in {"unknown"} \cup Outcomes(request)
    /\ request.pc \in {"stored", "checked", "reserved"} =>
           request.verdict # "unknown" /\ ReportOf(request) \in st

\* What is known of a signed report on a task.
Fits(report, task) ==
    /\ Proved(task)
    /\ report.buyer = task.buyer /\ report.seller = task.seller
    /\ report.commitmentHash = task.commitmentHash
    /\ report.proofBundleHash = task.proofBundleHash
    /\ report.settlementAmount = task.amount
    /\ BeforeTimeout(task, report.verifiedAt)
    /\ report.settlementAction = IF report.passed THEN "RELEASE" ELSE "REFUND"
    /\ report.reportHash = ReportHash
    /\ AssignedVerifier[task.commitmentHash] = Verifier

\* What it says of the work is not too good: an outage makes it worse only.
Truthful(report, task) ==
    report.passed => Verdict(Work(report.taskId, task)) = "passes"

RequestsInv == \A r \in Requests : requests[r] # Idle => InFlight(requests[r], tasks, stored)

StoreInv ==
    \A report \in stored :
        /\ Fits(report, tasks[report.taskId])
        /\ Truthful(report, tasks[report.taskId])

EndsInv ==
    \A t \in TaskIds :
        ByReport(tasks[t]) => \E report \in released : EndedBy(report, t, tasks[t])

ServiceInv ==
    /\ IInv
    /\ ServiceTypeOK
    /\ RequestsInv
    /\ StoreInv
    /\ released \subseteq stored
    /\ ReservationsHaveReports
    /\ EndsInv

-----------------------------------------------------------------------------
(* Facts about requests and reports *)

LEMMA RequestTypes ==
  ASSUME NEW request \in Request
  PROVE  /\ request # Idle
         /\ request.taskId \in TaskIds /\ request.task \in Task
         /\ request.verifiedAt \in Nat /\ request.mark \in BOOLEAN
         /\ request.pc \in {"loaded", "evaluating", "stored", "checked", "reserved"}
<1>1. Idle.pc = "idle"
  BY DEF Idle
<1> QED
  BY <1>1 DEF Request

\* The hashes of a proven slot with a commitment are hashes, so that the report on
\* it has the type of a report.
LEMMA ReportType ==
  ASSUME NEW request \in Request, NEW task \in Task, SameTerms(request.task, task),
         task.buyer \in Accounts, task.seller \in Accounts,
         task.commitmentHash # NoHash
  PROVE  ReportOf(request) \in VerificationReport
<1> DEFINE passed == request.verdict = "passes"
<1>1. passed \in BOOLEAN
  OBVIOUS
<1>2. /\ request.taskId \in TaskIds /\ request.verifiedAt \in Nat
      /\ request.task.amount \in Nat
  BY RequestTypes DEF Task
<1>3. request.task.commitmentHash \in Hashes /\ request.task.proofBundleHash \in Hashes
  BY DEF SameTerms, Proved, Task
<1>4. request.task.buyer \in Accounts /\ request.task.seller \in Accounts
  BY DEF SameTerms
<1>5. ReportHash \in Hashes /\ Verifier \in Verifiers
  BY ServiceAssumption
<1> QED
  BY <1>1, <1>2, <1>3, <1>4, <1>5 DEF ReportOf, VerificationReport

LEMMA ReportFits ==
  ASSUME NEW request \in Request, NEW task, SameTerms(request.task, task),
         BeforeTimeout(request.task, request.verifiedAt),
         AssignedVerifier[request.task.commitmentHash] = Verifier
  PROVE  Fits(ReportOf(request), task)
BY DEF ReportOf, Fits, SameTerms, BeforeTimeout

\* The checks see the same work in two looks with the same terms.
LEMMA SameWork ==
  ASSUME NEW read, NEW task, SameTerms(read, task), NEW t
  PROVE  Work(t, read) = Work(t, task)
BY DEF SameTerms, Work

LEMMA ReportTruthful ==
  ASSUME NEW request \in Request, request.verdict # "unknown",
         request.verdict \in {"unknown"} \cup Outcomes(request),
         NEW task, SameTerms(request.task, task)
  PROVE  Truthful(ReportOf(request), task)
<1>1. request.verdict \in {Verdict(Work(request.taskId, task)), "invalid"}
  BY SameWork DEF Outcomes
<1>2. /\ ReportOf(request).passed = (request.verdict = "passes")
      /\ ReportOf(request).taskId = request.taskId
  BY DEF ReportOf
<1> QED
  BY <1>1, <1>2 DEF Truthful

LEMMA SameTermsOnward ==
  ASSUME NEW read, NEW old, NEW new, SameTerms(read, old), Onward(old, new)
  PROVE  SameTerms(read, new)
BY DEF SameTerms, Onward

LEMMA FitsOnward ==
  ASSUME NEW report, NEW old, NEW new, Fits(report, old), Onward(old, new)
  PROVE  Fits(report, new)
BY DEF Fits, SameTerms, Onward, BeforeTimeout

LEMMA TruthfulOnward ==
  ASSUME NEW report, NEW old, NEW new, Truthful(report, old), Proved(old),
         Onward(old, new)
  PROVE  Truthful(report, new)
BY SameWork DEF Truthful, Onward

LEMMA InFlightOnward ==
  ASSUME NEW request \in Request, NEW ts, NEW ts2, NEW st, NEW st2,
         InFlight(request, ts, st), st \subseteq st2,
         \A t \in TaskIds : Onward(ts[t], ts2[t])
  PROVE  InFlight(request, ts2, st2)
<1>1. SameTerms(request.task, ts2[request.taskId])
  BY RequestTypes, SameTermsOnward DEF InFlight
<1> QED
  BY <1>1 DEF InFlight

-----------------------------------------------------------------------------
(* The steps of a request *)

\* A request moves on: what is known of the others stays.
LEMMA RequestsWritten ==
  ASSUME ServiceTypeOK, RequestsInv, UNCHANGED tasks, stored \subseteq stored',
         NEW r \in Requests, NEW new,
         new = Idle \/ (new \in Request /\ InFlight(new, tasks, stored')),
         Proceed(r, new)
  PROVE  requests' \in [Requests -> {Idle} \cup Request] /\ RequestsInv'
<1>1. requests' = [requests EXCEPT ![r] = new]
  BY DEF Proceed
<1>2. requests' \in [Requests -> {Idle} \cup Request]
  BY <1>1 DEF ServiceTypeOK
<1>3. RequestsInv'
  <2> SUFFICES ASSUME NEW q \in Requests, requests'[q] # Idle
               PROVE  InFlight(requests'[q], tasks', stored')
    BY DEF RequestsInv
  <2>1. CASE q = r
    <3>1. requests'[q] = new
      BY <1>1, <2>1 DEF ServiceTypeOK
    <3> QED
      BY <3>1
  <2>2. CASE q # r
    <3>1. requests'[q] = requests[q]
      BY <1>1, <2>2 DEF ServiceTypeOK
    <3>2. requests[q] \in Request /\ InFlight(requests[q], tasks, stored)
      BY <3>1 DEF ServiceTypeOK, RequestsInv
    <3>3. \A t \in TaskIds : Onward(tasks[t], tasks[t])
      BY DEF Onward, SameTerms
    <3> QED
      BY <3>1, <3>2, <3>3, InFlightOnward
  <2> QED
    BY <2>1, <2>2
<1> QED
  BY <1>2, <1>3

\* A step of a request that only changes the request.
LEMMA QuietStep ==
  ASSUME ServiceInv, UNCHANGED <<vars, stored, released, due, consumed, lost>>,
         NEW r \in Requests, NEW new,
         new = Idle \/ (new \in Request /\ InFlight(new, tasks, stored)),
         Proceed(r, new)
  PROVE  ServiceInv'
<1>1. UNCHANGED <<vars, tasks, stored, released, due, consumed, lost>>
  BY DEF vars
<1>2. requests' \in [Requests -> {Idle} \cup Request] /\ RequestsInv'
  BY <1>1, RequestsWritten DEF ServiceInv
<1>3. IInv'
  BY <1>1, EnvironmentInv DEF ServiceInv
<1> QED
  BY <1>1, <1>2, <1>3
  DEF ServiceInv, ServiceTypeOK, StoreInv, ReservationsHaveReports, EndsInv

LEMMA LoadStep ==
  ASSUME ServiceInv, NEW r \in Requests, NEW t \in TaskIds, NEW mark \in BOOLEAN,
         loadInputs(r, t, mark)
  PROVE  ServiceInv'
<1> DEFINE new == [pc |-> "loaded", taskId |-> t, task |-> tasks[t], mark |-> mark,
                   verifiedAt |-> 0, reads |-> {}, verdict |-> "unknown"]
<1>1. tasks[t] \in Task /\ Proved(tasks[t])
  <2>1. InState(tasks[t], "PROOF_SUBMITTED")
    BY DEF loadInputs
  <2> QED
    BY <2>1, ExistingSlot DEF ServiceInv, InState, GoodSlot
<1>2. new \in Request
  BY <1>1, ServiceAssumption DEF Request
<1>3. InFlight(new, tasks, stored)
  BY <1>1 DEF InFlight, SameTerms
<1>4. Proceed(r, new) /\ UNCHANGED <<vars, stored, released, due, consumed, lost>>
  BY DEF loadInputs
<1> HIDE DEF new
<1> QED
  BY <1>2, <1>3, <1>4, QuietStep

\* The request that makes a step, as a value of its own.
LEMMA CurrentRequest ==
  ASSUME ServiceInv, NEW r \in Requests, ~At(r, "idle")
  PROVE  /\ requests[r] \in Request
         /\ InFlight(requests[r], tasks, stored)
<1>1. requests[r] # Idle
  BY DEF At, Idle
<1> QED
  BY <1>1 DEF ServiceInv, ServiceTypeOK, RequestsInv

LEMMA AuthorizeStep ==
  ASSUME ServiceInv, NEW r \in Requests, NEW time \in LocalTimes,
         assertVerifierCanSign(r, time)
  PROVE  ServiceInv'
<1> DEFINE new == [requests[r] EXCEPT !.pc = "evaluating", !.verifiedAt = time]
<1>1. /\ requests[r] \in Request /\ InFlight(requests[r], tasks, stored)
      /\ BeforeTimeout(requests[r].task, time)
      /\ AssignedVerifier[requests[r].task.commitmentHash] = Verifier
  BY CurrentRequest DEF assertVerifierCanSign, At
<1>2. new \in Request
  BY <1>1, ServiceAssumption DEF Request
<1>3. /\ new.task = requests[r].task /\ new.taskId = requests[r].taskId
      /\ new.verdict = requests[r].verdict /\ new.verifiedAt = time
      /\ new.pc = "evaluating"
  BY <1>1 DEF Request
<1>4. Outcomes(new) = Outcomes(requests[r])
  BY <1>3 DEF Outcomes
<1>5. InFlight(new, tasks, stored)
  BY <1>1, <1>3, <1>4 DEF InFlight
<1>6. Proceed(r, new) /\ UNCHANGED <<vars, stored, released, due, consumed, lost>>
  BY DEF assertVerifierCanSign
<1> HIDE DEF new
<1> QED
  BY <1>2, <1>5, <1>6, QuietStep

LEMMA ReadStep ==
  ASSUME ServiceInv, NEW r \in Requests, NEW source \in {"registry", "chain"},
         NEW found \in BOOLEAN, readConsumption(r, source, found)
  PROVE  ServiceInv'
<1> DEFINE new == [requests[r] EXCEPT !.reads = requests[r].reads \cup {source}]
<1>1. requests[r] \in Request /\ InFlight(requests[r], tasks, stored)
  BY CurrentRequest DEF readConsumption, At
<1>2. new \in Request
  BY <1>1 DEF Request
<1>3. /\ new.task = requests[r].task /\ new.taskId = requests[r].taskId
      /\ new.verdict = requests[r].verdict /\ new.verifiedAt = requests[r].verifiedAt
      /\ new.pc = requests[r].pc
  BY <1>1 DEF Request
<1>4. Outcomes(new) = Outcomes(requests[r]) /\ ReportOf(new) = ReportOf(requests[r])
  BY <1>3 DEF Outcomes, ReportOf
<1>5. InFlight(new, tasks, stored)
  BY <1>1, <1>3, <1>4 DEF InFlight
<1>6. Proceed(r, Idle) \/ Proceed(r, new)
  BY DEF readConsumption
<1>7. UNCHANGED <<vars, stored, released, due, consumed, lost>>
  BY DEF readConsumption
<1> HIDE DEF new
<1> QED
  BY <1>2, <1>5, <1>6, <1>7, QuietStep

LEMMA VerifyStep ==
  ASSUME ServiceInv, NEW r \in Requests, verifyReceiptProofs(r)
  PROVE  ServiceInv'
<1>1. PICK verdict \in Outcomes(requests[r]) :
          Proceed(r, [requests[r] EXCEPT !.verdict = verdict])
  BY DEF verifyReceiptProofs
<1> DEFINE new == [requests[r] EXCEPT !.verdict = verdict]
<1>2. /\ requests[r] \in Request /\ InFlight(requests[r], tasks, stored)
      /\ requests[r].pc = "evaluating"
  BY CurrentRequest DEF verifyReceiptProofs, At
<1>3. verdict \in Verdicts
  BY <1>1 DEF Outcomes, Verdict, Verdicts
<1>4. new \in Request
  BY <1>2, <1>3 DEF Request
<1>5. /\ new.task = requests[r].task /\ new.taskId = requests[r].taskId
      /\ new.verdict = verdict /\ new.verifiedAt = requests[r].verifiedAt
      /\ new.pc = "evaluating"
  BY <1>2 DEF Request
<1>6. Outcomes(new) = Outcomes(requests[r])
  BY <1>5 DEF Outcomes
<1>7. InFlight(new, tasks, stored)
  BY <1>1, <1>2, <1>5, <1>6 DEF InFlight
<1>8. Proceed(r, new) /\ UNCHANGED <<vars, stored, released, due, consumed, lost>>
  BY <1>1 DEF verifyReceiptProofs
<1> HIDE DEF new
<1> QED
  BY <1>4, <1>7, <1>8, QuietStep

LEMMA CheckStep ==
  ASSUME ServiceInv, NEW r \in Requests, markConsumedCheck(r)
  PROVE  ServiceInv'
<1> DEFINE new == [requests[r] EXCEPT !.pc = "checked"]
<1>1. /\ requests[r] \in Request /\ InFlight(requests[r], tasks, stored)
      /\ requests[r].pc = "stored"
  BY CurrentRequest DEF markConsumedCheck, At
<1>2. new \in Request
  BY <1>1 DEF Request
<1>3. /\ new.task = requests[r].task /\ new.taskId = requests[r].taskId
      /\ new.verdict = requests[r].verdict /\ new.verifiedAt = requests[r].verifiedAt
      /\ new.pc = "checked"
  BY <1>1 DEF Request
<1>4. Outcomes(new) = Outcomes(requests[r]) /\ ReportOf(new) = ReportOf(requests[r])
  BY <1>3 DEF Outcomes, ReportOf
<1>5. InFlight(new, tasks, stored)
  BY <1>1, <1>3, <1>4 DEF InFlight
<1>6. Proceed(r, new) /\ UNCHANGED <<vars, stored, released, due, consumed, lost>>
  BY DEF markConsumedCheck
<1> HIDE DEF new
<1> QED
  BY <1>2, <1>5, <1>6, QuietStep

LEMMA FailStep ==
  ASSUME ServiceInv, NEW r \in Requests, Fail(r)
  PROVE  ServiceInv'
BY QuietStep DEF Fail

\* What a write to the registry may leave in it.
LEMMA WrittenKeys ==
  ASSUME NEW keys \in SUBSET Keys, NEW record, Consumption!writeKeys(keys, record)
  PROVE  /\ consumed' = [k \in Keys |-> IF k \in keys THEN record ELSE consumed[k]]
         /\ lost \in BOOLEAN => lost' \in BOOLEAN
BY DEF Consumption!writeKeys, Consumption!createMany, Consumption!setAll,
       Consumption!Recorded, Consumption!hasAny

\* The keys of the bundle that a request is about are keys.
LEMMA BundleOfRequest ==
  ASSUME ServiceInv, NEW request \in Request, InFlight(request, tasks, stored)
  PROVE  request.task.proofBundleHash \in Hashes /\ Bundle(request).keys \in SUBSET Keys
<1>1. request.task.proofBundleHash \in Hashes
  BY RequestTypes DEF InFlight, SameTerms, Proved, Task
<1> QED
  BY <1>1, ServiceAssumption DEF Bundle, ProofBundle

LEMMA WriteStep ==
  ASSUME ServiceInv, NEW r \in Requests, markConsumedWrite(r)
  PROVE  ServiceInv'
<1> DEFINE new == [requests[r] EXCEPT !.pc = "reserved"]
           report == ReportOf(requests[r])
           keys == Bundle(requests[r]).keys
<1>1. /\ requests[r] \in Request /\ InFlight(requests[r], tasks, stored)
      /\ requests[r].pc = "checked"
  BY CurrentRequest DEF markConsumedWrite, At
<1>2. new \in Request
  BY <1>1 DEF Request
<1>3. /\ new.task = requests[r].task /\ new.taskId = requests[r].taskId
      /\ new.verdict = requests[r].verdict /\ new.verifiedAt = requests[r].verifiedAt
      /\ new.pc = "reserved"
  BY <1>1 DEF Request
<1>4. Outcomes(new) = Outcomes(requests[r]) /\ ReportOf(new) = report
  BY <1>3 DEF Outcomes, ReportOf
<1>5. InFlight(new, tasks, stored)
  BY <1>1, <1>3, <1>4 DEF InFlight
<1>6. Proceed(r, new) /\ UNCHANGED <<vars, tasks, stored, released, due>>
  BY DEF markConsumedWrite, vars
<1>7. report \in stored
  BY <1>1 DEF InFlight
<1>8. keys \in SUBSET Keys /\ Consumption!writeKeys(keys, report)
  BY <1>1, BundleOfRequest DEF markConsumedWrite
<1> HIDE DEF new, report, keys
<1>9. requests' \in [Requests -> {Idle} \cup Request] /\ RequestsInv'
  BY <1>2, <1>5, <1>6, RequestsWritten DEF ServiceInv
<1>10. IInv'
  BY <1>6, EnvironmentInv DEF ServiceInv
<1>11. /\ consumed' = [k \in Keys |-> IF k \in keys THEN report ELSE consumed[k]]
       /\ lost' \in BOOLEAN
  BY <1>8, WrittenKeys DEF ServiceInv, ServiceTypeOK
<1>12. ServiceTypeOK' /\ ReservationsHaveReports'
  BY <1>6, <1>7, <1>9, <1>11 DEF ServiceInv, ServiceTypeOK, ReservationsHaveReports
<1>13. StoreInv' /\ EndsInv' /\ (released \subseteq stored)'
  BY <1>6 DEF ServiceInv, StoreInv, EndsInv
<1> QED
  BY <1>9, <1>10, <1>12, <1>13 DEF ServiceInv

LEMMA PutStep ==
  ASSUME ServiceInv, NEW r \in Requests, putReport(r)
  PROVE  ServiceInv'
<1> DEFINE new == [requests[r] EXCEPT !.pc = "stored"]
           report == ReportOf(requests[r])
           task == tasks[requests[r].taskId]
<1>1. /\ requests[r] \in Request /\ InFlight(requests[r], tasks, stored)
      /\ requests[r].pc = "evaluating" /\ requests[r].verdict # "unknown"
  BY CurrentRequest DEF putReport, At
<1>2. new \in Request
  BY <1>1 DEF Request
<1>3. /\ new.task = requests[r].task /\ new.taskId = requests[r].taskId
      /\ new.verdict = requests[r].verdict /\ new.verifiedAt = requests[r].verifiedAt
      /\ new.pc = "stored"
  BY <1>1 DEF Request
<1>4. Outcomes(new) = Outcomes(requests[r]) /\ ReportOf(new) = report
  BY <1>3 DEF Outcomes, ReportOf
<1>5. /\ Proceed(r, new) /\ stored' = stored \cup {report}
      /\ UNCHANGED <<vars, tasks, released, due, consumed, lost>>
  BY DEF putReport, Stored, vars
<1>6. InFlight(new, tasks, stored')
  BY <1>1, <1>3, <1>4, <1>5 DEF InFlight
<1>7. report \in VerificationReport
  <2>1. SameTerms(requests[r].task, task)
    BY <1>1 DEF InFlight
  <2>2. task \in Task
    BY <1>1, RequestTypes DEF ServiceInv, IInv, TypeOK
  <2>3. Exists(task) /\ task.commitmentHash # NoHash
        /\ task.buyer \in Accounts /\ task.seller \in Accounts
    <3>1. Proved(task)
      BY <2>1 DEF SameTerms
    <3>2. task # EmptySlot
      BY <3>1 DEF Proved, EmptySlot
    <3>3. GoodSlot(task, CurrentTimeMs)
      BY <1>1, <3>2, RequestTypes DEF ServiceInv, IInv, SlotsInv
    <3> QED
      BY <3>1, <3>3, SettlementAssumption DEF GoodSlot, Terminal, Exists
  <2> QED
    BY <1>1, <2>1, <2>2, <2>3, ReportType
<1>8. Fits(report, task) /\ Truthful(report, task) /\ report.taskId = requests[r].taskId
  BY <1>1, ReportFits, ReportTruthful DEF InFlight, ReportOf
<1> HIDE DEF new, report
<1>9. requests' \in [Requests -> {Idle} \cup Request] /\ RequestsInv'
  BY <1>2, <1>5, <1>6, RequestsWritten DEF ServiceInv
<1>10. IInv'
  BY <1>5, EnvironmentInv DEF ServiceInv
<1>11. ServiceTypeOK'
  BY <1>5, <1>7, <1>9 DEF ServiceInv, ServiceTypeOK
<1>12. StoreInv'
  BY <1>5, <1>8 DEF ServiceInv, StoreInv
<1>13. ReservationsHaveReports' /\ EndsInv' /\ (released \subseteq stored)'
  BY <1>5 DEF ServiceInv, ReservationsHaveReports, EndsInv
<1> QED
  BY <1>9, <1>10, <1>11, <1>12, <1>13 DEF ServiceInv

LEMMA ReleaseStep ==
  ASSUME ServiceInv, NEW r \in Requests, maybeSettle(r)
  PROVE  ServiceInv'
<1> DEFINE report == ReportOf(requests[r])
<1>1. /\ requests[r] \in Request /\ InFlight(requests[r], tasks, stored)
      /\ requests[r].pc \in {"stored", "reserved"}
  BY CurrentRequest DEF maybeSettle, At
<1>2. report \in stored
  BY <1>1 DEF InFlight
<1>3. /\ Proceed(r, Idle) /\ released' = released \cup {report}
      /\ UNCHANGED due \/ due' = due \cup {report}
      /\ UNCHANGED <<vars, tasks, stored, consumed, lost>>
  BY DEF maybeSettle, vars
<1> HIDE DEF report
<1>4. requests' \in [Requests -> {Idle} \cup Request] /\ RequestsInv'
  BY <1>3, RequestsWritten DEF ServiceInv
<1>5. IInv'
  BY <1>3, EnvironmentInv DEF ServiceInv
<1>6. ServiceTypeOK' /\ (released \subseteq stored)'
  BY <1>2, <1>3, <1>4 DEF ServiceInv, ServiceTypeOK
<1>7. StoreInv' /\ ReservationsHaveReports' /\ EndsInv'
  BY <1>3 DEF ServiceInv, StoreInv, ReservationsHaveReports, EndsInv
<1> QED
  BY <1>4, <1>5, <1>6, <1>7 DEF ServiceInv

LEMMA RestartStep ==
  ASSUME ServiceInv, Restart
  PROVE  ServiceInv'
<1>1. /\ requests' = [r \in Requests |-> Idle]
      /\ UNCHANGED <<vars, tasks, stored, released, due>>
      /\ consumed' = consumed \/ consumed' = [k \in Keys |-> NoRecord]
      /\ lost' \in BOOLEAN
  BY DEF ServiceInv, ServiceTypeOK, Restart, Consumption!restart, Consumption!NothingConsumed, vars
<1>2. IInv'
  BY <1>1, EnvironmentInv DEF ServiceInv
<1>3. ServiceTypeOK' /\ RequestsInv' /\ ReservationsHaveReports'
  BY <1>1 DEF ServiceInv, ServiceTypeOK, RequestsInv, ReservationsHaveReports
<1> QED
  BY <1>1, <1>2, <1>3 DEF ServiceInv, StoreInv, EndsInv

-----------------------------------------------------------------------------
(* The steps of the chain *)

\* A proven slot is somebody's and was funded, so that its terms are frozen.
LEMMA ProvenTermsStay ==
  ASSUME IInv, \A t \in TaskIds : TermsKept(tasks[t], tasks'[t])
  PROVE  \A t \in TaskIds : Onward(tasks[t], tasks'[t])
<1> SUFFICES ASSUME NEW t \in TaskIds, Proved(tasks[t])
             PROVE  SameTerms(tasks[t], tasks'[t])
  BY DEF Onward
<1>1. tasks[t] # EmptySlot
  BY DEF Proved, EmptySlot
<1>2. GoodSlot(tasks[t], CurrentTimeMs)
  BY <1>1 DEF IInv, SlotsInv
<1>3. /\ Exists(tasks[t]) /\ tasks[t].commitmentHash # NoHash
      /\ Live(tasks[t]) \/ Terminal(tasks[t])
  BY <1>2, SettlementAssumption DEF GoodSlot, Terminal, Live, Exists
<1> QED
  BY <1>3 DEF TermsKept, SameTerms, Proved

\* What the contract does keeps the invariant, whoever makes it do so, as long as
\* only reports that left the service reach it.
LEMMA ContractEffectInv ==
  ASSUME ServiceInv, UNCHANGED serviceVars, IInv',
         \A t \in TaskIds : TermsKept(tasks[t], tasks'[t]),
         EndedOnlyBy(released, tasks, tasks')
  PROVE  ServiceInv'
<1>1. UNCHANGED <<requests, stored, released, due, consumed, lost>>
  BY DEF serviceVars
<1>2. \A t \in TaskIds : Onward(tasks[t], tasks'[t])
  BY ProvenTermsStay DEF ServiceInv
<1>3. RequestsInv'
  <2> SUFFICES ASSUME NEW r \in Requests, requests[r] # Idle
               PROVE  InFlight(requests[r], tasks', stored)
    BY <1>1 DEF RequestsInv
  <2>1. requests[r] \in Request /\ InFlight(requests[r], tasks, stored)
    BY DEF ServiceInv, ServiceTypeOK, RequestsInv
  <2> QED
    BY <1>2, <2>1, InFlightOnward
<1>4. StoreInv'
  <2> SUFFICES ASSUME NEW report \in stored
               PROVE  /\ Fits(report, tasks'[report.taskId])
                      /\ Truthful(report, tasks'[report.taskId])
    BY <1>1 DEF StoreInv
  <2>1. report.taskId \in TaskIds
    BY DEF ServiceInv, ServiceTypeOK, VerificationReport
  <2>2. /\ Fits(report, tasks[report.taskId]) /\ Proved(tasks[report.taskId])
        /\ Truthful(report, tasks[report.taskId])
    BY DEF ServiceInv, StoreInv, Fits
  <2> QED
    BY <1>2, <2>1, <2>2, FitsOnward, TruthfulOnward
<1>5. EndsInv'
  <2> SUFFICES ASSUME NEW t \in TaskIds, ByReport(tasks'[t])
               PROVE  \E report \in released : EndedBy(report, t, tasks'[t])
    BY <1>1 DEF EndsInv
  <2> QED
    BY DEF ServiceInv, EndsInv, EndedOnlyBy
<1> QED
  BY <1>1, <1>3, <1>4, <1>5
  DEF ServiceInv, ServiceTypeOK, ReservationsHaveReports

LEMMA ChainInv ==
  ASSUME ServiceInv, ChainStep, UNCHANGED serviceVars
  PROVE  ServiceInv' /\ \A t \in TaskIds : Onward(tasks[t], tasks'[t])
<1>1. StepWith(released)
  <2>1. ASSUME NEW caller \in Accounts, NEW t \in TaskIds, NEW hash \in Hashes,
               submitProofBundle(caller, t, hash)
        PROVE  TaskStep(caller, t)
    BY <2>1 DEF TaskStep
  <2> QED
    BY <2>1 DEF ChainStep, StepWith, WithoutReport
<1>2. released \in SUBSET VerificationReport
  BY DEF ServiceInv, ServiceTypeOK
<1>3. /\ IInv' /\ \A t \in TaskIds : TermsKept(tasks[t], tasks'[t])
      /\ EndedOnlyBy(released, tasks, tasks')
  BY <1>1, <1>2, StepEffect DEF ServiceInv
<1> QED
  BY <1>3, ContractEffectInv, ProvenTermsStay DEF ServiceInv

-----------------------------------------------------------------------------
(* The invariant holds *)

\* A slot that was agreed on and funded in the first block is a good slot.
LEMMA AgreedSlotGood ==
  ASSUME NEW agreement \in Agreements, blockTimestamp = 1
  PROVE  /\ AgreedSlot(agreement) \in Task
         /\ GoodSlot(AgreedSlot(agreement), CurrentTimeMs)
         /\ ~ByReport(AgreedSlot(agreement))
<1> DEFINE created == Created(EmptySlot, agreement.buyer, agreement.seller, agreement.token,
                              agreement.amount, agreement.deadlineMs)
           committed == Committed(created, agreement.commitmentHash)
<1>1. /\ agreement.buyer \in Accounts /\ agreement.seller \in Accounts
      /\ agreement.token \in Tokens /\ agreement.amount \in Amounts
      /\ agreement.amount # 0
      /\ agreement.deadlineMs \in Deadlines /\ agreement.deadlineMs > MsPerSecond
      /\ agreement.commitmentHash \in Hashes
  BY ServiceAssumption DEF Agreement
<1>2. CurrentTimeMs = MsPerSecond /\ CurrentTimeMs \in Nat
  BY SettlementAssumption DEF CurrentTimeMs
<1>3. created \in Task /\ GoodSlot(created, CurrentTimeMs)
  BY <1>1, <1>2, CreatedSlot
<1>4. created.status = "INTENT_CREATED" /\ created.deadlineMs = agreement.deadlineMs
  BY DEF Created, EmptySlot
<1>5. AgreedSlot(agreement) = Funded(committed)
  BY DEF AgreedSlot
<1> HIDE DEF created
<1>6. committed \in Task /\ GoodSlot(committed, CurrentTimeMs)
  BY <1>1, <1>2, <1>3, <1>4, CommittedSlot
<1>7. committed.status = "COMMITMENT_SUBMITTED" /\ committed.deadlineMs = created.deadlineMs
  BY <1>3 DEF Committed, Task
<1> HIDE DEF committed
<1>8. CurrentTimeMs <= committed.deadlineMs
  <2>1. agreement.deadlineMs \in Nat /\ MsPerSecond \in Nat
    BY <1>1, SettlementAssumption
  <2>2. committed.deadlineMs = agreement.deadlineMs
    BY <1>4, <1>7
  <2> QED
    BY <1>1, <1>2, <2>1, <2>2
<1>9. PICK task \in Task : task = committed
  BY <1>6
<1>10. /\ Funded(task) \in Task
       /\ GoodSlot(Funded(task), CurrentTimeMs)
       /\ ~ByReport(Funded(task))
  BY <1>2, <1>6, <1>7, <1>8, <1>9, FundedSlot
<1> QED
  BY <1>5, <1>9, <1>10

LEMMA ServiceStart == ServiceInit => ServiceInv
<1> SUFFICES ASSUME ServiceInit PROVE ServiceInv
  OBVIOUS
<1>1. PICK agreed \in [TaskIds -> Agreements] :
          tasks = [t \in TaskIds |-> AgreedSlot(agreed[t])]
  BY DEF ServiceInit
<1>2. \A t \in TaskIds : /\ tasks[t] \in Task
                         /\ GoodSlot(tasks[t], CurrentTimeMs)
                         /\ ~ByReport(tasks[t])
  BY <1>1, AgreedSlotGood DEF ServiceInit
<1>3. balanceOf \in [Tokens -> [Holders -> Nat]]
  <2>1. PICK held \in [Tokens -> 0..MaxEscrow] :
            balanceOf = [token \in Tokens |->
                [a \in Holders |-> IF a = Settlement THEN held[token]
                                                     ELSE InitialBalance]]
    BY DEF ServiceInit
  <2> QED
    BY <2>1, SettlementAssumption, ServiceAssumption
<1>4. TypeOK
  <2>1. nextSequence \in 1..(MaxTasks + 1) /\ tasks \in [TaskIds -> Task]
    BY <1>1, <1>2, SettlementAssumption DEF ServiceInit
  <2> QED
    BY <1>3, <2>1, ServiceAssumption DEF ServiceInit, TypeOK, Registry!RegistryTypeOK
<1>5. SlotsInv
  BY <1>2, SettlementAssumption DEF ServiceInit, SlotsInv, TaskIds
<1>6. BundleSpentOnce
  BY <1>2 DEF ServiceInit, BundleSpentOnce
<1>7. ServiceTypeOK /\ RequestsInv /\ ReservationsHaveReports
  BY DEF ServiceInit, ServiceTypeOK, RequestsInv, ReservationsHaveReports,
         Consumption!ConsumptionInit, Consumption!NothingConsumed
<1> QED
  BY <1>2, <1>4, <1>5, <1>6, <1>7 DEF ServiceInit, ServiceInv, IInv, StoreInv, EndsInv

LEMMA RequestStepInv ==
  ASSUME ServiceInv, NEW r \in Requests, RequestStep(r)
  PROVE  ServiceInv'
<1>1. CASE findAny(r) \/ isProofBundleConsumed(r)
  <2>1. Consumption!hasAny(Bundle(requests[r]).keys) \in BOOLEAN
    BY DEF Consumption!hasAny
  <2>2. (~Unused(requests[r].task.proofBundleHash)) \in BOOLEAN
    BY DEF Unused
  <2> QED
    BY <1>1, <2>1, <2>2, ReadStep DEF findAny, isProofBundleConsumed
<1> QED
  BY <1>1, LoadStep, AuthorizeStep, VerifyStep, PutStep, CheckStep, WriteStep,
     ReleaseStep, FailStep DEF RequestStep

\* Every reachable state satisfies the inductive invariant.
THEOREM ServiceInvariance == ServiceSpec => []ServiceInv
<1>1. ServiceInv /\ [ServiceNext]_allVars => ServiceInv'
  <2> SUFFICES ASSUME ServiceInv, [ServiceNext]_allVars PROVE ServiceInv'
    OBVIOUS
  <2>1. CASE UNCHANGED allVars
    <3>1. UNCHANGED <<vars, tasks, requests, stored, released, due, consumed, lost>>
      BY <2>1 DEF allVars, serviceVars, vars
    <3>2. IInv'
      BY <3>1, EnvironmentInv DEF ServiceInv
    <3> QED
      BY <3>1, <3>2 DEF ServiceInv, ServiceTypeOK, RequestsInv, StoreInv,
                        ReservationsHaveReports, EndsInv
  <2>2. CASE ServiceNext
    BY <2>2, RequestStepInv, RestartStep, ChainInv DEF ServiceNext
  <2> QED
    BY <2>1, <2>2
<1> QED
  BY <1>1, ServiceStart, PTL DEF ServiceSpec

-----------------------------------------------------------------------------
(* Safety *)

\* Every variable of the service keeps its type.
THEOREM ServiceTypes == ServiceSpec => []ServiceTypeOK
<1>1. ServiceInv => ServiceTypeOK
  BY DEF ServiceInv
<1> QED
  BY <1>1, ServiceInvariance, PTL

\* Whatever is reserved, the report it is reserved for is in the store: verifyTask
\* stores before it reserves, and nothing removes a report.
THEOREM ReservationsCanBeSettled == ServiceSpec => []ReservationsHaveReports
<1>1. ServiceInv => ReservationsHaveReports
  BY DEF ServiceInv
<1> QED
  BY <1>1, ServiceInvariance, PTL

\* When every deadline leaves room for both periods in a uint256, the contract
\* finds nothing wrong with a report of the service for as long as its task waits
\* for one.  The condition is needed: the service adds without a bound, and the
\* contract does not.
THEOREM ReportsStayValid ==
  ASSUME \A d \in Deadlines :
             AddFits(d + proofSubmissionGracePeriodMs, verificationTimeoutMs)
  PROVE  ServiceSpec => []SignedReportsFit
<1>1. ServiceInv => SignedReportsFit
  <2> SUFFICES ASSUME ServiceInv, NEW report \in stored
               PROVE  /\ Proved(tasks[report.taskId])
                      /\ ReportMatches(tasks[report.taskId], report)
                      /\ report.reportHash # NoHash
    BY DEF SignedReportsFit
  <2>1. report.taskId \in TaskIds
    BY DEF ServiceInv, ServiceTypeOK, VerificationReport
  <2> DEFINE slot == tasks[report.taskId]
  <2>2. Fits(report, slot)
    BY DEF ServiceInv, StoreInv
  <2>3. PICK task \in Task : task = slot
    BY <2>1 DEF ServiceInv, IInv, TypeOK
  <2>4. Fits(report, task) /\ Proved(task)
    BY <2>2, <2>3 DEF Fits
  <2>5. GoodSlot(task, CurrentTimeMs)
    <3>1. task # EmptySlot
      BY <2>4 DEF Proved, EmptySlot
    <3> QED
      BY <2>1, <2>3, <3>1 DEF ServiceInv, IInv, SlotsInv
  <2>6. AddFits(task.proofSubmittedAtMs, verificationTimeoutMs)
    <3>1. /\ task.proofSubmittedAtMs <= task.deadlineMs + proofSubmissionGracePeriodMs
          /\ task.deadlineMs \in Deadlines
      BY <2>4, <2>5 DEF GoodSlot, Lawful
    <3>2. /\ task.deadlineMs + proofSubmissionGracePeriodMs + verificationTimeoutMs <= MaxUint
          /\ task.deadlineMs \in Nat
      BY <3>1, SettlementAssumption DEF AddFits
    <3>3. task.proofSubmittedAtMs \in Nat
      BY DEF Task
    <3> QED
      BY <3>1, <3>2, <3>3, SettlementAssumption DEF AddFits
  <2>7. ReportMatches(task, report)
    BY <2>4, <2>6 DEF Fits, ReportMatches, ReportInTime, BeforeTimeout
  <2>8. report.reportHash # NoHash
    BY <2>4, ServiceAssumption, SettlementAssumption DEF Fits
  <2> QED
    BY <2>3, <2>4, <2>7, <2>8
<1> QED
  BY <1>1, ServiceInvariance, PTL

\* A seller is paid only for a bundle that deserves it by the terms that the task has at
\* the end, whichever request was first, whenever it looked, and whatever the adapters
\* could not find out.
THEOREM TasksEndByVerdict == ServiceSpec => []EndsByVerdict
<1>1. ServiceInv => EndsByVerdict
  <2> SUFFICES ASSUME ServiceInv, NEW t \in TaskIds, tasks[t].status = "SETTLED"
               PROVE  Verdict(Work(t, tasks[t])) = "passes"
    BY DEF EndsByVerdict
  <2>1. ByReport(tasks[t])
    <3>1. tasks[t] # EmptySlot
      BY DEF EmptySlot
    <3> QED
      BY <3>1 DEF ServiceInv, IInv, SlotsInv, GoodSlot, Lawful
  <2>2. PICK report \in released : EndedBy(report, t, tasks[t])
    BY <2>1 DEF ServiceInv, EndsInv
  <2>3. report.taskId = t /\ report.passed /\ Truthful(report, tasks[t])
    BY <2>2 DEF ServiceInv, StoreInv, EndedBy
  <2> QED
    BY <2>3 DEF Truthful
<1> QED
  BY <1>1, ServiceInvariance, PTL

-----------------------------------------------------------------------------
(* The database registry implements KeyOwnership *)

MappedOwner == [k \in Keys |-> OwnerOf(consumed[k])]

LEMMA OwnershipStart == ServiceInit => Ownership!OwnershipInit
BY DEF ServiceInit, Consumption!ConsumptionInit, Consumption!NothingConsumed,
       Ownership!OwnershipInit, OwnerOf

\* The write of a request claims all keys of its bundle for the task and the bundle.
LEMMA WriteClaims ==
  ASSUME Persistent, ServiceInv, NEW r \in Requests, markConsumedWrite(r)
  PROVE  Ownership!OwnershipNext
<1>1. requests[r] \in Request /\ InFlight(requests[r], tasks, stored)
  BY CurrentRequest DEF markConsumedWrite, At
<1> DEFINE who == <<requests[r].taskId, requests[r].task.proofBundleHash>>
<1>2. PICK keys \in SUBSET Keys : keys = Bundle(requests[r]).keys
  BY <1>1, BundleOfRequest
<1>3. PICK report \in stored : report = ReportOf(requests[r])
  <2>1. requests[r].pc = "checked"
    BY DEF markConsumedWrite, At
  <2> QED
    BY <1>1, <2>1 DEF InFlight
<1>4. /\ \A k \in keys : consumed[k] = NoRecord
      /\ consumed' = [k \in Keys |-> IF k \in keys THEN report ELSE consumed[k]]
  BY <1>2, <1>3 DEF markConsumedWrite, Consumption!writeKeys, Consumption!createMany,
                    Consumption!hasAny, Consumption!Recorded
<1>5. OwnerOf(report) = who
  <2>1. report # NoRecord
    BY <1>3, ServiceAssumption DEF ServiceInv, ServiceTypeOK
  <2>2. /\ report.taskId = requests[r].taskId
        /\ report.proofBundleHash = requests[r].task.proofBundleHash
    BY <1>3 DEF ReportOf
  <2> QED
    BY <2>1, <2>2 DEF OwnerOf
<1>6. who \in TaskIds \X Hashes
  BY <1>1, RequestTypes, BundleOfRequest
<1> HIDE DEF who
<1>7. \A k \in keys : MappedOwner[k] = NoRecord
  BY <1>4 DEF MappedOwner, OwnerOf
<1>8. MappedOwner' = [k \in Keys |-> IF k \in keys THEN who ELSE MappedOwner[k]]
  BY <1>4, <1>5 DEF MappedOwner
<1> QED
  BY <1>6, <1>7, <1>8 DEF Ownership!OwnershipNext, Ownership!Claim, MappedOwner

\* No other step touches the registry, except that the one in memory goes with its
\* process.
LEMMA OnlyWritesWrite ==
  ASSUME [ServiceNext]_allVars, ~\E r \in Requests : markConsumedWrite(r)
  PROVE  UNCHANGED <<consumed, lost>> \/ (Restart /\ ~Persistent)
<1>1. CASE UNCHANGED allVars
  BY <1>1 DEF allVars, serviceVars
<1>2. ASSUME NEW r \in Requests, RequestStep(r)
      PROVE  UNCHANGED <<consumed, lost>>
  BY <1>2 DEF RequestStep, loadInputs, assertVerifierCanSign, readConsumption,
              findAny, isProofBundleConsumed, verifyReceiptProofs, putReport,
              markConsumedCheck, maybeSettle, Fail
<1>3. CASE Restart
  BY <1>3 DEF Restart, Consumption!restart
<1>4. CASE ChainStep /\ UNCHANGED serviceVars
  BY <1>4 DEF serviceVars
<1> QED
  BY <1>1, <1>2, <1>3, <1>4 DEF ServiceNext

\* With the database registry, every behaviour of the service is one of
\* KeyOwnership: requests that race for a key, failures and restarts included, a
\* key is claimed once, with all keys of its bundle, and never changes hands.
THEOREM OwnershipIsKept ==
  ASSUME Persistent
  PROVE  ServiceSpec => KeepsOwnership
<1>1. ServiceInv /\ [ServiceNext]_allVars => [Ownership!OwnershipNext]_MappedOwner
  <2> SUFFICES ASSUME ServiceInv, [ServiceNext]_allVars,
                      ~\E r \in Requests : markConsumedWrite(r)
               PROVE  UNCHANGED MappedOwner
    BY WriteClaims
  <2>1. UNCHANGED consumed
    BY OnlyWritesWrite
  <2> QED
    BY <2>1 DEF MappedOwner, OwnerOf
<1> QED
  BY <1>1, OwnershipStart, ServiceInvariance, PTL
  DEF ServiceSpec, KeepsOwnership, Ownership!OwnershipSpec, MappedOwner

-----------------------------------------------------------------------------
(* One proof, one task: a second invariant.  It holds for as long as the registry has
   lost no record. *)

\* The registry has the keys of a bundle for a task and this bundle.
Holds(registry, hash, t) ==
    \A k \in Bundles[hash].keys :
        /\ registry[k] # NoRecord
        /\ registry[k].taskId = t /\ registry[k].proofBundleHash = hash

\* What is known of a request beyond InFlight.
Reserving(request, registry) ==
    request.pc = "reserved" =>
        Holds(registry, request.task.proofBundleHash, request.taskId)

OwnersInv ==
    \/ lost
    \/ /\ \A r \in Requests : requests[r] # Idle => Reserving(requests[r], consumed)
       /\ \A report \in due : Holds(consumed, report.proofBundleHash, report.taskId)

\* Registered keys stay as they are.
Grows(old, new) == \A k \in Keys : old[k] # NoRecord => new[k] = old[k]

LEMMA HoldsOnward ==
  ASSUME NEW old, NEW new, Grows(old, new), NEW hash \in Hashes, NEW t,
         Holds(old, hash, t)
  PROVE  Holds(new, hash, t)
<1>1. Bundles[hash].keys \in SUBSET Keys
  BY ServiceAssumption DEF ProofBundle
<1> QED
  BY <1>1 DEF Holds, Grows

\* Every step leaves the registered keys as they are, or the loss is recorded; and a
\* loss stays on record.
LEMMA RegistryGrows ==
  ASSUME ServiceInv, [ServiceNext]_allVars, ~lost'
  PROVE  ~lost /\ Grows(consumed, consumed')
<1>1. ASSUME NEW r \in Requests, markConsumedWrite(r)
      PROVE  ~lost /\ Grows(consumed, consumed')
  <2>1. PICK keys, record : Consumption!writeKeys(keys, record)
    BY <1>1 DEF markConsumedWrite
  <2>2. /\ ~lost /\ \A k \in keys : consumed[k] = NoRecord
        /\ consumed' = [k \in Keys |-> IF k \in keys THEN record ELSE consumed[k]]
    BY <2>1 DEF Consumption!writeKeys, Consumption!createMany, Consumption!setAll,
                Consumption!hasAny, Consumption!Recorded
  <2> QED
    BY <2>2 DEF Grows
<1>2. CASE Restart /\ ~Persistent
  <2>1. ~lost /\ consumed = [k \in Keys |-> NoRecord]
    BY <1>2 DEF Restart, Consumption!restart, Consumption!NothingConsumed
  <2> QED
    BY <2>1 DEF Grows
<1>3. CASE UNCHANGED <<consumed, lost>>
  BY <1>3 DEF Grows
<1> QED
  BY <1>1, <1>2, <1>3, OnlyWritesWrite

\* A step that leaves the other requests alone keeps what is known of them.
LEMMA ReservingWritten ==
  ASSUME ServiceInv, OwnersInv, ~lost, Grows(consumed, consumed'),
         NEW r \in Requests, NEW new, Proceed(r, new),
         new = Idle \/ Reserving(new, consumed')
  PROVE  \A q \in Requests : requests'[q] # Idle => Reserving(requests'[q], consumed')
<1> SUFFICES ASSUME NEW q \in Requests, requests'[q] # Idle
             PROVE  Reserving(requests'[q], consumed')
  OBVIOUS
<1>1. CASE q = r
  <2>1. requests'[q] = new
    BY <1>1 DEF Proceed, ServiceInv, ServiceTypeOK
  <2> QED
    BY <2>1
<1>2. CASE q # r
  <2>1. requests'[q] = requests[q]
    BY <1>2 DEF Proceed, ServiceInv, ServiceTypeOK
  <2>2. /\ requests[q] \in Request /\ InFlight(requests[q], tasks, stored)
        /\ Reserving(requests[q], consumed)
    BY <2>1 DEF ServiceInv, ServiceTypeOK, RequestsInv, OwnersInv
  <2>3. requests[q].task.proofBundleHash \in Hashes
    BY <2>2, BundleOfRequest
  <2> QED
    BY <2>1, <2>2, <2>3, HoldsOnward DEF Reserving
<1> QED
  BY <1>1, <1>2

\* What is known of the reports that have left stays.
LEMMA DueHold ==
  ASSUME ServiceInv, OwnersInv, ~lost, Grows(consumed, consumed'), NEW report \in due
  PROVE  Holds(consumed', report.proofBundleHash, report.taskId)
<1>1. report.proofBundleHash \in Hashes
  BY DEF ServiceInv, ServiceTypeOK, VerificationReport
<1> QED
  BY <1>1, HoldsOnward DEF OwnersInv

\* A request that has not come to its reservation, or leaves it behind, is as good as
\* any.
LEMMA OwnersGoOn ==
  ASSUME ServiceInv, OwnersInv, ~lost, Grows(consumed, consumed'),
         NEW r \in Requests, NEW new, Proceed(r, new),
         new = Idle \/ Reserving(new, consumed'), UNCHANGED due
  PROVE  OwnersInv'
<1>1. \A q \in Requests : requests'[q] # Idle => Reserving(requests'[q], consumed')
  BY ReservingWritten
<1> QED
  BY <1>1, DueHold DEF OwnersInv

LEMMA OwnersWrite ==
  ASSUME ServiceInv, OwnersInv, ~lost, Grows(consumed, consumed'),
         NEW r \in Requests, markConsumedWrite(r)
  PROVE  OwnersInv'
<1> DEFINE new == [requests[r] EXCEPT !.pc = "reserved"]
           hash == requests[r].task.proofBundleHash
<1>1. /\ requests[r] \in Request /\ InFlight(requests[r], tasks, stored)
      /\ requests[r].pc = "checked"
  BY CurrentRequest DEF markConsumedWrite, At
<1>2. new.task = requests[r].task /\ new.taskId = requests[r].taskId
  BY <1>1 DEF Request
<1>3. PICK report \in stored : report = ReportOf(requests[r])
  BY <1>1 DEF InFlight
<1>4. /\ report # NoRecord
      /\ report.taskId = requests[r].taskId /\ report.proofBundleHash = hash
  <2>1. report # NoRecord
    BY ServiceAssumption DEF ServiceInv, ServiceTypeOK
  <2> QED
    BY <1>3, <2>1 DEF ReportOf
<1>5. PICK keys \in SUBSET Keys : keys = Bundles[hash].keys
  BY <1>1, BundleOfRequest DEF Bundle
<1>6. consumed' = [k \in Keys |-> IF k \in keys THEN report ELSE consumed[k]]
  BY <1>3, <1>5, WrittenKeys DEF markConsumedWrite, Bundle
<1>7. Holds(consumed', hash, requests[r].taskId)
  BY <1>4, <1>5, <1>6 DEF Holds
<1>8. Reserving(new, consumed')
  BY <1>2, <1>7 DEF Reserving
<1>9. Proceed(r, new) /\ UNCHANGED due
  BY DEF markConsumedWrite
<1> HIDE DEF new
<1> QED
  BY <1>8, <1>9, OwnersGoOn

\* A report leaves: when its proofs were to be reserved, they are.
LEMMA OwnersRelease ==
  ASSUME ServiceInv, OwnersInv, ~lost, Grows(consumed, consumed'),
         NEW r \in Requests, maybeSettle(r)
  PROVE  OwnersInv'
<1>0. PICK report : report = ReportOf(requests[r])
  OBVIOUS
<1>1. /\ requests[r] \in Request /\ InFlight(requests[r], tasks, stored)
      /\ Reserving(requests[r], consumed)
  BY CurrentRequest, RequestTypes DEF maybeSettle, At, OwnersInv
<1>2. /\ report.taskId = requests[r].taskId
      /\ report.proofBundleHash = requests[r].task.proofBundleHash
      /\ report.proofBundleHash \in Hashes
  BY <1>0, <1>1, BundleOfRequest DEF ReportOf
<1>3. Proceed(r, Idle) /\ (UNCHANGED due \/ due' = due \cup {report})
  BY <1>0 DEF maybeSettle
<1>4. CASE ReservationDue(requests[r])
  <2>1. requests[r].pc = "reserved"
    BY <1>4 DEF maybeSettle, At, MustReserve, ReservationDue, Eligible
  <2>2. Holds(consumed', report.proofBundleHash, report.taskId)
    BY <1>1, <1>2, <2>1, HoldsOnward DEF Reserving
  <2>3. \A q \in Requests : requests'[q] # Idle => Reserving(requests'[q], consumed')
    BY <1>3, ReservingWritten
  <2>4. \A p \in due : Holds(consumed', p.proofBundleHash, p.taskId)
    BY DueHold
  <2>5. \A p \in due' : Holds(consumed', p.proofBundleHash, p.taskId)
    BY <1>3, <2>2, <2>4
  <2> QED
    BY <2>3, <2>5 DEF OwnersInv
<1>5. CASE ~ReservationDue(requests[r])
  <2>1. UNCHANGED due
    BY <1>5 DEF maybeSettle
  <2> QED
    BY <1>3, <2>1, OwnersGoOn
<1> QED
  BY <1>4, <1>5

LEMMA OwnersRequestStep ==
  ASSUME ServiceInv, OwnersInv, ~lost, Grows(consumed, consumed'),
         NEW r \in Requests, RequestStep(r)
  PROVE  OwnersInv'
<1>1. ASSUME NEW new, Proceed(r, new), new.pc # "reserved", UNCHANGED due
      PROVE  OwnersInv'
  BY <1>1, OwnersGoOn DEF Reserving
<1>2. ASSUME NEW t \in TaskIds, NEW mark \in BOOLEAN, loadInputs(r, t, mark)
      PROVE  OwnersInv'
  <2> DEFINE new == [pc |-> "loaded", taskId |-> t, task |-> tasks[t], mark |-> mark,
                     verifiedAt |-> 0, reads |-> {}, verdict |-> "unknown"]
  <2>1. new.pc # "reserved" /\ Proceed(r, new) /\ UNCHANGED due
    BY <1>2 DEF loadInputs
  <2> HIDE DEF new
  <2> QED
    BY <1>1, <2>1
<1>3. ~At(r, "idle") => requests[r] \in Request
  BY CurrentRequest
<1>4. ASSUME NEW time \in LocalTimes, assertVerifierCanSign(r, time)
      PROVE  OwnersInv'
  <2> DEFINE new == [requests[r] EXCEPT !.pc = "evaluating", !.verifiedAt = time]
  <2>1. requests[r] \in Request
    BY <1>3, <1>4 DEF assertVerifierCanSign, At
  <2>2. new.pc # "reserved"
    BY <2>1 DEF Request
  <2>3. Proceed(r, new) /\ UNCHANGED due
    BY <1>4 DEF assertVerifierCanSign
  <2> HIDE DEF new
  <2> QED
    BY <1>1, <2>2, <2>3
<1>5. ASSUME NEW source, NEW found, readConsumption(r, source, found)
      PROVE  OwnersInv'
  <2> DEFINE new == [requests[r] EXCEPT !.reads = requests[r].reads \cup {source}]
  <2>1. requests[r] \in Request /\ requests[r].pc = "evaluating"
    BY <1>3, <1>5 DEF readConsumption, At
  <2>2. new.pc # "reserved"
    BY <2>1 DEF Request
  <2>3. (Proceed(r, Idle) \/ Proceed(r, new)) /\ UNCHANGED due
    BY <1>5 DEF readConsumption
  <2> HIDE DEF new
  <2>4. Idle.pc # "reserved"
    BY DEF Idle
  <2> QED
    BY <1>1, <2>2, <2>3, <2>4
<1>6. CASE verifyReceiptProofs(r)
  <2>1. PICK verdict \in Outcomes(requests[r]) :
            Proceed(r, [requests[r] EXCEPT !.verdict = verdict])
    BY <1>6 DEF verifyReceiptProofs
  <2> DEFINE new == [requests[r] EXCEPT !.verdict = verdict]
  <2>2. requests[r] \in Request /\ requests[r].pc = "evaluating"
    BY <1>3, <1>6 DEF verifyReceiptProofs, At
  <2>3. new.pc # "reserved"
    BY <2>2 DEF Request
  <2>4. Proceed(r, new) /\ UNCHANGED due
    BY <1>6, <2>1 DEF verifyReceiptProofs
  <2> HIDE DEF new
  <2> QED
    BY <1>1, <2>3, <2>4
<1>7. ASSUME NEW pc \in {"stored", "checked"},
             Proceed(r, [requests[r] EXCEPT !.pc = pc]),
             ~At(r, "idle"), UNCHANGED due
      PROVE  OwnersInv'
  <2> DEFINE new == [requests[r] EXCEPT !.pc = pc]
  <2>1. new.pc # "reserved"
    BY <1>3, <1>7 DEF Request
  <2>2. Proceed(r, new)
    BY <1>7
  <2> HIDE DEF new
  <2> QED
    BY <1>1, <1>7, <2>1, <2>2
<1>8. CASE putReport(r) \/ markConsumedCheck(r)
  BY <1>7, <1>8 DEF putReport, markConsumedCheck, At
<1>9. CASE Fail(r)
  BY <1>9, OwnersGoOn DEF Fail
<1> QED
  BY <1>2, <1>4, <1>5, <1>6, <1>8, <1>9, OwnersWrite, OwnersRelease
  DEF RequestStep, findAny, isProofBundleConsumed

\* Nothing that happens on the chain disturbs it.
LEMMA OwnersFrame ==
  ASSUME OwnersInv, UNCHANGED serviceVars
  PROVE  OwnersInv'
BY DEF serviceVars, OwnersInv

LEMMA OwnersStep ==
  ASSUME ServiceInv, OwnersInv, [ServiceNext]_allVars
  PROVE  OwnersInv'
<1>1. CASE lost'
  BY <1>1 DEF OwnersInv
<1>2. CASE ~lost'
  <2>1. ~lost /\ Grows(consumed, consumed')
    BY <1>2, RegistryGrows
  <2>2. CASE UNCHANGED serviceVars
    BY <2>2, OwnersFrame
  <2>3. CASE Restart
    <3>1. /\ UNCHANGED due /\ \A r \in Requests : requests'[r] = Idle
      BY <2>3 DEF Restart
    <3>2. \A r \in Requests : requests'[r] # Idle => Reserving(requests'[r], consumed')
      BY <3>1
    <3> QED
      BY <2>1, <3>1, <3>2, DueHold DEF OwnersInv
  <2>4. UNCHANGED allVars => UNCHANGED serviceVars
    BY DEF allVars
  <2> QED
    BY <2>1, <2>2, <2>3, <2>4, OwnersRequestStep DEF ServiceNext
<1> QED
  BY <1>1, <1>2

\* The second invariant holds in every reachable state.
THEOREM OwnersInvariance == ServiceSpec => []OwnersInv
<1>1. ServiceInit => OwnersInv
  BY DEF ServiceInit, OwnersInv
<1>2. ServiceInv /\ OwnersInv /\ [ServiceNext]_allVars => OwnersInv'
  BY OwnersStep
<1> QED
  BY <1>1, <1>2, ServiceInvariance, PTL DEF ServiceSpec

\* A proof is reserved for one task and one bundle: with either registry, two reports
\* that were to reserve a common proof before they left are on the same, for any number
\* of requests that run at the same time, fail at any await, or are cut off by a
\* restart; unless the registry overwrote or forgot a record.
THEOREM ProofsHaveOneTask == ServiceSpec => [](lost \/ ProofsBelongToOneTask)
<1>1. OwnersInv => lost \/ ProofsBelongToOneTask
  BY DEF OwnersInv, Holds, ProofsBelongToOneTask
<1> QED
  BY <1>1, OwnersInvariance, PTL

\* The database overwrites and forgets nothing: what races past the first half of
\* markConsumed is stopped by its unique constraint.
THEOREM DatabaseLosesNothing ==
  ASSUME Persistent
  PROVE  ServiceSpec => [](~lost /\ ProofsBelongToOneTask)
<1>1. ServiceInit => ~lost
  BY DEF ServiceInit, Consumption!ConsumptionInit
<1>2. ~lost /\ [ServiceNext]_allVars => ~lost'
  <2> SUFFICES ASSUME ~lost, [ServiceNext]_allVars PROVE ~lost'
    OBVIOUS
  <2>1. ASSUME NEW r \in Requests, markConsumedWrite(r) PROVE ~lost'
    BY <2>1 DEF markConsumedWrite, Consumption!writeKeys, Consumption!createMany
  <2> QED
    BY <2>1, OnlyWritesWrite
<1> QED
  BY <1>1, <1>2, ProofsHaveOneTask, PTL DEF ServiceSpec

\* The chain is not ahead of the registry: with either registry, as long as it has lost
\* nothing, a task that was ended by reports that were to reserve has all the keys of
\* its bundle.
THEOREM EndedTasksHoldTheirProofs == ServiceSpec => []EndedTasksOwnTheirProofs
<1>1. ServiceInv /\ OwnersInv => EndedTasksOwnTheirProofs
  <2> SUFFICES ASSUME ServiceInv, OwnersInv, ~lost, NEW t \in TaskIds, ByReport(tasks[t]),
                      \A report \in released : report.taskId = t => report \in due,
                      NEW k \in Bundles[tasks[t].proofBundleHash].keys
               PROVE  OwnerOf(consumed[k]) = <<t, tasks[t].proofBundleHash>>
    BY DEF EndedTasksOwnTheirProofs
  <2>1. PICK report \in released : report.taskId = t
    BY DEF ServiceInv, EndsInv, EndedBy
  <2>2. report.proofBundleHash = tasks[t].proofBundleHash
    BY <2>1 DEF ServiceInv, StoreInv, Fits
  <2>3. Holds(consumed, tasks[t].proofBundleHash, t)
    BY <2>1, <2>2 DEF OwnersInv
  <2>4. /\ consumed[k] # NoRecord
        /\ consumed[k].taskId = t
        /\ consumed[k].proofBundleHash = tasks[t].proofBundleHash
    BY <2>3 DEF Holds
  <2> QED
    BY <2>4 DEF OwnerOf
<1> QED
  BY <1>1, ServiceInvariance, OwnersInvariance, PTL

=============================================================================
