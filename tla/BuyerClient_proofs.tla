------------------------- MODULE BuyerClient_proofs -------------------------
(***************************************************************************)
(* Theorems about BuyerClient, for every value of its constants: any       *)
(* number of calls, jobs and tasks, any commitments, any orders.           *)
(***************************************************************************)
EXTENDS BuyerClient, TyrPaySettlement_proofs

-----------------------------------------------------------------------------
(* The inductive invariant.  Its parts take the slot, or the variables, as
   arguments where they speak of two states. *)

OrderedAs(task, job) ==
    /\ job \in Jobs
    /\ task.seller = Order[job].seller /\ task.token = Order[job].token
    /\ task.amount = Order[job].amount

\* The slot has a commitment that passes the validation for the job.
Accepted(task, t, job) ==
    /\ task.commitmentHash # NoHash
    /\ Validated(task, t, Commitments[task.commitmentHash], Order[job].expectations)

\* A call that works on a task works on one that exists, for the job it was created
\* for; when it has sent the funding, the task still has what was validated.
CallFits(call, ts, ordered, next) ==
    call.pc \in {"polling", "validating", "fundTask"} \cup Refunds =>
        /\ call.taskId \in TaskIds /\ call.taskId < next
        /\ ordered[call.taskId] = call.job
        /\ call.pc = "fundTask" => Accepted(ts[call.taskId], call.taskId, call.job)

BuyerInv ==
    /\ IInv
    /\ BuyerTypeOK
    /\ \A t \in TaskIds : t < nextSequence => OrderedAs(tasks[t], orderedBy[t])
    /\ \A t \in TaskIds : WasFunded(tasks[t]) => Accepted(tasks[t], t, orderedBy[t])
    /\ \A t \in known : t < nextSequence
    /\ \A c \in Calls : CallFits(calls[c], tasks, orderedBy, nextSequence)

CallValues == {Idle} \cup PayingCall \cup CheckingCall \cup AnsweredCall

-----------------------------------------------------------------------------
(* What a step keeps of the slots *)

LEMMA AcceptedKept ==
  ASSUME NEW old, NEW new, NEW t, NEW job,
         Exists(old), TermsKept(old, new), Accepted(old, t, job)
  PROVE  Accepted(new, t, job)
BY DEF TermsKept, Accepted, Validated, boundToTask

LEMMA OrderKept ==
  ASSUME NEW old, NEW new, NEW job, Exists(old), TermsKept(old, new), OrderedAs(old, job)
  PROVE  OrderedAs(new, job)
BY DEF TermsKept, OrderedAs

LEMMA CreatedExists ==
  ASSUME IInv, NEW t \in TaskIds, t < nextSequence
  PROVE  Exists(tasks[t])
BY SettlementAssumption DEF IInv, SlotsInv, GoodSlot, Exists

LEMMA FundedExists ==
  ASSUME IInv, NEW t \in TaskIds, WasFunded(tasks[t])
  PROVE  t < nextSequence
<1>1. EmptySlot.status = "INTENT_CREATED"
  BY DEF EmptySlot
<1> QED
  BY <1>1 DEF IInv, SlotsInv, WasFunded, Live, Terminal

LEMMA NextSteps == [Next]_vars => StepWith(VerificationReport)
BY NextIsStep, StepsGrow, SettlementAssumption

\* A step of the contract that adds to what is known keeps the invariant.
LEMMA StepKeeps ==
  ASSUME BuyerInv, StepWith(VerificationReport),
         BuyerTypeOK',
         nextSequence <= nextSequence',
         \A t \in TaskIds : t < nextSequence => orderedBy'[t] = orderedBy[t],
         \A t \in TaskIds : t < nextSequence' =>
             t < nextSequence \/ OrderedAs(tasks'[t], orderedBy'[t]),
         \A t \in TaskIds : WasFunded(tasks'[t]) =>
             WasFunded(tasks[t]) \/ Accepted(tasks'[t], t, orderedBy'[t]),
         \A t \in known' : t < nextSequence',
         \A c \in Calls : \/ calls'[c] = calls[c]
                          \/ CallFits(calls'[c], tasks', orderedBy', nextSequence')
  PROVE  BuyerInv'
<1>1. IInv /\ IInv'
  BY StepEffect DEF BuyerInv
<1>2. \A t \in TaskIds : TermsKept(tasks[t], tasks'[t])
  BY <1>1, StepEffect
<1>3. ASSUME NEW t \in TaskIds, t < nextSequence' PROVE OrderedAs(tasks'[t], orderedBy'[t])
  <2>1. CASE t < nextSequence
    <3>1. OrderedAs(tasks[t], orderedBy[t]) /\ orderedBy'[t] = orderedBy[t]
      BY <2>1 DEF BuyerInv
    <3> QED
      BY <3>1, <2>1, <1>1, <1>2, CreatedExists, OrderKept
  <2> QED
    BY <1>3, <2>1
<1>4. ASSUME NEW t \in TaskIds, WasFunded(tasks'[t])
      PROVE  Accepted(tasks'[t], t, orderedBy'[t])
  <2>1. CASE WasFunded(tasks[t])
    <3>1. t < nextSequence /\ Exists(tasks[t])
      BY <2>1, <1>1, FundedExists, CreatedExists
    <3>2. Accepted(tasks[t], t, orderedBy[t]) /\ orderedBy'[t] = orderedBy[t]
      BY <2>1, <3>1 DEF BuyerInv
    <3> QED
      BY <3>1, <3>2, <1>2, AcceptedKept
  <2> QED
    BY <1>4, <2>1
<1>5. ASSUME NEW c \in Calls PROVE CallFits(calls'[c], tasks', orderedBy', nextSequence')
  <2> SUFFICES ASSUME calls'[c] = calls[c]
               PROVE  CallFits(calls[c], tasks', orderedBy', nextSequence')
    BY <1>5
  <2> DEFINE call == calls[c]
  <2> SUFFICES ASSUME call.pc \in {"polling", "validating", "fundTask"} \cup Refunds
               PROVE  /\ call.taskId \in TaskIds /\ call.taskId < nextSequence'
                      /\ orderedBy'[call.taskId] = call.job
                      /\ call.pc = "fundTask" =>
                             Accepted(tasks'[call.taskId], call.taskId, call.job)
    BY DEF CallFits
  <2>1. /\ call.taskId \in TaskIds /\ call.taskId < nextSequence
        /\ orderedBy[call.taskId] = call.job
        /\ call.pc = "fundTask" => Accepted(tasks[call.taskId], call.taskId, call.job)
    BY DEF BuyerInv, CallFits
  <2>2. Exists(tasks[call.taskId])
    BY <2>1, <1>1, CreatedExists
  <2>3. call.taskId < nextSequence'
    BY <2>1, <1>1 DEF IInv, TypeOK, TaskIds
  <2> HIDE DEF call
  <2> QED
    BY <2>1, <2>2, <2>3, <1>2, AcceptedKept
<1> QED
  BY <1>1, <1>3, <1>4, <1>5 DEF BuyerInv

\* A step that leaves the chain alone and moves one call.
LEMMA LocalStepKeeps ==
  ASSUME BuyerInv, UNCHANGED <<vars, orderedBy>>,
         NEW c \in Calls, NEW new \in CallValues,
         calls' = [calls EXCEPT ![c] = new],
         CallFits(new, tasks, orderedBy, nextSequence),
         unposted' \in SUBSET Jobs,
         \A t \in known' : t \in TaskIds /\ t < nextSequence
  PROVE  BuyerInv'
<1>1. UNCHANGED <<tasks, nextSequence, orderedBy>>
  BY DEF vars
<1>2. calls \in [Calls -> CallValues]
  BY DEF BuyerInv, BuyerTypeOK, CallValues
<1>3. calls' \in [Calls -> CallValues]
  BY <1>2
<1>4. BuyerTypeOK'
  BY <1>1, <1>3 DEF BuyerInv, BuyerTypeOK, CallValues
<1>5. \A d \in Calls : calls'[d] = calls[d]
                         \/ CallFits(calls'[d], tasks', orderedBy', nextSequence')
  BY <1>1, <1>2
<1>6. nextSequence <= nextSequence'
  BY <1>1 DEF BuyerInv, IInv, TypeOK
<1> QED
  BY <1>1, <1>4, <1>5, <1>6, StepKeeps, NextSteps

-----------------------------------------------------------------------------
(* The steps of a call that leave the chain alone *)

LEMMA IdleFits ==
  /\ Idle \in CallValues
  /\ \A ts, ordered, next : CallFits(Idle, ts, ordered, next)
BY DEF Idle, CallFits, Refunds, CallValues

LEMMA BuyerValues ==
  ASSUME BuyerInv
  PROVE  /\ calls \in [Calls -> CallValues] /\ unposted \in SUBSET Jobs
         /\ orderedBy \in [TaskIds -> Jobs \cup {NoJob}]
         /\ tasks \in [TaskIds -> Task]
         /\ \A t \in known : t \in TaskIds /\ t < nextSequence /\ orderedBy[t] \in Jobs
BY DEF BuyerInv, BuyerTypeOK, CallValues, OrderedAs, IInv, TypeOK

\* What kind of record a call is, by where it is.
LEMMA PayingCalls ==
  ASSUME BuyerInv, NEW c \in Calls,
         calls[c].pc \in {"polling", "validating"} \cup Transactions
  PROVE  calls[c] \in PayingCall
<1>1. calls[c] \in CallValues
  BY BuyerValues
<1>2. Idle.pc = "idle"
  BY DEF Idle
<1> QED
  BY <1>1, <1>2 DEF CallValues, CheckingCall, AnsweredCall, Transactions, Refunds

LEMMA CheckingCalls ==
  ASSUME BuyerInv, NEW c \in Calls, calls[c].pc = "checking"
  PROVE  calls[c] \in CheckingCall
<1>1. calls[c] \in CallValues
  BY BuyerValues
<1>2. Idle.pc = "idle"
  BY DEF Idle
<1> QED
  BY <1>1, <1>2 DEF CallValues, PayingCall, AnsweredCall, Transactions, Refunds

LEMMA AnswerFits ==
  ASSUME NEW t \in TaskIds, NEW asked \in Status, NEW status \in BuyerUserStatus
  PROVE  LET answer == [pc |-> "answered", taskId |-> t, asked |-> asked, status |-> status]
         IN  /\ answer \in CallValues
             /\ \A ts, ordered, next : CallFits(answer, ts, ordered, next)
BY DEF CallValues, AnsweredCall, CallFits, Refunds

LEMMA PostStep ==
  ASSUME BuyerInv, NEW c \in Calls, NEW job \in Jobs, postTask(c, job)
  PROVE  BuyerInv'
<1> DEFINE new == [pc |-> "createTaskIntent", job |-> job, taskId |-> 0, waits |-> TRUE]
<1>1. new \in CallValues
  BY DEF CallValues, PayingCall, Transactions
<1>2. CallFits(new, tasks, orderedBy, nextSequence)
  BY DEF CallFits, Refunds
<1>3. calls' = [calls EXCEPT ![c] = new]
  BY DEF postTask, Proceed
<1>4. UNCHANGED <<vars, orderedBy>> /\ known' = known /\ unposted' = unposted \ {job}
  BY DEF postTask
<1> HIDE DEF new
<1>5. unposted' \in SUBSET Jobs /\ \A t \in known' : t \in TaskIds /\ t < nextSequence
  BY <1>4, BuyerValues
<1> QED
  BY <1>1, <1>2, <1>3, <1>4, <1>5, LocalStepKeeps

\* A call that stays with its task and goes on to another step.
LEMMA CallMoves ==
  ASSUME BuyerInv, NEW c \in Calls,
         calls[c].pc \in {"polling", "validating"},
         NEW pc \in {"validating", "fundTask"},
         pc = "fundTask" =>
             Accepted(tasks[calls[c].taskId], calls[c].taskId, orderedBy[calls[c].taskId]),
         Proceed(c, [calls[c] EXCEPT !.pc = pc]),
         UNCHANGED <<vars, unposted, orderedBy, known>>
  PROVE  BuyerInv'
<1> DEFINE new == [calls[c] EXCEPT !.pc = pc]
<1>1. calls[c] \in PayingCall
  BY PayingCalls
<1>2. new \in CallValues
  BY <1>1 DEF CallValues, PayingCall, Transactions
<1>3. new.taskId = calls[c].taskId /\ new.job = calls[c].job /\ new.pc = pc
  BY <1>1 DEF PayingCall
<1>4. CallFits(calls[c], tasks, orderedBy, nextSequence)
  BY DEF BuyerInv
<1>5. calls' = [calls EXCEPT ![c] = new]
  BY DEF Proceed
<1> HIDE DEF new
<1>6. CallFits(new, tasks, orderedBy, nextSequence)
  BY <1>3, <1>4 DEF CallFits
<1> QED
  BY <1>2, <1>5, <1>6, BuyerValues, LocalStepKeeps

LEMMA PollStep ==
  ASSUME BuyerInv, NEW c \in Calls, pollCommitted(c)
  PROVE  BuyerInv'
BY CallMoves DEF pollCommitted, At

\* The validation is what the invariant says of a call that has sent the funding.
LEMMA ValidateStep ==
  ASSUME BuyerInv, NEW c \in Calls, validateCommitment(c)
  PROVE  BuyerInv'
<1>1. calls[c].pc = "validating"
  BY DEF validateCommitment, At
<1>2. orderedBy[calls[c].taskId] = calls[c].job
  BY <1>1 DEF BuyerInv, CallFits
<1>3. Accepted(tasks[calls[c].taskId], calls[c].taskId, orderedBy[calls[c].taskId])
  BY <1>2 DEF validateCommitment, Accepted
<1>4. /\ Proceed(c, [calls[c] EXCEPT !.pc = "fundTask"])
      /\ UNCHANGED <<vars, unposted, orderedBy, known>>
  BY DEF validateCommitment
<1> QED
  BY <1>1, <1>3, <1>4, CallMoves

LEMMA TimeoutStep ==
  ASSUME BuyerInv, NEW c \in Calls, pollTimedOut(c)
  PROVE  BuyerInv'
<1> DEFINE t == calls[c].taskId
           new == [pc |-> "answered", taskId |-> t, asked |-> tasks[t].status,
                   status |-> "WAITING_FOR_SELLER"]
<1>1. t \in TaskIds /\ t < nextSequence
  BY DEF BuyerInv, CallFits, pollTimedOut, At
<1>2. tasks[t].status \in Status /\ "WAITING_FOR_SELLER" \in BuyerUserStatus
  BY <1>1, BuyerValues DEF Task, BuyerUserStatus
<1>3. /\ calls' = [calls EXCEPT ![c] = new] /\ known' = known \cup {t}
      /\ UNCHANGED <<vars, unposted, orderedBy>>
  BY DEF pollTimedOut, Answer, Proceed
<1>4. new \in CallValues /\ CallFits(new, tasks, orderedBy, nextSequence)
  BY <1>1, <1>2, AnswerFits
<1> HIDE DEF new, t
<1>5. unposted' \in SUBSET Jobs /\ \A u \in known' : u \in TaskIds /\ u < nextSequence
  BY <1>1, <1>3, BuyerValues
<1> QED
  BY <1>3, <1>4, <1>5, LocalStepKeeps

\* The fund and the refund tool begin, for a task whose id the agent has.
LEMMA BeginStep ==
  ASSUME BuyerInv, NEW c \in Calls, NEW t \in TaskIds,
         fundTaskTool(c, t) \/ \E reason \in Refunds : refundTaskTool(c, t, reason)
  PROVE  BuyerInv'
<1>1. PICK pc \in {"validating"} \cup Refunds :
          /\ t \in known
          /\ calls' = [calls EXCEPT ![c] =
                 [pc |-> pc, job |-> orderedBy[t], taskId |-> t, waits |-> TRUE]]
          /\ UNCHANGED <<vars, unposted, orderedBy, known>>
  BY DEF fundTaskTool, refundTaskTool, Proceed
<1> DEFINE new == [pc |-> pc, job |-> orderedBy[t], taskId |-> t, waits |-> TRUE]
<1>2. t < nextSequence /\ orderedBy[t] \in Jobs
  BY <1>1, BuyerValues
<1>3. new \in CallValues
  BY <1>2 DEF CallValues, PayingCall, Transactions
<1>4. CallFits(new, tasks, orderedBy, nextSequence)
  BY <1>2 DEF CallFits, Refunds
<1> HIDE DEF new
<1>5. calls' = [calls EXCEPT ![c] = new]
  BY <1>1 DEF new
<1> QED
  BY <1>1, <1>3, <1>4, <1>5, BuyerValues, LocalStepKeeps

\* A check has no claim on the slots, and an answer neither.
LEMMA CheckFits ==
  ASSUME NEW call \in CheckingCall
  PROVE  call \in CallValues /\ \A ts, ordered, next : CallFits(call, ts, ordered, next)
BY DEF CallValues, CheckingCall, CallFits, Refunds

\* A call that goes on as a check, as an answer or not at all, and changes nothing else.
LEMMA QuietStep ==
  ASSUME BuyerInv, NEW c \in Calls, NEW new \in CallValues,
         \A ts, ordered, next : CallFits(new, ts, ordered, next),
         Proceed(c, new), UNCHANGED <<vars, orderedBy, known>>,
         unposted' \in SUBSET Jobs
  PROVE  BuyerInv'
<1>1. calls' = [calls EXCEPT ![c] = new]
  BY DEF Proceed
<1>2. \A t \in known' : t \in TaskIds /\ t < nextSequence
  BY BuyerValues
<1> QED
  BY <1>1, <1>2, LocalStepKeeps

LEMMA DerivedType ==
  ASSUME NEW task \in Task PROVE DerivedStatus(task) \in DerivedTaskStatus
BY DEF DerivedStatus, DerivedTaskStatus, Task

LEMMA ToldType ==
  ASSUME NEW task \in Task, NEW derived \in DerivedTaskStatus
  PROVE  mapBuyerUserStatus(task, derived) \in BuyerUserStatus
<1>1. task.status \in Status
  BY DEF Task
<1>2. CASE derived \in {"EXPIRED", "VERIFIED"}
  <2>1. mapBuyerUserStatus(task, derived) = derived
    BY <1>2 DEF mapBuyerUserStatus
  <2> QED
    BY <1>2, <2>1 DEF BuyerUserStatus
<1>3. CASE derived \notin {"EXPIRED", "VERIFIED"}
  BY <1>1, <1>3 DEF mapBuyerUserStatus, BuyerUserStatus, Status
<1> QED
  BY <1>2, <1>3

LEMMA CheckStep ==
  ASSUME BuyerInv, NEW c \in Calls, NEW t \in TaskIds, checkTask(c, t)
  PROVE  BuyerInv'
<1> DEFINE new == [pc |-> "checking", taskId |-> t, asked |-> tasks[t].status,
                   task |-> Unread, pending |-> Unread, derived |-> "unknown"]
<1>1. new \in CheckingCall
  BY BuyerValues DEF CheckingCall, Task
<1>2. Proceed(c, new) /\ UNCHANGED <<vars, orderedBy, known>> /\ unposted' = unposted
  BY DEF checkTask
<1> HIDE DEF new
<1> QED
  BY <1>1, <1>2, CheckFits, QuietStep, BuyerValues

LEMMA ReadTaskStep ==
  ASSUME BuyerInv, NEW c \in Calls, getTask(c)
  PROVE  BuyerInv'
<1> DEFINE new == [calls[c] EXCEPT !.task = tasks[calls[c].taskId]]
<1>1. calls[c] \in CheckingCall
  BY CheckingCalls DEF getTask, At
<1>2. new \in CheckingCall
  BY <1>1, BuyerValues DEF CheckingCall
<1>3. Proceed(c, new) /\ UNCHANGED <<vars, orderedBy, known>> /\ unposted' = unposted
  BY DEF getTask
<1> HIDE DEF new
<1> QED
  BY <1>2, <1>3, CheckFits, QuietStep, BuyerValues

LEMMA ReadStatusStep ==
  ASSUME BuyerInv, NEW c \in Calls, getTaskStatus(c)
  PROVE  BuyerInv'
<1> DEFINE task == tasks[calls[c].taskId]
           later == [calls[c] EXCEPT !.pending = task]
           at == [calls[c] EXCEPT !.derived = DerivedStatus(task)]
<1>1. calls[c] \in CheckingCall
  BY CheckingCalls DEF getTaskStatus, At
<1>2. task \in Task
  BY <1>1, BuyerValues DEF CheckingCall
<1>3. DerivedStatus(task) \in DerivedTaskStatus
  BY <1>2, DerivedType
<1>4. later \in CheckingCall /\ at \in CheckingCall
  <2> HIDE DEF task
  <2> QED
    BY <1>1, <1>2, <1>3 DEF CheckingCall
<1>5. /\ Proceed(c, later) \/ Proceed(c, at)
      /\ UNCHANGED <<vars, orderedBy, known>> /\ unposted' = unposted
  BY DEF getTaskStatus
<1> HIDE DEF later, at
<1> QED
  BY <1>4, <1>5, CheckFits, QuietStep, BuyerValues

LEMMA ReadTimeStep ==
  ASSUME BuyerInv, NEW c \in Calls, currentTimeMs(c)
  PROVE  BuyerInv'
<1>1. calls[c] \in CheckingCall /\ calls[c].pending # Unread
  BY CheckingCalls DEF currentTimeMs, At
<1>2. calls[c].pending.status \in Status
  BY <1>1 DEF CheckingCall, Task
<1>3. PICK derived \in {"EXPIRED", calls[c].pending.status} :
          /\ Proceed(c, [calls[c] EXCEPT !.derived = derived])
          /\ UNCHANGED <<vars, orderedBy, known>> /\ unposted' = unposted
  BY DEF currentTimeMs
<1> DEFINE new == [calls[c] EXCEPT !.derived = derived]
<1>4. derived \in DerivedTaskStatus
  BY <1>2, <1>3 DEF DerivedTaskStatus
<1>5. new \in CheckingCall
  BY <1>1, <1>4 DEF CheckingCall
<1>6. Proceed(c, new)
  BY <1>3
<1> HIDE DEF new
<1> QED
  BY <1>3, <1>5, <1>6, CheckFits, QuietStep, BuyerValues

LEMMA AnswerStep ==
  ASSUME BuyerInv, NEW c \in Calls, answerCheck(c)
  PROVE  BuyerInv'
<1> DEFINE status == mapBuyerUserStatus(calls[c].task, calls[c].derived)
           new == [pc |-> "answered", taskId |-> calls[c].taskId,
                   asked |-> calls[c].asked, status |-> status]
<1>1. calls[c] \in CheckingCall /\ calls[c].task # Unread /\ calls[c].derived # "unknown"
  BY CheckingCalls DEF answerCheck, At
<1>2. calls[c].task \in Task /\ calls[c].derived \in DerivedTaskStatus
  BY <1>1 DEF CheckingCall
<1>3. status \in BuyerUserStatus
  BY <1>2, ToldType
<1>4. Proceed(c, new) /\ UNCHANGED <<vars, orderedBy, known>> /\ unposted' = unposted
  BY DEF answerCheck, Answer
<1> HIDE DEF status
<1>5. new \in CallValues /\ \A ts, ordered, next : CallFits(new, ts, ordered, next)
  BY <1>1, <1>3, AnswerFits DEF CheckingCall
<1> HIDE DEF new
<1> QED
  BY <1>4, <1>5, QuietStep, BuyerValues

LEMMA JobsReopened ==
  ASSUME BuyerInv, NEW c \in Calls, calls[c].pc # "idle", calls[c].pc # "answered",
         unposted' \in AfterError(calls[c])
  PROVE  unposted' \in SUBSET Jobs
<1>1. CASE calls[c].pc = "checking"
  BY <1>1, BuyerValues DEF AfterError, IsPost
<1>2. CASE calls[c].pc # "checking"
  <2>1. calls[c] \in CallValues
    BY BuyerValues
  <2>2. calls[c] \in PayingCall
    BY <1>2, <2>1 DEF CallValues, Idle, CheckingCall, AnsweredCall
  <2>3. calls[c].job \in Jobs
    BY <2>2 DEF PayingCall
  <2> QED
    BY <2>3, BuyerValues DEF AfterError
<1> QED
  BY <1>1, <1>2

LEMMA FailStep ==
  ASSUME BuyerInv, NEW c \in Calls, Fail(c) \/ Dismiss(c)
  PROVE  BuyerInv'
<1>1. unposted' \in SUBSET Jobs
  BY JobsReopened, BuyerValues DEF Fail, Dismiss, At
<1>2. Proceed(c, Idle) /\ UNCHANGED <<vars, orderedBy, known>>
  BY DEF Fail, Dismiss
<1> QED
  BY <1>1, <1>2, IdleFits, QuietStep

\* The transaction of an abandoned call stays what it was.
LEMMA AbandonStep ==
  ASSUME BuyerInv, NEW c \in Calls, Abandon(c)
  PROVE  BuyerInv'
<1> DEFINE new == [calls[c] EXCEPT !.waits = FALSE]
<1>1. calls[c].pc \in Transactions
  BY DEF Abandon
<1>2. calls[c] \in PayingCall
  BY <1>1, PayingCalls
<1>3. unposted' \in SUBSET Jobs
  BY <1>1, JobsReopened DEF Abandon, Transactions, Refunds
<1>4. new \in CallValues
  BY <1>2 DEF CallValues, PayingCall
<1>5. new.pc = calls[c].pc /\ new.taskId = calls[c].taskId /\ new.job = calls[c].job
  BY <1>2 DEF PayingCall
<1>6. calls' = [calls EXCEPT ![c] = new] /\ UNCHANGED <<vars, orderedBy, known>>
  BY DEF Abandon, Proceed
<1> HIDE DEF new
<1>7. CallFits(new, tasks, orderedBy, nextSequence)
  BY <1>5 DEF BuyerInv, CallFits
<1> QED
  BY <1>3, <1>4, <1>6, <1>7, BuyerValues, LocalStepKeeps

-----------------------------------------------------------------------------
(* The steps that change the chain *)

\* A write to one slot that is not the funding of a task funds none.
LEMMA OthersUnfunded ==
  ASSUME TypeOK, NEW t \in TaskIds, NEW new, tasks' = [tasks EXCEPT ![t] = new],
         WasFunded(new) => WasFunded(tasks[t])
  PROVE  \A u \in TaskIds : WasFunded(tasks'[u]) => WasFunded(tasks[u])
<1>1. \A u \in TaskIds : tasks'[u] = IF u = t THEN new ELSE tasks[u]
  BY DEF TypeOK
<1> QED
  BY <1>1

LEMMA CreatedStep ==
  ASSUME BuyerInv, NEW c \in Calls, NEW createOnly \in BOOLEAN, taskCreated(c, createOnly)
  PROVE  BuyerInv'
<1> DEFINE call == calls[c]
           order == Order[call.job]
           n == nextSequence
           made == Created(tasks[n], Buyer, order.seller, order.token, order.amount,
                           order.deadlineMs)
           answer == [pc |-> "answered", taskId |-> n, asked |-> "INTENT_CREATED",
                      status |-> "WAITING_FOR_SELLER"]
           poll == [call EXCEPT !.pc = "polling", !.taskId = n]
<1>1. call \in PayingCall /\ call.job \in Jobs
  <2>1. call \in PayingCall
    BY PayingCalls DEF taskCreated, At, Transactions
  <2> QED
    BY <2>1 DEF PayingCall
<1>2. /\ order.seller \in Accounts /\ order.token \in Tokens
      /\ order.amount \in Amounts /\ order.deadlineMs \in Deadlines
  BY <1>1, BuyerAssumption DEF Orders
<1>3. createTaskIntent(Buyer, order.seller, order.token, order.amount, order.deadlineMs)
  BY DEF taskCreated
<1>4. [Next]_vars
  BY <1>2, <1>3, BuyerAssumption DEF Next
<1>5. n \in TaskIds /\ nextSequence' = n + 1 /\ tasks' = [tasks EXCEPT ![n] = made]
  BY <1>3 DEF createTaskIntent
<1>6. TypeOK /\ n \in Nat
  BY <1>5 DEF BuyerInv, IInv, TaskIds
<1>7. orderedBy' = [orderedBy EXCEPT ![n] = call.job] /\ unposted' = unposted
  BY DEF taskCreated
<1>8. orderedBy' \in [TaskIds -> Jobs \cup {NoJob}] /\ orderedBy'[n] = call.job
      /\ \A t \in TaskIds : t # n => orderedBy'[t] = orderedBy[t]
  BY <1>1, <1>5, <1>7, BuyerValues
<1>9. tasks'[n] = made
  BY <1>5, <1>6 DEF TypeOK
<1>10. tasks[n] \in Task
  BY <1>5, <1>6 DEF TypeOK
<1>11. /\ made.status = "INTENT_CREATED" /\ made.seller = order.seller
       /\ made.token = order.token /\ made.amount = order.amount
  <2> HIDE DEF order, call, n
  <2> QED
    BY <1>10 DEF Created, Task
<1>12. OrderedAs(tasks'[n], orderedBy'[n])
  BY <1>1, <1>8, <1>9, <1>11 DEF OrderedAs
<1>13. \A u \in TaskIds : WasFunded(tasks'[u]) => WasFunded(tasks[u])
  <2>1. ~WasFunded(made)
    BY <1>11 DEF WasFunded, Live, Terminal
  <2> HIDE DEF made, n
  <2> QED
    BY <1>5, <1>6, <2>1, OthersUnfunded
<1>14. known' \in {known, known \cup {n}}
  BY DEF taskCreated
<1>15. PICK new \in {answer, poll, Idle} : calls' = [calls EXCEPT ![c] = new]
  BY DEF taskCreated, Answer, Proceed
<1>16. answer \in CallValues
       /\ CallFits(answer, tasks', orderedBy', nextSequence')
  <2>1. "INTENT_CREATED" \in Status /\ "WAITING_FOR_SELLER" \in BuyerUserStatus
    BY DEF Status, BuyerUserStatus
  <2> QED
    BY <1>5, <2>1, AnswerFits
<1>17. poll \in CallValues /\ CallFits(poll, tasks', orderedBy', nextSequence')
  <2> HIDE DEF call, n
  <2>1. poll \in PayingCall /\ poll.pc = "polling" /\ poll.taskId = n
        /\ poll.job = call.job
    BY <1>1, <1>5 DEF PayingCall
  <2> HIDE DEF poll
  <2> QED
    BY <1>5, <1>6, <1>8, <2>1 DEF CallValues, CallFits
<1>18. new \in CallValues /\ CallFits(new, tasks', orderedBy', nextSequence')
  BY <1>15, <1>16, <1>17, IdleFits
<1> HIDE DEF made, answer, poll, order, call
<1>19. calls' \in [Calls -> CallValues]
       /\ \A d \in Calls : calls'[d] = calls[d]
              \/ CallFits(calls'[d], tasks', orderedBy', nextSequence')
  BY <1>15, <1>18, BuyerValues
<1>20. \A t \in known' : t \in TaskIds /\ t < nextSequence'
  BY <1>5, <1>6, <1>14, BuyerValues DEF TaskIds
<1>21. BuyerTypeOK'
  BY <1>7, <1>8, <1>19, <1>20, BuyerValues DEF BuyerTypeOK, CallValues
<1>22. \A t \in TaskIds : t < nextSequence' => t < n \/ t = n
  BY <1>5, <1>6 DEF TaskIds
<1>23. nextSequence <= nextSequence' /\ \A t \in TaskIds : t < n => t # n
  BY <1>5, <1>6 DEF TaskIds
<1> QED
  BY <1>4, <1>8, <1>12, <1>13, <1>19, <1>20, <1>21, <1>22, <1>23, StepKeeps, NextSteps

\* What was validated is still in the slot when the funding is mined.
LEMMA FundedStep ==
  ASSUME BuyerInv, NEW c \in Calls, taskFunded(c)
  PROVE  BuyerInv'
<1> DEFINE call == calls[c]
           t == call.taskId
           answer == [pc |-> "answered", taskId |-> t, asked |-> tasks[t].status,
                      status |-> "IN_PROGRESS"]
<1>1. /\ t \in TaskIds /\ t < nextSequence
      /\ orderedBy[t] = call.job /\ Accepted(tasks[t], t, call.job)
  BY DEF BuyerInv, CallFits, taskFunded, At
<1>2. fundTask(Buyer, t)
  BY DEF taskFunded
<1>3. [Next]_vars
  BY <1>1, <1>2, BuyerAssumption DEF Next, TaskStep
<1>4. /\ tasks' = [tasks EXCEPT ![t] = Funded(tasks[t])]
      /\ nextSequence' = nextSequence /\ Exists(tasks[t])
  BY <1>2 DEF fundTask, InState
<1>5. TermsKept(tasks[t], tasks'[t])
  BY <1>1, <1>3, TermsKeptByStep DEF BuyerInv
<1>6. UNCHANGED <<unposted, orderedBy>> /\ known' \in {known, known \cup {t}}
  BY DEF taskFunded
<1>7. Accepted(tasks'[t], t, orderedBy'[t])
  BY <1>1, <1>4, <1>5, <1>6, AcceptedKept
<1>8. \A u \in TaskIds : u # t => tasks'[u] = tasks[u]
  BY <1>1, <1>4, BuyerValues
<1>9. PICK new \in {answer, Idle} : calls' = [calls EXCEPT ![c] = new]
  BY DEF taskFunded, Answer, Proceed
<1>10. answer \in CallValues /\ CallFits(answer, tasks', orderedBy', nextSequence')
  <2>1. tasks[t].status \in Status /\ "IN_PROGRESS" \in BuyerUserStatus
    BY <1>1, BuyerValues DEF Task, BuyerUserStatus
  <2> QED
    BY <1>1, <2>1, AnswerFits
<1>11. new \in CallValues /\ CallFits(new, tasks', orderedBy', nextSequence')
  BY <1>9, <1>10, IdleFits
<1> HIDE DEF answer, t, call
<1>12. calls' \in [Calls -> CallValues]
       /\ \A d \in Calls : calls'[d] = calls[d]
              \/ CallFits(calls'[d], tasks', orderedBy', nextSequence')
  BY <1>9, <1>11, BuyerValues
<1>13. \A u \in known' : u \in TaskIds /\ u < nextSequence'
  BY <1>1, <1>4, <1>6, BuyerValues
<1>14. BuyerTypeOK'
  BY <1>6, <1>12, <1>13, BuyerValues DEF BuyerTypeOK, CallValues
<1>15. nextSequence <= nextSequence'
  BY <1>4 DEF BuyerInv, IInv, TypeOK
<1> QED
  BY <1>3, <1>4, <1>6, <1>7, <1>8, <1>12, <1>13, <1>14, <1>15, StepKeeps, NextSteps

\* A step of the contract that creates and funds nothing, with at most one call ended.
LEMMA OtherStepKeeps ==
  ASSUME BuyerInv, StepWith(VerificationReport), nextSequence' = nextSequence,
         UNCHANGED <<unposted, orderedBy, known>>,
         \A u \in TaskIds : WasFunded(tasks'[u]) => WasFunded(tasks[u]),
         calls' = calls \/ \E c \in Calls : calls' = [calls EXCEPT ![c] = Idle]
  PROVE  BuyerInv'
<1>1. calls' \in [Calls -> CallValues]
      /\ \A d \in Calls : calls'[d] = calls[d] \/ calls'[d] = Idle
  BY BuyerValues, IdleFits
<1>2. \A d \in Calls : calls'[d] = calls[d]
          \/ CallFits(calls'[d], tasks', orderedBy', nextSequence')
  BY <1>1, IdleFits
<1>3. BuyerTypeOK'
  BY <1>1 DEF BuyerInv, BuyerTypeOK, CallValues
<1>4. nextSequence <= nextSequence' /\ \A u \in known' : u < nextSequence'
  BY DEF BuyerInv, IInv, TypeOK
<1> QED
  BY <1>2, <1>3, <1>4, StepKeeps

LEMMA RefundFundsNothing ==
  ASSUME BuyerInv, NEW t \in TaskIds,
         \/ refundAfterProofSubmissionDeadline(t)
         \/ refundAfterVerificationTimeout(t)
  PROVE  /\ [Next]_vars /\ nextSequence' = nextSequence
         /\ \A u \in TaskIds : WasFunded(tasks'[u]) => WasFunded(tasks[u])
<1>1. [Next]_vars
  BY DEF Next
<1>2. /\ tasks' = [tasks EXCEPT ![t] = Refunded(tasks[t])]
      /\ nextSequence' = nextSequence /\ WasFunded(tasks[t])
  BY DEF refundAfterProofSubmissionDeadline, refundAfterVerificationTimeout, InState,
         WasFunded, Live
<1>3. TypeOK
  BY DEF BuyerInv, IInv
<1> QED
  BY <1>1, <1>2, <1>3, OthersUnfunded

LEMMA RefundedStep ==
  ASSUME BuyerInv, NEW c \in Calls, taskRefunded(c)
  PROVE  BuyerInv'
<1> DEFINE t == calls[c].taskId
<1>1. t \in TaskIds
  BY DEF BuyerInv, CallFits, taskRefunded, At, Refunds
<1>2. refundAfterProofSubmissionDeadline(t) \/ refundAfterVerificationTimeout(t)
  BY DEF taskRefunded
<1>3. calls' = [calls EXCEPT ![c] = Idle] /\ UNCHANGED <<unposted, orderedBy, known>>
  BY DEF taskRefunded, Proceed
<1> HIDE DEF t
<1> QED
  BY <1>1, <1>2, <1>3, RefundFundsNothing, OtherStepKeeps, NextSteps

\* What the others do on the chain, whatever report they bring, funds nothing.
OthersStep(reports) ==
    \/ \E caller \in Accounts, t \in TaskIds, hash \in Hashes :
           submitCommitment(caller, t, hash) \/ submitProofBundle(caller, t, hash)
    \/ \E report \in reports : settle(report)
    \/ \E t \in TaskIds :
           \/ refundAfterProofSubmissionDeadline(t)
           \/ refundAfterVerificationTimeout(t)
    \/ RegistryStep
    \/ Tick

LEMMA OthersFundNothing ==
  ASSUME BuyerInv, NEW reports \in SUBSET VerificationReport, OthersStep(reports)
  PROVE  /\ StepWith(reports) /\ nextSequence' = nextSequence
         /\ \A u \in TaskIds : WasFunded(tasks'[u]) => WasFunded(tasks[u])
<1> DEFINE Quiet == /\ nextSequence' = nextSequence
                    /\ \A u \in TaskIds : WasFunded(tasks'[u]) => WasFunded(tasks[u])
<1>1. TypeOK
  BY DEF BuyerInv, IInv
<1>2. ASSUME NEW caller \in Accounts, NEW t \in TaskIds, NEW hash \in Hashes,
             submitCommitment(caller, t, hash)
      PROVE  Quiet
  <2>1. tasks' = [tasks EXCEPT ![t] = Committed(tasks[t], hash)]
        /\ nextSequence' = nextSequence
    BY <1>2 DEF submitCommitment
  <2>2. tasks[t] \in Task
    BY BuyerValues
  <2>3. ~WasFunded(Committed(tasks[t], hash))
    BY <2>2 DEF Committed, WasFunded, Live, Terminal, Task
  <2> QED
    BY <1>1, <2>1, <2>3, OthersUnfunded
<1>3. ASSUME NEW caller \in Accounts, NEW t \in TaskIds, NEW hash \in Hashes,
             submitProofBundle(caller, t, hash)
      PROVE  Quiet
  <2>1. /\ tasks' = [tasks EXCEPT ![t] = Proven(tasks[t], hash)]
        /\ nextSequence' = nextSequence /\ WasFunded(tasks[t])
    BY <1>3 DEF submitProofBundle, AwaitsProof, InState, WasFunded, Live
  <2> QED
    BY <1>1, <2>1, OthersUnfunded
<1>4. ASSUME NEW report \in reports, settle(report) PROVE Quiet
  <2>1. report.taskId \in TaskIds
    BY DEF VerificationReport
  <2>2. /\ tasks' = [tasks EXCEPT ![report.taskId] =
                         Reported(tasks[report.taskId], report)]
        /\ nextSequence' = nextSequence /\ WasFunded(tasks[report.taskId])
    BY <1>4 DEF settle, InState, WasFunded, Live
  <2> QED
    BY <1>1, <2>1, <2>2, OthersUnfunded
<1>5. ASSUME RegistryStep \/ Tick PROVE Quiet
  <2>1. UNCHANGED <<tasks, nextSequence>>
    BY <1>5 DEF RegistryStep, Tick, contractVars
  <2> QED
    BY <2>1
<1>6. Quiet
  BY <1>2, <1>3, <1>4, <1>5, RefundFundsNothing DEF OthersStep
<1>7. StepWith(reports)
  <2>1. ASSUME NEW caller \in Accounts, NEW t \in TaskIds, NEW hash \in Hashes,
               submitCommitment(caller, t, hash) \/ submitProofBundle(caller, t, hash)
        PROVE  TaskStep(caller, t)
    BY <2>1 DEF TaskStep
  <2>2. CASE RegistryStep \/ Tick
    BY <2>2 DEF StepWith, WithoutReport
  <2>3. ASSUME NEW t \in TaskIds,
               \/ refundAfterProofSubmissionDeadline(t)
               \/ refundAfterVerificationTimeout(t)
        PROVE  WithoutReport
    BY <2>3 DEF WithoutReport
  <2>4. ASSUME NEW caller \in Accounts, NEW t \in TaskIds, TaskStep(caller, t)
        PROVE  WithoutReport
    BY <2>4 DEF WithoutReport
  <2> QED
    BY <2>1, <2>2, <2>3, <2>4 DEF OthersStep, StepWith
<1> QED
  BY <1>6, <1>7

LEMMA ChainStepKeeps ==
  ASSUME BuyerInv, ChainStep, UNCHANGED buyerVars
  PROVE  BuyerInv'
<1>1. OthersStep(SignedReports)
  BY DEF ChainStep, OthersStep
<1>2. UNCHANGED <<calls, unposted, orderedBy, known>>
  BY DEF buyerVars
<1>3. /\ StepWith(SignedReports) /\ nextSequence' = nextSequence
      /\ \A u \in TaskIds : WasFunded(tasks'[u]) => WasFunded(tasks[u])
  BY <1>1, OthersFundNothing, SettlementAssumption
<1>4. StepWith(VerificationReport)
  BY <1>3, StepsGrow, SettlementAssumption
<1> QED
  BY <1>2, <1>3, <1>4, OtherStepKeeps

-----------------------------------------------------------------------------
(* The theorems *)

LEMMA BuyerStart == BuyerInit => BuyerInv
<1> SUFFICES ASSUME BuyerInit PROVE BuyerInv
  OBVIOUS
<1>1. TypeOK
  <2>1. blockTimestamp \in Nat /\ nextSequence \in 1..(MaxTasks + 1)
    BY SettlementAssumption DEF BuyerInit
  <2>2. tasks \in [TaskIds -> Task]
    BY EmptySlotType DEF BuyerInit
  <2>3. balanceOf \in [Tokens -> [Holders -> Nat]]
    BY SettlementAssumption DEF BuyerInit
  <2> QED
    BY <2>1, <2>2, <2>3 DEF BuyerInit, TypeOK, Registry!RegistryTypeOK
<1>2. SlotsInv /\ \A t \in TaskIds : tasks[t] = EmptySlot /\ ~(t < nextSequence)
  BY DEF BuyerInit, SlotsInv, TaskIds
<1>3. EmptySlot.reportHash = NoHash /\ EmptySlot.status = "INTENT_CREATED"
  BY DEF EmptySlot
<1>4. BundleSpentOnce
  BY <1>2, <1>3 DEF BuyerInit, BundleSpentOnce, ByReport
<1>5. \A t \in TaskIds : ~WasFunded(tasks[t])
  BY <1>2, <1>3 DEF WasFunded, Live, Terminal
<1>6. calls \in [Calls -> {Idle}] /\ known = {}
      /\ unposted = Jobs /\ orderedBy \in [TaskIds -> {NoJob}]
  BY DEF BuyerInit
<1>7. BuyerTypeOK
  BY <1>6 DEF BuyerTypeOK
<1>8. \A c \in Calls : CallFits(calls[c], tasks, orderedBy, nextSequence)
  BY <1>6, IdleFits
<1> QED
  BY <1>1, <1>2, <1>4, <1>5, <1>6, <1>7, <1>8 DEF BuyerInv, IInv

LEMMA CallKeeps ==
  ASSUME BuyerInv, NEW c \in Calls, CallStep(c)
  PROVE  BuyerInv'
BY PostStep, CreatedStep, PollStep, TimeoutStep, ValidateStep, FundedStep,
   RefundedStep, BeginStep, CheckStep, ReadTaskStep, ReadStatusStep, ReadTimeStep,
   AnswerStep, FailStep, AbandonStep DEF CallStep

\* Of the contract's functions a call uses those that need no report.
LEMMA CallsBringNoReport ==
  ASSUME BuyerInv, NEW c \in Calls, CallStep(c)
  PROVE  WithoutReport
<1>1. ASSUME NEW createOnly \in BOOLEAN, taskCreated(c, createOnly)
      PROVE  WithoutReport
  <2> DEFINE order == Order[calls[c].job]
  <2>1. calls[c] \in PayingCall
    BY <1>1, PayingCalls DEF taskCreated, At, Transactions
  <2>2. /\ order.seller \in Accounts /\ order.token \in Tokens
        /\ order.amount \in Amounts /\ order.deadlineMs \in Deadlines
    BY <2>1, BuyerAssumption DEF PayingCall, Orders
  <2>3. createTaskIntent(Buyer, order.seller, order.token, order.amount, order.deadlineMs)
    BY <1>1 DEF taskCreated
  <2> HIDE DEF order
  <2> QED
    BY <2>2, <2>3, BuyerAssumption DEF WithoutReport
<1>2. ASSUME taskFunded(c) \/ taskRefunded(c)
      PROVE  WithoutReport
  <2>1. calls[c].taskId \in TaskIds
    BY <1>2 DEF BuyerInv, CallFits, taskFunded, taskRefunded, At, Refunds
  <2> QED
    BY <1>2, <2>1, BuyerAssumption DEF taskFunded, taskRefunded, WithoutReport, TaskStep
<1>3. ASSUME ~\E createOnly \in BOOLEAN : taskCreated(c, createOnly),
             ~taskFunded(c), ~taskRefunded(c)
      PROVE  UNCHANGED vars
  BY <1>3 DEF CallStep, postTask, pollCommitted, pollTimedOut, validateCommitment,
              fundTaskTool, checkTask, refundTaskTool, getTask, getTaskStatus,
              currentTimeMs, answerCheck, Fail, Abandon, Dismiss
<1> QED
  BY <1>1, <1>2, <1>3 DEF WithoutReport

LEMMA BuyerStep == BuyerInv /\ [BuyerNext]_allVars => BuyerInv'
<1> SUFFICES ASSUME BuyerInv, [BuyerNext]_allVars PROVE BuyerInv'
  OBVIOUS
<1>1. ASSUME NEW c \in Calls, CallStep(c) PROVE BuyerInv'
  BY <1>1, CallKeeps
<1>2. CASE UNCHANGED allVars
  <2>1. UNCHANGED <<vars, unposted, orderedBy, known, calls, nextSequence, tasks>>
    BY <1>2 DEF allVars, buyerVars, vars
  <2> QED
    BY <2>1, OtherStepKeeps, NextSteps
<1> QED
  BY <1>1, <1>2, ChainStepKeeps DEF BuyerNext

\* Every reachable state satisfies the inductive invariant.
THEOREM BuyerInvariance == BuyerSpec => []BuyerInv
BY BuyerStart, BuyerStep, PTL DEF BuyerSpec

\* Every variable of the buyer keeps its type.
THEOREM BuyerTypes == BuyerSpec => []BuyerTypeOK
<1>1. BuyerInv => BuyerTypeOK
  BY DEF BuyerInv
<1> QED
  BY <1>1, BuyerInvariance, PTL

\* Money is locked only under the order of the agent and a commitment that binds the
\* task and meets the expectations, for any number of concurrent calls that fail or
\* are abandoned at any await, and whatever happens on the chain between the validation
\* of executeFundTask and the transaction it sends.
THEOREM MoneyOnAcceptedTerms == BuyerSpec => []MoneyFollowsTerms
<1>1. BuyerInv => MoneyFollowsTerms
  <2> SUFFICES ASSUME BuyerInv, NEW t \in TaskIds, WasFunded(tasks[t])
               PROVE  LET order == Order[orderedBy[t]]
                          commitment == Commitments[tasks[t].commitmentHash]
                      IN  /\ orderedBy[t] # NoJob
                          /\ tasks[t].seller = order.seller /\ tasks[t].token = order.token
                          /\ tasks[t].amount = order.amount
                          /\ boundToTask(tasks[t], t, commitment)
                          /\ meetsExpectations(commitment, order.expectations)
    BY DEF MoneyFollowsTerms
  <2>1. t < nextSequence
    BY FundedExists DEF BuyerInv
  <2>2. OrderedAs(tasks[t], orderedBy[t]) /\ Accepted(tasks[t], t, orderedBy[t])
    BY <2>1 DEF BuyerInv
  <2> QED
    BY <2>2, BuyerAssumption DEF OrderedAs, Accepted, Validated
<1> QED
  BY <1>1, BuyerInvariance, PTL

-----------------------------------------------------------------------------
(* Statuses told to the agent: a second invariant, on top of the first *)

OpenStatuses == {"INTENT_CREATED", "COMMITMENT_SUBMITTED"}

\* A slot that was read after the task was asked for, and what it is now.
Seen(asked, read, slot) ==
    /\ Stage(asked) <= Stage(read.status) /\ Stage(read.status) <= Stage(slot.status)
    /\ read.status = "PROOF_SUBMITTED" => Proved(slot)
    /\ Terminal(read) => slot.status = read.status
    /\ read.deadlineMs = slot.deadlineMs

CheckCurrent(call, slot, time) ==
    /\ Stage(call.asked) <= Stage(slot.status)
    /\ call.task # Unread => Seen(call.asked, call.task, slot)
    /\ call.pending # Unread =>
           Seen(call.asked, call.pending, slot) /\ call.pending.status \in OpenStatuses
    /\ call.derived = "EXPIRED" => Stage(call.asked) <= 2 /\ time > slot.deadlineMs
    /\ call.derived = "EXECUTING" => 3 <= Stage(slot.status)
    /\ call.derived # "VERIFIED"

AnswerCurrent(call, slot, time) ==
    /\ call.status = "EXPIRED" => Stage(call.asked) <= 2 /\ time > slot.deadlineMs
    /\ call.status # "EXPIRED" =>
           /\ Stage(call.asked) <= Stage(call.status)
           /\ Stage(call.status) <= Stage(slot.status)
           /\ call.status = "AWAITING_VERIFICATION" => Proved(slot)
           /\ call.status = "COMPLETED" => slot.status = "SETTLED"
           /\ call.status = "REFUNDED" => slot.status = "REFUNDED"

TellsTrue(call, ts, time) ==
    /\ call.pc \in {"checking", "answered"} => Exists(ts[call.taskId])
    /\ call.pc = "checking" => CheckCurrent(call, ts[call.taskId], time)
    /\ call.pc = "answered" => AnswerCurrent(call, ts[call.taskId], time)

\* A proof has a time, since the chain has.
ProofsAreTimed ==
    /\ blockTimestamp > 0
    /\ \A t \in TaskIds : Proved(tasks[t]) => tasks[t].proofSubmittedAtMs # 0

StatusInv ==
    /\ ProofsAreTimed
    /\ \A c \in Calls : TellsTrue(calls[c], tasks, CurrentTimeMs)

LEMMA StageValues ==
  /\ Stage("INTENT_CREATED") = 1 /\ Stage("WAITING_FOR_SELLER") = 1
  /\ Stage("COMMITMENT_SUBMITTED") = 2 /\ Stage("READY_TO_FUND") = 2
  /\ Stage("FUNDED") = 3 /\ Stage("IN_PROGRESS") = 3
  /\ Stage("PROOF_SUBMITTED") = 4 /\ Stage("AWAITING_VERIFICATION") = 4
  /\ Stage("VERIFIED") = 4
  /\ Stage("SETTLED") = 5 /\ Stage("COMPLETED") = 5 /\ Stage("REFUNDED") = 5
BY DEF Stage

LEMMA StageType ==
  \A status \in Status \cup (BuyerUserStatus \ {"EXPIRED"}) : Stage(status) \in 1..5
BY StageValues DEF Status, BuyerUserStatus

-----------------------------------------------------------------------------
(* What a step of the chain keeps of them *)

\* What a slot becomes in one step of the contract.
SlotFollows(old, new) ==
    /\ Exists(new) /\ new.deadlineMs = old.deadlineMs
    /\ Stage(old.status) <= Stage(new.status)
    /\ Proved(old) => Proved(new)
    /\ Terminal(old) => new.status = old.status

\* The one field of a task that TermsKept does not speak of: how far it is.
GoesForward(old, new, time) ==
    /\ WasFunded(old) => WasFunded(new)
    /\ Proved(new) /\ ~Proved(old) => new.proofSubmittedAtMs = time

LEMMA SlotGoesForward ==
  ASSUME TypeOK, NEW t \in TaskIds, NEW new, tasks' = [tasks EXCEPT ![t] = new],
         GoesForward(tasks[t], new, CurrentTimeMs)
  PROVE  \A u \in TaskIds : GoesForward(tasks[u], tasks'[u], CurrentTimeMs)
<1>1. \A u \in TaskIds : tasks'[u] = IF u = t THEN new ELSE tasks[u]
  BY DEF TypeOK
<1> SUFFICES ASSUME NEW u \in TaskIds PROVE GoesForward(tasks[u], tasks'[u], CurrentTimeMs)
  OBVIOUS
<1>2. CASE u = t
  BY <1>1, <1>2
<1>3. CASE u # t
  <2>1. tasks'[u] = tasks[u]
    BY <1>1, <1>3
  <2> QED
    BY <2>1 DEF GoesForward
<1> QED
  BY <1>2, <1>3

LEMMA StepsGoForward ==
  ASSUME IInv, [Next]_vars
  PROVE  \A u \in TaskIds : GoesForward(tasks[u], tasks'[u], CurrentTimeMs)
<1> DEFINE Goal == \A u \in TaskIds : GoesForward(tasks[u], tasks'[u], CurrentTimeMs)
<1>1. TypeOK
  BY DEF IInv
<1>2. ASSUME UNCHANGED tasks PROVE Goal
  BY <1>2 DEF GoesForward
<1>3. ASSUME NEW caller, NEW seller, NEW token, NEW amount, NEW deadlineMs,
             createTaskIntent(caller, seller, token, amount, deadlineMs)
      PROVE  Goal
  <2> DEFINE n == nextSequence
             new == Created(tasks[n], caller, seller, token, amount, deadlineMs)
  <2>1. n \in TaskIds /\ tasks' = [tasks EXCEPT ![n] = new]
    BY <1>3 DEF createTaskIntent
  <2>2. tasks[n] = EmptySlot
    BY <1>1, <2>1 DEF IInv, SlotsInv, TypeOK
  <2>3. GoesForward(tasks[n], new, CurrentTimeMs)
    BY <2>2 DEF GoesForward, WasFunded, Live, Terminal, Proved, Created, EmptySlot
  <2> HIDE DEF n, new
  <2> QED
    BY <1>1, <2>1, <2>3, SlotGoesForward
<1>4. ASSUME NEW caller, NEW t \in TaskIds, NEW hash, submitCommitment(caller, t, hash)
      PROVE  Goal
  <2> DEFINE new == Committed(tasks[t], hash)
  <2>1. tasks[t].status = "INTENT_CREATED" /\ tasks' = [tasks EXCEPT ![t] = new]
    BY <1>4 DEF submitCommitment, InState
  <2>2. GoesForward(tasks[t], new, CurrentTimeMs)
    BY <1>1, <2>1 DEF TypeOK, Task, GoesForward, WasFunded, Live, Terminal, Proved, Committed
  <2> HIDE DEF new
  <2> QED
    BY <1>1, <2>1, <2>2, SlotGoesForward
<1>5. ASSUME NEW caller, NEW t \in TaskIds, fundTask(caller, t)
      PROVE  Goal
  <2> DEFINE new == Funded(tasks[t])
  <2>1. tasks' = [tasks EXCEPT ![t] = new]
    BY <1>5 DEF fundTask
  <2>2. GoesForward(tasks[t], new, CurrentTimeMs)
    BY <1>1 DEF TypeOK, Task, GoesForward, WasFunded, Live, Terminal, Proved, Funded
  <2> HIDE DEF new
  <2> QED
    BY <1>1, <2>1, <2>2, SlotGoesForward
<1>6. ASSUME NEW caller, NEW t \in TaskIds, NEW hash, submitProofBundle(caller, t, hash)
      PROVE  Goal
  <2> DEFINE new == Proven(tasks[t], hash)
  <2>1. tasks' = [tasks EXCEPT ![t] = new]
    BY <1>6 DEF submitProofBundle
  <2>2. GoesForward(tasks[t], new, CurrentTimeMs)
    <3>1. new.status = "PROOF_SUBMITTED" /\ new.proofSubmittedAtMs = CurrentTimeMs
      BY <1>1 DEF TypeOK, Task, Proven
    <3> QED
      BY <3>1 DEF GoesForward, WasFunded, Live
  <2> HIDE DEF new
  <2> QED
    BY <1>1, <2>1, <2>2, SlotGoesForward
<1>7. ASSUME NEW report \in SignedReports, settle(report)
      PROVE  Goal
  <2> DEFINE t == report.taskId
             new == Reported(tasks[t], report)
  <2>1. t \in TaskIds
    BY SettlementAssumption DEF VerificationReport
  <2>2. tasks' = [tasks EXCEPT ![t] = new]
    BY <1>7 DEF settle
  <2>3. GoesForward(tasks[t], new, CurrentTimeMs)
    BY <1>1, <2>1 DEF TypeOK, Task, GoesForward, WasFunded, Live, Terminal, Proved, Reported,
       Settled, Refunded
  <2> HIDE DEF new, t
  <2> QED
    BY <1>1, <2>1, <2>2, <2>3, SlotGoesForward
<1>8. ASSUME NEW t \in TaskIds,
             \/ refundAfterProofSubmissionDeadline(t)
             \/ refundAfterVerificationTimeout(t)
      PROVE  Goal
  <2> DEFINE new == Refunded(tasks[t])
  <2>1. tasks' = [tasks EXCEPT ![t] = new]
    BY <1>8 DEF refundAfterProofSubmissionDeadline, refundAfterVerificationTimeout
  <2>2. GoesForward(tasks[t], new, CurrentTimeMs)
    BY <1>1 DEF TypeOK, Task, GoesForward, WasFunded, Live, Terminal, Proved, Refunded
  <2> HIDE DEF new
  <2> QED
    BY <1>1, <2>1, <2>2, SlotGoesForward
<1>9. ASSUME \/ \E caller \in Accounts, token \in Tokens \cup {NoAddress}, allowed \in BOOLEAN :
                   setAllowedToken(caller, token, allowed)
             \/ RegistryStep
             \/ Tick
             \/ UNCHANGED vars
      PROVE  Goal
  <2>1. UNCHANGED tasks
    BY <1>9 DEF setAllowedToken, RegistryStep, Tick, vars, contractVars
  <2> QED
    BY <1>2, <2>1
<1> HIDE DEF Goal
<1>10. Goal
  BY <1>3, <1>4, <1>5, <1>6, <1>7, <1>8, <1>9 DEF Next, TaskStep
<1> QED
  BY <1>10 DEF Goal

\* The stage of a task is what its slot says beside the status.
LEMMA StepFollows ==
  ASSUME IInv, [Next]_vars, NEW t \in TaskIds, Exists(tasks[t])
  PROVE  SlotFollows(tasks[t], tasks'[t])
<1> DEFINE old == tasks[t]
           new == tasks'[t]
<1>1. IInv' /\ TermsKept(old, new) /\ GoesForward(old, new, CurrentTimeMs)
  BY NextInv, TermsKeptByStep, StepsGoForward
<1>2. Exists(new) /\ new.deadlineMs = old.deadlineMs /\ new.buyer = old.buyer
  BY <1>1 DEF TermsKept, Exists
<1>3. old \in Task /\ GoodSlot(old, CurrentTimeMs)
  BY ExistingSlot
<1>4. new \in Task /\ GoodSlot(new, CurrentTimeMs')
  <2>1. t < nextSequence'
    BY <1>1, <1>2, SettlementAssumption DEF IInv, SlotsInv, Exists, EmptySlot
  <2> QED
    BY <1>1, <2>1 DEF IInv, TypeOK, SlotsInv
<1>5. old.status \in Status /\ new.status \in Status
  BY <1>3, <1>4 DEF Task
<1> HIDE DEF old, new
<1>6. Proved(old) => Proved(new)
  BY <1>1 DEF TermsKept, Proved
<1>7. Terminal(old) => new = old
  BY <1>1 DEF TermsKept
<1>8. old.status # "INTENT_CREATED" => new.status # "INTENT_CREATED"
  BY <1>1, <1>3, <1>4 DEF TermsKept, GoodSlot
<1>9. WasFunded(old) => WasFunded(new)
  BY <1>1 DEF GoesForward
<1>10. old.status = "PROOF_SUBMITTED" => new.status = "PROOF_SUBMITTED" \/ Terminal(new)
  BY <1>3, <1>4, <1>6 DEF GoodSlot
<1>11. Stage(old.status) <= Stage(new.status)
  BY <1>5, <1>7, <1>8, <1>9, <1>10, StageValues DEF Status, WasFunded, Live, Terminal
<1> QED
  BY <1>2, <1>6, <1>7, <1>11 DEF SlotFollows, old, new

LEMMA TimeGoesOn ==
  ASSUME TypeOK, [Next]_vars
  PROVE  blockTimestamp <= blockTimestamp' /\ CurrentTimeMs <= CurrentTimeMs'
<1>1. blockTimestamp \in Nat /\ blockTimestamp' \in {blockTimestamp, blockTimestamp + 1}
  BY DEF TypeOK, Next, TaskStep, vars, setAllowedToken, createTaskIntent, submitCommitment,
     submitProofBundle, fundTask, settle, refundAfterProofSubmissionDeadline,
     refundAfterVerificationTimeout, RegistryStep, Tick
<1>2. CASE blockTimestamp' = blockTimestamp
  BY <1>1, <1>2, SettlementAssumption DEF CurrentTimeMs
<1>3. CASE blockTimestamp' = blockTimestamp + 1
  <2>1. (blockTimestamp + 1) * MsPerSecond = blockTimestamp * MsPerSecond + MsPerSecond
    BY <1>1, SettlementAssumption
  <2>2. blockTimestamp * MsPerSecond \in Nat
    BY <1>1, SettlementAssumption
  <2> QED
    BY <1>1, <1>3, <2>1, <2>2, SettlementAssumption DEF CurrentTimeMs
<1> QED
  BY <1>1, <1>2, <1>3

LEMMA ProofsStayTimed ==
  ASSUME IInv, ProofsAreTimed, [Next]_vars
  PROVE  ProofsAreTimed'
<1>1. TypeOK /\ blockTimestamp' \in Nat /\ blockTimestamp \in Nat
  BY NextInv DEF IInv, TypeOK
<1>2. blockTimestamp' > 0
  BY <1>1, TimeGoesOn DEF ProofsAreTimed
<1>3. CurrentTimeMs # 0
  BY <1>1, SettlementAssumption DEF ProofsAreTimed, CurrentTimeMs
<1>4. ASSUME NEW t \in TaskIds, Proved(tasks'[t]) PROVE tasks'[t].proofSubmittedAtMs # 0
  <2>1. TermsKept(tasks[t], tasks'[t]) /\ GoesForward(tasks[t], tasks'[t], CurrentTimeMs)
    BY TermsKeptByStep, StepsGoForward
  <2>2. CASE Proved(tasks[t])
    BY <2>1, <2>2 DEF TermsKept, Proved, ProofsAreTimed
  <2>3. CASE ~Proved(tasks[t])
    BY <1>3, <1>4, <2>1, <2>3 DEF GoesForward
  <2> QED
    BY <2>2, <2>3
<1> QED
  BY <1>2, <1>4 DEF ProofsAreTimed

-----------------------------------------------------------------------------
(* What is told stays true *)

\* Whatever the buyer's calls do, the chain makes a step of the contract or none.
LEMMA ChainSteps ==
  ASSUME BuyerInv, [BuyerNext]_allVars
  PROVE  [Next]_vars
<1>1. ASSUME NEW c \in Calls, NEW createOnly \in BOOLEAN, taskCreated(c, createOnly)
      PROVE  [Next]_vars
  <2> DEFINE order == Order[calls[c].job]
  <2>1. calls[c] \in PayingCall
    BY <1>1, PayingCalls DEF taskCreated, At, Transactions
  <2>2. /\ order.seller \in Accounts /\ order.token \in Tokens
        /\ order.amount \in Amounts /\ order.deadlineMs \in Deadlines
    BY <2>1, BuyerAssumption DEF PayingCall, Orders
  <2>3. createTaskIntent(Buyer, order.seller, order.token, order.amount, order.deadlineMs)
    BY <1>1 DEF taskCreated
  <2> HIDE DEF order
  <2> QED
    BY <2>2, <2>3, BuyerAssumption DEF Next
<1>2. ASSUME NEW c \in Calls, taskFunded(c) PROVE [Next]_vars
  <2>1. calls[c].taskId \in TaskIds
    BY <1>2 DEF BuyerInv, CallFits, taskFunded, At
  <2>2. fundTask(Buyer, calls[c].taskId)
    BY <1>2 DEF taskFunded
  <2> QED
    BY <2>1, <2>2, BuyerAssumption DEF Next, TaskStep
<1>3. ASSUME NEW c \in Calls, taskRefunded(c) PROVE [Next]_vars
  <2>1. calls[c].taskId \in TaskIds
    BY <1>3 DEF BuyerInv, CallFits, taskRefunded, At, Refunds
  <2>2. \/ refundAfterProofSubmissionDeadline(calls[c].taskId)
        \/ refundAfterVerificationTimeout(calls[c].taskId)
    BY <1>3 DEF taskRefunded
  <2> QED
    BY <2>1, <2>2 DEF Next
<1>4. ASSUME NEW c \in Calls, CallStep(c) PROVE [Next]_vars
  <2>1. \/ \E createOnly \in BOOLEAN : taskCreated(c, createOnly)
        \/ taskFunded(c) \/ taskRefunded(c) \/ UNCHANGED vars
    BY <1>4 DEF CallStep, postTask, pollCommitted, pollTimedOut, validateCommitment,
       fundTaskTool, checkTask, refundTaskTool, getTask, getTaskStatus, currentTimeMs,
       answerCheck, Fail, Abandon, Dismiss
  <2> QED
    BY <1>1, <1>2, <1>3, <2>1
<1>5. ASSUME ChainStep PROVE [Next]_vars
  BY <1>5 DEF ChainStep, Next, TaskStep
<1>6. CASE UNCHANGED allVars
  BY <1>6 DEF allVars
<1> QED
  BY <1>4, <1>5, <1>6 DEF BuyerNext

LEMMA DeadlineType == \A task \in Task : task.deadlineMs \in Nat
<1>1. Deadlines \cup {0} \subseteq Nat
  BY SettlementAssumption
<1> QED
  BY <1>1 DEF Task

LEMMA SeenKept ==
  ASSUME NEW asked \in Status, NEW read \in Task, NEW old \in Task, NEW new \in Task,
         Seen(asked, read, old), SlotFollows(old, new)
  PROVE  Seen(asked, read, new)
<1>1. /\ Stage(asked) \in 1..5 /\ Stage(read.status) \in 1..5
      /\ Stage(old.status) \in 1..5 /\ Stage(new.status) \in 1..5
  BY StageType DEF Task
<1>2. Stage(asked) <= Stage(read.status) /\ Stage(read.status) <= Stage(new.status)
  BY <1>1 DEF Seen, SlotFollows
<1>3. Terminal(read) => new.status = read.status
  <2>1. Terminal(read) => old.status = read.status
    BY DEF Seen
  <2> QED
    BY <2>1 DEF SlotFollows, Terminal
<1> QED
  BY <1>2, <1>3 DEF Seen, SlotFollows

LEMMA CheckStaysCurrent ==
  ASSUME NEW call \in CheckingCall, NEW old \in Task, NEW new \in Task,
         NEW time \in Nat, NEW later \in Nat, time <= later,
         CheckCurrent(call, old, time), SlotFollows(old, new)
  PROVE  CheckCurrent(call, new, later)
<1>1. /\ call.asked \in Status /\ call.task \in Task \cup {Unread}
      /\ call.pending \in Task \cup {Unread}
  BY DEF CheckingCall
<1>2. /\ Stage(call.asked) \in 1..5 /\ Stage(old.status) \in 1..5
      /\ Stage(new.status) \in 1..5 /\ old.deadlineMs \in Nat
  BY <1>1, StageType, DeadlineType DEF Task
<1>3. Stage(call.asked) <= Stage(new.status)
      /\ (3 <= Stage(old.status) => 3 <= Stage(new.status))
  BY <1>2 DEF CheckCurrent, SlotFollows
<1>4. time > old.deadlineMs => later > new.deadlineMs
  BY <1>2 DEF SlotFollows
<1>5. call.task # Unread => Seen(call.asked, call.task, new)
  BY <1>1, SeenKept DEF CheckCurrent
<1>6. call.pending # Unread => Seen(call.asked, call.pending, new)
  BY <1>1, SeenKept DEF CheckCurrent
<1> QED
  BY <1>3, <1>4, <1>5, <1>6 DEF CheckCurrent

LEMMA AnswerStaysCurrent ==
  ASSUME NEW call \in AnsweredCall, NEW old \in Task, NEW new \in Task,
         NEW time \in Nat, NEW later \in Nat, time <= later,
         AnswerCurrent(call, old, time), SlotFollows(old, new)
  PROVE  AnswerCurrent(call, new, later)
<1>1. /\ old.deadlineMs \in Nat
      /\ Stage(old.status) \in 1..5 /\ Stage(new.status) \in 1..5
      /\ call.status # "EXPIRED" => Stage(call.status) \in 1..5
  BY StageType, DeadlineType DEF Task, AnsweredCall
<1>2. call.status = "EXPIRED" => Stage(call.asked) <= 2 /\ later > new.deadlineMs
  BY <1>1 DEF AnswerCurrent, SlotFollows
<1>3. call.status # "EXPIRED" => /\ Stage(call.asked) <= Stage(call.status)
                                 /\ Stage(call.status) <= Stage(new.status)
  BY <1>1 DEF AnswerCurrent, SlotFollows
<1>4. ASSUME call.status # "EXPIRED"
      PROVE  /\ call.status = "AWAITING_VERIFICATION" => Proved(new)
             /\ call.status = "COMPLETED" => new.status = "SETTLED"
             /\ call.status = "REFUNDED" => new.status = "REFUNDED"
  BY <1>4 DEF AnswerCurrent, SlotFollows, Terminal
<1> QED
  BY <1>2, <1>3, <1>4 DEF AnswerCurrent

LEMMA ProductType == \A m, n \in Nat : m * n \in Nat
OBVIOUS

\* A call that does not move still tells what is true after a step of the chain.
LEMMA TellsKept ==
  ASSUME BuyerInv, [Next]_vars, NEW c \in Calls, TellsTrue(calls[c], tasks, CurrentTimeMs)
  PROVE  TellsTrue(calls[c], tasks', CurrentTimeMs')
<1> DEFINE call == calls[c]
           old == tasks[call.taskId]
           new == tasks'[call.taskId]
<1>1. CASE call.pc \notin {"checking", "answered"}
  BY <1>1 DEF TellsTrue
<1>2. CASE call.pc \in {"checking", "answered"}
  <2>1. /\ call.pc = "checking" => call \in CheckingCall
        /\ call.pc = "answered" => call \in AnsweredCall
    <3>1. call \in CallValues /\ Idle.pc = "idle"
      BY BuyerValues DEF Idle
    <3> QED
      BY <3>1, CheckingCalls DEF CallValues, PayingCall, CheckingCall, Transactions, Refunds
  <2>2. call.taskId \in TaskIds /\ Exists(old)
    BY <1>2, <2>1 DEF CheckingCall, AnsweredCall, TellsTrue
  <2>3. IInv /\ IInv' /\ TypeOK
    BY NextInv DEF BuyerInv, IInv
  <2>4. old \in Task /\ new \in Task /\ SlotFollows(old, new)
    BY <2>2, <2>3, StepFollows DEF IInv, TypeOK
  <2>5. CurrentTimeMs \in Nat /\ CurrentTimeMs' \in Nat /\ CurrentTimeMs <= CurrentTimeMs'
    <3>1. blockTimestamp \in Nat /\ blockTimestamp' \in Nat /\ MsPerSecond \in Nat
      BY <2>3, SettlementAssumption DEF IInv, TypeOK
    <3>2. CurrentTimeMs \in Nat /\ CurrentTimeMs' \in Nat
      BY <3>1, ProductType, Zenon DEF CurrentTimeMs
    <3> QED
      BY <2>3, <3>2, TimeGoesOn
  <2>6. call.pc = "checking" => CheckCurrent(call, old, CurrentTimeMs)
    BY DEF TellsTrue
  <2>7. call.pc = "answered" => AnswerCurrent(call, old, CurrentTimeMs)
    BY DEF TellsTrue
  <2>8. Exists(new)
    BY <2>4 DEF SlotFollows
  <2> DEFINE time == CurrentTimeMs
             later == CurrentTimeMs'
  <2> HIDE DEF call, old, new, time, later
  <2>9. call.pc = "checking" => CheckCurrent(call, new, later)
    BY <2>1, <2>4, <2>5, <2>6, CheckStaysCurrent DEF time, later
  <2>10. call.pc = "answered" => AnswerCurrent(call, new, later)
    BY <2>1, <2>4, <2>5, <2>7, AnswerStaysCurrent DEF time, later
  <2> QED
    BY <2>8, <2>9, <2>10 DEF TellsTrue, call, new, later
<1> QED
  BY <1>1, <1>2

\* A step that moves one call, which then tells what is true.
LEMMA OneCallTells ==
  ASSUME BuyerInv, StatusInv, [Next]_vars, NEW c \in Calls, NEW call,
         calls' = [calls EXCEPT ![c] = call],
         TellsTrue(call, tasks', CurrentTimeMs')
  PROVE  StatusInv'
<1>1. ProofsAreTimed'
  BY ProofsStayTimed DEF BuyerInv, StatusInv
<1>2. \A d \in Calls : calls'[d] = IF d = c THEN call ELSE calls[d]
  BY BuyerValues
<1>3. \A d \in Calls : TellsTrue(calls'[d], tasks', CurrentTimeMs')
  BY <1>2, TellsKept DEF StatusInv
<1> QED
  BY <1>1, <1>3 DEF StatusInv

LEMMA NothingTold ==
  ASSUME NEW call, NEW ts, NEW time, call.pc \notin {"checking", "answered"}
  PROVE  TellsTrue(call, ts, time)
BY DEF TellsTrue

-----------------------------------------------------------------------------
(* The steps of a call tell what is true *)

LEMMA QuietCallTells ==
  ASSUME BuyerInv, StatusInv, [Next]_vars, NEW c \in Calls,
         \/ \E job \in Jobs : postTask(c, job)
         \/ pollCommitted(c) \/ validateCommitment(c) \/ taskRefunded(c)
         \/ \E t \in TaskIds :
                fundTaskTool(c, t) \/ \E reason \in Refunds : refundTaskTool(c, t, reason)
         \/ Fail(c) \/ Abandon(c) \/ Dismiss(c)
  PROVE  StatusInv'
<1> DEFINE Quiet(call) == call.pc \notin {"checking", "answered"}
<1>1. Quiet(Idle)
  BY DEF Idle
<1>2. ASSUME calls[c].pc \in {"polling", "validating"} \cup Transactions
      PROVE  /\ Quiet([calls[c] EXCEPT !.pc = "validating"])
             /\ Quiet([calls[c] EXCEPT !.pc = "fundTask"])
             /\ Quiet([calls[c] EXCEPT !.waits = FALSE])
  <2>1. calls[c] \in PayingCall
    BY <1>2, PayingCalls
  <2> QED
    BY <1>2, <2>1 DEF PayingCall, Transactions, Refunds
<1>3. \A pc \in {"createTaskIntent", "validating"} \cup Refunds : \A job, t, waits :
          Quiet([pc |-> pc, job |-> job, taskId |-> t, waits |-> waits])
  BY DEF Refunds
<1> HIDE DEF Quiet
<1>4. \E call : calls' = [calls EXCEPT ![c] = call] /\ Quiet(call)
  <2>1. CASE \E job \in Jobs : postTask(c, job)
    BY <1>3, <2>1 DEF postTask, Proceed
  <2>2. CASE pollCommitted(c) \/ validateCommitment(c)
    BY <1>2, <2>2 DEF pollCommitted, validateCommitment, At, Proceed
  <2>3. CASE taskRefunded(c) \/ Fail(c) \/ Dismiss(c)
    BY <1>1, <2>3 DEF taskRefunded, Fail, Dismiss, Proceed
  <2>4. CASE \E t \in TaskIds :
                 fundTaskTool(c, t) \/ \E reason \in Refunds : refundTaskTool(c, t, reason)
    BY <1>3, <2>4 DEF fundTaskTool, refundTaskTool, Proceed
  <2>5. CASE Abandon(c)
    BY <1>2, <2>5 DEF Abandon, Proceed
  <2> QED
    BY <2>1, <2>2, <2>3, <2>4, <2>5
<1> QED
  BY <1>4, NothingTold, OneCallTells DEF Quiet

LEMMA CreatedTells ==
  ASSUME BuyerInv, StatusInv, [Next]_vars, NEW c \in Calls, NEW createOnly \in BOOLEAN,
         taskCreated(c, createOnly)
  PROVE  StatusInv'
<1> DEFINE call == calls[c]
           order == Order[call.job]
           n == nextSequence
           made == Created(tasks[n], Buyer, order.seller, order.token, order.amount,
                           order.deadlineMs)
           answer == [pc |-> "answered", taskId |-> n, asked |-> "INTENT_CREATED",
                      status |-> "WAITING_FOR_SELLER"]
           poll == [call EXCEPT !.pc = "polling", !.taskId = n]
<1>1. call \in PayingCall
  BY PayingCalls DEF taskCreated, At, Transactions
<1>2. n \in TaskIds /\ tasks' = [tasks EXCEPT ![n] = made]
  BY DEF taskCreated, createTaskIntent
<1>3. tasks \in [TaskIds -> Task] /\ tasks[n] \in Task
  BY <1>2, BuyerValues
<1>4. made.status = "INTENT_CREATED" /\ made.buyer = Buyer
  <2> HIDE DEF order, call, n
  <2> QED
    BY <1>3 DEF Created, Task
<1> HIDE DEF made
<1>5. tasks'[n].status = "INTENT_CREATED" /\ Exists(tasks'[n])
  BY <1>2, <1>3, <1>4, BuyerAssumption, SettlementAssumption DEF Exists
<1>6. TellsTrue(answer, tasks', CurrentTimeMs')
  BY <1>5, StageValues DEF TellsTrue, AnswerCurrent
<1>7. poll.pc = "polling"
  BY <1>1 DEF PayingCall
<1>8. PICK new \in {answer, poll, Idle} : calls' = [calls EXCEPT ![c] = new]
  BY DEF taskCreated, Answer, Proceed
<1> HIDE DEF answer, poll
<1>9. TellsTrue(new, tasks', CurrentTimeMs')
  BY <1>6, <1>7, NothingTold DEF Idle
<1> QED
  BY <1>8, <1>9, OneCallTells

LEMMA TimeoutTells ==
  ASSUME BuyerInv, StatusInv, [Next]_vars, NEW c \in Calls, pollTimedOut(c)
  PROVE  StatusInv'
<1> DEFINE t == calls[c].taskId
           new == [pc |-> "answered", taskId |-> t, asked |-> tasks[t].status,
                   status |-> "WAITING_FOR_SELLER"]
<1>1. t \in TaskIds /\ t < nextSequence
  BY DEF BuyerInv, CallFits, pollTimedOut, At
<1>2. /\ calls' = [calls EXCEPT ![c] = new] /\ tasks[t].commitmentHash = NoHash
      /\ UNCHANGED vars
  BY DEF pollTimedOut, Answer, Proceed
<1>3. Exists(tasks[t]) /\ tasks[t].status = "INTENT_CREATED" /\ tasks' = tasks
  BY <1>1, <1>2, CreatedExists, ExistingSlot DEF BuyerInv, GoodSlot, vars
<1>4. TellsTrue(new, tasks', CurrentTimeMs')
  BY <1>3, StageValues DEF TellsTrue, AnswerCurrent
<1> HIDE DEF new, t
<1> QED
  BY <1>2, <1>4, OneCallTells

LEMMA FundedTells ==
  ASSUME BuyerInv, StatusInv, [Next]_vars, NEW c \in Calls, taskFunded(c)
  PROVE  StatusInv'
<1> DEFINE t == calls[c].taskId
           answer == [pc |-> "answered", taskId |-> t, asked |-> tasks[t].status,
                      status |-> "IN_PROGRESS"]
<1>1. t \in TaskIds /\ tasks[t] \in Task
  BY BuyerValues DEF BuyerInv, CallFits, taskFunded, At
<1>2. /\ tasks' = [tasks EXCEPT ![t] = Funded(tasks[t])]
      /\ Exists(tasks[t]) /\ tasks[t].status = "COMMITMENT_SUBMITTED"
  BY DEF taskFunded, fundTask, InState
<1>3. tasks'[t] = Funded(tasks[t])
  BY <1>1, <1>2, BuyerValues
<1>4. tasks'[t].status = "FUNDED" /\ Exists(tasks'[t])
  <2>1. \A slot \in Task : Funded(slot).status = "FUNDED" /\ Funded(slot).buyer = slot.buyer
    BY DEF Funded, Task
  <2> HIDE DEF t
  <2> QED
    BY <1>1, <1>2, <1>3, <2>1 DEF Exists
<1>5. TellsTrue(answer, tasks', CurrentTimeMs')
  BY <1>2, <1>4, StageValues DEF TellsTrue, AnswerCurrent
<1>6. PICK new \in {answer, Idle} : calls' = [calls EXCEPT ![c] = new]
  BY DEF taskFunded, Answer, Proceed
<1> HIDE DEF answer
<1>7. TellsTrue(new, tasks', CurrentTimeMs')
  BY <1>5, NothingTold DEF Idle
<1> QED
  BY <1>6, <1>7, OneCallTells

\* What a check is about: it exists, and the chain stays as it is meanwhile.
LEMMA CheckedTask ==
  ASSUME BuyerInv, StatusInv, NEW c \in Calls, calls[c].pc = "checking"
  PROVE  /\ calls[c] \in CheckingCall
         /\ calls[c].taskId \in TaskIds
         /\ Exists(tasks[calls[c].taskId])
         /\ tasks[calls[c].taskId] \in Task
         /\ GoodSlot(tasks[calls[c].taskId], CurrentTimeMs)
         /\ CheckCurrent(calls[c], tasks[calls[c].taskId], CurrentTimeMs)
<1>1. calls[c] \in CheckingCall /\ calls[c].taskId \in TaskIds
  BY CheckingCalls DEF CheckingCall
<1>2. TellsTrue(calls[c], tasks, CurrentTimeMs)
  BY DEF StatusInv
<1>3. Exists(tasks[calls[c].taskId])
      /\ CheckCurrent(calls[c], tasks[calls[c].taskId], CurrentTimeMs)
  BY <1>2 DEF TellsTrue
<1> QED
  BY <1>1, <1>3, ExistingSlot DEF BuyerInv

\* A step of a check that leaves the chain as it is.
LEMMA CheckTells ==
  ASSUME BuyerInv, StatusInv, NEW c \in Calls, NEW call \in CheckingCall,
         Proceed(c, call), UNCHANGED vars,
         Exists(tasks[call.taskId]),
         CheckCurrent(call, tasks[call.taskId], CurrentTimeMs)
  PROVE  StatusInv'
<1>1. tasks' = tasks /\ CurrentTimeMs' = CurrentTimeMs /\ [Next]_vars
  BY DEF vars, CurrentTimeMs
<1>2. TellsTrue(call, tasks', CurrentTimeMs')
  BY <1>1 DEF TellsTrue, CheckingCall
<1> QED
  BY <1>1, <1>2, OneCallTells DEF Proceed

\* A slot that is read now.
LEMMA SeenNow ==
  ASSUME NEW asked \in Status, NEW slot \in Task, NEW time, GoodSlot(slot, time),
         Stage(asked) <= Stage(slot.status)
  PROVE  Seen(asked, slot, slot)
<1>1. Stage(slot.status) \in 1..5
  BY StageType DEF Task
<1> QED
  BY <1>1 DEF Seen, GoodSlot

LEMMA CheckBegins ==
  ASSUME BuyerInv, StatusInv, NEW c \in Calls, NEW t \in TaskIds, checkTask(c, t)
  PROVE  StatusInv'
<1> DEFINE new == [pc |-> "checking", taskId |-> t, asked |-> tasks[t].status,
                   task |-> Unread, pending |-> Unread, derived |-> "unknown"]
<1>1. Proceed(c, new) /\ UNCHANGED vars /\ t \in known
  BY DEF checkTask
<1>2. tasks[t] \in Task /\ Exists(tasks[t])
  BY <1>1, BuyerValues, CreatedExists DEF BuyerInv
<1>3. new \in CheckingCall /\ Stage(tasks[t].status) \in 1..5
  BY <1>2, StageType DEF CheckingCall, Task
<1>4. CheckCurrent(new, tasks[t], CurrentTimeMs) /\ new.taskId = t
  BY <1>3 DEF CheckCurrent
<1> HIDE DEF new
<1> QED
  BY <1>1, <1>2, <1>3, <1>4, CheckTells

LEMMA TaskReadTells ==
  ASSUME BuyerInv, StatusInv, NEW c \in Calls, getTask(c)
  PROVE  StatusInv'
<1> DEFINE call == calls[c]
           slot == tasks[call.taskId]
           new == [call EXCEPT !.task = slot]
<1>1. /\ call \in CheckingCall /\ slot \in Task /\ Exists(slot)
      /\ GoodSlot(slot, CurrentTimeMs) /\ CheckCurrent(call, slot, CurrentTimeMs)
  BY CheckedTask DEF getTask, At
<1>2. Proceed(c, new) /\ UNCHANGED vars
  BY DEF getTask
<1>3. Seen(call.asked, slot, slot)
  BY <1>1, SeenNow DEF CheckCurrent, CheckingCall
<1> HIDE DEF slot, call
<1>4. /\ new \in CheckingCall /\ new.taskId = call.taskId /\ new.asked = call.asked
      /\ new.task = slot /\ new.pending = call.pending /\ new.derived = call.derived
  BY <1>1 DEF CheckingCall
<1> HIDE DEF new
<1>5. CheckCurrent(new, slot, CurrentTimeMs)
  BY <1>1, <1>3, <1>4 DEF CheckCurrent
<1> QED
  BY <1>1, <1>2, <1>4, <1>5, CheckTells DEF slot

\* No task waits for a report that it has.
LEMMA NeverVerified ==
  ASSUME NEW slot \in Task, NEW time, GoodSlot(slot, time)
  PROVE  /\ DerivedStatus(slot) \notin {"VERIFIED", "EXPIRED"}
         /\ DerivedStatus(slot) = "EXECUTING" => slot.status = "FUNDED"
<1>1. ~(slot.status = "PROOF_SUBMITTED" /\ ByReport(slot))
  BY DEF GoodSlot, Lawful, Terminal
<1> QED
  BY <1>1 DEF DerivedStatus, Task, Status

LEMMA StatusReadTells ==
  ASSUME BuyerInv, StatusInv, NEW c \in Calls, getTaskStatus(c)
  PROVE  StatusInv'
<1> DEFINE call == calls[c]
           slot == tasks[call.taskId]
           later == [call EXCEPT !.pending = slot]
           now == [call EXCEPT !.derived = DerivedStatus(slot)]
<1>1. /\ call \in CheckingCall /\ slot \in Task /\ Exists(slot)
      /\ GoodSlot(slot, CurrentTimeMs) /\ CheckCurrent(call, slot, CurrentTimeMs)
  BY CheckedTask DEF getTaskStatus, At
<1>2. /\ \/ slot.status \in OpenStatuses /\ Proceed(c, later)
         \/ Proceed(c, now)
      /\ UNCHANGED vars
  BY DEF getTaskStatus, OpenStatuses
<1>3. Seen(call.asked, slot, slot)
  BY <1>1, SeenNow DEF CheckCurrent, CheckingCall
<1>4. /\ DerivedStatus(slot) \in DerivedTaskStatus \ {"VERIFIED", "EXPIRED"}
      /\ DerivedStatus(slot) = "EXECUTING" => slot.status = "FUNDED"
  BY <1>1, NeverVerified, DerivedType
<1> HIDE DEF slot, call
<1>5. /\ later \in CheckingCall /\ later.taskId = call.taskId /\ later.asked = call.asked
      /\ later.task = call.task /\ later.pending = slot /\ later.derived = call.derived
  BY <1>1 DEF CheckingCall
<1>6. /\ now \in CheckingCall /\ now.taskId = call.taskId /\ now.asked = call.asked
      /\ now.task = call.task /\ now.pending = call.pending
      /\ now.derived = DerivedStatus(slot)
  BY <1>1, <1>4 DEF CheckingCall
<1> HIDE DEF later, now
<1>7. slot.status \in OpenStatuses => CheckCurrent(later, slot, CurrentTimeMs)
  BY <1>1, <1>3, <1>5 DEF CheckCurrent
<1>8. CheckCurrent(now, slot, CurrentTimeMs)
  BY <1>1, <1>4, <1>6, StageValues DEF CheckCurrent
<1> QED
  BY <1>1, <1>2, <1>5, <1>6, <1>7, <1>8, CheckTells DEF slot

LEMMA TimeReadTells ==
  ASSUME BuyerInv, StatusInv, NEW c \in Calls, currentTimeMs(c)
  PROVE  StatusInv'
<1> DEFINE call == calls[c]
           slot == tasks[call.taskId]
           derived == IF hasDeadlinePassed(call.pending.deadlineMs)
                      THEN "EXPIRED" ELSE call.pending.status
           new == [call EXCEPT !.derived = derived]
<1>1. /\ call \in CheckingCall /\ slot \in Task /\ Exists(slot)
      /\ CheckCurrent(call, slot, CurrentTimeMs) /\ call.pending # Unread
  BY CheckedTask DEF currentTimeMs, At
<1>2. Proceed(c, new) /\ UNCHANGED vars
  BY DEF currentTimeMs
<1>3. Seen(call.asked, call.pending, slot) /\ call.pending.status \in OpenStatuses
  BY <1>1 DEF CheckCurrent
<1>4. derived \in {"EXPIRED"} \cup OpenStatuses
  BY <1>3
<1>5. derived = "EXPIRED" => CurrentTimeMs > slot.deadlineMs
  <2> HIDE DEF slot, call
  <2>1. call.pending.status # "EXPIRED"
    BY <1>3 DEF OpenStatuses
  <2> QED
    BY <1>3, <2>1 DEF Seen, hasDeadlinePassed
<1> HIDE DEF slot, call, derived
<1>6. Stage(call.asked) <= 2
  <2>1. Stage(call.asked) \in 1..5 /\ Stage(call.pending.status) \in 1..2
    BY <1>1, <1>3, StageType, StageValues DEF CheckingCall, OpenStatuses
  <2> QED
    BY <1>3, <2>1 DEF Seen
<1>7. /\ new \in CheckingCall /\ new.taskId = call.taskId /\ new.asked = call.asked
      /\ new.task = call.task /\ new.pending = call.pending /\ new.derived = derived
  BY <1>1, <1>4 DEF CheckingCall, DerivedTaskStatus, OpenStatuses, Status
<1> HIDE DEF new
<1>8. CheckCurrent(new, slot, CurrentTimeMs)
  BY <1>1, <1>4, <1>5, <1>6, <1>7 DEF CheckCurrent, OpenStatuses
<1> QED
  BY <1>1, <1>2, <1>7, <1>8, CheckTells DEF slot

\* What mapBuyerUserStatus makes of the two reads is between the asking and now.
LEMMA MapTells ==
  ASSUME NEW call \in CheckingCall, NEW slot \in Task, NEW time,
         CheckCurrent(call, slot, time), call.task # Unread, call.derived # "unknown",
         NEW answer \in AnsweredCall, answer.asked = call.asked,
         answer.status = mapBuyerUserStatus(call.task, call.derived)
  PROVE  AnswerCurrent(answer, slot, time)
<1> DEFINE read == call.task
           status == answer.status
<1>1. read \in Task /\ read.status \in Status /\ Seen(call.asked, read, slot)
  BY DEF CheckingCall, Task, CheckCurrent
<1>2. call.asked \in Status /\ call.derived # "VERIFIED"
  BY DEF CheckingCall, CheckCurrent
<1>3. /\ Stage(call.asked) \in 1..5 /\ Stage(read.status) \in 1..5
      /\ Stage(slot.status) \in 1..5
  BY <1>1, <1>2, StageType DEF Task
<1>4. /\ Stage(call.asked) <= Stage(read.status) /\ Stage(read.status) <= Stage(slot.status)
      /\ read.status = "PROOF_SUBMITTED" => Proved(slot)
      /\ Terminal(read) => slot.status = read.status
  BY <1>1 DEF Seen
<1>5. call.derived = "EXPIRED" => Stage(call.asked) <= 2 /\ time > slot.deadlineMs
  BY DEF CheckCurrent
<1>6. call.derived = "EXECUTING" => 3 <= Stage(slot.status)
  BY DEF CheckCurrent
<1>7. call.derived = "EXPIRED" => status = "EXPIRED"
  BY DEF mapBuyerUserStatus
<1>8. ASSUME call.derived # "EXPIRED"
      PROVE  /\ read.status = "SETTLED" => status = "COMPLETED"
             /\ read.status = "REFUNDED" => status = "REFUNDED"
             /\ read.status = "PROOF_SUBMITTED" => status = "AWAITING_VERIFICATION"
             /\ read.status = "FUNDED" => status = "IN_PROGRESS"
             /\ read.status \in OpenStatuses /\ call.derived = "EXECUTING" => status = "IN_PROGRESS"
             /\ read.status = "COMMITMENT_SUBMITTED" /\ call.derived # "EXECUTING" =>
                    status = "READY_TO_FUND"
             /\ read.status = "INTENT_CREATED" /\ call.derived # "EXECUTING" =>
                    status = "WAITING_FOR_SELLER"
  BY <1>2, <1>8 DEF mapBuyerUserStatus, OpenStatuses
<1> HIDE DEF read, status
<1>9. CASE call.derived = "EXPIRED"
  BY <1>5, <1>7, <1>9 DEF AnswerCurrent, status
<1>10. CASE call.derived # "EXPIRED"
  <2>1. CASE read.status \in {"FUNDED", "PROOF_SUBMITTED", "SETTLED", "REFUNDED"}
    BY <1>3, <1>4, <1>8, <1>10, <2>1, StageValues DEF AnswerCurrent, Terminal, status
  <2>2. CASE read.status \in OpenStatuses
    BY <1>3, <1>4, <1>6, <1>8, <1>10, <2>2, StageValues DEF AnswerCurrent, OpenStatuses, status
  <2> QED
    BY <1>1, <2>1, <2>2 DEF Status, OpenStatuses
<1> QED
  BY <1>9, <1>10

LEMMA AnswerTells ==
  ASSUME BuyerInv, StatusInv, NEW c \in Calls, answerCheck(c)
  PROVE  StatusInv'
<1> DEFINE call == calls[c]
           slot == tasks[call.taskId]
           status == mapBuyerUserStatus(call.task, call.derived)
           answer == [pc |-> "answered", taskId |-> call.taskId, asked |-> call.asked,
                      status |-> status]
<1>1. /\ call \in CheckingCall /\ slot \in Task /\ Exists(slot)
      /\ CheckCurrent(call, slot, CurrentTimeMs)
      /\ call.task # Unread /\ call.derived # "unknown"
  BY CheckedTask DEF answerCheck, At
<1>2. calls' = [calls EXCEPT ![c] = answer] /\ UNCHANGED vars
  BY DEF answerCheck, Answer, Proceed
<1>3. status \in BuyerUserStatus
  BY <1>1, ToldType DEF CheckingCall
<1>4. tasks' = tasks /\ CurrentTimeMs' = CurrentTimeMs /\ [Next]_vars
  BY <1>2 DEF vars, CurrentTimeMs
<1> HIDE DEF status, call
<1>5. /\ answer \in AnsweredCall /\ answer.asked = call.asked /\ answer.status = status
      /\ answer.pc = "answered" /\ answer.taskId = call.taskId
  BY <1>1, <1>3 DEF AnsweredCall, CheckingCall
<1> HIDE DEF answer, slot
<1>6. AnswerCurrent(answer, slot, CurrentTimeMs)
  BY <1>1, <1>5, MapTells DEF status
<1>7. TellsTrue(answer, tasks', CurrentTimeMs')
  BY <1>1, <1>4, <1>5, <1>6 DEF TellsTrue, slot
<1> QED
  BY <1>2, <1>4, <1>7, OneCallTells

LEMMA StatusStart == BuyerInit => StatusInv
<1> SUFFICES ASSUME BuyerInit PROVE StatusInv
  OBVIOUS
<1>1. \A t \in TaskIds : ~Proved(tasks[t])
  BY DEF BuyerInit, EmptySlot, Proved
<1>2. \A c \in Calls : calls[c].pc = "idle"
  BY DEF BuyerInit, Idle
<1>3. blockTimestamp > 0
  BY DEF BuyerInit
<1> QED
  BY <1>1, <1>2, <1>3, NothingTold DEF StatusInv, ProofsAreTimed

LEMMA StatusStep == BuyerInv /\ StatusInv /\ [BuyerNext]_allVars => StatusInv'
<1> SUFFICES ASSUME BuyerInv, StatusInv, [BuyerNext]_allVars PROVE StatusInv'
  OBVIOUS
<1>1. [Next]_vars
  BY ChainSteps
<1>2. ASSUME NEW c \in Calls, CallStep(c) PROVE StatusInv'
  BY <1>1, <1>2, QuietCallTells, CreatedTells, TimeoutTells, FundedTells, CheckBegins,
     TaskReadTells, StatusReadTells, TimeReadTells, AnswerTells DEF CallStep
<1>3. ASSUME UNCHANGED calls PROVE StatusInv'
  <2>1. ProofsAreTimed'
    BY <1>1, ProofsStayTimed DEF BuyerInv, StatusInv
  <2>2. \A c \in Calls : TellsTrue(calls[c], tasks', CurrentTimeMs')
    BY <1>1, TellsKept DEF StatusInv
  <2> QED
    BY <1>3, <2>1, <2>2 DEF StatusInv
<1>4. CASE UNCHANGED allVars
  BY <1>3, <1>4 DEF allVars, buyerVars
<1> QED
  BY <1>2, <1>3, <1>4 DEF BuyerNext, buyerVars

\* A status told to the agent is one the task had between the question and the answer,
\* for any number of checks side by side with any other calls: getTask, getTaskStatus and
\* the time of the block may each be read at another moment of the task.
THEOREM StatusesAreCurrent == BuyerSpec => []AnswersAreCurrent
<1>1. BuyerInv /\ StatusInv => AnswersAreCurrent
  <2> SUFFICES ASSUME BuyerInv, StatusInv, NEW c \in Calls, calls[c].pc = "answered"
               PROVE  LET status == calls[c].status
                          task == tasks[calls[c].taskId]
                      IN  /\ status = "EXPIRED" =>
                                 Stage(calls[c].asked) <= 2 /\ CurrentTimeMs > task.deadlineMs
                          /\ status # "EXPIRED" =>
                                 /\ Stage(calls[c].asked) <= Stage(status)
                                 /\ Stage(status) <= Stage(task.status)
                                 /\ status = "AWAITING_VERIFICATION" =>
                                        task.proofSubmittedAtMs # 0
                                 /\ status = "COMPLETED" => task.status = "SETTLED"
                                 /\ status = "REFUNDED" => task.status = "REFUNDED"
    BY DEF AnswersAreCurrent, At
  <2>1. AnswerCurrent(calls[c], tasks[calls[c].taskId], CurrentTimeMs)
    BY DEF StatusInv, TellsTrue
  <2>2. calls[c].taskId \in TaskIds
    <3>1. calls[c] \in CallValues /\ Idle.pc = "idle"
      BY BuyerValues DEF Idle
    <3>2. calls[c] \in AnsweredCall
      BY <3>1 DEF CallValues, PayingCall, CheckingCall, Transactions, Refunds
    <3> QED
      BY <3>2 DEF AnsweredCall
  <2>3. Proved(tasks[calls[c].taskId]) => tasks[calls[c].taskId].proofSubmittedAtMs # 0
    BY <2>2 DEF StatusInv, ProofsAreTimed
  <2> QED
    BY <2>1, <2>3 DEF AnswerCurrent
<1>2. BuyerInit => StatusInv
  BY StatusStart
<1>3. BuyerInv /\ StatusInv /\ [BuyerNext]_allVars => StatusInv'
  BY StatusStep
<1> QED
  BY <1>1, <1>2, <1>3, BuyerInvariance, PTL DEF BuyerSpec

=============================================================================
