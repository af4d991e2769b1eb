---------------------------- MODULE BuyerClient ----------------------------
(***************************************************************************)
(* The tools of a buyer's agent (packages/buyer-skill/src/tools.ts) over   *)
(* the buyer SDK (packages/buyer-sdk/src/client.ts), as concurrent calls,  *)
(* composed with the contract they read and send transactions to.          *)
(*                                                                         *)
(* A call is cut into steps where it awaits the chain: a transaction that  *)
(* is sent and later mined, a read of the task, a read of the time.  Any   *)
(* await may fail, also one for a transaction that is mined all the same.  *)
(*                                                                         *)
(* Left out: funding without validation, which the SDK offers and the      *)
(* tools do not, and the list tool, which makes the calls of checkTask.    *)
(***************************************************************************)
EXTENDS TyrPaySettlement

CONSTANTS
    Calls,          \* tool calls the agent can have in flight
    Buyer,          \* the account of the agent's signer
    Jobs,           \* what the agent wants done
    Order,          \* the arguments that a job is posted with
    Commitments,    \* the commitment object of a hash
    RetriesPosts,   \* the agent posts again after an error marked retryable
    NoJob

\* The object a seller commits to.  The endpoint is host, path and method.
Commitment ==
    [taskId : TaskIds, buyer : Accounts, seller : Accounts, deadline : Nat,
     endpoint : STRING, allowedModels : SUBSET STRING, minUsage : Nat,
     verifier : Verifiers]

\* Empty sets and zeros stand for expectations that are not given.
Expectations ==
    [endpoints : SUBSET STRING, models : SUBSET STRING, verifiers : SUBSET Verifiers,
     minUsage : Nat, nowMs : Nat]

\* A post or a fund is refused without any expectation.
hasEffectiveExpectationConstraint(expectations) ==
    \/ expectations.endpoints # {} \/ expectations.models # {}
    \/ expectations.verifiers # {}
    \/ expectations.minUsage > 0 \/ expectations.nowMs > 0

Orders ==
    [seller : Accounts, token : Tokens, amount : Amounts, deadlineMs : Deadlines,
     expectations : Expectations]

ASSUME BuyerAssumption ==
    /\ Buyer \in Accounts
    /\ NoJob \notin Jobs
    /\ RetriesPosts \in BOOLEAN
    /\ \A hash \in Hashes : Commitments[hash] \in Commitment
    /\ \A job \in Jobs :
           /\ Order[job] \in Orders
           /\ hasEffectiveExpectationConstraint(Order[job].expectations)

VARIABLES
    calls,      \* calls[c]: where call c is, and what it knows
    unposted,   \* the jobs the agent would post next
    orderedBy,  \* orderedBy[t]: the job that task t was created for
    known       \* the tasks whose ids a tool has returned to the agent

buyerVars == <<calls, unposted, orderedBy, known>>
allVars == <<vars, buyerVars>>

Idle == [pc |-> "idle"]

Refunds == {"refundAfterProofSubmissionDeadline", "refundAfterVerificationTimeout"}

\* The transactions a call waits for, by the function they call.
Transactions == {"createTaskIntent", "fundTask"} \cup Refunds

\* A call of post, fund or refund; taskId is 0 until the task is created.  When
\* waits is false the call has failed, but its transaction is still on its way.
PayingCall ==
    [pc : Transactions \cup {"polling", "validating"}, job : Jobs,
     taskId : TaskIds \cup {0}, waits : BOOLEAN]

Unread == [status |-> "unread"]

\* VERIFIED stands for VERIFIED_PASS and VERIFIED_FAIL.
DerivedTaskStatus == Status \cup {"EXECUTING", "EXPIRED", "VERIFIED"}

BuyerUserStatus ==
    {"WAITING_FOR_SELLER", "READY_TO_FUND", "IN_PROGRESS", "AWAITING_VERIFICATION",
     "VERIFIED", "COMPLETED", "REFUNDED", "EXPIRED"}

\* A call of check.  asked is the status when the call began, task what getTask has
\* read, pending what getTaskStatus has read and derived what it has answered.
CheckingCall ==
    [pc : {"checking"}, taskId : TaskIds, asked : Status, task : Task \cup {Unread},
     pending : Task \cup {Unread}, derived : DerivedTaskStatus \cup {"unknown"}]

\* A call that returns a status to the agent.
AnsweredCall == [pc : {"answered"}, taskId : TaskIds, asked : Status, status : BuyerUserStatus]

At(c, pc) == calls[c].pc = pc

Proceed(c, call) == calls' = [calls EXCEPT ![c] = call]

-----------------------------------------------------------------------------
(* Deliberately wrong variants of the definitions they name, for runs that show
   that a property can fail; no specification uses them. *)

\* For Answer: forgets what the answer is about.
AnswerWithoutTask(c, t, asked, status) ==
    Proceed(c, [pc |-> "answered", asked |-> asked, status |-> status])

\* For Validated: the commitment is only compared with the task.
ValidatedForTask(task, t, commitment, expectations) ==
    /\ commitment.taskId = t
    /\ commitment.buyer = task.buyer /\ commitment.seller = task.seller
    /\ commitment.deadline <= task.deadlineMs

\* For mapBuyerUserStatus: forgets a task under verification.
mapWithoutVerification(task, derived) ==
    CASE derived = "EXPIRED" -> "EXPIRED"
      [] task.status = "SETTLED" -> "COMPLETED"
      [] task.status = "REFUNDED" -> "REFUNDED"
      [] derived = "EXECUTING" \/ task.status = "FUNDED" -> "IN_PROGRESS"
      [] task.status = "COMMITMENT_SUBMITTED" -> "READY_TO_FUND"
      [] OTHER -> "WAITING_FOR_SELLER"

Answer(c, t, asked, status) ==
    Proceed(c, [pc |-> "answered", taskId |-> t, asked |-> asked, status |-> status])

-----------------------------------------------------------------------------
(* validateCommitment *)

boundToTask(task, t, commitment) ==
    /\ commitment.taskId = t
    /\ commitment.buyer = task.buyer /\ commitment.seller = task.seller
    /\ commitment.deadline <= task.deadlineMs

accepts(acceptedValues, values) ==
    acceptedValues = {} \/ values \subseteq acceptedValues

meetsExpectations(commitment, expectations) ==
    /\ commitment.allowedModels # {}
    /\ commitment.minUsage >= expectations.minUsage
    /\ accepts(expectations.endpoints, {commitment.endpoint})
    /\ accepts(expectations.models, commitment.allowedModels)
    /\ accepts(expectations.verifiers, {commitment.verifier})
    /\ commitment.deadline >= expectations.nowMs

Validated(task, t, commitment, expectations) ==
    boundToTask(task, t, commitment) /\ meetsExpectations(commitment, expectations)

-----------------------------------------------------------------------------
(* What a status call makes of a slot *)

\* getTaskStatus of a slot that needs no look at the time.  The verdict is that of
\* the report under the hash in the slot.
DerivedStatus(task) ==
    IF task.status = "FUNDED" THEN "EXECUTING"
    ELSE IF task.status = "PROOF_SUBMITTED" /\ ByReport(task) THEN "VERIFIED"
    ELSE task.status

hasDeadlinePassed(deadlineMs) == CurrentTimeMs > deadlineMs

mapBuyerUserStatus(task, derived) ==
    CASE derived \in {"EXPIRED", "VERIFIED"} -> derived
      [] derived \notin {"EXPIRED", "VERIFIED"} ->
           CASE task.status = "SETTLED" -> "COMPLETED"
             [] task.status = "REFUNDED" -> "REFUNDED"
             [] task.status = "PROOF_SUBMITTED" -> "AWAITING_VERIFICATION"
             [] task.status = "FUNDED" -> "IN_PROGRESS"
             [] task.status \in {"INTENT_CREATED", "COMMITMENT_SUBMITTED"} ->
                  IF derived = "EXECUTING" THEN "IN_PROGRESS"
                  ELSE IF task.status = "COMMITMENT_SUBMITTED" THEN "READY_TO_FUND"
                  ELSE "WAITING_FOR_SELLER"

-----------------------------------------------------------------------------
(* Posting and funding *)

\* The post tool sends the transaction that creates the task.
postTask(c, job) ==
    /\ At(c, "idle") /\ job \in unposted
    /\ unposted' = unposted \ {job}
    /\ Proceed(c, [pc |-> "createTaskIntent", job |-> job, taskId |-> 0, waits |-> TRUE])
    /\ UNCHANGED <<vars, orderedBy, known>>

\* The transaction is mined, and the id is read from its receipt.  The call goes
\* on to poll, or it was asked only to create.
taskCreated(c, createOnly) ==
    /\ At(c, "createTaskIntent")
    /\ LET call == calls[c]
           order == Order[call.job]
       IN  /\ createTaskIntent(Buyer, order.seller, order.token, order.amount,
                               order.deadlineMs)
           /\ orderedBy' = [orderedBy EXCEPT ![nextSequence] = call.job]
           /\ IF call.waits /\ createOnly
              THEN /\ Answer(c, nextSequence, "INTENT_CREATED", "WAITING_FOR_SELLER")
                   /\ known' = known \cup {nextSequence}
              ELSE /\ Proceed(c, IF call.waits
                                 THEN [call EXCEPT !.pc = "polling", !.taskId = nextSequence]
                                 ELSE Idle)
                   /\ UNCHANGED known
    /\ UNCHANGED unposted

\* The loop of executePostTask finds a commitment, or it gives up after one more
\* look.
pollCommitted(c) ==
    /\ At(c, "polling")
    /\ tasks[calls[c].taskId].commitmentHash # NoHash
    /\ Proceed(c, [calls[c] EXCEPT !.pc = "validating"])
    /\ UNCHANGED <<vars, unposted, orderedBy, known>>

pollTimedOut(c) ==
    /\ At(c, "polling")
    /\ LET t == calls[c].taskId
       IN  /\ tasks[t].commitmentHash = NoHash
           /\ Answer(c, t, tasks[t].status, "WAITING_FOR_SELLER")
           /\ known' = known \cup {t}
    /\ UNCHANGED <<vars, unposted, orderedBy>>

\* The fund tool, for a task whose id the agent has.
fundTaskTool(c, t) ==
    /\ At(c, "idle") /\ t \in known
    /\ Proceed(c, [pc |-> "validating", job |-> orderedBy[t], taskId |-> t, waits |-> TRUE])
    /\ UNCHANGED <<vars, unposted, orderedBy, known>>

\* executeFundTask: the task is read and its commitment object loaded under the
\* hash that was read; when all checks hold, the transaction is sent.
validateCommitment(c) ==
    /\ At(c, "validating")
    /\ LET t == calls[c].taskId
       IN  /\ tasks[t].commitmentHash # NoHash
           /\ Validated(tasks[t], t, Commitments[tasks[t].commitmentHash],
                        Order[calls[c].job].expectations)
    /\ Proceed(c, [calls[c] EXCEPT !.pc = "fundTask"])
    /\ UNCHANGED <<vars, unposted, orderedBy, known>>

taskFunded(c) ==
    /\ At(c, "fundTask")
    /\ LET t == calls[c].taskId
       IN  /\ fundTask(Buyer, t)
           /\ IF calls[c].waits
              THEN /\ Answer(c, t, tasks[t].status, "IN_PROGRESS")
                   /\ known' = known \cup {t}
              ELSE Proceed(c, Idle) /\ UNCHANGED known
    /\ UNCHANGED <<unposted, orderedBy>>

-----------------------------------------------------------------------------
(* Refunds *)

refundTaskTool(c, t, reason) ==
    /\ At(c, "idle") /\ t \in known
    /\ Proceed(c, [pc |-> reason, job |-> orderedBy[t], taskId |-> t, waits |-> TRUE])
    /\ UNCHANGED <<vars, unposted, orderedBy, known>>

taskRefunded(c) ==
    /\ \/ /\ At(c, "refundAfterProofSubmissionDeadline")
          /\ refundAfterProofSubmissionDeadline(calls[c].taskId)
       \/ /\ At(c, "refundAfterVerificationTimeout")
          /\ refundAfterVerificationTimeout(calls[c].taskId)
    /\ Proceed(c, Idle)
    /\ UNCHANGED <<unposted, orderedBy, known>>

-----------------------------------------------------------------------------
(* Checking: getTask and getTaskStatus side by side *)

checkTask(c, t) ==
    /\ At(c, "idle") /\ t \in known
    /\ Proceed(c, [pc |-> "checking", taskId |-> t, asked |-> tasks[t].status, task |-> Unread,
                   pending |-> Unread, derived |-> "unknown"])
    /\ UNCHANGED <<vars, unposted, orderedBy, known>>

getTask(c) ==
    /\ At(c, "checking") /\ calls[c].task = Unread
    /\ Proceed(c, [calls[c] EXCEPT !.task = tasks[calls[c].taskId]])
    /\ UNCHANGED <<vars, unposted, orderedBy, known>>

\* The first read of getTaskStatus; before funding the time is read next.
getTaskStatus(c) ==
    /\ At(c, "checking") /\ calls[c].derived = "unknown" /\ calls[c].pending = Unread
    /\ LET task == tasks[calls[c].taskId]
       IN  Proceed(c, IF task.status \in {"INTENT_CREATED", "COMMITMENT_SUBMITTED"}
                      THEN [calls[c] EXCEPT !.pending = task]
                      ELSE [calls[c] EXCEPT !.derived = DerivedStatus(task)])
    /\ UNCHANGED <<vars, unposted, orderedBy, known>>

currentTimeMs(c) ==
    /\ At(c, "checking") /\ calls[c].derived = "unknown" /\ calls[c].pending # Unread
    /\ LET task == calls[c].pending
       IN  Proceed(c, [calls[c] EXCEPT !.derived =
               IF hasDeadlinePassed(task.deadlineMs) THEN "EXPIRED" ELSE task.status])
    /\ UNCHANGED <<vars, unposted, orderedBy, known>>

answerCheck(c) ==
    /\ At(c, "checking") /\ calls[c].task # Unread /\ calls[c].derived # "unknown"
    /\ Answer(c, calls[c].taskId, calls[c].asked,
              mapBuyerUserStatus(calls[c].task, calls[c].derived))
    /\ UNCHANGED <<vars, unposted, orderedBy, known>>

-----------------------------------------------------------------------------
(* Failures, and the composition *)

\* A post that has not returned the id of its task.  The other calls were given it.
IsPost(call) == call.pc # "checking" /\ call.taskId \notin known

\* The agent may take an error marked retryable at its word and post the job again.
AfterError(call) ==
    {unposted} \cup
    IF RetriesPosts /\ IsPost(call) /\ call.waits THEN {unposted \cup {call.job}} ELSE {}

\* A read fails, or a check does, or the transaction reverts or is dropped.
Fail(c) ==
    /\ ~At(c, "idle") /\ ~At(c, "answered")
    /\ Proceed(c, Idle)
    /\ unposted' \in AfterError(calls[c])
    /\ UNCHANGED <<vars, orderedBy, known>>

\* The call fails while its transaction is under way.
Abandon(c) ==
    /\ calls[c].pc \in Transactions /\ calls[c].waits
    /\ Proceed(c, [calls[c] EXCEPT !.waits = FALSE])
    /\ unposted' \in AfterError(calls[c])
    /\ UNCHANGED <<vars, orderedBy, known>>

\* The agent is done with an answer.
Dismiss(c) ==
    /\ At(c, "answered")
    /\ Proceed(c, Idle)
    /\ UNCHANGED <<vars, unposted, orderedBy, known>>

CallStep(c) ==
    \/ \E job \in Jobs : postTask(c, job)
    \/ \E createOnly \in BOOLEAN : taskCreated(c, createOnly)
    \/ pollCommitted(c) \/ pollTimedOut(c)
    \/ validateCommitment(c) \/ taskFunded(c) \/ taskRefunded(c)
    \/ \E t \in TaskIds :
           \/ fundTaskTool(c, t) \/ checkTask(c, t)
           \/ \E reason \in Refunds : refundTaskTool(c, t, reason)
    \/ getTask(c) \/ getTaskStatus(c) \/ currentTimeMs(c) \/ answerCheck(c)
    \/ Fail(c) \/ Abandon(c) \/ Dismiss(c)

\* What the others do on the chain.
ChainStep ==
    \/ \E caller \in Accounts, t \in TaskIds, hash \in Hashes :
           submitCommitment(caller, t, hash) \/ submitProofBundle(caller, t, hash)
    \/ \E report \in SignedReports : settle(report)
    \/ \E t \in TaskIds :
           \/ refundAfterProofSubmissionDeadline(t)
           \/ refundAfterVerificationTimeout(t)
    \/ Tick

BuyerInit ==
    /\ blockTimestamp = 1
    /\ nextSequence = 1
    /\ tasks = [t \in TaskIds |-> EmptySlot]
    /\ usedProofBundleHash = {}
    /\ allowedTokens = Tokens
    /\ balanceOf = [token \in Tokens |->
           [a \in Holders |-> IF a = Settlement THEN 0 ELSE InitialBalance]]
    /\ authorizedVerifiers = Verifiers
    /\ calls = [c \in Calls |-> Idle]
    /\ unposted = Jobs
    /\ orderedBy = [t \in TaskIds |-> NoJob]
    /\ known = {}

BuyerNext ==
    \/ \E c \in Calls : CallStep(c)
    \/ ChainStep /\ UNCHANGED buyerVars

BuyerSpec == BuyerInit /\ [][BuyerNext]_allVars

-----------------------------------------------------------------------------
(* Properties *)

\* The values the variables of the buyer range over.
BuyerTypeOK ==
    /\ calls \in [Calls -> {Idle} \cup PayingCall \cup CheckingCall \cup AnsweredCall]
    /\ unposted \in SUBSET Jobs
    /\ orderedBy \in [TaskIds -> Jobs \cup {NoJob}]
    /\ known \in SUBSET TaskIds

\* Money was locked on the task.
WasFunded(task) == Live(task) \/ Terminal(task)

\* Money is locked only on terms that the agent accepted: the seller, the token and
\* the amount it ordered with, and a commitment that binds this task and meets the
\* expectations, however much happened on the chain between the validation and the
\* funding.
MoneyFollowsTerms ==
    \A t \in TaskIds :
        WasFunded(tasks[t]) =>
            LET order == Order[orderedBy[t]]
                commitment == Commitments[tasks[t].commitmentHash]
            IN  /\ orderedBy[t] # NoJob
                /\ tasks[t].seller = order.seller /\ tasks[t].token = order.token
                /\ tasks[t].amount = order.amount
                /\ boundToTask(tasks[t], t, commitment)
                /\ meetsExpectations(commitment, order.expectations)

\* How far a task is, by its status and by what the agent is told.
Stage(status) ==
    CASE status \in {"INTENT_CREATED", "WAITING_FOR_SELLER"} -> 1
      [] status \in {"COMMITMENT_SUBMITTED", "READY_TO_FUND"} -> 2
      [] status \in {"FUNDED", "IN_PROGRESS"} -> 3
      [] status \in {"PROOF_SUBMITTED", "AWAITING_VERIFICATION", "VERIFIED"} -> 4
      [] status \in {"SETTLED", "COMPLETED", "REFUNDED"} -> 5

\* A status told to the agent is one that the task had between the question and the
\* answer, although it is made of two reads of the task and one of the time.  An
\* expired task was not funded when it was asked for, and its time is over.
AnswersAreCurrent ==
    \A c \in Calls :
        LET status == calls[c].status
            task == tasks[calls[c].taskId]
        IN  /\ At(c, "answered") /\ status = "EXPIRED" =>
                   Stage(calls[c].asked) <= 2 /\ CurrentTimeMs > task.deadlineMs
            /\ At(c, "answered") /\ status # "EXPIRED" =>
                   /\ Stage(calls[c].asked) <= Stage(status)
                   /\ Stage(status) <= Stage(task.status)
                   /\ status = "AWAITING_VERIFICATION" => task.proofSubmittedAtMs # 0
                   /\ status = "COMPLETED" => task.status = "SETTLED"
                   /\ status = "REFUNDED" => task.status = "REFUNDED"

\* An agent that posts again only where it is told that it can retry pays once for
\* what it wants done.
OneTaskPerJob ==
    \A t, s \in TaskIds :
        WasFunded(tasks[t]) /\ WasFunded(tasks[s]) /\ orderedBy[t] = orderedBy[s] => t = s

=============================================================================
