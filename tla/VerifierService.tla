-------------------------- MODULE VerifierService --------------------------
(***************************************************************************)
(* verifyTask of the verifier service (apps/verifier-service/src/index.ts) *)
(* as concurrent requests in one process, composed with the settlement     *)
(* contract it reads and writes and with its registry of consumed proofs.  *)
(*                                                                         *)
(* A request is cut into steps where the code awaits something that others *)
(* change: the chain, the registry, the store.  Any await may fail (Fail), *)
(* and the process may stop and start again at any moment (Restart).       *)
(*                                                                         *)
(* What the checks say of a task and its bundle is a constant here;        *)
(* VerificationChecks is about how they come to it, and BuyerProtection    *)
(* puts the two together.  The tasks are funded at the start, with the     *)
(* contract as it is after the parties agreed.                             *)
(***************************************************************************)
EXTENDS SettlementAccounting

CONSTANTS
    Requests,           \* requests the process can have in flight
    Verifier,           \* the address of the service's signing key
    AssignedVerifier,   \* the verifier that the commitment of a hash names
    Bundles,            \* the proof bundle of a hash
    LoadableWork,       \* the works whose objects are well-formed
    EligibleWork,       \* the works whose proofs may be reserved
    PassingWork,        \* the works that pass every check
    Agreements,         \* the terms that buyer and seller may have agreed on
    LocalTimes,         \* readings of the service's own clock, in milliseconds
    ReportHash,         \* the hash of a report: any non-zero value
    MaxEscrow,          \* bound: what the contract holds of a token at the start
    Keys, NoRecord, Persistent

\* What the checks come to: all pass, one fails, or one of those fails that a
\* reservation of the proofs depends on.
Verdicts == {"passes", "fails", "invalid"}

\* keys are the consumption keys of the receipts, repeated says that one of the
\* types that must not repeat does.
ProofBundle == [keys : SUBSET Keys, repeated : BOOLEAN]

\* What the checks of a report look at: the terms of the task as it was read.  What
\* lies behind its two hashes never changes.
Work(t, task) ==
    [taskId |-> t, buyer |-> task.buyer, seller |-> task.seller,
     commitmentHash |-> task.commitmentHash, proofBundleHash |-> task.proofBundleHash,
     fundedAtMs |-> task.fundedAtMs, deadlineMs |-> task.deadlineMs]

Agreement ==
    [buyer : Accounts, seller : Accounts, token : Tokens, amount : Amounts \ {0},
     deadlineMs : {d \in Deadlines : d > MsPerSecond}, commitmentHash : Hashes]

ASSUME ServiceAssumption ==
    /\ Verifier \in Verifiers
    /\ Bundles \in [Hashes -> ProofBundle]
    /\ PassingWork \subseteq EligibleWork
    /\ Agreements \subseteq Agreement
    /\ LocalTimes \subseteq Nat
    /\ ReportHash \in Hashes
    /\ MaxEscrow \in Nat
    /\ Persistent \in BOOLEAN
    /\ NoRecord \notin VerificationReport

VARIABLES
    requests,   \* requests[r]: where request r is, and what it has read
    stored,     \* the signed reports in the store
    released,   \* the reports in a transaction or an answer that has left
    due,        \* history: those of them whose proofs were to be reserved
    consumed,   \* the registry of consumed proofs
    lost        \* history: the registry has lost a record

serviceVars == <<requests, stored, released, due, consumed, lost>>
allVars == <<vars, serviceVars>>

Consumption == INSTANCE ConsumptionRegistry

Idle == [pc |-> "idle"]

\* pc is the point the request has reached; task is the slot as it was read;
\* reads are the answers "not consumed" that arrived.
Request ==
    [pc : {"loaded", "evaluating", "stored", "checked", "reserved"},
     taskId : TaskIds, task : Task, mark : BOOLEAN, verifiedAt : Nat,
     reads : SUBSET {"registry", "chain"}, verdict : Verdicts \cup {"unknown"}]

At(r, pc) == requests[r].pc = pc

Bundle(request) == Bundles[request.task.proofBundleHash]

Verdict(work) ==
    IF work \in PassingWork THEN "passes"
    ELSE IF work \in EligibleWork THEN "fails" ELSE "invalid"

\* buildUnsignedReport and signVerificationReport.
ReportOf(request) ==
    LET passed == request.verdict = "passes"
    IN  [taskId |-> request.taskId, buyer |-> request.task.buyer,
         seller |-> request.task.seller,
         commitmentHash |-> request.task.commitmentHash,
         proofBundleHash |-> request.task.proofBundleHash,
         passed |-> passed,
         settlementAction |-> IF passed THEN "RELEASE" ELSE "REFUND",
         settlementAmount |-> request.task.amount,
         verifiedAt |-> request.verifiedAt,
         reportHash |-> ReportHash, signer |-> Verifier]

Proceed(r, request) == requests' = [requests EXCEPT ![r] = request]

-----------------------------------------------------------------------------
(* Deliberately wrong variants of the definitions they name, for runs that show
   that a property can fail; no specification uses them. *)

\* For BeforeTimeout: compares with the time allowed for the proof.
BeforeGraceEnds(task, time) == time <= task.deadlineMs + proofSubmissionGracePeriodMs

\* For Outcomes: a proof that cannot be checked counts as a good one.
OutcomesTrusting(request) ==
    {Verdict(Work(request.taskId, request.task)), "passes"}

\* For MustReserve: a failing report reserves nothing.
MustReservePassing(request) == request.mark /\ request.verdict = "passes"

\* For MustReserve: a passing report reserves nothing, as the contract will mark its
\* bundle as used.
MustReserveUnpaid(request) == request.mark /\ request.verdict = "fails"

\* For Stored: the report is not waited for.
NotYetStored(report) == stored

-----------------------------------------------------------------------------

\* proofSubmittedAt against the deadline, on integers that do not overflow.
SubmittedInGrace(task) ==
    task.proofSubmittedAtMs <= task.deadlineMs + proofSubmissionGracePeriodMs

BeforeTimeout(task, time) == time <= task.proofSubmittedAtMs + verificationTimeoutMs

\* proofsEligibleForConsumption.
Eligible(verdict) == verdict # "invalid"

MustReserve(request) == request.mark /\ Eligible(request.verdict)

\* What the history records of a report that leaves: the client did not ask to leave
\* its proofs alone, and none of them was found invalid.
ReservationDue(request) == request.mark /\ request.verdict \in {"passes", "fails"}

-----------------------------------------------------------------------------
(* The steps of a request *)

\* A request arrives and loadInputs reads the task; the commitment, the bundle
\* and the raw proofs that it loads next never change.
loadInputs(r, t, mark) ==
    /\ At(r, "idle")
    /\ InState(tasks[t], "PROOF_SUBMITTED")
    /\ SubmittedInGrace(tasks[t])
    /\ Work(t, tasks[t]) \in LoadableWork
    /\ Proceed(r, [pc |-> "loaded", taskId |-> t, task |-> tasks[t], mark |-> mark,
                   verifiedAt |-> 0, reads |-> {}, verdict |-> "unknown"])
    /\ UNCHANGED <<vars, stored, released, due, consumed, lost>>

\* The clock of the service is read, and assertVerifierCanSign asks the chain.
assertVerifierCanSign(r, time) ==
    /\ At(r, "loaded")
    /\ AssignedVerifier[requests[r].task.commitmentHash] = Verifier
    /\ Registry!isVerifier(Verifier)
    /\ BeforeTimeout(requests[r].task, time)
    /\ Proceed(r, [requests[r] EXCEPT !.pc = "evaluating", !.verifiedAt = time])
    /\ UNCHANGED <<vars, stored, released, due, consumed, lost>>

\* One of the two reads of evaluate comes back.  A request that finds something
\* consumed ends with an error when all three answers are there; nothing it does
\* until then has an effect, so it ends here.
readConsumption(r, source, found) ==
    /\ At(r, "evaluating") /\ source \notin requests[r].reads
    /\ Proceed(r, IF found THEN Idle
                  ELSE [requests[r] EXCEPT !.reads = @ \cup {source}])
    /\ UNCHANGED <<vars, stored, released, due, consumed, lost>>

findAny(r) ==
    /\ At(r, "evaluating")
    /\ readConsumption(r, "registry", Consumption!hasAny(Bundle(requests[r]).keys))

isProofBundleConsumed(r) ==
    /\ At(r, "evaluating")
    /\ readConsumption(r, "chain", ~Unused(requests[r].task.proofBundleHash))

\* What the adapters may answer.  An adapter that fails fails the request; but the
\* Reclaim adapter, which the server runs, catches every error, and a proof that it
\* could not check is an invalid one to the service.
Outcomes(request) == {Verdict(Work(request.taskId, request.task)), "invalid"}

\* The adapters have answered for every raw proof.
verifyReceiptProofs(r) ==
    /\ At(r, "evaluating") /\ requests[r].verdict = "unknown"
    /\ \E verdict \in Outcomes(requests[r]) :
           Proceed(r, [requests[r] EXCEPT !.verdict = verdict])
    /\ UNCHANGED <<vars, stored, released, due, consumed, lost>>

Stored(report) == stored \cup {report}

\* With all answers there, the report is signed and put into the store.
putReport(r) ==
    /\ At(r, "evaluating")
    /\ requests[r].reads = {"registry", "chain"}
    /\ requests[r].verdict # "unknown"
    /\ stored' = Stored(ReportOf(requests[r]))
    /\ Proceed(r, [requests[r] EXCEPT !.pc = "stored"])
    /\ UNCHANGED <<vars, released, due, consumed, lost>>

\* The first half of markConsumed: it throws when a key is taken.
markConsumedCheck(r) ==
    /\ At(r, "stored") /\ MustReserve(requests[r])
    /\ ~Bundle(requests[r]).repeated
    /\ ~Consumption!hasAny(Bundle(requests[r]).keys)
    /\ Proceed(r, [requests[r] EXCEPT !.pc = "checked"])
    /\ UNCHANGED <<vars, stored, released, due, consumed, lost>>

\* The second half: the write.  The database throws when a key was taken since.
markConsumedWrite(r) ==
    /\ At(r, "checked")
    /\ Consumption!writeKeys(Bundle(requests[r]).keys, ReportOf(requests[r]))
    /\ Proceed(r, [requests[r] EXCEPT !.pc = "reserved"])
    /\ UNCHANGED <<vars, stored, released, due>>

\* maybeSettle sends the transaction, or the answer takes the report to the
\* client; from here on it can reach the contract at any time.
maybeSettle(r) ==
    /\ At(r, "reserved") \/ (At(r, "stored") /\ ~MustReserve(requests[r]))
    /\ released' = released \cup {ReportOf(requests[r])}
    /\ due' = IF ReservationDue(requests[r]) THEN due \cup {ReportOf(requests[r])}
                                            ELSE due
    /\ Proceed(r, Idle)
    /\ UNCHANGED <<vars, stored, consumed, lost>>

\* A check above that does not hold, or an await that fails.
Fail(r) ==
    /\ ~At(r, "idle")
    /\ Proceed(r, Idle)
    /\ UNCHANGED <<vars, stored, released, due, consumed, lost>>

RequestStep(r) ==
    \/ \E t \in TaskIds, mark \in BOOLEAN : loadInputs(r, t, mark)
    \/ \E time \in LocalTimes : assertVerifierCanSign(r, time)
    \/ findAny(r)
    \/ isProofBundleConsumed(r)
    \/ verifyReceiptProofs(r)
    \/ putReport(r)
    \/ markConsumedCheck(r)
    \/ markConsumedWrite(r)
    \/ maybeSettle(r)
    \/ Fail(r)

\* The process stops and starts again: every request in flight is gone.
Restart ==
    /\ requests' = [r \in Requests |-> Idle]
    /\ Consumption!restart
    /\ UNCHANGED <<vars, stored, released, due>>

-----------------------------------------------------------------------------
(* The composition *)

\* The slot of a task whose parties agreed and that was funded in the first block.
AgreedSlot(agreement) ==
    Funded(Committed(Created(EmptySlot, agreement.buyer, agreement.seller,
                             agreement.token, agreement.amount,
                             agreement.deadlineMs),
                     agreement.commitmentHash))

ServiceInit ==
    /\ blockTimestamp = 1
    /\ nextSequence = MaxTasks + 1
    /\ \E agreed \in [TaskIds -> Agreements] :
           tasks = [t \in TaskIds |-> AgreedSlot(agreed[t])]
    /\ usedProofBundleHash = {}
    /\ allowedTokens = Tokens
    /\ \E held \in [Tokens -> 0..MaxEscrow] :
           balanceOf = [token \in Tokens |->
               [a \in Holders |-> IF a = Settlement THEN held[token]
                                                    ELSE InitialBalance]]
    /\ Solvent
    /\ authorizedVerifiers = {Verifier}
    /\ requests = [r \in Requests |-> Idle]
    /\ stored = {} /\ released = {} /\ due = {}
    /\ Consumption!ConsumptionInit

\* What happens on the chain: sellers submit proofs, somebody brings a report
\* that has left the service, refunds, the registry's owner, blocks.
ChainStep ==
    \/ \E caller \in Accounts, t \in TaskIds, hash \in Hashes :
           submitProofBundle(caller, t, hash)
    \/ \E report \in released : settle(report)
    \/ \E t \in TaskIds :
           \/ refundAfterProofSubmissionDeadline(t)
           \/ refundAfterVerificationTimeout(t)
    \/ RegistryStep
    \/ Tick

ServiceNext ==
    \/ \E r \in Requests : RequestStep(r)
    \/ Restart
    \/ ChainStep /\ UNCHANGED serviceVars

ServiceSpec == ServiceInit /\ [][ServiceNext]_allVars

-----------------------------------------------------------------------------
(* Properties *)

\* The values the variables of the service range over.
ServiceTypeOK ==
    /\ requests \in [Requests -> {Idle} \cup Request]
    /\ stored \in SUBSET VerificationReport
    /\ released \in SUBSET VerificationReport /\ due \subseteq released
    /\ lost \in BOOLEAN
    /\ consumed \in [Keys -> VerificationReport \cup {NoRecord}]

\* Every report that the service ever signed fits its task as long as the task
\* waits for one: whatever happened on the chain since the task was read, and
\* however the service's clock is set, the contract finds nothing wrong with it.
SignedReportsFit ==
    \A report \in stored :
        LET task == tasks[report.taskId]
        IN  /\ Proved(task)
            /\ task.status = "PROOF_SUBMITTED" =>
                   /\ ReportMatches(task, report)
                   /\ report.reportHash # NoHash

\* A seller is paid only for a bundle that deserves it by the terms that the task has
\* now, although the report was made of an earlier look at it and whatever the adapters
\* could not find out.
EndsByVerdict ==
    \A t \in TaskIds :
        tasks[t].status = "SETTLED" => Verdict(Work(t, tasks[t])) = "passes"

\* A signed report fails a bundle only when a check of its content does, never
\* because something was temporarily out of reach.
NoFailureForOutage ==
    \A report \in stored :
        report.passed \/ Verdict(Work(report.taskId, tasks[report.taskId])) # "passes"

\* Two reports that left the service, were to reserve their proofs and stand for a
\* common one are reports on one task and one bundle.
ProofsBelongToOneTask ==
    \A p, q \in due :
        Bundles[p.proofBundleHash].keys \cap Bundles[q.proofBundleHash].keys # {}
        => p.taskId = q.taskId /\ p.proofBundleHash = q.proofBundleHash

\* The owner of a key is the task and the bundle of the record that holds it.
OwnerOf(record) ==
    IF record = NoRecord THEN NoRecord ELSE <<record.taskId, record.proofBundleHash>>

Ownership == INSTANCE KeyOwnership WITH
    Owners <- TaskIds \X Hashes, NoOwner <- NoRecord,
    owner <- [k \in Keys |-> OwnerOf(consumed[k])]

\* The registry hands every key to one task and bundle, for ever.
KeepsOwnership == Ownership!OwnershipSpec

\* A task that a report ended has all the keys of its bundle, unless the registry lost
\* a record or a report on the task left that was to reserve nothing: no failure, race
\* or restart leaves the chain ahead of the registry.
EndedTasksOwnTheirProofs ==
    \A t \in TaskIds :
        /\ ByReport(tasks[t]) /\ ~lost
        /\ \A report \in released : report.taskId = t => report \in due
        => \A k \in Bundles[tasks[t].proofBundleHash].keys :
               OwnerOf(consumed[k]) = <<t, tasks[t].proofBundleHash>>

\* Proofs are reserved for a report only when that report is in the store: after
\* a crash between reservation and settlement it can still be found and settled.
ReservationsHaveReports ==
    \A k \in Keys : consumed[k] # NoRecord => consumed[k] \in stored

=============================================================================
