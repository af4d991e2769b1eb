-------------------------- MODULE TyrPaySettlement --------------------------
(***************************************************************************)
(* The escrow contract packages/contracts/contracts/TyrPaySettlement.sol.  *)
(*                                                                         *)
(* One action per external function, named like it.  The guard of an       *)
(* action is the conjunction of the checks that would revert the call, so  *)
(* a reverted call is a stuttering step, and a call is atomic, as an       *)
(* Ethereum transaction is.  Additions on uint256 are checked: an addition *)
(* that does not fit reverts the call (AddFits).                           *)
(*                                                                         *)
(* Left out: URIs (only tested for being non-empty), metadata, task nonces *)
(* and events.  A task id is a hash that contains the global sequence      *)
(* number, so the sequence number itself stands for it.                    *)
(***************************************************************************)
EXTENDS Naturals

CONSTANTS
    Accounts,         \* externally owned accounts: buyers, sellers, anybody
    Verifiers,        \* addresses the registry may list
    Tokens,           \* ERC-20 contracts
    Hashes,           \* the non-zero bytes32 values in use
    Amounts,          \* uint256 values passed as amount
    Deadlines,        \* uint256 values passed as deadlineMs
    SignedReports,    \* every report that some key has signed
    Settlement,       \* the address of this contract
    Owner,            \* the account that deployed this contract
    RegistryOwner,    \* the account that deployed the registry
    NoAddress,        \* address(0)
    NoHash,           \* bytes32(0)
    InitialBalance,   \* tokens every account owns at the start
    MaxUint,          \* type(uint256).max
    MsPerSecond,      \* the 1000 of block.timestamp * 1000
    proofSubmissionGracePeriodMs,
    verificationTimeoutMs,
    MaxTasks,         \* bound: tasks created in a behaviour
    MaxTimestamp      \* bound: the last block time of a behaviour

TaskIds == 1..MaxTasks

Status == {"INTENT_CREATED", "COMMITMENT_SUBMITTED", "FUNDED",
           "PROOF_SUBMITTED", "SETTLED", "REFUNDED"}

\* A signed VerificationReport.  The field signer is the address that
\* ECDSA.recover returns for the signature over the other fields.
VerificationReport ==
    [taskId : TaskIds, buyer : Accounts, seller : Accounts,
     commitmentHash : Hashes, proofBundleHash : Hashes,
     passed : BOOLEAN, settlementAction : {"RELEASE", "REFUND"},
     settlementAmount : Nat, verifiedAt : Nat,
     reportHash : Hashes \cup {NoHash}, signer : Verifiers]

ASSUME SettlementAssumption ==
    /\ NoAddress \notin Accounts \cup Verifiers \cup Tokens \cup {Settlement}
    /\ Settlement \notin Accounts
    /\ NoHash \notin Hashes
    /\ Owner \in Accounts /\ RegistryOwner \in Accounts
    /\ Amounts \subseteq Nat /\ Deadlines \subseteq Nat
    /\ SignedReports \subseteq VerificationReport
    /\ InitialBalance \in Nat /\ MaxUint \in Nat
    /\ MsPerSecond \in Nat \ {0}
    /\ proofSubmissionGracePeriodMs \in Nat \ {0}
    /\ verificationTimeoutMs \in Nat \ {0}
    /\ MaxTasks \in Nat /\ MaxTimestamp \in Nat

VARIABLES
    blockTimestamp,        \* block.timestamp, in seconds
    nextSequence,
    tasks,                 \* tasks[t]: the storage slot of task t
    usedProofBundleHash,   \* the hashes mapped to true
    allowedTokens,         \* the tokens mapped to true
    balanceOf,             \* balanceOf[token][holder], the ERC-20 ledgers
    authorizedVerifiers    \* the state of the verifier registry

contractVars == <<nextSequence, tasks, usedProofBundleHash, allowedTokens>>
vars == <<blockTimestamp, nextSequence, tasks, usedProofBundleHash,
          allowedTokens, balanceOf, authorizedVerifiers>>

Registry == INSTANCE VerifierRegistry

Holders == Accounts \cup {Settlement}

-----------------------------------------------------------------------------
(* Storage *)

\* An untouched slot of the tasks mapping: every field is zero, and the zero
\* of the status enum is INTENT_CREATED.
EmptySlot ==
    [buyer |-> NoAddress, seller |-> NoAddress, token |-> NoAddress,
     amount |-> 0, deadlineMs |-> 0, commitmentHash |-> NoHash,
     fundedAtMs |-> 0, proofBundleHash |-> NoHash, proofSubmittedAtMs |-> 0,
     reportHash |-> NoHash, settledAtMs |-> 0, refundedAtMs |-> 0,
     status |-> "INTENT_CREATED"]

Task ==
    [buyer : Accounts \cup {NoAddress}, seller : Accounts \cup {NoAddress},
     token : Tokens \cup {NoAddress}, amount : Nat,
     deadlineMs : Deadlines \cup {0}, commitmentHash : Hashes \cup {NoHash},
     fundedAtMs : Nat, proofBundleHash : Hashes \cup {NoHash},
     proofSubmittedAtMs : Nat, reportHash : Hashes \cup {NoHash},
     settledAtMs : Nat, refundedAtMs : Nat, status : Status]

\* _getExistingTask reverts unless the slot has a buyer.
Exists(task) == task.buyer # NoAddress

InState(task, status) == Exists(task) /\ task.status = status

CurrentTimeMs == blockTimestamp * MsPerSecond

AddFits(a, b) == a + b <= MaxUint

\* A holder's ledger after the move of an amount.
Moved(ledger, from, to, amount) ==
    LET debited == [ledger EXCEPT ![from] = ledger[from] - amount]
    IN  [debited EXCEPT ![to] = debited[to] + amount]

-----------------------------------------------------------------------------
(* Deliberately wrong variants of the definitions they name.  No specification
   uses them: each takes the place of its definition in a run that shows that a
   property can fail. *)

\* For ProofTimeoutReached: leaves out the grace period.
ProofTimeoutWithoutGrace(task) == CurrentTimeMs > task.deadlineMs

\* For VerificationTimeoutReached: counts from the funding of the task.
VerificationTimeoutFromFunding(task) ==
    /\ AddFits(task.fundedAtMs, verificationTimeoutMs)
    /\ CurrentTimeMs > task.fundedAtMs + verificationTimeoutMs

\* For Transfer: copies the allow-list check of fundTask.
TransferOfAllowedToken(token, from, to, amount) ==
    /\ token \in allowedTokens
    /\ balanceOf[token][from] >= amount
    /\ balanceOf' = [balanceOf EXCEPT
           ![token] = Moved(balanceOf[token], from, to, amount)]

\* For Transfer: does not look at what the payer owns.
TransferOnCredit(token, from, to, amount) ==
    balanceOf' = [balanceOf EXCEPT
        ![token] = Moved(balanceOf[token], from, to, amount)]

\* For Refunded: forgets to leave the state it refunds from.
RefundedStaysOpen(task) == [task EXCEPT !.refundedAtMs = CurrentTimeMs]

\* For AwaitsProof: lets the seller replace the bundle under verification.
AwaitsProofOrReport(task) ==
    InState(task, "FUNDED") \/ InState(task, "PROOF_SUBMITTED")

\* For Unused: forgets the replay protection.
UnusedUnchecked(hash) == TRUE

\* For Beneficiary: always pays the seller.
BeneficiaryIgnoresVerdict(task, report) == task.seller

-----------------------------------------------------------------------------
(* Checks and updates shared by the external functions *)

\* The two windows of the contract.  Each operator is the negation of the
\* check that reverts, with the overflow check of its addition.
ProofWindowOpen(task) ==
    /\ AddFits(task.deadlineMs, proofSubmissionGracePeriodMs)
    /\ CurrentTimeMs <= task.deadlineMs + proofSubmissionGracePeriodMs

ProofTimeoutReached(task) ==
    /\ AddFits(task.deadlineMs, proofSubmissionGracePeriodMs)
    /\ CurrentTimeMs > task.deadlineMs + proofSubmissionGracePeriodMs

ReportInTime(task, verifiedAt) ==
    /\ AddFits(task.proofSubmittedAtMs, verificationTimeoutMs)
    /\ verifiedAt <= task.proofSubmittedAtMs + verificationTimeoutMs

VerificationTimeoutReached(task) ==
    /\ AddFits(task.proofSubmittedAtMs, verificationTimeoutMs)
    /\ CurrentTimeMs > task.proofSubmittedAtMs + verificationTimeoutMs

\* The ERC-20 ledger as the contract uses it: a transfer reverts when the
\* payer does not own the amount.  Allowances are left out; a missing one
\* only makes a call of fundTask revert.
Transfer(token, from, to, amount) ==
    /\ balanceOf[token][from] >= amount
    /\ balanceOf' = [balanceOf EXCEPT
           ![token] = Moved(balanceOf[token], from, to, amount)]

Init ==
    /\ blockTimestamp = 1
    /\ nextSequence = 1
    /\ tasks = [t \in TaskIds |-> EmptySlot]
    /\ usedProofBundleHash = {}
    /\ allowedTokens = {}
    /\ balanceOf = [token \in Tokens |->
           [a \in Holders |-> IF a = Settlement THEN 0 ELSE InitialBalance]]
    /\ Registry!RegistryInit

-----------------------------------------------------------------------------
(* What each external function writes into the slot of its task *)

Created(task, buyer, seller, token, amount, deadlineMs) ==
    [task EXCEPT !.buyer = buyer, !.seller = seller, !.token = token,
                 !.amount = amount, !.deadlineMs = deadlineMs,
                 !.status = "INTENT_CREATED"]

Committed(task, hash) ==
    [task EXCEPT !.commitmentHash = hash, !.status = "COMMITMENT_SUBMITTED"]

Funded(task) ==
    [task EXCEPT !.fundedAtMs = CurrentTimeMs, !.status = "FUNDED"]

Proven(task, hash) ==
    [task EXCEPT !.proofBundleHash = hash,
                 !.proofSubmittedAtMs = CurrentTimeMs,
                 !.status = "PROOF_SUBMITTED"]

Settled(task) ==
    [task EXCEPT !.status = "SETTLED", !.settledAtMs = CurrentTimeMs]

Refunded(task) ==
    [task EXCEPT !.status = "REFUNDED", !.refundedAtMs = CurrentTimeMs]

Reported(task, report) ==
    [(IF report.passed THEN Settled(task) ELSE Refunded(task))
        EXCEPT !.reportHash = report.reportHash]

-----------------------------------------------------------------------------
(* The external functions *)

setAllowedToken(caller, token, allowed) ==
    /\ caller = Owner
    /\ token # NoAddress
    /\ allowedTokens' = IF allowed THEN allowedTokens \cup {token}
                                   ELSE allowedTokens \ {token}
    /\ UNCHANGED <<blockTimestamp, nextSequence, tasks, usedProofBundleHash,
                   balanceOf, authorizedVerifiers>>

createTaskIntent(caller, seller, token, amount, deadlineMs) ==
    /\ seller # NoAddress /\ token # NoAddress
    /\ token \in allowedTokens
    /\ amount # 0
    /\ deadlineMs > CurrentTimeMs
    /\ nextSequence \in TaskIds
    /\ nextSequence' = nextSequence + 1
    /\ tasks' = [tasks EXCEPT ![nextSequence] =
           Created(@, caller, seller, token, amount, deadlineMs)]
    /\ UNCHANGED <<blockTimestamp, usedProofBundleHash, allowedTokens,
                   balanceOf, authorizedVerifiers>>

submitCommitment(caller, t, commitmentHash) ==
    /\ InState(tasks[t], "INTENT_CREATED")
    /\ caller = tasks[t].seller
    /\ commitmentHash # NoHash
    /\ tasks[t].deadlineMs > CurrentTimeMs
    /\ tasks' = [tasks EXCEPT ![t] = Committed(@, commitmentHash)]
    /\ UNCHANGED <<blockTimestamp, nextSequence, usedProofBundleHash,
                   allowedTokens, balanceOf, authorizedVerifiers>>

fundTask(caller, t) ==
    /\ InState(tasks[t], "COMMITMENT_SUBMITTED")
    /\ caller = tasks[t].buyer
    /\ tasks[t].token \in allowedTokens
    /\ CurrentTimeMs <= tasks[t].deadlineMs
    /\ Transfer(tasks[t].token, caller, Settlement, tasks[t].amount)
    /\ tasks' = [tasks EXCEPT ![t] = Funded(@)]
    /\ UNCHANGED <<blockTimestamp, nextSequence, usedProofBundleHash,
                   allowedTokens, authorizedVerifiers>>

AwaitsProof(task) == InState(task, "FUNDED")

submitProofBundle(caller, t, proofBundleHash) ==
    /\ AwaitsProof(tasks[t])
    /\ caller = tasks[t].seller
    /\ proofBundleHash # NoHash
    /\ ProofWindowOpen(tasks[t])
    /\ tasks' = [tasks EXCEPT ![t] = Proven(@, proofBundleHash)]
    /\ UNCHANGED <<blockTimestamp, nextSequence, usedProofBundleHash,
                   allowedTokens, balanceOf, authorizedVerifiers>>

\* The checks of settle that compare the report with the task.
ReportMatches(task, report) ==
    /\ report.buyer = task.buyer
    /\ report.seller = task.seller
    /\ report.commitmentHash = task.commitmentHash
    /\ report.proofBundleHash = task.proofBundleHash
    /\ report.settlementAmount = task.amount
    /\ ReportInTime(task, report.verifiedAt)
    /\ report.settlementAction = IF report.passed THEN "RELEASE" ELSE "REFUND"

Beneficiary(task, report) == IF report.passed THEN task.seller ELSE task.buyer

Unused(hash) == hash \notin usedProofBundleHash

\* Anybody may bring the report.  The contract looks at the time the report
\* says it was made at, not at the current time.
settle(report) ==
    LET t == report.taskId
    IN  /\ InState(tasks[t], "PROOF_SUBMITTED")
        /\ report.reportHash # NoHash
        /\ Unused(report.proofBundleHash)
        /\ ReportMatches(tasks[t], report)
        /\ Registry!isVerifier(report.signer)
        /\ usedProofBundleHash' = usedProofBundleHash \cup {report.proofBundleHash}
        /\ tasks' = [tasks EXCEPT ![t] = Reported(@, report)]
        /\ Transfer(tasks[t].token, Settlement,
                    Beneficiary(tasks[t], report), tasks[t].amount)
        /\ UNCHANGED <<blockTimestamp, nextSequence, allowedTokens,
                       authorizedVerifiers>>

refundAfterProofSubmissionDeadline(t) ==
    /\ InState(tasks[t], "FUNDED")
    /\ ProofTimeoutReached(tasks[t])
    /\ tasks' = [tasks EXCEPT ![t] = Refunded(@)]
    /\ Transfer(tasks[t].token, Settlement, tasks[t].buyer, tasks[t].amount)
    /\ UNCHANGED <<blockTimestamp, nextSequence, usedProofBundleHash,
                   allowedTokens, authorizedVerifiers>>

refundAfterVerificationTimeout(t) ==
    /\ InState(tasks[t], "PROOF_SUBMITTED")
    /\ VerificationTimeoutReached(tasks[t])
    /\ tasks' = [tasks EXCEPT ![t] = Refunded(@)]
    /\ Transfer(tasks[t].token, Settlement, tasks[t].buyer, tasks[t].amount)
    /\ UNCHANGED <<blockTimestamp, nextSequence, usedProofBundleHash,
                   allowedTokens, authorizedVerifiers>>

-----------------------------------------------------------------------------
(* The environment: the registry's owner, and the clock *)

RegistryStep ==
    /\ \E caller \in Accounts, verifier \in Verifiers \cup {NoAddress} :
           \/ Registry!addVerifier(caller, verifier)
           \/ Registry!removeVerifier(caller, verifier)
    /\ UNCHANGED <<blockTimestamp, nextSequence, tasks, usedProofBundleHash,
                   allowedTokens, balanceOf>>

\* The next block has a later timestamp.
Tick ==
    /\ blockTimestamp < MaxTimestamp
    /\ blockTimestamp' = blockTimestamp + 1
    /\ UNCHANGED <<contractVars, balanceOf, authorizedVerifiers>>

TaskStep(caller, t) ==
    \/ \E hash \in Hashes \cup {NoHash} :
           \/ submitCommitment(caller, t, hash)
           \/ submitProofBundle(caller, t, hash)
    \/ fundTask(caller, t)

Next ==
    \/ \E caller \in Accounts :
           \/ \E token \in Tokens \cup {NoAddress}, allowed \in BOOLEAN :
                  setAllowedToken(caller, token, allowed)
           \/ \E seller \in Accounts \cup {NoAddress},
                 token \in Tokens \cup {NoAddress},
                 amount \in Amounts, deadlineMs \in Deadlines :
                  createTaskIntent(caller, seller, token, amount, deadlineMs)
           \/ \E t \in TaskIds : TaskStep(caller, t)
    \/ \E report \in SignedReports : settle(report)
    \/ \E t \in TaskIds :
           \/ refundAfterProofSubmissionDeadline(t)
           \/ refundAfterVerificationTimeout(t)
    \/ RegistryStep
    \/ Tick

Spec == Init /\ [][Next]_vars

\* Blocks keep coming, and a refund that stays possible is eventually asked
\* for: anybody may call the refund functions, and the buyer, who is paid by
\* them, has a tool for each.  Nothing is assumed of the seller, the
\* verifiers or the owners.
FairSpec ==
    /\ Spec
    /\ WF_vars(Tick)
    /\ \A t \in TaskIds :
           /\ WF_vars(refundAfterProofSubmissionDeadline(t))
           /\ WF_vars(refundAfterVerificationTimeout(t))

-----------------------------------------------------------------------------
(* Properties *)

Live(task) == task.status \in {"FUNDED", "PROOF_SUBMITTED"}
Terminal(task) == task.status \in {"SETTLED", "REFUNDED"}
Proved(task) == task.proofBundleHash # NoHash
ByReport(task) == task.reportHash # NoHash

\* The values every variable ranges over.
TypeOK ==
    /\ blockTimestamp \in Nat
    /\ nextSequence \in 1..(MaxTasks + 1)
    /\ tasks \in [TaskIds -> Task]
    /\ usedProofBundleHash \in SUBSET Hashes
    /\ allowedTokens \in SUBSET Tokens
    /\ balanceOf \in [Tokens -> [Holders -> Nat]]
    /\ Registry!RegistryTypeOK

\* A proof bundle hash is marked used exactly when a report settled a task
\* with it, and it never settled two: a bundle submitted for two tasks pays
\* out by report at most once.
BundleSpentOnce ==
    /\ usedProofBundleHash =
           {tasks[t].proofBundleHash : t \in {u \in TaskIds : ByReport(tasks[u])}}
    /\ \A t, u \in TaskIds :
           /\ ByReport(tasks[t]) /\ ByReport(tasks[u])
           /\ tasks[t].proofBundleHash = tasks[u].proofBundleHash
           => t = u

Lawful(task) ==
    /\ Live(task) \/ Terminal(task) => task.fundedAtMs <= task.deadlineMs
    /\ Proved(task) =>
          /\ task.fundedAtMs <= task.proofSubmittedAtMs
          /\ task.proofSubmittedAtMs <= task.deadlineMs + proofSubmissionGracePeriodMs
    /\ task.status = "SETTLED" => ByReport(task)
    /\ ByReport(task) => Proved(task) /\ Terminal(task)
    /\ task.status = "REFUNDED" /\ ~ByReport(task) =>
          task.refundedAtMs >
             IF Proved(task) THEN task.proofSubmittedAtMs + verificationTimeoutMs
             ELSE task.deadlineMs + proofSubmissionGracePeriodMs

\* The recorded times of a task tell a lawful story: money went in before the
\* deadline, the proof came inside the grace period, and money went back
\* without a report only after the window that was open had closed.
LawfulHistory == \A t \in TaskIds : Lawful(tasks[t])

\* The deadline leaves room for the grace period in a uint256.  Nothing in
\* createTaskIntent asks for it.
HasExit(task) == AddFits(task.deadlineMs, proofSubmissionGracePeriodMs)

\* At every moment a funded task can either take its proof or be refunded, and
\* never both: the two windows meet without a gap and without an overlap.  The
\* one exception is a deadline so late that adding the grace period overflows:
\* such a task can be created and funded, but then neither call ever succeeds
\* and the money stays where it is.
ExitOpen ==
    \A t \in TaskIds :
        tasks[t].status = "FUNDED" =>
            /\ (ProofWindowOpen(tasks[t]) \/ ProofTimeoutReached(tasks[t]))
                   <=> HasExit(tasks[t])
            /\ ~(ProofWindowOpen(tasks[t]) /\ ProofTimeoutReached(tasks[t]))

TermsKept(old, new) ==
    /\ Exists(old) =>
          /\ <<new.buyer, new.seller, new.token, new.amount, new.deadlineMs>> =
             <<old.buyer, old.seller, old.token, old.amount, old.deadlineMs>>
    /\ old.commitmentHash # NoHash => new.commitmentHash = old.commitmentHash
    /\ Live(old) => new.fundedAtMs = old.fundedAtMs
    /\ old.proofBundleHash # NoHash =>
          /\ new.proofBundleHash = old.proofBundleHash
          /\ new.proofSubmittedAtMs = old.proofSubmittedAtMs
    /\ Terminal(old) => new = old

\* The terms a party relied on stay: who the parties are, the token, the
\* amount and the deadline from creation on, the commitment once submitted,
\* the time of the funding, the proof once submitted; and a task that is paid
\* out changes no more.
TermsFrozen == [][\A t \in TaskIds : TermsKept(tasks[t], tasks'[t])]_vars

\* Whatever sellers, verifiers and owners do or fail to do, money that went in
\* comes out, if the deadline has room for the grace period: de-listing the
\* token or removing every verifier traps nothing.
EscrowEnds ==
    \A t \in TaskIds :
        tasks[t].status = "FUNDED" /\ HasExit(tasks[t]) ~> Terminal(tasks[t])

-----------------------------------------------------------------------------
(* The contract keeps the promise of EscrowPromise. *)

EscrowState(task) ==
    CASE task.status = "SETTLED" -> "released"
      [] task.status = "REFUNDED" -> "returned"
      [] Live(task) -> "held"
      [] OTHER -> "none"

\* The terms of a task count as an escrow from funding on.
EscrowOf(task) ==
    IF EscrowState(task) = "none"
    THEN [state |-> "none", payer |-> NoAddress, payee |-> NoAddress,
          token |-> NoAddress, amount |-> 0]
    ELSE [state |-> EscrowState(task), payer |-> task.buyer,
          payee |-> task.seller, token |-> task.token, amount |-> task.amount]

Promise == INSTANCE EscrowPromise WITH
    Escrows <- TaskIds,
    escrow <- [t \in TaskIds |-> EscrowOf(tasks[t])],
    purse <- [token \in Tokens |-> [a \in Accounts |-> balanceOf[token][a]]]

\* Every behaviour of the contract is one of EscrowPromise: an escrow is opened
\* once, out of the buyer's own purse, and closed once, in full, to the seller
\* or to the buyer.
KeepsPromise == Promise!PromiseSpec

=============================================================================
