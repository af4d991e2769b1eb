-------------------------- MODULE BuyerProtection --------------------------
(***************************************************************************)
(* What a buyer has from the whole: the buyer's agent (BuyerClient), the   *)
(* service of the verifier (VerifierService) with its checks               *)
(* (VerificationChecks), and the contract between them.                    *)
(*                                                                         *)
(* The three meet in the objects behind the hashes.  The agent judges a    *)
(* commitment before it locks money, the service judges a proof bundle by  *)
(* the same commitment when money is to be released, and the contract,     *)
(* which sees hashes only, keeps them apart in time.  Sellers are not      *)
(* modelled: any commitment and any bundle may come, from anybody whom the *)
(* contract lets send it.                                                  *)
(*                                                                         *)
(* Reports that some other authorized key signs are not looked at: a buyer *)
(* has no defence against a verifier that lies.                            *)
(***************************************************************************)
EXTENDS BuyerClient, FiniteSets, Functions

CONSTANTS
    ProofBundles,       \* the proof bundle object of a hash
    Nonces,             \* what else the context of a task binds: chain, contract, nonce
    Adapters, NoModel,
    Requests, Verifier, LocalTimes, ReportHash, Persistent, NoRecord

VARIABLES requests, stored, released, due, consumed, lost

serviceVars == <<requests, stored, released, due, consumed, lost>>
protectionVars == <<vars, buyerVars, serviceVars>>

ReceiptsOf(hash) == DOMAIN ProofBundles[hash].receipts

ReceiptOf(hash, i) == ProofBundles[hash].receipts[i]

\* Storage hands out an object under its hash only.
ASSUME ObjectsAssumption ==
    \A hash \in Hashes :
        /\ ProofBundles[hash].hash = hash
        /\ IsFiniteSet(ReceiptsOf(hash))
        /\ \A i \in ReceiptsOf(hash) :
               LET raw == ReceiptOf(hash, i).rawProofHash
               IN  raw.valid => raw.totalTokens \in Nat

-----------------------------------------------------------------------------
(* What the service makes of the objects *)

\* buildProofConsumptionKeys: one key of each type for each receipt.
KeysOf(hash) ==
    UNION {{<<"providerProofId", ReceiptOf(hash, i).providerProofId>>,
            <<"receiptHash", ReceiptOf(hash, i)>>,
            <<"responseHash", ReceiptOf(hash, i).responseHash>>,
            <<"callIntentHash", ReceiptOf(hash, i).callIntentHash>>} :
           i \in ReceiptsOf(hash)}

Keys == UNION {KeysOf(hash) : hash \in Hashes}

\* A task as a request read it, with the hash of a commitment and of a bundle.
Works ==
    [taskId : TaskIds, buyer : Accounts, seller : Accounts, commitmentHash : Hashes,
     proofBundleHash : Hashes, fundedAtMs : Nat, deadlineMs : Nat]

\* loadInputs puts the objects next to the task.  Whether something is consumed is
\* looked up while the checks run.
InputOf(work) ==
    LET commitment == Commitments[work.commitmentHash]
    IN  [task |->
             [taskId |-> work.taskId, buyer |-> work.buyer, seller |-> work.seller,
              commitmentHash |-> work.commitmentHash,
              proofBundleHash |-> work.proofBundleHash, rest |-> Nonces[work.taskId],
              fundedAt |-> work.fundedAtMs, deadline |-> work.deadlineMs],
         commitment |->
             [hash |-> work.commitmentHash, taskId |-> commitment.taskId,
              buyer |-> commitment.buyer, seller |-> commitment.seller,
              target |-> commitment.endpoint, allowedModels |-> commitment.allowedModels,
              minUsage |-> commitment.minUsage, deadline |-> commitment.deadline],
         proofBundle |-> ProofBundles[work.proofBundleHash],
         keyConsumed |-> FALSE, bundleConsumed |-> FALSE]

\* Only the operators of the checks are used: nothing is decided yet.
Checking == INSTANCE VerificationChecks WITH
    Inputs <- {InputOf(work) : work \in Works},
    inputs <- NoModel, outcome <- [kind |-> "pending"]

LoadableWork == {work \in Works : Checking!WellFormed(InputOf(work))}

EligibleWork ==
    {work \in LoadableWork :
        Checking!EligibleForConsumption(Checking!Checks(InputOf(work)))}

PassingWork ==
    {work \in LoadableWork : Checking!Passed(Checking!Checks(InputOf(work)))}

\* The bundle of a hash as the registry sees it, and the verifier that a
\* commitment names.
KeysAndRepetition ==
    [hash \in Hashes |->
        [keys |-> KeysOf(hash),
         repeated |-> Checking!hasDuplicateConsumptionKey(
                          [proofBundle |-> ProofBundles[hash]])]]

NamedVerifier == [hash \in Hashes |-> Commitments[hash].verifier]

Service == INSTANCE VerifierService WITH
    AssignedVerifier <- NamedVerifier, Bundles <- KeysAndRepetition,
    Agreements <- {}, MaxEscrow <- 0

ASSUME ProtectionAssumption ==
    /\ Verifier \in Verifiers
    /\ LocalTimes \subseteq Nat
    /\ ReportHash \in Hashes
    /\ Persistent \in BOOLEAN
    /\ NoRecord \notin VerificationReport

-----------------------------------------------------------------------------
(* The composition *)

ProtectionInit ==
    /\ BuyerInit
    /\ requests = [r \in Requests |-> Service!Idle]
    /\ stored = {} /\ released = {} /\ due = {}
    /\ Service!Consumption!ConsumptionInit

\* What the others do on the chain; of reports, those that left the service.
OutsideStep ==
    \/ \E caller \in Accounts, t \in TaskIds, hash \in Hashes :
           submitCommitment(caller, t, hash) \/ submitProofBundle(caller, t, hash)
    \/ \E report \in released : settle(report)
    \/ \E t \in TaskIds :
           \/ refundAfterProofSubmissionDeadline(t)
           \/ refundAfterVerificationTimeout(t)
    \/ RegistryStep
    \/ Tick

ProtectionNext ==
    \/ \E c \in Calls : CallStep(c) /\ UNCHANGED serviceVars
    \/ \E r \in Requests : Service!RequestStep(r) /\ UNCHANGED buyerVars
    \/ Service!Restart /\ UNCHANGED buyerVars
    \/ OutsideStep /\ UNCHANGED <<buyerVars, serviceVars>>

ProtectionSpec == ProtectionInit /\ [][ProtectionNext]_protectionVars

-----------------------------------------------------------------------------
(* Properties *)

\* The raw proofs that a bundle stands for, each once.
Shown(hash) == {ReceiptOf(hash, i).rawProofHash : i \in ReceiptsOf(hash)}

\* A raw proof shows work that was ordered: it is valid, it was made for a call of this
\* very task, to an endpoint and by a model that the buyer takes, and after the money
\* was locked and before the deadline.
ShowsOrderedWork(raw, t, expectations) ==
    LET task == tasks[t]
        context == raw.proofContext.taskContext
    IN  /\ raw.valid /\ raw.provider \in Adapters
        /\ context.taskId = t /\ context.buyer = task.buyer
        /\ context.seller = task.seller
        /\ context.commitmentHash = task.commitmentHash
        /\ accepts(expectations.endpoints, {raw.request.target})
        /\ accepts(expectations.models, {raw.model})
        /\ task.fundedAtMs <= raw.observedAt /\ raw.observedAt <= task.deadlineMs

\* A seller is paid only what was ordered of it and for work that was ordered: there
\* are proofs, all of them show such work, together as much of it as the buyer asked
\* for, and the verifier who judged them is one that the buyer takes.
PaidForOrderedWork ==
    \A t \in TaskIds :
        tasks[t].status = "SETTLED" =>
            LET order == Order[orderedBy[t]]
                expectations == order.expectations
                shown == Shown(tasks[t].proofBundleHash)
            IN  /\ tasks[t].seller = order.seller /\ tasks[t].token = order.token
                /\ tasks[t].amount = order.amount
                /\ shown # {}
                /\ \A raw \in shown : ShowsOrderedWork(raw, t, expectations)
                /\ SumFunctionOnSet([raw \in shown |-> raw.totalTokens], shown)
                       >= expectations.minUsage
                /\ accepts(expectations.verifiers, {Verifier})

\* A client had the proofs of a passing report on the task left alone.
Waived(t) == \E report \in released \ due : report.taskId = t /\ report.passed

\* No proof is paid for twice: two tasks that were paid share no provider proof, no
\* receipt, no answer and no call, unless the registry lost a record or a client waived
\* the reservation for one of the two.
PaidOnce ==
    \A t, u \in TaskIds :
        /\ t # u /\ tasks[t].status = "SETTLED" /\ tasks[u].status = "SETTLED"
        /\ KeysOf(tasks[t].proofBundleHash) \cap KeysOf(tasks[u].proofBundleHash) # {}
        => lost \/ Waived(t) \/ Waived(u)

=============================================================================
