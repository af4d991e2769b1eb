---------------------------- MODULE SellerAgent ----------------------------
(***************************************************************************)
(* The tools of a seller's agent (packages/seller-skill/src/tools.ts) over *)
(* the seller SDK (packages/seller-sdk/src/seller-agent.ts), as concurrent *)
(* calls, composed with the contract and with the store of objects.        *)
(*                                                                         *)
(* A call is cut into steps where it awaits the store, the zkTLS provider  *)
(* or a transaction.  Any await may fail, also one for a transaction that  *)
(* is mined all the same, and the agent may call any tool again.           *)
(*                                                                         *)
(* An object stands for its hash, so Hashes holds commitments and bundles. *)
(* A target stands for the endpoint, a model of it and the other terms: a  *)
(* request fits a commitment when the targets agree.  A task nonce is as   *)
(* unique as a task id, so the id of the same task stands for it.          *)
(*                                                                         *)
(* Left out: endpoint discovery and the readiness check, which change      *)
(* nothing, what a receipt says of the answer of the provider, and what    *)
(* becomes of a task after its proof is submitted, which no tool of the    *)
(* seller has a part in.                                                   *)
(***************************************************************************)
EXTENDS TyrPaySettlement, Sequences, FiniteSets

CONSTANTS
    Calls,              \* tool calls the agent can have in flight
    Seller,             \* the account of the agent's signer
    Targets,            \* what a commitment may promise to call
    CallIndices,
    PassedNonces,       \* the nonces the agent may pass with a commitment of a task
    RewritesInPlace,    \* the store is the local adapter
    MaxProofs,          \* bound: raw proofs the store is given
    MaxBundles,         \* bound: bundles the store is given
    MaxReceipts         \* bound: receipts in a bundle

ExecutionCommitment ==
    [taskId : TaskIds, buyer : Accounts, seller : {Seller}, target : Targets]

TaskContext ==
    [taskId : TaskIds, taskNonce : TaskIds, commitmentHash : ExecutionCommitment,
     seller : {Seller}]

\* target is what was called.
DeliveryReceipt ==
    [taskContext : TaskContext, callIndex : CallIndices, target : Targets,
     observedAt : Nat]

ProofBundle ==
    [taskId : TaskIds, commitmentHash : ExecutionCommitment, seller : {Seller},
     receipts : Seq(DeliveryReceipt) \ {<<>>}, createdAt : Nat]

ASSUME SellerAssumption ==
    /\ Seller \in Accounts
    /\ PassedNonces \in [TaskIds -> SUBSET TaskIds]
    /\ CallIndices \subseteq Nat
    /\ RewritesInPlace \in BOOLEAN
    /\ MaxProofs \in Nat /\ MaxBundles \in Nat /\ MaxReceipts \in Nat

VARIABLES
    calls,      \* calls[c]: where call c is
    store,      \* the store of objects
    accepted,   \* the commitments that acceptTask has returned
    captured,   \* the receipts that executeTask has returned
    ready,      \* history: the tasks that the agent was told to execute
    prompted    \* history: the receipts of calls that were made for such tasks

sellerVars == <<calls, store, accepted, captured, ready, prompted>>
allVars == <<vars, sellerVars>>

Storage == INSTANCE ObjectStorage

\* The proof under the hash in a receipt.
RawProof(receipt) == [rawProof |-> receipt]

Idle == [pc |-> "idle"]

\* When waits is false the call has failed, but its transaction is still on its way.
AcceptCall ==
    [pc : {"putCommitment", "submitCommitment"}, commitment : ExecutionCommitment,
     waits : BOOLEAN]

ExecuteCall ==
    [pc : {"provenFetch"}, taskContext : TaskContext, callIndex : CallIndices,
     target : Targets, prompted : BOOLEAN]
    \cup [pc : {"putRawProof", "putReceipt"}, receipt : DeliveryReceipt]

SubmitCall ==
    [pc : {"putBundle", "submitProofBundle"}, bundle : ProofBundle, waits : BOOLEAN]

At(c, pc) == calls[c].pc = pc

Proceed(c, call) == calls' = [calls EXCEPT ![c] = call]

-----------------------------------------------------------------------------
(* Deliberately wrong variants of the definitions they name, for runs that show
   that a property can fail; no specification uses them. *)

\* For fitsCommitment: only the seller is compared.
fitsSeller(receipt, commitment) == receipt.taskContext.seller = commitment.seller

\* For commitmentStored: the commitment is returned before it is on the chain.
commitmentStoredAndReturned(c) ==
    /\ At(c, "putCommitment")
    /\ store' \in Storage!Written(store, c, calls[c].commitment)
    /\ accepted' = accepted \cup {calls[c].commitment}
    /\ Proceed(c, [calls[c] EXCEPT !.pc = "submitCommitment"])
    /\ UNCHANGED <<vars, captured, ready, prompted>>

\* For mapSellerUserStatus: does not wait for the buyer.
mapWithoutFunding(status) ==
    IF status = "INTENT_CREATED" THEN "READY_TO_ACCEPT" ELSE "READY_TO_EXECUTE"

\* How many objects with this field the store has been given.
Given(field) == Cardinality({o \in store.whole \cup store.torn : field \in DOMAIN o})

-----------------------------------------------------------------------------
(* acceptTask *)

\* The task is read, and the commitment built from it goes to the store.  The
\* status of the task is not looked at.
acceptTask(c, t, target) ==
    /\ At(c, "idle") /\ Exists(tasks[t])
    /\ LET commitment == [taskId |-> t, buyer |-> tasks[t].buyer, seller |-> Seller,
                          target |-> target]
       IN  /\ store' = Storage!Opened(store, c, commitment)
           /\ Proceed(c, [pc |-> "putCommitment", commitment |-> commitment, waits |-> TRUE])
    /\ UNCHANGED <<vars, accepted, captured, ready, prompted>>

\* It is stored, and the transaction with its hash and URI is sent.
commitmentStored(c) ==
    /\ At(c, "putCommitment")
    /\ store' \in Storage!Written(store, c, calls[c].commitment)
    /\ Proceed(c, [calls[c] EXCEPT !.pc = "submitCommitment"])
    /\ UNCHANGED <<vars, accepted, captured, ready, prompted>>

\* The transaction is mined, and the tool returns the commitment.
commitmentSubmitted(c) ==
    /\ At(c, "submitCommitment")
    /\ LET commitment == calls[c].commitment
       IN  /\ submitCommitment(Seller, commitment.taskId, commitment)
           /\ accepted' = IF calls[c].waits THEN accepted \cup {commitment} ELSE accepted
    /\ Proceed(c, Idle)
    /\ UNCHANGED <<store, captured, ready, prompted>>

-----------------------------------------------------------------------------
(* executeTask *)

\* The commitment of the task is read from the chain and loaded from the store.
loadCommitmentForTask(commitment) ==
    /\ tasks[commitment.taskId].commitmentHash = commitment
    /\ Storage!Loads(store, commitment)

\* With the id of a task the agent gets its commitment and its nonce; or it passes
\* a commitment that it has, and a nonce.
resolveExecutionCommitment(commitment, nonce) ==
    \/ loadCommitmentForTask(commitment) /\ nonce = commitment.taskId
    \/ commitment \in accepted /\ nonce \in PassedNonces[commitment.taskId]

\* The task context and the request go to the zkTLS provider.  The status of the
\* task is not looked at: the agent may have asked for it before, or not.
executeTask(c, commitment, nonce, callIndex, target) ==
    /\ At(c, "idle")
    /\ resolveExecutionCommitment(commitment, nonce)
    /\ target = commitment.target
    /\ Proceed(c, [pc |-> "provenFetch", callIndex |-> callIndex, target |-> target,
                   prompted |-> commitment.taskId \in ready,
                   taskContext |-> [taskId |-> commitment.taskId, taskNonce |-> nonce,
                                    commitmentHash |-> commitment, seller |-> Seller]])
    /\ UNCHANGED <<vars, store, accepted, captured, ready, prompted>>

\* The provider has called the target and answers with a proof.
provenFetch(c) ==
    /\ At(c, "provenFetch") /\ Given("rawProof") < MaxProofs
    /\ LET receipt == [taskContext |-> calls[c].taskContext, callIndex |-> calls[c].callIndex,
                       target |-> calls[c].target, observedAt |-> CurrentTimeMs]
       IN  /\ store' = Storage!Opened(store, c, RawProof(receipt))
           /\ Proceed(c, [pc |-> "putRawProof", receipt |-> receipt])
           /\ prompted' = IF calls[c].prompted THEN prompted \cup {receipt} ELSE prompted
    /\ UNCHANGED <<vars, accepted, captured, ready>>

\* The proof is stored; the receipt is made of it and goes to the store as well.
rawProofStored(c) ==
    /\ At(c, "putRawProof")
    /\ LET receipt == calls[c].receipt
       IN  /\ \E written \in Storage!Written(store, c, RawProof(receipt)) :
                  store' = Storage!Opened(written, c, receipt)
           /\ Proceed(c, [pc |-> "putReceipt", receipt |-> receipt])
    /\ UNCHANGED <<vars, accepted, captured, ready, prompted>>

receiptStored(c) ==
    /\ At(c, "putReceipt")
    /\ store' \in Storage!Written(store, c, calls[c].receipt)
    /\ captured' = captured \cup {calls[c].receipt}
    /\ Proceed(c, Idle)
    /\ UNCHANGED <<vars, accepted, ready, prompted>>

-----------------------------------------------------------------------------
(* submitProof *)

resolveProofCommitment(commitment) ==
    loadCommitmentForTask(commitment) \/ commitment \in accepted

fitsCommitment(receipt, commitment) ==
    /\ receipt.taskContext.taskId = commitment.taskId
    /\ receipt.taskContext.commitmentHash = commitment
    /\ receipt.taskContext.seller = commitment.seller

distinctCalls(receipts) ==
    \A i, j \in DOMAIN receipts :
        receipts[i].callIndex = receipts[j].callIndex => i = j

\* buildProofBundle checks what the agent passes; the bundle goes to the store.
submitProof(c, commitment, receipts) ==
    /\ At(c, "idle") /\ Given("receipts") < MaxBundles
    /\ resolveProofCommitment(commitment)
    /\ \A i \in DOMAIN receipts : fitsCommitment(receipts[i], commitment)
    /\ distinctCalls(receipts)
    /\ LET bundle == [taskId |-> commitment.taskId, commitmentHash |-> commitment,
                      seller |-> commitment.seller, receipts |-> receipts,
                      createdAt |-> CurrentTimeMs]
       IN  /\ store' = Storage!Opened(store, c, bundle)
           /\ Proceed(c, [pc |-> "putBundle", bundle |-> bundle, waits |-> TRUE])
    /\ UNCHANGED <<vars, accepted, captured, ready, prompted>>

bundleStored(c) ==
    /\ At(c, "putBundle")
    /\ store' \in Storage!Written(store, c, calls[c].bundle)
    /\ Proceed(c, [calls[c] EXCEPT !.pc = "submitProofBundle"])
    /\ UNCHANGED <<vars, accepted, captured, ready, prompted>>

bundleSubmitted(c) ==
    /\ At(c, "submitProofBundle")
    /\ submitProofBundle(Seller, calls[c].bundle.taskId, calls[c].bundle)
    /\ Proceed(c, Idle)
    /\ UNCHANGED <<store, accepted, captured, ready, prompted>>

-----------------------------------------------------------------------------
(* checkSettlement, failures, and the composition *)

mapSellerUserStatus(status) ==
    CASE status = "INTENT_CREATED" -> "READY_TO_ACCEPT"
      [] status = "COMMITMENT_SUBMITTED" -> "WAITING_FOR_BUYER_FUNDING"
      [] status = "FUNDED" -> "READY_TO_EXECUTE"
      [] status = "PROOF_SUBMITTED" -> "AWAITING_VERIFICATION"
      [] status = "SETTLED" -> "PAID"
      [] status = "REFUNDED" -> "NOT_PAID_REFUNDED"

\* One read of the task; the agent remembers what it may execute.
checkSettlement(t) ==
    /\ Exists(tasks[t])
    /\ mapSellerUserStatus(tasks[t].status) = "READY_TO_EXECUTE"
    /\ ready' = ready \cup {t}
    /\ UNCHANGED <<vars, calls, store, accepted, captured, prompted>>

\* A check, the store, the provider or a read fails, or the transaction reverts.
Fail(c) ==
    /\ ~At(c, "idle")
    /\ Proceed(c, Idle)
    /\ UNCHANGED <<vars, store, accepted, captured, ready, prompted>>

\* The call fails while its transaction is under way.
Abandon(c) ==
    /\ calls[c].pc \in {"submitCommitment", "submitProofBundle"} /\ calls[c].waits
    /\ Proceed(c, [calls[c] EXCEPT !.waits = FALSE])
    /\ UNCHANGED <<vars, store, accepted, captured, ready, prompted>>

onChain == {tasks[t].commitmentHash : t \in TaskIds} \ {NoHash}

\* The lists of receipts that the agent can pass.
ReceiptLists == UNION {[1..n -> captured] : n \in 1..MaxReceipts}

CallStep(c) ==
    \/ \E t \in TaskIds, target \in Targets : acceptTask(c, t, target)
    \/ commitmentStored(c) \/ commitmentSubmitted(c)
    \/ \E commitment \in accepted \cup onChain :
           \/ \E nonce \in TaskIds, callIndex \in CallIndices, target \in Targets :
                  executeTask(c, commitment, nonce, callIndex, target)
           \/ \E receipts \in ReceiptLists : submitProof(c, commitment, receipts)
    \/ provenFetch(c) \/ rawProofStored(c) \/ receiptStored(c)
    \/ bundleStored(c) \/ bundleSubmitted(c)
    \/ Fail(c) \/ Abandon(c)

\* What the others do on the chain.
ChainStep ==
    \/ \E buyer \in Accounts \ {Seller} :
           \/ \E token \in Tokens, amount \in Amounts, deadlineMs \in Deadlines :
                  createTaskIntent(buyer, Seller, token, amount, deadlineMs)
           \/ \E t \in TaskIds : fundTask(buyer, t)
    \/ \E t \in TaskIds : refundAfterProofSubmissionDeadline(t)
    \/ Tick

SellerInit ==
    /\ blockTimestamp = 1
    /\ nextSequence = 1
    /\ tasks = [t \in TaskIds |-> EmptySlot]
    /\ usedProofBundleHash = {}
    /\ allowedTokens = Tokens
    /\ balanceOf = [token \in Tokens |->
           [a \in Holders |-> IF a = Settlement THEN 0 ELSE InitialBalance]]
    /\ authorizedVerifiers = Verifiers
    /\ calls = [c \in Calls |-> Idle]
    /\ store = Storage!EmptyStore
    /\ accepted = {}
    /\ captured = {}
    /\ ready = {}
    /\ prompted = {}

SellerNext ==
    \/ \E c \in Calls : CallStep(c)
    \/ \E t \in TaskIds : checkSettlement(t)
    \/ ChainStep /\ UNCHANGED sellerVars

SellerSpec == SellerInit /\ [][SellerNext]_allVars

-----------------------------------------------------------------------------
(* Properties *)

\* The values the variables of the seller range over.
SellerTypeOK ==
    /\ calls \in [Calls -> {Idle} \cup AcceptCall \cup ExecuteCall \cup SubmitCall]
    /\ accepted \in SUBSET ExecutionCommitment
    /\ captured \in SUBSET DeliveryReceipt
    /\ ready \in SUBSET TaskIds
    /\ prompted \in SUBSET DeliveryReceipt

\* What the chain names can be read: the commitment of a task, its bundle, and the
\* proof behind every receipt of it, whatever failed on the way and however often
\* the agent has tried again.  Who pays and who verifies depend on it.
PublishedCanBeLoaded ==
    \A t \in TaskIds :
        LET commitment == tasks[t].commitmentHash
            bundle == tasks[t].proofBundleHash
        IN  /\ commitment # NoHash => Storage!Loads(store, commitment)
            /\ bundle # NoHash =>
                   /\ Storage!Loads(store, bundle)
                   /\ \A i \in DOMAIN bundle.receipts :
                          Storage!Loads(store, RawProof(bundle.receipts[i]))

\* "The local adapter persists payloads": what the chain names can be read at least
\* whenever no call of the seller is under way.
PublishedIsKept == (\A c \in Calls : At(c, "idle")) => PublishedCanBeLoaded

\* The bundle on the chain is one the verifier can accept: it is about the task and
\* the commitment that the chain has, each receipt too, no call is counted twice
\* and each one went to the promised target, whatever receipts of whatever task or
\* commitment the agent has passed.
BundlesFitTheirTasks ==
    \A t \in TaskIds :
        LET commitment == tasks[t].commitmentHash
            bundle == tasks[t].proofBundleHash
        IN  bundle # NoHash =>
                /\ bundle.taskId = t /\ bundle.commitmentHash = commitment
                /\ commitment.taskId = t /\ commitment.buyer = tasks[t].buyer
                /\ bundle.seller = tasks[t].seller
                /\ \A i, j \in DOMAIN bundle.receipts :
                       LET receipt == bundle.receipts[i]
                       IN  /\ receipt.taskContext.taskId = t
                           /\ receipt.taskContext.commitmentHash = commitment
                           /\ receipt.target = commitment.target
                           /\ receipt.callIndex = bundle.receipts[j].callIndex => i = j

\* An agent that asks before it works is not cheated: what it does after a check
\* said READY_TO_EXECUTE is of the commitment on the chain and for money that is
\* locked, and no older than the payment, so that the window of the task has begun.
\* The tool that executes asks for nothing of the kind.
WorkFollowsFunding ==
    \A receipt \in prompted :
        LET task == tasks[receipt.taskContext.taskId]
        IN  /\ Live(task) \/ Terminal(task)
            /\ task.commitmentHash = receipt.taskContext.commitmentHash
            /\ task.fundedAtMs <= receipt.observedAt

=============================================================================
