------------------------- MODULE SellerAgent_proofs -------------------------
(***************************************************************************)
(* Theorems about SellerAgent, for every value of its constants: any       *)
(* number of calls and tasks, any targets, nonces and call indices, bundles*)
(* of any length, whatever fails and is tried again.                       *)
(***************************************************************************)
EXTENDS SellerAgent, TyrPaySettlement_proofs, SequenceTheorems

\* A bytes32 value names each commitment and each bundle.
ObjectsAreNamed == ExecutionCommitment \cup ProofBundle \subseteq Hashes

-----------------------------------------------------------------------------
(* The inductive invariant.  Its parts take the slots and the store as arguments,
   because they are about two states of them. *)

MoneyIn(task) == Live(task) \/ Terminal(task)

\* The store has the object, unless it is one that rewrites in place.
Kept(object, st) == ~RewritesInPlace => object \in st.whole

\* The commitment is the one on the chain.
Chosen(commitment, ts) == ts[commitment.taskId].commitmentHash = commitment

\* The promised target was called.
GoodReceipt(receipt) == receipt.target = receipt.taskContext.commitmentHash.target

\* The call was for the commitment on the chain, which is paid.
PaidCall(context, ts) ==
    /\ MoneyIn(ts[context.taskId])
    /\ ts[context.taskId].commitmentHash = context.commitmentHash

\* And it was not made before the payment.
PaidWork(receipt, ts) ==
    /\ PaidCall(receipt.taskContext, ts)
    /\ ts[receipt.taskContext.taskId].fundedAtMs <= receipt.observedAt

GoodBundle(bundle, ts, st) ==
    /\ bundle.taskId = bundle.commitmentHash.taskId
    /\ Chosen(bundle.commitmentHash, ts)
    /\ distinctCalls(bundle.receipts)
    /\ \A i \in DOMAIN bundle.receipts :
           /\ fitsCommitment(bundle.receipts[i], bundle.commitmentHash)
           /\ GoodReceipt(bundle.receipts[i])
           /\ Kept(RawProof(bundle.receipts[i]), st)

\* What a slot says of the seller's objects.
SlotFits(t, ts, st) ==
    /\ Exists(ts[t]) => ts[t].seller = Seller
    /\ ts[t].commitmentHash # NoHash =>
           /\ ts[t].commitmentHash \in ExecutionCommitment
           /\ ts[t].commitmentHash.taskId = t
           /\ ts[t].commitmentHash.buyer = ts[t].buyer
           /\ Kept(ts[t].commitmentHash, st)
    /\ ts[t].proofBundleHash # NoHash =>
           /\ ts[t].proofBundleHash \in ProofBundle
           /\ ts[t].proofBundleHash.taskId = t
           /\ GoodBundle(ts[t].proofBundleHash, ts, st)
           /\ Kept(ts[t].proofBundleHash, st)

\* What a call holds was checked, and what it has stored is stored.
CallFits(call, ts, st) ==
    /\ call.pc \in {"putCommitment", "submitCommitment"} =>
           /\ Exists(ts[call.commitment.taskId])
           /\ call.commitment.buyer = ts[call.commitment.taskId].buyer
    /\ call.pc = "submitCommitment" => Kept(call.commitment, st)
    /\ call.pc = "provenFetch" =>
           /\ call.target = call.taskContext.commitmentHash.target
           /\ call.taskContext.commitmentHash.taskId = call.taskContext.taskId
           /\ call.prompted => PaidCall(call.taskContext, ts)
    /\ call.pc \in {"putRawProof", "putReceipt"} => GoodReceipt(call.receipt)
    /\ call.pc = "putReceipt" => Kept(RawProof(call.receipt), st)
    /\ call.pc \in {"putBundle", "submitProofBundle"} => GoodBundle(call.bundle, ts, st)
    /\ call.pc = "submitProofBundle" => Kept(call.bundle, st)

SellerInv ==
    /\ IInv
    /\ SellerTypeOK
    /\ \A t \in TaskIds : SlotFits(t, tasks, store)
    /\ \A t \in TaskIds : MoneyIn(tasks[t]) => tasks[t].fundedAtMs <= CurrentTimeMs
    /\ \A commitment \in accepted : Chosen(commitment, tasks)
    /\ \A receipt \in captured :
           GoodReceipt(receipt) /\ Kept(RawProof(receipt), store)
    /\ \A t \in ready : MoneyIn(tasks[t])
    /\ \A receipt \in prompted : PaidWork(receipt, tasks)
    /\ \A c \in Calls : CallFits(calls[c], tasks, store)

CallValues == {Idle} \cup AcceptCall \cup ExecuteCall \cup SubmitCall

-----------------------------------------------------------------------------
(* What a step keeps *)

StoreGrows(st, later) == \A object : Kept(object, st) => Kept(object, later)

\* A payment stays, and the time of a new one has come.
FundingKept(old, new, time) ==
    /\ MoneyIn(old) => MoneyIn(new) /\ new.fundedAtMs = old.fundedAtMs
    /\ MoneyIn(new) => MoneyIn(old) \/ new.fundedAtMs <= time

LEMMA OpenedKeeps ==
  ASSUME NEW st, NEW writer, NEW object
  PROVE  StoreGrows(st, Storage!Opened(st, writer, object))
BY DEF StoreGrows, Kept, Storage!Opened

LEMMA StoredIsKept ==
  ASSUME NEW st, NEW writer, NEW object, NEW later \in Storage!Written(st, writer, object)
  PROVE  Kept(object, later) /\ StoreGrows(st, later)
BY DEF StoreGrows, Kept, Storage!Written, Storage!Completed

LEMMA PaidCallKept ==
  ASSUME ObjectsAreNamed, NEW context \in TaskContext, NEW ts, NEW later, NEW time,
         \A t \in TaskIds : TermsKept(ts[t], later[t]),
         \A t \in TaskIds : FundingKept(ts[t], later[t], time),
         PaidCall(context, ts)
  PROVE  PaidCall(context, later)
<1>1. context.taskId \in TaskIds /\ context.commitmentHash \in ExecutionCommitment
  BY DEF TaskContext
<1>2. context.commitmentHash # NoHash
  BY <1>1, SettlementAssumption DEF ObjectsAreNamed
<1> QED
  BY <1>1, <1>2 DEF PaidCall, FundingKept, TermsKept

LEMMA PaidWorkKept ==
  ASSUME ObjectsAreNamed, NEW receipt \in DeliveryReceipt, NEW ts, NEW later, NEW time,
         \A t \in TaskIds : TermsKept(ts[t], later[t]),
         \A t \in TaskIds : FundingKept(ts[t], later[t], time),
         PaidWork(receipt, ts)
  PROVE  PaidWork(receipt, later)
<1>1. receipt.taskContext \in TaskContext /\ receipt.taskContext.taskId \in TaskIds
  BY DEF DeliveryReceipt, TaskContext
<1>2. PaidCall(receipt.taskContext, later)
  BY <1>1, PaidCallKept DEF PaidWork
<1> QED
  BY <1>1, <1>2 DEF PaidWork, PaidCall, FundingKept

LEMMA ChosenKept ==
  ASSUME ObjectsAreNamed, NEW commitment \in ExecutionCommitment, NEW ts, NEW later,
         \A t \in TaskIds : TermsKept(ts[t], later[t]), Chosen(commitment, ts)
  PROVE  Chosen(commitment, later)
<1>1. commitment.taskId \in TaskIds /\ commitment # NoHash
  BY SettlementAssumption DEF ExecutionCommitment, ObjectsAreNamed
<1> QED
  BY <1>1 DEF Chosen, TermsKept

LEMMA BundleParts ==
  ASSUME NEW bundle \in ProofBundle
  PROVE  /\ bundle.taskId \in TaskIds /\ bundle.commitmentHash \in ExecutionCommitment
         /\ bundle.seller = Seller /\ bundle.receipts \in Seq(DeliveryReceipt)
         /\ \A i \in DOMAIN bundle.receipts : bundle.receipts[i] \in DeliveryReceipt
<1>1. bundle.receipts \in Seq(DeliveryReceipt)
  BY DEF ProofBundle
<1> QED
  BY <1>1, ElementOfSeq DEF ProofBundle

LEMMA BundleKept ==
  ASSUME ObjectsAreNamed, NEW bundle \in ProofBundle, NEW ts, NEW later, NEW time,
         NEW st, NEW new, StoreGrows(st, new),
         \A t \in TaskIds : TermsKept(ts[t], later[t]),
         \A t \in TaskIds : FundingKept(ts[t], later[t], time),
         GoodBundle(bundle, ts, st)
  PROVE  GoodBundle(bundle, later, new)
<1>1. bundle.commitmentHash \in ExecutionCommitment
  BY BundleParts
<1>2. Chosen(bundle.commitmentHash, later)
  BY <1>1, ChosenKept DEF GoodBundle
<1>3. ASSUME NEW i \in DOMAIN bundle.receipts
      PROVE  /\ GoodReceipt(bundle.receipts[i])
             /\ Kept(RawProof(bundle.receipts[i]), new)
  BY DEF GoodBundle, StoreGrows
<1> QED
  BY <1>2, <1>3 DEF GoodBundle

\* What kind of record a call is, by where it is.
LEMMA CallKinds ==
  ASSUME NEW call \in CallValues
  PROVE  /\ call.pc \in {"putCommitment", "submitCommitment"} => call \in AcceptCall
         /\ call.pc \in {"provenFetch", "putRawProof", "putReceipt"} => call \in ExecuteCall
         /\ call.pc \in {"putBundle", "submitProofBundle"} => call \in SubmitCall
BY DEF CallValues, Idle, AcceptCall, ExecuteCall, SubmitCall

LEMMA SellerValues ==
  ASSUME SellerInv
  PROVE  /\ calls \in [Calls -> CallValues] /\ accepted \in SUBSET ExecutionCommitment
         /\ captured \in SUBSET DeliveryReceipt /\ ready \in SUBSET TaskIds
         /\ prompted \in SUBSET DeliveryReceipt
         /\ tasks \in [TaskIds -> Task] /\ TypeOK /\ IInv
BY DEF SellerInv, SellerTypeOK, CallValues, IInv, TypeOK

LEMMA CallKept ==
  ASSUME ObjectsAreNamed, NEW call \in CallValues, NEW ts, NEW later, NEW time,
         NEW st, NEW new, StoreGrows(st, new),
         \A t \in TaskIds : TermsKept(ts[t], later[t]),
         \A t \in TaskIds : FundingKept(ts[t], later[t], time),
         CallFits(call, ts, st)
  PROVE  CallFits(call, later, new)
<1>1. CASE call.pc \in {"putCommitment", "submitCommitment"}
  <2>1. call.commitment.taskId \in TaskIds
    BY <1>1, CallKinds DEF AcceptCall, ExecutionCommitment
  <2> QED
    BY <1>1, <2>1 DEF CallFits, TermsKept, Exists, StoreGrows
<1>2. CASE call.pc = "provenFetch"
  <2>1. call \in ExecuteCall
    BY <1>2, CallKinds
  <2>2. call.taskContext \in TaskContext
    BY <1>2, <2>1 DEF ExecuteCall
  <2>3. call.prompted => PaidCall(call.taskContext, later)
    BY <1>2, <2>2, PaidCallKept DEF CallFits
  <2> QED
    BY <1>2, <2>3 DEF CallFits
<1>3. CASE call.pc \in {"putRawProof", "putReceipt"}
  BY <1>3 DEF CallFits, StoreGrows
<1>4. CASE call.pc \in {"putBundle", "submitProofBundle"}
  <2>1. call.bundle \in ProofBundle
    BY <1>4, CallKinds DEF SubmitCall
  <2>2. GoodBundle(call.bundle, later, new)
    BY <1>4, <2>1, BundleKept DEF CallFits
  <2> QED
    BY <1>4, <2>2 DEF CallFits, StoreGrows
<1> QED
  BY <1>1, <1>2, <1>3, <1>4 DEF CallFits

-----------------------------------------------------------------------------
(* The steps of a call that leave the chain alone *)

\* The clock does not go back.
LEMMA ClockGrows ==
  ASSUME TypeOK, TypeOK', blockTimestamp <= blockTimestamp'
  PROVE  CurrentTimeMs \in Nat /\ CurrentTimeMs' \in Nat /\ CurrentTimeMs <= CurrentTimeMs'
<1>1. \A m, a, b \in Nat : a <= b => a * m \in Nat /\ b * m \in Nat /\ a * m <= b * m
  OBVIOUS
<1> QED
  BY <1>1, SettlementAssumption DEF CurrentTimeMs, TypeOK

SameObjects(old, new) ==
    /\ new.buyer = old.buyer /\ new.seller = old.seller
    /\ new.commitmentHash = old.commitmentHash
    /\ new.proofBundleHash = old.proofBundleHash

\* A slot keeps what it says when its objects are the same and the rest grows.
LEMMA SlotKept ==
  ASSUME ObjectsAreNamed, NEW t \in TaskIds, NEW ts, NEW later, NEW time,
         NEW st, NEW new, StoreGrows(st, new),
         \A u \in TaskIds : TermsKept(ts[u], later[u]),
         \A u \in TaskIds : FundingKept(ts[u], later[u], time),
         SlotFits(t, ts, st), SameObjects(ts[t], later[t])
  PROVE  SlotFits(t, later, new)
<1>1. Exists(later[t]) => later[t].seller = Seller
  BY DEF SlotFits, SameObjects, Exists
<1>2. later[t].proofBundleHash # NoHash =>
          GoodBundle(later[t].proofBundleHash, later, new)
  BY BundleKept DEF SlotFits, SameObjects
<1> QED
  BY <1>1, <1>2 DEF SlotFits, SameObjects, StoreGrows

\* A step of the contract and of the seller keeps the invariant when whatever is new
\* in it fits.
LEMMA StepKeeps ==
  ASSUME ObjectsAreNamed, SellerInv, [Next]_vars, SellerTypeOK',
         StoreGrows(store, store'), blockTimestamp <= blockTimestamp',
         \A t \in TaskIds : FundingKept(tasks[t], tasks'[t], CurrentTimeMs),
         \A t \in TaskIds : SlotFits(t, tasks', store') \/ SameObjects(tasks[t], tasks'[t]),
         \A commitment \in accepted' : commitment \in accepted \/ Chosen(commitment, tasks'),
         \A receipt \in captured' : \/ receipt \in captured
                                    \/ /\ GoodReceipt(receipt)
                                       /\ Kept(RawProof(receipt), store'),
         \A receipt \in prompted' : receipt \in prompted \/ PaidWork(receipt, tasks'),
         \A t \in ready' : t \in ready \/ MoneyIn(tasks'[t]),
         \A c \in Calls : calls'[c] = calls[c] \/ CallFits(calls'[c], tasks', store')
  PROVE  SellerInv'
<1>1. IInv /\ IInv' /\ TypeOK /\ TypeOK'
  BY NextInv DEF SellerInv, IInv
<1>2. \A t \in TaskIds : TermsKept(tasks[t], tasks'[t])
  BY <1>1, TermsKeptByStep
<1>3. \A t \in TaskIds : SlotFits(t, tasks', store')
  BY <1>2, SlotKept DEF SellerInv
<1>4. ASSUME NEW t \in TaskIds, MoneyIn(tasks'[t])
      PROVE  tasks'[t].fundedAtMs <= CurrentTimeMs'
  <2>1. CurrentTimeMs \in Nat /\ CurrentTimeMs' \in Nat /\ CurrentTimeMs <= CurrentTimeMs'
    BY <1>1, ClockGrows
  <2>2. tasks'[t].fundedAtMs <= CurrentTimeMs
    BY <1>4 DEF SellerInv, FundingKept
  <2>3. tasks'[t].fundedAtMs \in Nat
    BY <1>1 DEF TypeOK, Task
  <2> QED
    BY <2>1, <2>2, <2>3
<1>5. \A commitment \in accepted' : Chosen(commitment, tasks')
  BY <1>2, SellerValues, ChosenKept DEF SellerInv
<1>6. ASSUME NEW receipt \in captured'
      PROVE  GoodReceipt(receipt) /\ Kept(RawProof(receipt), store')
  BY DEF SellerInv, StoreGrows
<1>9. ASSUME NEW receipt \in prompted'
      PROVE  PaidWork(receipt, tasks')
  <2>1. CASE receipt \in prompted
    <3>1. receipt \in DeliveryReceipt /\ PaidWork(receipt, tasks)
      BY <2>1, SellerValues DEF SellerInv
    <3> QED
      BY <1>2, <3>1, PaidWorkKept
  <2> QED
    BY <1>9, <2>1
<1>7. \A t \in ready' : MoneyIn(tasks'[t])
  BY SellerValues DEF SellerInv, FundingKept
<1>8. ASSUME NEW c \in Calls PROVE CallFits(calls'[c], tasks', store')
  <2>1. CASE calls'[c] = calls[c]
    <3>1. calls[c] \in CallValues /\ CallFits(calls[c], tasks, store)
      BY SellerValues DEF SellerInv
    <3>2. CallFits(calls[c], tasks', store')
      BY <1>2, <3>1, CallKept
    <3> QED
      BY <2>1, <3>2
  <2> QED
    BY <1>8, <2>1
<1> QED
  BY <1>1, <1>3, <1>4, <1>5, <1>6, <1>7, <1>8, <1>9 DEF SellerInv

LEMMA SellerTypes ==
  ASSUME calls' \in [Calls -> CallValues], accepted' \in SUBSET ExecutionCommitment,
         captured' \in SUBSET DeliveryReceipt, ready' \in SUBSET TaskIds,
         prompted' \in SUBSET DeliveryReceipt
  PROVE  SellerTypeOK'
BY DEF SellerTypeOK, CallValues

\* A step that leaves the chain alone and moves one call.
LEMMA LocalStepKeeps ==
  ASSUME ObjectsAreNamed, SellerInv, UNCHANGED <<vars, ready>>,
         StoreGrows(store, store'),
         NEW c \in Calls, NEW new \in CallValues, Proceed(c, new),
         CallFits(new, tasks, store'),
         accepted' = accepted,
         captured' \in SUBSET DeliveryReceipt,
         \A receipt \in captured' : \/ receipt \in captured
                                    \/ /\ GoodReceipt(receipt)
                                       /\ Kept(RawProof(receipt), store'),
         prompted' \in SUBSET DeliveryReceipt,
         \A receipt \in prompted' : receipt \in prompted \/ PaidWork(receipt, tasks)
  PROVE  SellerInv'
<1>1. UNCHANGED <<tasks, blockTimestamp>> /\ TypeOK
  BY SellerValues DEF vars
<1>2. calls' = [calls EXCEPT ![c] = new]
  BY DEF Proceed
<1>3. calls' \in [Calls -> CallValues]
      /\ \A d \in Calls : calls'[d] = calls[d] \/ CallFits(calls'[d], tasks', store')
  BY <1>1, <1>2, SellerValues
<1>4. SellerTypeOK'
  BY <1>3, SellerValues, SellerTypes
<1>5. \A t \in TaskIds : FundingKept(tasks[t], tasks'[t], CurrentTimeMs)
  BY <1>1 DEF FundingKept
<1>6. \A t \in TaskIds : SameObjects(tasks[t], tasks'[t])
  BY <1>1 DEF SameObjects
<1>7. blockTimestamp <= blockTimestamp'
  BY <1>1 DEF TypeOK
<1> QED
  BY <1>1, <1>3, <1>4, <1>5, <1>6, <1>7, StepKeeps

LEMMA IdleFits ==
  /\ Idle \in CallValues
  /\ \A ts, st : CallFits(Idle, ts, st)
BY DEF Idle, CallFits, CallValues

LEMMA AcceptStep ==
  ASSUME ObjectsAreNamed, SellerInv, NEW c \in Calls, NEW t \in TaskIds,
         NEW target \in Targets, acceptTask(c, t, target)
  PROVE  SellerInv'
<1> DEFINE commitment == [taskId |-> t, buyer |-> tasks[t].buyer, seller |-> Seller,
                          target |-> target]
           new == [pc |-> "putCommitment", commitment |-> commitment, waits |-> TRUE]
<1>1. /\ Exists(tasks[t]) /\ store' = Storage!Opened(store, c, commitment)
      /\ Proceed(c, new) /\ UNCHANGED <<vars, accepted, captured, ready, prompted>>
  BY DEF acceptTask
<1>2. tasks[t].buyer \in Accounts
  BY <1>1, SellerValues DEF Task, Exists
<1>3. commitment \in ExecutionCommitment
  BY <1>2 DEF ExecutionCommitment
<1>4. new \in CallValues
  BY <1>3 DEF CallValues, AcceptCall
<1>5. CallFits(new, tasks, store')
  BY <1>1 DEF CallFits
<1> HIDE DEF new, commitment
<1> QED
  BY <1>1, <1>4, <1>5, SellerValues, OpenedKeeps, LocalStepKeeps

LEMMA CommitmentStoredStep ==
  ASSUME ObjectsAreNamed, SellerInv, NEW c \in Calls, commitmentStored(c)
  PROVE  SellerInv'
<1> DEFINE new == [calls[c] EXCEPT !.pc = "submitCommitment"]
<1>1. /\ calls[c].pc = "putCommitment"
      /\ store' \in Storage!Written(store, c, calls[c].commitment)
      /\ Proceed(c, new) /\ UNCHANGED <<vars, accepted, captured, ready, prompted>>
  BY DEF commitmentStored, At
<1>2. calls[c] \in AcceptCall
  BY <1>1, SellerValues, CallKinds
<1>3. /\ new \in CallValues /\ new.pc = "submitCommitment"
      /\ new.commitment = calls[c].commitment
  BY <1>2 DEF CallValues, AcceptCall
<1>4. Kept(calls[c].commitment, store') /\ StoreGrows(store, store')
  BY <1>1, StoredIsKept
<1>5. CallFits(calls[c], tasks, store)
  BY DEF SellerInv
<1> HIDE DEF new
<1>6. CallFits(new, tasks, store')
  BY <1>1, <1>3, <1>4, <1>5 DEF CallFits
<1> QED
  BY <1>1, <1>3, <1>4, <1>6, SellerValues, LocalStepKeeps

\* The request goes to the target of the commitment.  When the agent was told to
\* execute, the task is paid, and the commitment it has is the one on the chain.
LEMMA ExecuteStep ==
  ASSUME ObjectsAreNamed, SellerInv, NEW c \in Calls, NEW commitment \in accepted \cup onChain,
         NEW nonce \in TaskIds, NEW callIndex \in CallIndices, NEW target \in Targets,
         executeTask(c, commitment, nonce, callIndex, target)
  PROVE  SellerInv'
<1> DEFINE context == [taskId |-> commitment.taskId, taskNonce |-> nonce,
                       commitmentHash |-> commitment, seller |-> Seller]
           new == [pc |-> "provenFetch", callIndex |-> callIndex, target |-> target,
                   prompted |-> commitment.taskId \in ready, taskContext |-> context]
<1>1. /\ target = commitment.target /\ resolveExecutionCommitment(commitment, nonce)
      /\ Proceed(c, new) /\ UNCHANGED <<vars, store, accepted, captured, ready, prompted>>
  BY DEF executeTask
<1>2. commitment \in ExecutionCommitment
  BY SellerValues DEF SellerInv, SlotFits, onChain
<1>3. context \in TaskContext
  BY <1>2 DEF ExecutionCommitment, TaskContext
<1>4. new \in CallValues
  BY <1>3 DEF CallValues, ExecuteCall
<1>5. commitment.taskId \in ready => PaidCall(context, tasks)
  <2>1. Chosen(commitment, tasks)
    BY <1>1 DEF resolveExecutionCommitment, loadCommitmentForTask, Chosen, SellerInv
  <2> QED
    BY <2>1 DEF SellerInv, PaidCall, Chosen
<1>6. CallFits(new, tasks, store')
  BY <1>1, <1>5 DEF CallFits
<1> HIDE DEF new, context
<1> QED
  BY <1>1, <1>4, <1>6, SellerValues, LocalStepKeeps DEF StoreGrows

LEMMA FetchedStep ==
  ASSUME ObjectsAreNamed, SellerInv, NEW c \in Calls, provenFetch(c)
  PROVE  SellerInv'
<1> DEFINE receipt == [taskContext |-> calls[c].taskContext,
                       callIndex |-> calls[c].callIndex,
                       target |-> calls[c].target, observedAt |-> CurrentTimeMs]
           new == [pc |-> "putRawProof", receipt |-> receipt]
<1>1. /\ calls[c].pc = "provenFetch"
      /\ store' = Storage!Opened(store, c, RawProof(receipt))
      /\ prompted' \in {prompted, prompted \cup {receipt}}
      /\ ~calls[c].prompted => prompted' = prompted
      /\ Proceed(c, new) /\ UNCHANGED <<vars, accepted, captured, ready>>
  BY DEF provenFetch, At
<1>2. calls[c] \in ExecuteCall
  BY <1>1, SellerValues, CallKinds
<1>3. CurrentTimeMs \in Nat
  BY SellerValues, ClockType
<1>4. receipt \in DeliveryReceipt
  BY <1>1, <1>2, <1>3 DEF ExecuteCall, DeliveryReceipt
<1>5. new \in CallValues
  BY <1>4 DEF CallValues, ExecuteCall
<1>6. CallFits(calls[c], tasks, store)
  BY DEF SellerInv
<1>7. calls[c].taskContext.taskId \in TaskIds
  BY <1>1, <1>2 DEF ExecuteCall, TaskContext
<1>8. GoodReceipt(receipt)
  BY <1>1, <1>6 DEF GoodReceipt, CallFits
<1>10. calls[c].prompted => PaidWork(receipt, tasks)
  <2>1. calls[c].prompted => PaidCall(calls[c].taskContext, tasks)
    BY <1>1, <1>6 DEF CallFits
  <2> QED
    BY <1>7, <2>1 DEF PaidWork, PaidCall, SellerInv
<1>11. /\ prompted' \in SUBSET DeliveryReceipt
       /\ \A r \in prompted' : r \in prompted \/ PaidWork(r, tasks)
  <2> HIDE DEF receipt, new
  <2> QED
    BY <1>1, <1>4, <1>10, SellerValues
<1> HIDE DEF receipt
<1>9. CallFits(new, tasks, store')
  BY <1>8 DEF CallFits
<1> HIDE DEF new
<1> QED
  BY <1>1, <1>5, <1>9, <1>11, SellerValues, OpenedKeeps, LocalStepKeeps

LEMMA ProofStoredStep ==
  ASSUME ObjectsAreNamed, SellerInv, NEW c \in Calls, rawProofStored(c)
  PROVE  SellerInv'
<1> DEFINE receipt == calls[c].receipt
           new == [pc |-> "putReceipt", receipt |-> receipt]
<1>1. /\ calls[c].pc = "putRawProof"
      /\ \E written \in Storage!Written(store, c, RawProof(receipt)) :
             store' = Storage!Opened(written, c, receipt)
      /\ Proceed(c, new) /\ UNCHANGED <<vars, accepted, captured, ready, prompted>>
  BY DEF rawProofStored, At
<1>2. receipt \in DeliveryReceipt
  BY <1>1, SellerValues, CallKinds DEF ExecuteCall
<1>3. new \in CallValues
  BY <1>2 DEF CallValues, ExecuteCall
<1>4. GoodReceipt(receipt)
  BY <1>1 DEF SellerInv, CallFits
<1> HIDE DEF receipt
<1>5. Kept(RawProof(receipt), store') /\ StoreGrows(store, store')
  BY <1>1, StoredIsKept, OpenedKeeps DEF StoreGrows
<1>6. CallFits(new, tasks, store')
  BY <1>4, <1>5 DEF CallFits
<1> HIDE DEF new
<1> QED
  BY <1>1, <1>3, <1>5, <1>6, SellerValues, LocalStepKeeps

LEMMA ReceiptStoredStep ==
  ASSUME ObjectsAreNamed, SellerInv, NEW c \in Calls, receiptStored(c)
  PROVE  SellerInv'
<1> DEFINE receipt == calls[c].receipt
<1>1. /\ calls[c].pc = "putReceipt"
      /\ store' \in Storage!Written(store, c, receipt)
      /\ captured' = captured \cup {receipt}
      /\ Proceed(c, Idle) /\ UNCHANGED <<vars, accepted, ready, prompted>>
  BY DEF receiptStored, At
<1>2. receipt \in DeliveryReceipt
  BY <1>1, SellerValues, CallKinds DEF ExecuteCall
<1>3. GoodReceipt(receipt) /\ Kept(RawProof(receipt), store)
  BY <1>1 DEF SellerInv, CallFits
<1> HIDE DEF receipt
<1>4. StoreGrows(store, store') /\ Kept(RawProof(receipt), store')
  BY <1>1, <1>3, StoredIsKept DEF StoreGrows
<1> QED
  BY <1>1, <1>2, <1>3, <1>4, SellerValues, IdleFits, LocalStepKeeps

\* The lists of receipts are not empty, and their elements were captured.
LEMMA ListsOfReceipts ==
  ASSUME SellerInv, NEW receipts \in ReceiptLists
  PROVE  /\ receipts \in Seq(DeliveryReceipt) \ {<<>>}
         /\ \A i \in DOMAIN receipts : receipts[i] \in captured
<1>1. PICK n \in 1..MaxReceipts : receipts \in [1..n -> captured]
  BY DEF ReceiptLists
<1>2. n \in Nat /\ n # 0
  BY <1>1, SellerAssumption
<1>3. receipts \in [1..n -> DeliveryReceipt]
  BY <1>1, SellerValues
<1>4. receipts \in Seq(DeliveryReceipt)
  BY <1>2, <1>3, SeqDef
<1>5. receipts # <<>>
  BY <1>2, <1>3
<1> QED
  BY <1>1, <1>4, <1>5

LEMMA SubmitStep ==
  ASSUME ObjectsAreNamed, SellerInv, NEW c \in Calls, NEW commitment \in accepted \cup onChain,
         NEW receipts \in ReceiptLists, submitProof(c, commitment, receipts)
  PROVE  SellerInv'
<1> DEFINE bundle == [taskId |-> commitment.taskId, commitmentHash |-> commitment,
                      seller |-> commitment.seller, receipts |-> receipts,
                      createdAt |-> CurrentTimeMs]
           new == [pc |-> "putBundle", bundle |-> bundle, waits |-> TRUE]
<1>1. /\ resolveProofCommitment(commitment)
      /\ \A i \in DOMAIN receipts : fitsCommitment(receipts[i], commitment)
      /\ distinctCalls(receipts)
      /\ store' = Storage!Opened(store, c, bundle)
      /\ Proceed(c, new) /\ UNCHANGED <<vars, accepted, captured, ready, prompted>>
  BY DEF submitProof
<1>2. commitment \in ExecutionCommitment
  BY SellerValues DEF SellerInv, SlotFits, onChain
<1>3. Chosen(commitment, tasks)
  BY <1>1 DEF resolveProofCommitment, loadCommitmentForTask, Chosen, SellerInv
<1>4. CurrentTimeMs \in Nat
  BY SellerValues, ClockType
<1>5. bundle \in ProofBundle
  <2>1. receipts \in Seq(DeliveryReceipt) \ {<<>>}
    BY ListsOfReceipts
  <2> QED
    BY <1>2, <1>4, <2>1 DEF ProofBundle, ExecutionCommitment
<1>6. new \in CallValues
  BY <1>5 DEF CallValues, SubmitCall
<1>7. StoreGrows(store, store')
  BY <1>1, OpenedKeeps
<1>8. \A i \in DOMAIN receipts : GoodReceipt(receipts[i])
                                 /\ Kept(RawProof(receipts[i]), store')
  BY <1>7, ListsOfReceipts DEF SellerInv, StoreGrows
<1>9. GoodBundle(bundle, tasks, store')
  BY <1>1, <1>3, <1>8 DEF GoodBundle
<1> HIDE DEF bundle
<1>10. CallFits(new, tasks, store')
  BY <1>9 DEF CallFits
<1> HIDE DEF new
<1> QED
  BY <1>1, <1>6, <1>7, <1>10, SellerValues, LocalStepKeeps

LEMMA BundleStoredStep ==
  ASSUME ObjectsAreNamed, SellerInv, NEW c \in Calls, bundleStored(c)
  PROVE  SellerInv'
<1> DEFINE new == [calls[c] EXCEPT !.pc = "submitProofBundle"]
<1>1. /\ calls[c].pc = "putBundle"
      /\ store' \in Storage!Written(store, c, calls[c].bundle)
      /\ Proceed(c, new) /\ UNCHANGED <<vars, accepted, captured, ready, prompted>>
  BY DEF bundleStored, At
<1>2. calls[c] \in SubmitCall
  BY <1>1, SellerValues, CallKinds
<1>3. new \in CallValues /\ new.pc = "submitProofBundle" /\ new.bundle = calls[c].bundle
  BY <1>2 DEF CallValues, SubmitCall
<1>4. Kept(calls[c].bundle, store') /\ StoreGrows(store, store')
  BY <1>1, StoredIsKept
<1>5. GoodBundle(calls[c].bundle, tasks, store) /\ calls[c].bundle \in ProofBundle
  BY <1>1, <1>2 DEF SellerInv, CallFits, SubmitCall
<1>6. GoodBundle(calls[c].bundle, tasks, store')
  BY <1>4, <1>5 DEF GoodBundle, StoreGrows
<1> HIDE DEF new
<1>7. CallFits(new, tasks, store')
  BY <1>3, <1>4, <1>6 DEF CallFits
<1> QED
  BY <1>1, <1>3, <1>4, <1>7, SellerValues, LocalStepKeeps

LEMMA FailStep ==
  ASSUME ObjectsAreNamed, SellerInv, NEW c \in Calls, Fail(c)
  PROVE  SellerInv'
<1>1. Proceed(c, Idle) /\ UNCHANGED <<vars, store, accepted, captured, ready, prompted>>
  BY DEF Fail
<1> QED
  BY <1>1, IdleFits, SellerValues, LocalStepKeeps DEF StoreGrows

\* The transaction of an abandoned call stays what it was.
LEMMA AbandonStep ==
  ASSUME ObjectsAreNamed, SellerInv, NEW c \in Calls, Abandon(c)
  PROVE  SellerInv'
<1> DEFINE new == [calls[c] EXCEPT !.waits = FALSE]
<1>1. /\ calls[c].pc \in {"submitCommitment", "submitProofBundle"}
      /\ Proceed(c, new) /\ UNCHANGED <<vars, store, accepted, captured, ready, prompted>>
  BY DEF Abandon
<1>2. CallFits(calls[c], tasks, store)
  BY DEF SellerInv
<1>3. CASE calls[c].pc = "submitCommitment"
  <2>1. calls[c] \in AcceptCall
    BY <1>3, SellerValues, CallKinds
  <2>2. /\ new \in CallValues /\ new.pc = calls[c].pc
        /\ new.commitment = calls[c].commitment
    BY <2>1 DEF CallValues, AcceptCall
  <2> HIDE DEF new
  <2>3. CallFits(new, tasks, store)
    BY <1>2, <1>3, <2>2 DEF CallFits
  <2> QED
    BY <1>1, <2>2, <2>3, SellerValues, LocalStepKeeps DEF StoreGrows
<1>4. CASE calls[c].pc = "submitProofBundle"
  <2>1. calls[c] \in SubmitCall
    BY <1>4, SellerValues, CallKinds
  <2>2. new \in CallValues /\ new.pc = calls[c].pc /\ new.bundle = calls[c].bundle
    BY <2>1 DEF CallValues, SubmitCall
  <2> HIDE DEF new
  <2>3. CallFits(new, tasks, store)
    BY <1>2, <1>4, <2>2 DEF CallFits
  <2> QED
    BY <1>1, <2>2, <2>3, SellerValues, LocalStepKeeps DEF StoreGrows
<1> QED
  BY <1>1, <1>3, <1>4

-----------------------------------------------------------------------------
(* The steps that change the chain *)

\* A write to one slot, and what it does to all of them.
LEMMA OneSlotWritten ==
  ASSUME TypeOK, NEW t \in TaskIds, NEW new, tasks' = [tasks EXCEPT ![t] = new],
         NEW time, FundingKept(tasks[t], new, time)
  PROVE  /\ \A u \in TaskIds : FundingKept(tasks[u], tasks'[u], time)
         /\ \A u \in TaskIds : u # t => SameObjects(tasks[u], tasks'[u])
         /\ tasks'[t] = new
<1>1. \A u \in TaskIds : tasks'[u] = IF u = t THEN new ELSE tasks[u]
  BY DEF TypeOK
<1> QED
  BY <1>1 DEF FundingKept, SameObjects

\* A transaction of the seller ends its call, and its object is in the slot.
LEMMA MinedStepKeeps ==
  ASSUME ObjectsAreNamed, SellerInv, [Next]_vars, NEW t \in TaskIds, NEW new,
         tasks' = [tasks EXCEPT ![t] = new], FundingKept(tasks[t], new, CurrentTimeMs),
         SlotFits(t, tasks', store), NEW c \in Calls, Proceed(c, Idle),
         UNCHANGED <<blockTimestamp, store, captured, ready, prompted>>,
         \A commitment \in accepted' : commitment \in accepted \/ Chosen(commitment, tasks'),
         accepted' \in SUBSET ExecutionCommitment
  PROVE  SellerInv'
<1>1. /\ \A u \in TaskIds : FundingKept(tasks[u], tasks'[u], CurrentTimeMs)
      /\ \A u \in TaskIds : u # t => SameObjects(tasks[u], tasks'[u])
  BY OneSlotWritten, SellerValues
<1>2. \A u \in TaskIds : SlotFits(u, tasks', store') \/ SameObjects(tasks[u], tasks'[u])
  BY <1>1
<1>3. calls' \in [Calls -> CallValues]
      /\ \A d \in Calls : calls'[d] = calls[d] \/ CallFits(calls'[d], tasks', store')
  BY IdleFits, SellerValues DEF Proceed
<1>4. SellerTypeOK'
  BY <1>3, SellerValues, SellerTypes
<1>5. blockTimestamp <= blockTimestamp' /\ StoreGrows(store, store')
  BY SellerValues DEF TypeOK, StoreGrows
<1> QED
  BY <1>1, <1>2, <1>3, <1>4, <1>5, StepKeeps

LEMMA CommitmentSubmittedStep ==
  ASSUME ObjectsAreNamed, SellerInv, NEW c \in Calls, commitmentSubmitted(c)
  PROVE  SellerInv'
<1> DEFINE k == calls[c].commitment
           t == k.taskId
           new == Committed(tasks[t], k)
<1>1. /\ calls[c].pc = "submitCommitment" /\ submitCommitment(Seller, t, k)
      /\ accepted' \in {accepted, accepted \cup {k}}
      /\ Proceed(c, Idle) /\ UNCHANGED <<store, captured, ready, prompted>>
  BY DEF commitmentSubmitted, At
<1>2. k \in ExecutionCommitment
  BY <1>1, SellerValues, CallKinds DEF AcceptCall
<1>3. t \in TaskIds /\ k \in Hashes
  BY <1>2 DEF ExecutionCommitment, ObjectsAreNamed
<1>4. [Next]_vars
  BY <1>1, <1>3, SellerAssumption DEF Next, TaskStep
<1>5. /\ tasks' = [tasks EXCEPT ![t] = new] /\ blockTimestamp' = blockTimestamp
      /\ Exists(tasks[t]) /\ tasks[t].status = "INTENT_CREATED" /\ tasks[t].seller = Seller
  BY <1>1 DEF submitCommitment, InState
<1>6. tasks[t] \in Task /\ tasks[t].proofBundleHash = NoHash
  <2>1. GoodSlot(tasks[t], CurrentTimeMs)
    BY <1>3, <1>5, ExistingSlot, SellerValues
  <2> QED
    BY <1>3, <1>5, <2>1, SellerValues DEF GoodSlot, Proved, Terminal
<1>7. /\ new.seller = Seller /\ new.buyer = tasks[t].buyer /\ new.commitmentHash = k
      /\ new.proofBundleHash = NoHash /\ new.status = "COMMITMENT_SUBMITTED"
  <2> HIDE DEF k, t
  <2> QED
    BY <1>5, <1>6 DEF Committed, Task
<1>8. /\ k.buyer = tasks[t].buyer /\ Kept(k, store)
  BY <1>1 DEF SellerInv, CallFits
<1>9. FundingKept(tasks[t], new, CurrentTimeMs)
  BY <1>5, <1>7 DEF FundingKept, MoneyIn, Live, Terminal
<1> HIDE DEF new
<1>10. tasks'[t] = new
  BY <1>3, <1>5, SellerValues
<1>11. SlotFits(t, tasks', store)
  BY <1>2, <1>7, <1>8, <1>10 DEF SlotFits
<1>12. Chosen(k, tasks')
  BY <1>7, <1>10 DEF Chosen
<1> HIDE DEF k, t
<1> QED
  BY <1>1, <1>2, <1>3, <1>4, <1>5, <1>9, <1>11, <1>12, SellerValues, MinedStepKeeps

LEMMA BundleSubmittedStep ==
  ASSUME ObjectsAreNamed, SellerInv, NEW c \in Calls, bundleSubmitted(c)
  PROVE  SellerInv'
<1> DEFINE b == calls[c].bundle
           t == b.taskId
           new == Proven(tasks[t], b)
<1>1. /\ calls[c].pc = "submitProofBundle" /\ submitProofBundle(Seller, t, b)
      /\ Proceed(c, Idle) /\ UNCHANGED <<store, accepted, captured, ready, prompted>>
  BY DEF bundleSubmitted, At
<1>2. b \in ProofBundle
  BY <1>1, SellerValues, CallKinds DEF SubmitCall
<1>3. t \in TaskIds /\ b \in Hashes
  BY <1>2, BundleParts DEF ObjectsAreNamed
<1>4. [Next]_vars
  BY <1>1, <1>3, SellerAssumption DEF Next, TaskStep
<1>5. /\ tasks' = [tasks EXCEPT ![t] = new] /\ blockTimestamp' = blockTimestamp
      /\ Exists(tasks[t]) /\ tasks[t].status = "FUNDED" /\ tasks[t].seller = Seller
  BY <1>1 DEF submitProofBundle, AwaitsProof, InState
<1>6. tasks[t] \in Task
  BY <1>3, SellerValues
<1>7. /\ new.seller = Seller /\ new.buyer = tasks[t].buyer
      /\ new.commitmentHash = tasks[t].commitmentHash /\ new.proofBundleHash = b
      /\ new.fundedAtMs = tasks[t].fundedAtMs /\ new.status = "PROOF_SUBMITTED"
  <2> HIDE DEF b, t
  <2> QED
    BY <1>5, <1>6 DEF Proven, Task
<1>8. GoodBundle(b, tasks, store) /\ Kept(b, store)
  BY <1>1 DEF SellerInv, CallFits
<1>9. FundingKept(tasks[t], new, CurrentTimeMs)
  BY <1>5, <1>7 DEF FundingKept, MoneyIn, Live, Terminal
<1> HIDE DEF new
<1>10. /\ \A u \in TaskIds : FundingKept(tasks[u], tasks'[u], CurrentTimeMs)
       /\ tasks'[t] = new
  <2> HIDE DEF b, t
  <2> QED
    BY <1>3, <1>5, <1>9, SellerValues, OneSlotWritten
<1>11. GoodBundle(b, tasks', store)
  <2>1. \A u \in TaskIds : TermsKept(tasks[u], tasks'[u])
    BY <1>4, TermsKeptByStep, SellerValues
  <2> HIDE DEF b, t
  <2> QED
    BY <1>2, <1>8, <1>10, <2>1, BundleKept DEF StoreGrows
<1>12. SlotFits(t, tasks, store)
  BY <1>3 DEF SellerInv
<1>13. SlotFits(t, tasks', store)
  <2> HIDE DEF b
  <2>1. b.taskId = t
    BY DEF b
  <2> HIDE DEF t
  <2> QED
    BY <1>2, <1>7, <1>8, <1>10, <1>11, <1>12, <2>1 DEF SlotFits
<1> HIDE DEF b, t
<1> QED
  BY <1>1, <1>3, <1>4, <1>5, <1>9, <1>13, SellerValues, MinedStepKeeps

LEMMA CheckStep ==
  ASSUME ObjectsAreNamed, SellerInv, NEW t \in TaskIds, checkSettlement(t)
  PROVE  SellerInv'
<1>1. /\ ready' = ready \cup {t} /\ mapSellerUserStatus(tasks[t].status) = "READY_TO_EXECUTE"
      /\ UNCHANGED <<calls, store, accepted, captured, prompted>> /\ UNCHANGED vars
  BY DEF checkSettlement
<1>2. tasks[t].status \in Status
  BY SellerValues DEF Task
<1>3. MoneyIn(tasks[t])
  BY <1>1, <1>2 DEF mapSellerUserStatus, Status, MoneyIn, Live, Terminal
<1>4. UNCHANGED <<tasks, blockTimestamp>>
  BY <1>1 DEF vars
<1>5. SellerTypeOK'
  BY <1>1, SellerValues, SellerTypes
<1>6. /\ \A u \in TaskIds : FundingKept(tasks[u], tasks'[u], CurrentTimeMs)
      /\ \A u \in TaskIds : SameObjects(tasks[u], tasks'[u])
      /\ blockTimestamp <= blockTimestamp' /\ StoreGrows(store, store')
  BY <1>1, <1>4, SellerValues DEF FundingKept, SameObjects, TypeOK, StoreGrows
<1> QED
  BY <1>1, <1>3, <1>4, <1>5, <1>6, StepKeeps

\* A step of the others puts no object of the seller on the chain.
LEMMA OtherStepKeeps ==
  ASSUME ObjectsAreNamed, SellerInv, [Next]_vars, UNCHANGED sellerVars,
         blockTimestamp <= blockTimestamp',
         \A t \in TaskIds : FundingKept(tasks[t], tasks'[t], CurrentTimeMs),
         \A t \in TaskIds : SlotFits(t, tasks', store) \/ SameObjects(tasks[t], tasks'[t])
  PROVE  SellerInv'
<1>1. UNCHANGED <<calls, store, accepted, captured, ready, prompted>>
  BY DEF sellerVars
<1>2. SellerTypeOK'
  BY <1>1, SellerValues, SellerTypes
<1>3. StoreGrows(store, store')
  BY <1>1 DEF StoreGrows
<1> QED
  BY <1>1, <1>2, <1>3, StepKeeps

LEMMA CreatedStep ==
  ASSUME ObjectsAreNamed, SellerInv, NEW buyer \in Accounts, NEW token \in Tokens,
         NEW amount \in Amounts, NEW deadlineMs \in Deadlines,
         createTaskIntent(buyer, Seller, token, amount, deadlineMs), UNCHANGED sellerVars
  PROVE  SellerInv'
<1> DEFINE n == nextSequence
           new == Created(tasks[n], buyer, Seller, token, amount, deadlineMs)
<1>1. n \in TaskIds /\ tasks' = [tasks EXCEPT ![n] = new] /\ blockTimestamp' = blockTimestamp
  BY DEF createTaskIntent
<1>2. tasks[n] = EmptySlot
  BY <1>1, SellerValues DEF IInv, SlotsInv, TypeOK
<1>3. /\ new.seller = Seller /\ new.commitmentHash = NoHash /\ new.proofBundleHash = NoHash
      /\ new.status = "INTENT_CREATED" /\ tasks[n].status = "INTENT_CREATED"
  BY <1>2 DEF Created, EmptySlot
<1>4. FundingKept(tasks[n], new, CurrentTimeMs)
  BY <1>3 DEF FundingKept, MoneyIn, Live, Terminal
<1>5. [Next]_vars
  BY SellerAssumption DEF Next
<1> HIDE DEF new, n
<1>6. /\ \A u \in TaskIds : FundingKept(tasks[u], tasks'[u], CurrentTimeMs)
      /\ \A u \in TaskIds : u # n => SameObjects(tasks[u], tasks'[u])
      /\ tasks'[n] = new
  BY <1>1, <1>4, SellerValues, OneSlotWritten
<1>7. SlotFits(n, tasks', store)
  BY <1>3, <1>6 DEF SlotFits
<1>8. blockTimestamp <= blockTimestamp'
  BY <1>1, SellerValues DEF TypeOK
<1> QED
  BY <1>5, <1>6, <1>7, <1>8, OtherStepKeeps

\* Money moves, and the objects in the slot stay.
LEMMA MoneyStep ==
  ASSUME ObjectsAreNamed, SellerInv, NEW t \in TaskIds, UNCHANGED sellerVars,
         \/ \E buyer \in Accounts : fundTask(buyer, t)
         \/ refundAfterProofSubmissionDeadline(t)
  PROVE  SellerInv'
<1>1. [Next]_vars
  BY DEF Next, TaskStep
<1>2. tasks[t] \in Task /\ blockTimestamp' = blockTimestamp
  BY SellerValues DEF fundTask, refundAfterProofSubmissionDeadline
<1>3. PICK new : /\ tasks' = [tasks EXCEPT ![t] = new] /\ SameObjects(tasks[t], new)
                 /\ FundingKept(tasks[t], new, CurrentTimeMs)
  <2>1. ASSUME NEW buyer \in Accounts, fundTask(buyer, t)
        PROVE  /\ tasks' = [tasks EXCEPT ![t] = Funded(tasks[t])]
               /\ tasks[t].status = "COMMITMENT_SUBMITTED"
    BY <2>1 DEF fundTask, InState
  <2>2. ASSUME refundAfterProofSubmissionDeadline(t)
        PROVE  /\ tasks' = [tasks EXCEPT ![t] = Refunded(tasks[t])]
               /\ tasks[t].status = "FUNDED"
    BY <2>2 DEF refundAfterProofSubmissionDeadline, InState
  <2>3. CurrentTimeMs \in Nat
    BY SellerValues, ClockType
  <2>4. ASSUME tasks[t].status = "COMMITMENT_SUBMITTED"
        PROVE  /\ SameObjects(tasks[t], Funded(tasks[t]))
               /\ FundingKept(tasks[t], Funded(tasks[t]), CurrentTimeMs)
    <3>1. /\ SameObjects(tasks[t], Funded(tasks[t])) /\ ~MoneyIn(tasks[t])
          /\ Funded(tasks[t]).fundedAtMs = CurrentTimeMs
      BY <1>2, <2>4 DEF Funded, SameObjects, Task, MoneyIn, Live, Terminal
    <3> QED
      BY <2>3, <3>1 DEF FundingKept
  <2>5. ASSUME tasks[t].status = "FUNDED"
        PROVE  /\ SameObjects(tasks[t], Refunded(tasks[t]))
               /\ FundingKept(tasks[t], Refunded(tasks[t]), CurrentTimeMs)
    BY <1>2, <2>5 DEF Refunded, SameObjects, FundingKept, Task, MoneyIn, Live, Terminal
  <2> QED
    BY <2>1, <2>2, <2>4, <2>5
<1>4. /\ \A u \in TaskIds : FundingKept(tasks[u], tasks'[u], CurrentTimeMs)
      /\ \A u \in TaskIds : SameObjects(tasks[u], tasks'[u])
  BY <1>3, SellerValues, OneSlotWritten
<1>5. blockTimestamp <= blockTimestamp'
  BY <1>2, SellerValues DEF TypeOK
<1> QED
  BY <1>1, <1>4, <1>5, OtherStepKeeps

LEMMA QuietStep ==
  ASSUME ObjectsAreNamed, SellerInv, Tick \/ UNCHANGED vars, UNCHANGED sellerVars
  PROVE  SellerInv'
<1>1. [Next]_vars
  BY DEF Next
<1>2. tasks' = tasks /\ blockTimestamp <= blockTimestamp'
  BY SellerValues DEF Tick, vars, contractVars, TypeOK
<1>3. /\ \A u \in TaskIds : FundingKept(tasks[u], tasks'[u], CurrentTimeMs)
      /\ \A u \in TaskIds : SameObjects(tasks[u], tasks'[u])
  BY <1>2 DEF FundingKept, SameObjects
<1> QED
  BY <1>1, <1>2, <1>3, OtherStepKeeps

-----------------------------------------------------------------------------
(* The theorems *)

LEMMA SellerStart == SellerInit => SellerInv
<1> SUFFICES ASSUME SellerInit PROVE SellerInv
  OBVIOUS
<1>1. TypeOK
  <2>1. blockTimestamp \in Nat /\ nextSequence \in 1..(MaxTasks + 1)
    BY SettlementAssumption DEF SellerInit
  <2>2. tasks \in [TaskIds -> Task]
    BY EmptySlotType DEF SellerInit
  <2>3. balanceOf \in [Tokens -> [Holders -> Nat]]
    BY SettlementAssumption DEF SellerInit
  <2> QED
    BY <2>1, <2>2, <2>3 DEF SellerInit, TypeOK, Registry!RegistryTypeOK
<1>2. \A t \in TaskIds : tasks[t] = EmptySlot /\ ~(t < nextSequence)
  BY DEF SellerInit, TaskIds
<1>3. /\ EmptySlot.reportHash = NoHash /\ EmptySlot.status = "INTENT_CREATED"
      /\ EmptySlot.commitmentHash = NoHash /\ EmptySlot.proofBundleHash = NoHash
      /\ ~Exists(EmptySlot)
  BY DEF EmptySlot, Exists
<1>4. IInv
  BY <1>1, <1>2, <1>3 DEF SellerInit, IInv, SlotsInv, BundleSpentOnce, ByReport
<1>5. \A t \in TaskIds : SlotFits(t, tasks, store) /\ ~MoneyIn(tasks[t])
  BY <1>2, <1>3 DEF SlotFits, MoneyIn, Live, Terminal
<1>6. calls \in [Calls -> {Idle}] /\ accepted = {} /\ captured = {} /\ ready = {}
      /\ prompted = {}
  BY DEF SellerInit
<1>7. SellerTypeOK
  BY <1>6 DEF SellerTypeOK
<1>8. \A c \in Calls : CallFits(calls[c], tasks, store)
  BY <1>6, IdleFits
<1> QED
  BY <1>4, <1>5, <1>6, <1>7, <1>8 DEF SellerInv

LEMMA SellerStep ==
  ASSUME ObjectsAreNamed
  PROVE  SellerInv /\ [SellerNext]_allVars => SellerInv'
<1> SUFFICES ASSUME SellerInv, [SellerNext]_allVars PROVE SellerInv'
  OBVIOUS
<1>1. ASSUME NEW c \in Calls, CallStep(c) PROVE SellerInv'
  BY <1>1, AcceptStep, CommitmentStoredStep, CommitmentSubmittedStep, ExecuteStep,
     SubmitStep, FetchedStep, ProofStoredStep, ReceiptStoredStep, BundleStoredStep,
     BundleSubmittedStep, FailStep, AbandonStep DEF CallStep
<1>2. ASSUME ChainStep, UNCHANGED sellerVars PROVE SellerInv'
  BY <1>2, CreatedStep, MoneyStep, QuietStep DEF ChainStep
<1>3. CASE UNCHANGED allVars
  <2>1. UNCHANGED vars /\ UNCHANGED sellerVars
    BY <1>3 DEF allVars
  <2> QED
    BY <2>1, QuietStep
<1> QED
  BY <1>1, <1>2, <1>3, CheckStep DEF SellerNext

\* Every reachable state satisfies the inductive invariant.
THEOREM SellerInvariance ==
  ASSUME ObjectsAreNamed
  PROVE  SellerSpec => []SellerInv
BY SellerStart, SellerStep, PTL DEF SellerSpec

\* Every variable of the seller keeps its type.
THEOREM SellerTypesKept ==
  ASSUME ObjectsAreNamed
  PROVE  SellerSpec => []SellerTypeOK
<1>1. SellerInv => SellerTypeOK
  BY DEF SellerInv
<1> QED
  BY <1>1, SellerInvariance, PTL

\* A bundle on the chain is about its task and the commitment there, with receipts of
\* distinct calls of the promised target, for any number of concurrent calls that pass
\* any receipts, fail or are abandoned at any await.
THEOREM BundlesFit ==
  ASSUME ObjectsAreNamed
  PROVE  SellerSpec => []BundlesFitTheirTasks
<1>1. SellerInv => BundlesFitTheirTasks
  <2> SUFFICES ASSUME SellerInv, NEW t \in TaskIds, tasks[t].proofBundleHash # NoHash
               PROVE  LET commitment == tasks[t].commitmentHash
                          bundle == tasks[t].proofBundleHash
                      IN  /\ bundle.taskId = t /\ bundle.commitmentHash = commitment
                          /\ commitment.taskId = t /\ commitment.buyer = tasks[t].buyer
                          /\ bundle.seller = tasks[t].seller
                          /\ \A i, j \in DOMAIN bundle.receipts :
                                 LET receipt == bundle.receipts[i]
                                 IN  /\ receipt.taskContext.taskId = t
                                     /\ receipt.taskContext.commitmentHash = commitment
                                     /\ receipt.target = commitment.target
                                     /\ receipt.callIndex = bundle.receipts[j].callIndex
                                            => i = j
    BY DEF BundlesFitTheirTasks
  <2> DEFINE bundle == tasks[t].proofBundleHash
  <2>1. SlotFits(t, tasks, store) /\ IInv
    BY DEF SellerInv
  <2>2. /\ bundle \in ProofBundle /\ bundle.taskId = t
        /\ GoodBundle(bundle, tasks, store)
    BY <2>1 DEF SlotFits
  <2>3. bundle.commitmentHash = tasks[t].commitmentHash
    BY <2>2 DEF GoodBundle, Chosen
  <2>4. bundle.commitmentHash \in ExecutionCommitment /\ bundle.seller = Seller
    BY <2>2, BundleParts
  <2>5. tasks[t].commitmentHash # NoHash /\ tasks[t].seller = Seller
    <3>1. t < nextSequence /\ GoodSlot(tasks[t], CurrentTimeMs)
      BY <2>1 DEF IInv, SlotsInv, EmptySlot
    <3>2. Exists(tasks[t])
      BY <3>1, SettlementAssumption DEF GoodSlot, Exists
    <3> QED
      BY <2>1, <3>1, <3>2 DEF SlotFits, GoodSlot, Proved, Terminal
  <2>6. tasks[t].commitmentHash.taskId = t /\ tasks[t].commitmentHash.buyer = tasks[t].buyer
    BY <2>1, <2>5 DEF SlotFits
  <2>7. ASSUME NEW i \in DOMAIN bundle.receipts
        PROVE  /\ bundle.receipts[i].taskContext.taskId = t
               /\ bundle.receipts[i].taskContext.commitmentHash = tasks[t].commitmentHash
               /\ bundle.receipts[i].target = tasks[t].commitmentHash.target
    BY <2>2, <2>3, <2>6 DEF GoodBundle, GoodReceipt, fitsCommitment
  <2>8. \A i, j \in DOMAIN bundle.receipts :
            bundle.receipts[i].callIndex = bundle.receipts[j].callIndex => i = j
    BY <2>2 DEF GoodBundle, distinctCalls
  <2> HIDE DEF bundle
  <2>9. bundle = tasks[t].proofBundleHash
    BY DEF bundle
  <2> QED
    BY <2>2, <2>3, <2>4, <2>5, <2>6, <2>7, <2>8, <2>9
<1> QED
  BY <1>1, SellerInvariance, PTL

\* Work that an agent does after a check said READY_TO_EXECUTE is of the commitment on
\* the chain, for money that is locked, and no older than the payment, for any number of
\* calls and whatever happens between the check, the execution and the answer.
THEOREM PaidBeforeWork ==
  ASSUME ObjectsAreNamed
  PROVE  SellerSpec => []WorkFollowsFunding
<1>1. SellerInv => WorkFollowsFunding
  BY DEF SellerInv, PaidWork, PaidCall, MoneyIn, WorkFollowsFunding
<1> QED
  BY <1>1, SellerInvariance, PTL

\* With a store that keeps what it has until a new text is complete, what the chain names
\* can always be read, whatever failed and was tried again.
THEOREM PublishedStays ==
  ASSUME ObjectsAreNamed, ~RewritesInPlace
  PROVE  SellerSpec => []PublishedCanBeLoaded
<1>1. SellerInv => PublishedCanBeLoaded
  <2>1. \A object : Kept(object, store) => Storage!Loads(store, object)
    BY DEF Kept, Storage!Loads
  <2> QED
    BY <2>1 DEF PublishedCanBeLoaded, SellerInv, SlotFits, GoodBundle
<1> QED
  BY <1>1, SellerInvariance, PTL

=============================================================================
