---------------------- MODULE TyrPaySettlement_proofs -----------------------
(***************************************************************************)
(* Theorems about TyrPaySettlement, and about its books as they stand in   *)
(* SettlementAccounting, for every value of the constants.                 *)
(***************************************************************************)
EXTENDS SettlementAccounting, FiniteSums

-----------------------------------------------------------------------------
(* Arithmetic of the clock *)

LEMMA ClockType == TypeOK => CurrentTimeMs \in Nat
<1> SUFFICES ASSUME blockTimestamp \in Nat, NEW m \in Nat, m = MsPerSecond
             PROVE  blockTimestamp * m \in Nat
  BY SettlementAssumption DEF TypeOK, CurrentTimeMs
<1> QED OBVIOUS

-----------------------------------------------------------------------------
(* Types *)

LEMMA EmptySlotType == EmptySlot \in Task
BY SettlementAssumption DEF EmptySlot, Task, Status

LEMMA InitTypeOK == Init => TypeOK
<1> SUFFICES ASSUME Init PROVE TypeOK
  OBVIOUS
<1>1. EmptySlot \in Task
  BY EmptySlotType
<1>2. tasks \in [TaskIds -> Task]
  BY <1>1 DEF Init
<1>3. balanceOf \in [Tokens -> [Holders -> Nat]]
  BY SettlementAssumption DEF Init, Holders
<1>4. nextSequence \in 1..(MaxTasks + 1)
  BY SettlementAssumption DEF Init
<1> QED
  BY <1>2, <1>3, <1>4 DEF Init, TypeOK, Registry!RegistryInit, Registry!RegistryTypeOK

LEMMA TransferType ==
  ASSUME NEW token \in Tokens, NEW from \in Holders, NEW to \in Holders,
         NEW amount \in Nat, balanceOf \in [Tokens -> [Holders -> Nat]],
         Transfer(token, from, to, amount)
  PROVE  balanceOf' \in [Tokens -> [Holders -> Nat]]
<1> DEFINE paid == [balanceOf[token] EXCEPT ![from] = balanceOf[token][from] - amount]
           both == Moved(balanceOf[token], from, to, amount)
<1>1. balanceOf[token][from] - amount \in Nat
  BY DEF Transfer
<1>2. paid \in [Holders -> Nat]
  BY <1>1
<1>3. both = [paid EXCEPT ![to] = paid[to] + amount]
  BY DEF Moved
<1>4. both \in [Holders -> Nat]
  BY <1>2, <1>3
<1>5. balanceOf' = [balanceOf EXCEPT ![token] = both]
  BY DEF Transfer
<1> HIDE DEF both
<1> QED
  BY <1>4, <1>5

-----------------------------------------------------------------------------
(* The inductive invariant *)

\* What a created task has at least, besides its type, at the given time.
GoodSlot(task, time) ==
    /\ task.buyer \in Accounts /\ task.seller \in Accounts
    /\ task.token \in Tokens /\ task.amount > 0
    /\ task.deadlineMs \in Deadlines
    /\ (task.commitmentHash = NoHash) <=> (task.status = "INTENT_CREATED")
    /\ task.status = "PROOF_SUBMITTED" => Proved(task)
    /\ Proved(task) => task.status = "PROOF_SUBMITTED" \/ Terminal(task)
    /\ task.status = "FUNDED" => task.fundedAtMs <= time
    /\ Lawful(task)

SlotsInv ==
    \A t \in TaskIds :
        IF t < nextSequence THEN GoodSlot(tasks[t], CurrentTimeMs)
                            ELSE tasks[t] = EmptySlot

IInv == TypeOK /\ SlotsInv /\ BundleSpentOnce

LEMMA ExistingSlot ==
  ASSUME IInv, NEW t \in TaskIds, Exists(tasks[t])
  PROVE  /\ t < nextSequence
         /\ tasks[t] \in Task
         /\ GoodSlot(tasks[t], CurrentTimeMs)
<1>1. EmptySlot.buyer = NoAddress
  BY DEF EmptySlot
<1>2. tasks[t] # EmptySlot
  BY <1>1 DEF Exists
<1> QED
  BY <1>2 DEF IInv, SlotsInv, TypeOK

LEMMA CreatedSlot ==
  ASSUME NEW buyer \in Accounts, NEW seller \in Accounts, NEW token \in Tokens,
         NEW amount \in Amounts, amount # 0, NEW deadlineMs \in Deadlines,
         NEW time \in Nat
  PROVE  LET new == Created(EmptySlot, buyer, seller, token, amount, deadlineMs)
         IN  new \in Task /\ GoodSlot(new, time) /\ ~ByReport(new)
<1> DEFINE new == Created(EmptySlot, buyer, seller, token, amount, deadlineMs)
<1>1. PICK task \in Task : task = EmptySlot
  BY EmptySlotType
<1>2. amount \in Nat /\ amount > 0 /\ deadlineMs \in Nat
  BY SettlementAssumption
<1>3. /\ task.commitmentHash = NoHash /\ task.proofBundleHash = NoHash
      /\ task.reportHash = NoHash
  BY <1>1 DEF EmptySlot
<1>4. new = Created(task, buyer, seller, token, amount, deadlineMs)
  BY <1>1
<1> HIDE DEF new
<1>5. /\ new.commitmentHash = NoHash /\ new.proofBundleHash = NoHash
      /\ new.reportHash = NoHash /\ new.status = "INTENT_CREATED"
      /\ new.buyer = buyer /\ new.seller = seller
      /\ new.token = token /\ new.amount = amount
      /\ new.deadlineMs = deadlineMs
  BY <1>3, <1>4 DEF Created, Task
<1>6. new \in Task
  BY <1>2, <1>4 DEF Created, Task, Status
<1>7. GoodSlot(new, time)
  BY <1>2, <1>5 DEF GoodSlot, Lawful, Proved, ByReport, Live, Terminal
<1>8. ~ByReport(new)
  BY <1>5 DEF ByReport
<1> QED
  BY <1>6, <1>7, <1>8 DEF new

LEMMA CommittedSlot ==
  ASSUME NEW task \in Task, NEW time \in Nat, GoodSlot(task, time),
         task.status = "INTENT_CREATED", NEW hash \in Hashes
  PROVE  LET new == Committed(task, hash)
         IN  new \in Task /\ GoodSlot(new, time) /\ ~ByReport(new)
BY SettlementAssumption
   DEF Committed, Task, Status, GoodSlot, Lawful, Proved, ByReport, Live, Terminal

LEMMA FundedSlot ==
  ASSUME NEW task \in Task, CurrentTimeMs \in Nat, GoodSlot(task, CurrentTimeMs),
         task.status = "COMMITMENT_SUBMITTED", CurrentTimeMs <= task.deadlineMs
  PROVE  LET new == Funded(task)
         IN  new \in Task /\ GoodSlot(new, CurrentTimeMs) /\ ~ByReport(new)
<1> DEFINE new == Funded(task)
<1>1. new \in Task
  BY DEF Funded, Task, Status
<1>2. /\ new.status = "FUNDED" /\ new.fundedAtMs = CurrentTimeMs
      /\ new.buyer = task.buyer /\ new.seller = task.seller
      /\ new.token = task.token /\ new.amount = task.amount
      /\ new.deadlineMs = task.deadlineMs
      /\ new.commitmentHash = task.commitmentHash
      /\ new.proofBundleHash = task.proofBundleHash
      /\ new.reportHash = task.reportHash
  BY DEF Funded, Task
<1> HIDE DEF new
<1>3. GoodSlot(new, CurrentTimeMs) /\ ~ByReport(new)
  BY <1>2 DEF GoodSlot, Lawful, Proved, ByReport, Live, Terminal
<1> QED
  BY <1>1, <1>3 DEF new

LEMMA ProvenSlot ==
  ASSUME NEW task \in Task, CurrentTimeMs \in Nat, GoodSlot(task, CurrentTimeMs),
         task.status = "FUNDED", ProofWindowOpen(task), NEW hash \in Hashes
  PROVE  LET new == Proven(task, hash)
         IN  new \in Task /\ GoodSlot(new, CurrentTimeMs) /\ ~ByReport(new)
BY SettlementAssumption
   DEF Proven, Task, Status, GoodSlot, Lawful, Proved, ByReport, Live, Terminal,
       ProofWindowOpen

LEMMA ReportedSlot ==
  ASSUME NEW task \in Task, CurrentTimeMs \in Nat, GoodSlot(task, CurrentTimeMs),
         task.status = "PROOF_SUBMITTED", NEW report \in VerificationReport,
         report.reportHash # NoHash
  PROVE  LET new == Reported(task, report)
         IN  /\ new \in Task /\ GoodSlot(new, CurrentTimeMs)
             /\ ByReport(new) /\ new.proofBundleHash = task.proofBundleHash
BY SettlementAssumption
   DEF Reported, Settled, Refunded, VerificationReport, Task, Status, GoodSlot,
       Lawful, Proved, ByReport, Live, Terminal

LEMMA RefundedSlot ==
  ASSUME NEW task \in Task, CurrentTimeMs \in Nat, GoodSlot(task, CurrentTimeMs),
         \/ task.status = "FUNDED" /\ ProofTimeoutReached(task)
         \/ task.status = "PROOF_SUBMITTED" /\ VerificationTimeoutReached(task)
  PROVE  LET new == Refunded(task)
         IN  new \in Task /\ GoodSlot(new, CurrentTimeMs) /\ ~ByReport(new)
BY SettlementAssumption
   DEF Refunded, Task, Status, GoodSlot, Lawful, Proved, ByReport, Live, Terminal,
       ProofTimeoutReached, VerificationTimeoutReached

LEMMA NoReportYet ==
  ASSUME NEW task, NEW time, GoodSlot(task, time), ~Terminal(task)
  PROVE  ~ByReport(task)
BY DEF GoodSlot, Lawful

\* Writing one slot without touching the report hash.
LEMMA SlotWritten ==
  ASSUME IInv, NEW t \in TaskIds, t < nextSequence, ~ByReport(tasks[t]),
         NEW new \in Task, GoodSlot(new, CurrentTimeMs), ~ByReport(new),
         tasks' = [tasks EXCEPT ![t] = new],
         balanceOf' \in [Tokens -> [Holders -> Nat]],
         UNCHANGED <<blockTimestamp, nextSequence, usedProofBundleHash,
                     allowedTokens, authorizedVerifiers>>
  PROVE  IInv'
<1>1. TypeOK'
  BY DEF IInv, TypeOK, Registry!RegistryTypeOK
<1>2. SlotsInv'
  <2> SUFFICES ASSUME NEW u \in TaskIds
               PROVE  IF u < nextSequence THEN GoodSlot(tasks'[u], CurrentTimeMs)
                                          ELSE tasks'[u] = EmptySlot
    BY DEF SlotsInv, CurrentTimeMs
  <2>1. CASE u = t
    BY <2>1 DEF IInv, TypeOK
  <2>2. CASE u # t
    BY <2>2 DEF IInv, TypeOK, SlotsInv
  <2> QED
    BY <2>1, <2>2
<1>3. BundleSpentOnce'
  <2>1. \A u \in TaskIds : /\ ByReport(tasks'[u]) <=> ByReport(tasks[u])
                           /\ u # t => tasks'[u] = tasks[u]
    BY DEF IInv, TypeOK
  <2>2. {tasks'[u].proofBundleHash : u \in {v \in TaskIds : ByReport(tasks'[v])}}
          = {tasks[u].proofBundleHash : u \in {v \in TaskIds : ByReport(tasks[v])}}
    BY <2>1
  <2> QED
    BY <2>1, <2>2 DEF IInv, BundleSpentOnce
<1> QED
  BY <1>1, <1>2, <1>3 DEF IInv

-----------------------------------------------------------------------------
(* Every action preserves the invariant *)

LEMMA CreateInv ==
  ASSUME IInv, NEW caller \in Accounts, NEW seller \in Accounts \cup {NoAddress},
         NEW token \in Tokens \cup {NoAddress}, NEW amount \in Amounts,
         NEW deadlineMs \in Deadlines,
         createTaskIntent(caller, seller, token, amount, deadlineMs)
  PROVE  IInv'
<1> DEFINE n == nextSequence
           new == Created(EmptySlot, caller, seller, token, amount, deadlineMs)
<1>1. /\ seller \in Accounts /\ token \in Tokens /\ amount # 0
      /\ n \in TaskIds /\ nextSequence' = n + 1
      /\ UNCHANGED <<blockTimestamp, usedProofBundleHash, allowedTokens,
                     balanceOf, authorizedVerifiers>>
  BY DEF createTaskIntent
<1>2. tasks[n] = EmptySlot
  BY <1>1 DEF IInv, SlotsInv, TypeOK
<1>3. tasks' = [tasks EXCEPT ![n] = new]
  BY <1>2 DEF createTaskIntent
<1>4. CurrentTimeMs \in Nat
  BY ClockType DEF IInv
<1>5. new \in Task /\ GoodSlot(new, CurrentTimeMs) /\ ~ByReport(new)
  BY <1>1, <1>4, CreatedSlot
<1> HIDE DEF new
<1>6. TypeOK'
  BY <1>1, <1>3, <1>5, SettlementAssumption DEF IInv, TypeOK, TaskIds, Registry!RegistryTypeOK
<1>7. SlotsInv'
  <2> SUFFICES ASSUME NEW u \in TaskIds
               PROVE  IF u < n + 1 THEN GoodSlot(tasks'[u], CurrentTimeMs)
                                   ELSE tasks'[u] = EmptySlot
    BY <1>1 DEF SlotsInv, CurrentTimeMs
  <2>1. CASE u = n
    BY <1>3, <1>5, <2>1 DEF IInv, TypeOK
  <2>2. CASE u # n
    <3>1. tasks'[u] = tasks[u] /\ (u < n + 1 <=> u < n)
      BY <1>1, <1>3, <2>2 DEF IInv, TypeOK, TaskIds
    <3> QED
      BY <3>1 DEF IInv, SlotsInv
  <2> QED
    BY <2>1, <2>2
<1>8. BundleSpentOnce'
  <2>1. ~ByReport(tasks[n])
    BY <1>2 DEF EmptySlot, ByReport
  <2>2. \A u \in TaskIds : /\ ByReport(tasks'[u]) <=> ByReport(tasks[u])
                           /\ u # n => tasks'[u] = tasks[u]
    BY <1>3, <1>5, <2>1 DEF IInv, TypeOK
  <2>3. {tasks'[u].proofBundleHash : u \in {v \in TaskIds : ByReport(tasks'[v])}}
          = {tasks[u].proofBundleHash : u \in {v \in TaskIds : ByReport(tasks[v])}}
    BY <2>1, <2>2
  <2> QED
    BY <1>1, <2>1, <2>2, <2>3 DEF IInv, BundleSpentOnce
<1> QED
  BY <1>6, <1>7, <1>8 DEF IInv

LEMMA CommitInv ==
  ASSUME IInv, NEW caller \in Accounts, NEW t \in TaskIds,
         NEW hash \in Hashes \cup {NoHash}, submitCommitment(caller, t, hash)
  PROVE  IInv'
<1> DEFINE new == Committed(tasks[t], hash)
<1>1. /\ Exists(tasks[t]) /\ tasks[t].status = "INTENT_CREATED" /\ hash \in Hashes
      /\ tasks' = [tasks EXCEPT ![t] = new]
      /\ UNCHANGED <<blockTimestamp, nextSequence, usedProofBundleHash,
                     allowedTokens, balanceOf, authorizedVerifiers>>
  BY DEF submitCommitment, InState
<1>2. t < nextSequence /\ tasks[t] \in Task /\ GoodSlot(tasks[t], CurrentTimeMs)
  BY <1>1, ExistingSlot
<1>3. CurrentTimeMs \in Nat
  BY ClockType DEF IInv
<1>4. new \in Task /\ GoodSlot(new, CurrentTimeMs) /\ ~ByReport(new)
  BY <1>1, <1>2, <1>3, CommittedSlot
<1>5. ~ByReport(tasks[t])
  BY <1>1, <1>2, NoReportYet DEF Terminal
<1>6. balanceOf' \in [Tokens -> [Holders -> Nat]]
  BY <1>1 DEF IInv, TypeOK
<1> HIDE DEF new
<1> QED
  BY <1>1, <1>2, <1>4, <1>5, <1>6, SlotWritten

LEMMA FundInv ==
  ASSUME IInv, NEW caller \in Accounts, NEW t \in TaskIds, fundTask(caller, t)
  PROVE  IInv'
<1> DEFINE new == Funded(tasks[t])
<1>1. /\ Exists(tasks[t]) /\ tasks[t].status = "COMMITMENT_SUBMITTED"
      /\ CurrentTimeMs <= tasks[t].deadlineMs
      /\ Transfer(tasks[t].token, caller, Settlement, tasks[t].amount)
      /\ tasks' = [tasks EXCEPT ![t] = new]
      /\ UNCHANGED <<blockTimestamp, nextSequence, usedProofBundleHash,
                     allowedTokens, authorizedVerifiers>>
  BY DEF fundTask, InState
<1>2. t < nextSequence /\ tasks[t] \in Task /\ GoodSlot(tasks[t], CurrentTimeMs)
  BY <1>1, ExistingSlot
<1>3. CurrentTimeMs \in Nat
  BY ClockType DEF IInv
<1>4. new \in Task /\ GoodSlot(new, CurrentTimeMs) /\ ~ByReport(new)
  BY <1>1, <1>2, <1>3, FundedSlot
<1>5. ~ByReport(tasks[t])
  BY <1>1, <1>2, NoReportYet DEF Terminal
<1>6. balanceOf' \in [Tokens -> [Holders -> Nat]]
  <2>1. tasks[t].token \in Tokens /\ tasks[t].amount \in Nat
    BY <1>2 DEF GoodSlot, Task
  <2> QED
    BY <1>1, <2>1, TransferType DEF IInv, TypeOK, Holders
<1> HIDE DEF new
<1> QED
  BY <1>1, <1>2, <1>4, <1>5, <1>6, SlotWritten

LEMMA SubmitProofInv ==
  ASSUME IInv, NEW caller \in Accounts, NEW t \in TaskIds,
         NEW hash \in Hashes \cup {NoHash}, submitProofBundle(caller, t, hash)
  PROVE  IInv'
<1> DEFINE new == Proven(tasks[t], hash)
<1>1. /\ Exists(tasks[t]) /\ tasks[t].status = "FUNDED" /\ hash \in Hashes
      /\ ProofWindowOpen(tasks[t])
      /\ tasks' = [tasks EXCEPT ![t] = new]
      /\ UNCHANGED <<blockTimestamp, nextSequence, usedProofBundleHash,
                     allowedTokens, balanceOf, authorizedVerifiers>>
  BY DEF submitProofBundle, AwaitsProof, InState
<1>2. t < nextSequence /\ tasks[t] \in Task /\ GoodSlot(tasks[t], CurrentTimeMs)
  BY <1>1, ExistingSlot
<1>3. CurrentTimeMs \in Nat
  BY ClockType DEF IInv
<1>4. new \in Task /\ GoodSlot(new, CurrentTimeMs) /\ ~ByReport(new)
  BY <1>1, <1>2, <1>3, ProvenSlot
<1>5. ~ByReport(tasks[t])
  BY <1>1, <1>2, NoReportYet DEF Terminal
<1>6. balanceOf' \in [Tokens -> [Holders -> Nat]]
  BY <1>1 DEF IInv, TypeOK
<1> HIDE DEF new
<1> QED
  BY <1>1, <1>2, <1>4, <1>5, <1>6, SlotWritten

LEMMA RefundInv ==
  ASSUME IInv, NEW t \in TaskIds,
         \/ refundAfterProofSubmissionDeadline(t)
         \/ refundAfterVerificationTimeout(t)
  PROVE  IInv'
<1> DEFINE new == Refunded(tasks[t])
<1>1. /\ Exists(tasks[t])
      /\ \/ tasks[t].status = "FUNDED" /\ ProofTimeoutReached(tasks[t])
         \/ tasks[t].status = "PROOF_SUBMITTED" /\ VerificationTimeoutReached(tasks[t])
      /\ Transfer(tasks[t].token, Settlement, tasks[t].buyer, tasks[t].amount)
      /\ tasks' = [tasks EXCEPT ![t] = new]
      /\ UNCHANGED <<blockTimestamp, nextSequence, usedProofBundleHash,
                     allowedTokens, authorizedVerifiers>>
  BY DEF refundAfterProofSubmissionDeadline, refundAfterVerificationTimeout, InState
<1>2. t < nextSequence /\ tasks[t] \in Task /\ GoodSlot(tasks[t], CurrentTimeMs)
  BY <1>1, ExistingSlot
<1>3. CurrentTimeMs \in Nat
  BY ClockType DEF IInv
<1>4. new \in Task /\ GoodSlot(new, CurrentTimeMs) /\ ~ByReport(new)
  BY <1>1, <1>2, <1>3, RefundedSlot
<1>5. ~ByReport(tasks[t])
  BY <1>1, <1>2, NoReportYet DEF Terminal
<1>6. balanceOf' \in [Tokens -> [Holders -> Nat]]
  <2>1. tasks[t].token \in Tokens /\ tasks[t].amount \in Nat /\ tasks[t].buyer \in Holders
    BY <1>2 DEF GoodSlot, Task, Holders
  <2> QED
    BY <1>1, <2>1, TransferType DEF IInv, TypeOK, Holders
<1> HIDE DEF new
<1> QED
  BY <1>1, <1>2, <1>4, <1>5, <1>6, SlotWritten

LEMMA SettleInv ==
  ASSUME IInv, NEW report \in VerificationReport, settle(report)
  PROVE  IInv'
<1> DEFINE t == report.taskId
           new == Reported(tasks[t], report)
           hash == tasks[t].proofBundleHash
<1>1. report \in VerificationReport /\ t \in TaskIds
  BY DEF VerificationReport
<1>2. /\ Exists(tasks[t]) /\ tasks[t].status = "PROOF_SUBMITTED"
      /\ report.reportHash # NoHash
      /\ report.proofBundleHash = hash /\ hash \notin usedProofBundleHash
      /\ usedProofBundleHash' = usedProofBundleHash \cup {hash}
      /\ Transfer(tasks[t].token, Settlement, Beneficiary(tasks[t], report),
                  tasks[t].amount)
      /\ tasks' = [tasks EXCEPT ![t] = new]
      /\ UNCHANGED <<blockTimestamp, nextSequence, allowedTokens, authorizedVerifiers>>
  BY DEF settle, InState, Unused, ReportMatches
<1>3. t < nextSequence /\ tasks[t] \in Task /\ GoodSlot(tasks[t], CurrentTimeMs)
  BY <1>1, <1>2, ExistingSlot
<1>4. CurrentTimeMs \in Nat
  BY ClockType DEF IInv
<1>5. /\ new \in Task /\ GoodSlot(new, CurrentTimeMs)
      /\ ByReport(new) /\ new.proofBundleHash = hash
  BY <1>1, <1>2, <1>3, <1>4, ReportedSlot
<1>6. ~ByReport(tasks[t])
  BY <1>2, <1>3, NoReportYet DEF Terminal
<1>7. hash \in Hashes
  BY <1>2, <1>3 DEF GoodSlot, Proved, Task
<1>8. balanceOf' \in [Tokens -> [Holders -> Nat]]
  <2>1. /\ tasks[t].token \in Tokens /\ tasks[t].amount \in Nat
        /\ Beneficiary(tasks[t], report) \in Holders
    BY <1>3 DEF GoodSlot, Task, Holders, Beneficiary
  <2> QED
    BY <1>2, <2>1, TransferType DEF IInv, TypeOK, Holders
<1> HIDE DEF new, t
<1>9. TypeOK'
  BY <1>1, <1>2, <1>5, <1>7, <1>8 DEF IInv, TypeOK, Registry!RegistryTypeOK
<1>10. SlotsInv'
  <2> SUFFICES ASSUME NEW u \in TaskIds
               PROVE  IF u < nextSequence THEN GoodSlot(tasks'[u], CurrentTimeMs)
                                          ELSE tasks'[u] = EmptySlot
    BY <1>2 DEF SlotsInv, CurrentTimeMs
  <2>1. CASE u = t
    BY <1>2, <1>3, <1>5, <2>1 DEF IInv, TypeOK
  <2>2. CASE u # t
    BY <1>2, <2>2 DEF IInv, TypeOK, SlotsInv
  <2> QED
    BY <2>1, <2>2
<1>11. BundleSpentOnce'
  <2> DEFINE before == {u \in TaskIds : ByReport(tasks[u])}
             after  == {u \in TaskIds : ByReport(tasks'[u])}
  <2>1. \A u \in TaskIds : u # t => tasks'[u] = tasks[u]
    BY <1>2 DEF IInv, TypeOK
  <2>2. tasks'[t] = new
    BY <1>1, <1>2 DEF IInv, TypeOK
  <2>3. after = before \cup {t}
    BY <1>1, <1>5, <2>1, <2>2
  <2>4. usedProofBundleHash = {tasks[u].proofBundleHash : u \in before}
    BY DEF IInv, BundleSpentOnce
  <2>5. \A u \in before : u # t /\ tasks[u].proofBundleHash # hash
    BY <1>2, <1>6, <2>4
  <2>6. {tasks'[u].proofBundleHash : u \in after}
          = {tasks[u].proofBundleHash : u \in before} \cup {hash}
    <3> HIDE DEF before, after, hash
    <3>1. \A u \in before : u \in TaskIds /\ tasks'[u].proofBundleHash = tasks[u].proofBundleHash
      BY <2>1, <2>5 DEF before
    <3>2. tasks'[t].proofBundleHash = hash
      BY <1>5, <2>2
    <3> QED
      BY <2>3, <3>1, <3>2
  <2>7. usedProofBundleHash' = {tasks'[u].proofBundleHash : u \in after}
    BY <1>2, <2>4, <2>6
  <2>8. ASSUME NEW u \in after, NEW v \in after,
               tasks'[u].proofBundleHash = tasks'[v].proofBundleHash
        PROVE  u = v
    <3>1. \A w \in before : tasks'[w].proofBundleHash = tasks[w].proofBundleHash
      BY <2>1, <2>5
    <3>2. tasks'[t].proofBundleHash = hash
      BY <1>5, <2>2
    <3>3. CASE u \in before /\ v \in before
      BY <2>8, <3>1, <3>3 DEF IInv, BundleSpentOnce
    <3>4. CASE u = t \/ v = t
      BY <2>3, <2>5, <2>8, <3>1, <3>2, <3>4
    <3> QED
      BY <2>3, <3>3, <3>4
  <2> QED
    BY <2>7, <2>8 DEF BundleSpentOnce
<1> QED
  BY <1>9, <1>10, <1>11 DEF IInv

\* Time passing and the owners' lists leave every slot alone.
LEMMA EnvironmentInv ==
  ASSUME IInv,
         \/ \E caller \in Accounts, token \in Tokens \cup {NoAddress}, allowed \in BOOLEAN :
               setAllowedToken(caller, token, allowed)
         \/ RegistryStep
         \/ Tick
         \/ UNCHANGED vars
  PROVE  IInv'
<1>1. UNCHANGED <<nextSequence, tasks, usedProofBundleHash, balanceOf>>
  BY DEF setAllowedToken, RegistryStep, Tick, vars, contractVars
<1>2. /\ blockTimestamp' \in Nat /\ blockTimestamp <= blockTimestamp'
      /\ allowedTokens' \in SUBSET Tokens
      /\ authorizedVerifiers' \in SUBSET Verifiers
  BY DEF setAllowedToken, RegistryStep, Tick, vars, contractVars, IInv, TypeOK,
         Registry!addVerifier, Registry!removeVerifier, Registry!RegistryTypeOK
<1>3. TypeOK'
  BY <1>1, <1>2 DEF IInv, TypeOK, Registry!RegistryTypeOK
<1>4. CurrentTimeMs \in Nat /\ CurrentTimeMs' \in Nat /\ CurrentTimeMs <= CurrentTimeMs'
  <2>1. \A m, a, b \in Nat : a <= b => a * m \in Nat /\ b * m \in Nat /\ a * m <= b * m
    OBVIOUS
  <2> QED
    BY <1>2, <2>1, SettlementAssumption DEF CurrentTimeMs, IInv, TypeOK
<1>5. SlotsInv'
  <2>1. ASSUME NEW t \in TaskIds, GoodSlot(tasks[t], CurrentTimeMs)
        PROVE  GoodSlot(tasks[t], CurrentTimeMs')
    <3>1. tasks[t].fundedAtMs \in Nat
      BY DEF IInv, TypeOK, Task
    <3> QED
      BY <1>4, <2>1, <3>1 DEF GoodSlot
  <2> QED
    BY <1>1, <2>1 DEF IInv, SlotsInv
<1>6. BundleSpentOnce'
  BY <1>1 DEF IInv, BundleSpentOnce
<1> QED
  BY <1>3, <1>5, <1>6 DEF IInv

LEMMA InitInv == Init => IInv
<1> SUFFICES ASSUME Init PROVE IInv
  OBVIOUS
<1>1. TypeOK
  BY InitTypeOK
<1>2. SlotsInv
  BY DEF Init, SlotsInv, TaskIds
<1>3. BundleSpentOnce
  BY DEF Init, BundleSpentOnce, ByReport, EmptySlot
<1> QED
  BY <1>1, <1>2, <1>3 DEF IInv

LEMMA NextInv == IInv /\ [Next]_vars => IInv'
<1> SUFFICES ASSUME IInv, [Next]_vars PROVE IInv'
  OBVIOUS
<1>1. ASSUME NEW caller \in Accounts, NEW t \in TaskIds, TaskStep(caller, t)
      PROVE  IInv'
  BY <1>1, CommitInv, SubmitProofInv, FundInv DEF TaskStep
<1> QED
  BY <1>1, CreateInv, SettleInv, RefundInv, EnvironmentInv, SettlementAssumption DEF Next

\* Every reachable state satisfies the inductive invariant.
THEOREM Invariance == Spec => []IInv
BY InitInv, NextInv, PTL DEF Spec

-----------------------------------------------------------------------------
(* Safety *)

\* Type correctness.
THEOREM TypeCorrect == Spec => []TypeOK
<1>1. IInv => TypeOK
  BY DEF IInv
<1> QED
  BY <1>1, Invariance, PTL

\* Replay protection: every hash the contract marks used paid out by report
\* exactly one task, however many tasks it was submitted for.
THEOREM ReplayProtection == Spec => []BundleSpentOnce
<1>1. IInv => BundleSpentOnce
  BY DEF IInv
<1> QED
  BY <1>1, Invariance, PTL

\* The recorded times of every task are lawful.
THEOREM HistoriesLawful == Spec => []LawfulHistory
<1>1. IInv => LawfulHistory
  <2> SUFFICES ASSUME IInv, NEW t \in TaskIds PROVE Lawful(tasks[t])
    BY DEF LawfulHistory
  <2>1. CASE t < nextSequence
    BY <2>1 DEF IInv, SlotsInv, GoodSlot
  <2>2. CASE tasks[t] = EmptySlot
    BY <2>2 DEF EmptySlot, Lawful, Live, Terminal, Proved, ByReport
  <2> QED
    BY <2>1, <2>2 DEF IInv, SlotsInv
<1> QED
  BY <1>1, Invariance, PTL

-----------------------------------------------------------------------------
(* Transfers *)

LEMMA TransferEffect ==
  ASSUME NEW token \in Tokens, NEW from \in Holders, NEW to \in Holders, from # to,
         NEW amount \in Nat, balanceOf \in [Tokens -> [Holders -> Nat]],
         Transfer(token, from, to, amount)
  PROVE  /\ balanceOf[token][from] >= amount
         /\ balanceOf'[token][from] = balanceOf[token][from] - amount
         /\ balanceOf'[token][to] = balanceOf[token][to] + amount
         /\ \A a \in Holders \ {from, to} : balanceOf'[token][a] = balanceOf[token][a]
         /\ \A c \in Tokens \ {token} : balanceOf'[c] = balanceOf[c]
<1> DEFINE new == Moved(balanceOf[token], from, to, amount)
<1>1. balanceOf' = [balanceOf EXCEPT ![token] = new] /\ balanceOf[token][from] >= amount
  BY DEF Transfer
<1>2. /\ new[from] = balanceOf[token][from] - amount
      /\ new[to] = balanceOf[token][to] + amount
      /\ \A a \in Holders \ {from, to} : new[a] = balanceOf[token][a]
  BY DEF Moved
<1> HIDE DEF new
<1> QED
  BY <1>1, <1>2

-----------------------------------------------------------------------------
(* Terms are frozen *)

LEMMA OtherSlotsKept ==
  ASSUME TypeOK, NEW t \in TaskIds, NEW new, tasks' = [tasks EXCEPT ![t] = new],
         TermsKept(tasks[t], new)
  PROVE  \A u \in TaskIds : TermsKept(tasks[u], tasks'[u])
<1>1. \A u \in TaskIds : tasks'[u] = IF u = t THEN new ELSE tasks[u]
  BY DEF TypeOK
<1> SUFFICES ASSUME NEW u \in TaskIds PROVE TermsKept(tasks[u], tasks'[u])
  OBVIOUS
<1>2. CASE u = t
  <2>1. tasks'[u] = new
    BY <1>1, <1>2
  <2> QED
    BY <1>2, <2>1
<1>3. CASE u # t
  <2>1. tasks'[u] = tasks[u]
    BY <1>1, <1>3
  <2> QED
    BY <2>1 DEF TermsKept
<1> QED
  BY <1>2, <1>3

LEMMA TermsKeptByStep ==
  ASSUME IInv, [Next]_vars \/ \E report \in VerificationReport : settle(report)
  PROVE  \A u \in TaskIds : TermsKept(tasks[u], tasks'[u])
<1> DEFINE Goal == \A u \in TaskIds : TermsKept(tasks[u], tasks'[u])
<1>1. TypeOK
  BY DEF IInv
<1>2. ASSUME UNCHANGED tasks PROVE Goal
  BY <1>2 DEF TermsKept
<1>3. ASSUME NEW caller \in Accounts, NEW seller, NEW token, NEW amount, NEW deadlineMs,
             createTaskIntent(caller, seller, token, amount, deadlineMs)
      PROVE  Goal
  <2> DEFINE n == nextSequence
             new == Created(tasks[n], caller, seller, token, amount, deadlineMs)
  <2>1. n \in TaskIds /\ tasks' = [tasks EXCEPT ![n] = new]
    BY <1>3 DEF createTaskIntent
  <2>2. tasks[n] = EmptySlot
    BY <1>1, <2>1 DEF IInv, SlotsInv, TypeOK
  <2>3. TermsKept(tasks[n], new)
    BY <2>2 DEF TermsKept, Exists, Live, Terminal, EmptySlot
  <2> HIDE DEF n, new
  <2> QED
    BY <1>1, <2>1, <2>3, OtherSlotsKept
<1>4. ASSUME NEW caller, NEW t \in TaskIds, NEW hash, submitCommitment(caller, t, hash)
      PROVE  Goal
  <2> DEFINE new == Committed(tasks[t], hash)
  <2>1. /\ Exists(tasks[t]) /\ tasks[t].status = "INTENT_CREATED"
        /\ tasks' = [tasks EXCEPT ![t] = new]
    BY <1>4 DEF submitCommitment, InState
  <2>2. tasks[t] \in Task /\ tasks[t].commitmentHash = NoHash
    BY <2>1, ExistingSlot DEF GoodSlot
  <2>3. TermsKept(tasks[t], new)
    BY <2>1, <2>2 DEF TermsKept, Live, Terminal, Committed, Task
  <2> HIDE DEF new
  <2> QED
    BY <1>1, <2>1, <2>3, OtherSlotsKept
<1>5. ASSUME NEW caller, NEW t \in TaskIds, fundTask(caller, t)
      PROVE  Goal
  <2> DEFINE new == Funded(tasks[t])
  <2>1. tasks[t].status = "COMMITMENT_SUBMITTED" /\ tasks' = [tasks EXCEPT ![t] = new]
    BY <1>5 DEF fundTask, InState
  <2>2. TermsKept(tasks[t], new)
    BY <1>1, <2>1 DEF TypeOK, TermsKept, Live, Terminal, Funded, Task
  <2> HIDE DEF new
  <2> QED
    BY <1>1, <2>1, <2>2, OtherSlotsKept
<1>6. ASSUME NEW caller, NEW t \in TaskIds, NEW hash, submitProofBundle(caller, t, hash)
      PROVE  Goal
  <2> DEFINE new == Proven(tasks[t], hash)
  <2>1. /\ Exists(tasks[t]) /\ tasks[t].status = "FUNDED"
        /\ tasks' = [tasks EXCEPT ![t] = new]
    BY <1>6 DEF submitProofBundle, AwaitsProof, InState
  <2>2. tasks[t] \in Task /\ tasks[t].proofBundleHash = NoHash
    BY <2>1, ExistingSlot DEF GoodSlot, Proved, Terminal
  <2>3. TermsKept(tasks[t], new)
    BY <2>1, <2>2 DEF TermsKept, Live, Terminal, Proven, Task
  <2> HIDE DEF new
  <2> QED
    BY <1>1, <2>1, <2>3, OtherSlotsKept
<1>7. ASSUME NEW report \in VerificationReport, settle(report)
      PROVE  Goal
  <2> DEFINE t == report.taskId
             new == Reported(tasks[t], report)
  <2>1. report \in VerificationReport /\ t \in TaskIds
    BY SettlementAssumption DEF VerificationReport
  <2>2. tasks[t].status = "PROOF_SUBMITTED" /\ tasks' = [tasks EXCEPT ![t] = new]
    BY <1>7 DEF settle, InState
  <2>3. TermsKept(tasks[t], new)
    BY <1>1, <2>1, <2>2 DEF TypeOK, TermsKept, Live, Terminal, Reported, Settled, Refunded, Task
  <2> HIDE DEF new, t
  <2> QED
    BY <1>1, <2>1, <2>2, <2>3, OtherSlotsKept
<1>8. ASSUME NEW t \in TaskIds,
             \/ refundAfterProofSubmissionDeadline(t)
             \/ refundAfterVerificationTimeout(t)
      PROVE  Goal
  <2> DEFINE new == Refunded(tasks[t])
  <2>1. /\ tasks[t].status \in {"FUNDED", "PROOF_SUBMITTED"}
        /\ tasks' = [tasks EXCEPT ![t] = new]
    BY <1>8 DEF refundAfterProofSubmissionDeadline, refundAfterVerificationTimeout, InState
  <2>2. TermsKept(tasks[t], new)
    BY <1>1, <2>1 DEF TypeOK, TermsKept, Live, Terminal, Refunded, Task
  <2> HIDE DEF new
  <2> QED
    BY <1>1, <2>1, <2>2, OtherSlotsKept
<1>9. ASSUME \/ \E caller \in Accounts, token \in Tokens \cup {NoAddress}, allowed \in BOOLEAN :
                   setAllowedToken(caller, token, allowed)
             \/ RegistryStep
             \/ Tick
             \/ UNCHANGED vars
      PROVE  Goal
  <2>1. UNCHANGED tasks
    BY <1>9 DEF setAllowedToken, RegistryStep, Tick, vars, contractVars
  <2> QED
    BY <1>2, <2>1
<1> HIDE DEF Goal
<1>10. Goal
  BY <1>3, <1>4, <1>5, <1>6, <1>7, <1>8, <1>9, SettlementAssumption DEF Next, TaskStep
<1> QED
  BY <1>10 DEF Goal

\* No step, of whatever actor and in whatever order, changes a term that a
\* party relied on, or a task that is paid out.
THEOREM TermsStayFrozen == Spec => TermsFrozen
<1>1. IInv /\ [Next]_vars => [\A t \in TaskIds : TermsKept(tasks[t], tasks'[t])]_vars
  BY TermsKeptByStep
<1> QED
  BY <1>1, Invariance, PTL DEF Spec, TermsFrozen

\* A funded task has at every moment exactly one way on, its proof or its
\* refund, unless its deadline leaves no room for the grace period in a uint256:
\* then it has none, and never will, because a deadline does not change.
THEOREM FundedTaskHasAnExit == Spec => []ExitOpen
<1>1. IInv => ExitOpen
  <2> SUFFICES ASSUME IInv, NEW t \in TaskIds, tasks[t].status = "FUNDED"
               PROVE  /\ (ProofWindowOpen(tasks[t]) \/ ProofTimeoutReached(tasks[t]))
                             <=> HasExit(tasks[t])
                      /\ ~(ProofWindowOpen(tasks[t]) /\ ProofTimeoutReached(tasks[t]))
    BY DEF ExitOpen
  <2>1. tasks[t].deadlineMs \in Deadlines
    BY DEF IInv, SlotsInv, GoodSlot, EmptySlot
  <2>2. tasks[t].deadlineMs \in Nat /\ proofSubmissionGracePeriodMs \in Nat
    BY <2>1, SettlementAssumption
  <2>3. CurrentTimeMs \in Nat
    BY ClockType DEF IInv
  <2> QED
    BY <2>2, <2>3 DEF ProofWindowOpen, ProofTimeoutReached, HasExit
<1> QED
  BY <1>1, Invariance, PTL

-----------------------------------------------------------------------------
(* Steps with and without a report, for the compositions *)

\* A step in which no report reaches the contract.
WithoutReport ==
    \/ \E caller \in Accounts :
           \/ \E token \in Tokens \cup {NoAddress}, allowed \in BOOLEAN :
                  setAllowedToken(caller, token, allowed)
           \/ \E seller \in Accounts \cup {NoAddress},
                 token \in Tokens \cup {NoAddress},
                 amount \in Amounts, deadlineMs \in Deadlines :
                  createTaskIntent(caller, seller, token, amount, deadlineMs)
           \/ \E t \in TaskIds : TaskStep(caller, t)
    \/ \E t \in TaskIds :
           \/ refundAfterProofSubmissionDeadline(t)
           \/ refundAfterVerificationTimeout(t)
    \/ RegistryStep
    \/ Tick
    \/ UNCHANGED vars

\* A step of which the reports come from a given set.
StepWith(reports) == WithoutReport \/ \E report \in reports : settle(report)

LEMMA NextIsStep == [Next]_vars => StepWith(SignedReports)
BY DEF Next, StepWith, WithoutReport

LEMMA StepsGrow ==
  ASSUME NEW more, NEW reports \in SUBSET more, StepWith(reports)
  PROVE  StepWith(more)
BY DEF StepWith

\* The report that ended a task.
EndedBy(report, t, task) ==
    report.taskId = t /\ (report.passed <=> task.status = "SETTLED")

\* A task is ended by report only by a report of the given set.
EndedOnlyBy(reports, ts, ts2) ==
    \A t \in TaskIds : ByReport(ts2[t]) =>
        \/ ByReport(ts[t]) /\ ts2[t] = ts[t]
        \/ \E report \in reports : EndedBy(report, t, ts2[t])

\* Only settle writes the hash of a report.
LEMMA HashesOfReportsStay ==
  ASSUME IInv, WithoutReport
  PROVE  \A t \in TaskIds : ByReport(tasks'[t]) => ByReport(tasks[t])
<1> DEFINE Goal == \A t \in TaskIds : ByReport(tasks'[t]) => ByReport(tasks[t])
<1>1. tasks \in [TaskIds -> Task]
  BY DEF IInv, TypeOK
<1>2. ASSUME NEW t \in TaskIds, NEW new, tasks' = [tasks EXCEPT ![t] = new],
             new.reportHash = tasks[t].reportHash
      PROVE  Goal
  <2>1. \A u \in TaskIds : tasks'[u] = IF u = t THEN new ELSE tasks[u]
    BY <1>1, <1>2
  <2> QED
    BY <1>2, <2>1 DEF ByReport
<1>3. ASSUME NEW caller, NEW seller, NEW token, NEW amount, NEW deadlineMs,
             createTaskIntent(caller, seller, token, amount, deadlineMs)
      PROVE  Goal
  <2> DEFINE n == nextSequence
             new == Created(tasks[n], caller, seller, token, amount, deadlineMs)
  <2>1. n \in TaskIds /\ tasks' = [tasks EXCEPT ![n] = new]
    BY <1>3 DEF createTaskIntent
  <2>2. tasks[n] \in Task
    BY <1>1, <2>1
  <2>3. new.reportHash = tasks[n].reportHash
    BY <2>2 DEF Created, Task
  <2> HIDE DEF n, new, Goal
  <2> QED
    BY <2>1, <2>3, <1>2
<1>4. ASSUME NEW caller, NEW t \in TaskIds, TaskStep(caller, t)
      PROVE  Goal
  <2>1. PICK hash : tasks' = [tasks EXCEPT ![t] = Committed(tasks[t], hash)]
                    \/ tasks' = [tasks EXCEPT ![t] = Proven(tasks[t], hash)]
                    \/ tasks' = [tasks EXCEPT ![t] = Funded(tasks[t])]
    BY <1>4 DEF TaskStep, submitCommitment, submitProofBundle, fundTask
  <2>2. tasks[t] \in Task
    BY <1>1
  <2>3. /\ Committed(tasks[t], hash).reportHash = tasks[t].reportHash
        /\ Proven(tasks[t], hash).reportHash = tasks[t].reportHash
        /\ Funded(tasks[t]).reportHash = tasks[t].reportHash
    BY <2>2 DEF Committed, Proven, Funded, Task
  <2> HIDE DEF Goal
  <2> QED
    BY <2>1, <2>3, <1>2
<1>5. ASSUME NEW t \in TaskIds,
             \/ refundAfterProofSubmissionDeadline(t)
             \/ refundAfterVerificationTimeout(t)
      PROVE  Goal
  <2>1. tasks' = [tasks EXCEPT ![t] = Refunded(tasks[t])]
    BY <1>5 DEF refundAfterProofSubmissionDeadline, refundAfterVerificationTimeout
  <2>2. Refunded(tasks[t]).reportHash = tasks[t].reportHash
    BY <1>1 DEF Refunded, Task
  <2> HIDE DEF Goal
  <2> QED
    BY <2>1, <2>2, <1>2
<1>6. ASSUME \/ \E caller \in Accounts, token \in Tokens \cup {NoAddress}, allowed \in BOOLEAN :
                   setAllowedToken(caller, token, allowed)
             \/ RegistryStep
             \/ Tick
             \/ UNCHANGED vars
      PROVE  Goal
  <2>1. UNCHANGED tasks
    BY <1>6 DEF setAllowedToken, RegistryStep, Tick, vars, contractVars
  <2> QED
    BY <2>1
<1> HIDE DEF Goal
<1>7. Goal
  BY <1>3, <1>4, <1>5, <1>6 DEF WithoutReport
<1> QED
  BY <1>7 DEF Goal

\* What every step keeps, if its report is one of a set of well-typed reports.
LEMMA StepEffect ==
  ASSUME IInv, NEW reports \in SUBSET VerificationReport, StepWith(reports)
  PROVE  /\ IInv'
         /\ \A t \in TaskIds : TermsKept(tasks[t], tasks'[t])
         /\ EndedOnlyBy(reports, tasks, tasks')
<1>1. CASE WithoutReport
  <2>1. [Next]_vars
    BY <1>1 DEF WithoutReport, Next
  <2>2. IInv' /\ \A t \in TaskIds : TermsKept(tasks[t], tasks'[t])
    BY <2>1, NextInv, TermsKeptByStep
  <2>3. ASSUME NEW t \in TaskIds, ByReport(tasks'[t])
        PROVE  ByReport(tasks[t]) /\ tasks'[t] = tasks[t]
    <3>1. ByReport(tasks[t])
      BY <1>1, <2>3, HashesOfReportsStay
    <3>2. Terminal(tasks[t])
      <4>1. tasks[t] # EmptySlot
        BY <3>1 DEF ByReport, EmptySlot
      <4> QED
        BY <3>1, <4>1 DEF IInv, SlotsInv, GoodSlot, Lawful
    <3> QED
      BY <2>2, <3>1, <3>2 DEF TermsKept
  <2> QED
    BY <2>2, <2>3 DEF EndedOnlyBy
<1>2. ASSUME NEW report \in reports, settle(report)
      PROVE  /\ IInv'
             /\ \A t \in TaskIds : TermsKept(tasks[t], tasks'[t])
             /\ EndedOnlyBy(reports, tasks, tasks')
  <2>1. IInv' /\ \A t \in TaskIds : TermsKept(tasks[t], tasks'[t])
    BY <1>2, SettleInv, TermsKeptByStep
  <2>2. tasks \in [TaskIds -> Task]
    BY DEF IInv, TypeOK
  <2>3. report.taskId \in TaskIds /\ report.passed \in BOOLEAN
    BY DEF VerificationReport
  <2>4. tasks' = [tasks EXCEPT ![report.taskId] = Reported(tasks[report.taskId], report)]
    BY <1>2 DEF settle
  <2>5. EndedBy(report, report.taskId, tasks'[report.taskId])
    BY <2>2, <2>3, <2>4 DEF EndedBy, Reported, Settled, Refunded, Task
  <2>6. \A t \in TaskIds \ {report.taskId} : tasks'[t] = tasks[t]
    BY <2>2, <2>4
  <2> QED
    BY <2>1, <2>5, <2>6 DEF EndedOnlyBy
<1> QED
  BY <1>1, <1>2 DEF StepWith

-----------------------------------------------------------------------------
(* The contract implements EscrowPromise *)

MappedEscrow == [t \in TaskIds |-> EscrowOf(tasks[t])]
MappedPurse == [token \in Tokens |-> [a \in Accounts |-> balanceOf[token][a]]]

\* What closing the escrow of task t makes of them.
ClosedEscrow(t, outcome) == [MappedEscrow EXCEPT ![t].state = outcome]
PaidPurse(t, receiver) ==
    [MappedPurse EXCEPT ![MappedEscrow[t].token][receiver] =
        MappedPurse[MappedEscrow[t].token][receiver] + MappedEscrow[t].amount]

LEMMA SameSlots ==
  ASSUME NEW t \in TaskIds, NEW new, TypeOK, tasks' = [tasks EXCEPT ![t] = new],
         EscrowOf(new) = EscrowOf(tasks[t])
  PROVE  MappedEscrow' = MappedEscrow
<1>1. \A u \in TaskIds : tasks'[u] = IF u = t THEN new ELSE tasks[u]
  BY DEF TypeOK
<1>2. MappedEscrow' = [u \in TaskIds |-> EscrowOf(tasks'[u])]
  BY DEF MappedEscrow, EscrowOf, EscrowState, Live
<1>3. ASSUME NEW u \in TaskIds PROVE EscrowOf(tasks'[u]) = EscrowOf(tasks[u])
  <2>1. CASE u = t
    <3>1. tasks'[u] = new /\ tasks[u] = tasks[t]
      BY <1>1, <2>1
    <3> QED
      BY <3>1
  <2>2. CASE u # t
    <3>1. tasks'[u] = tasks[u]
      BY <1>1, <2>2
    <3> QED
      BY <3>1
  <2> QED
    BY <2>1, <2>2
<1> QED
  BY <1>2, <1>3 DEF MappedEscrow

LEMMA SlotMapped ==
  ASSUME NEW t \in TaskIds, NEW new, TypeOK, tasks' = [tasks EXCEPT ![t] = new]
  PROVE  MappedEscrow' = [MappedEscrow EXCEPT ![t] = EscrowOf(new)]
<1>1. \A u \in TaskIds : tasks'[u] = IF u = t THEN new ELSE tasks[u]
  BY DEF TypeOK
<1>2. MappedEscrow' = [u \in TaskIds |-> EscrowOf(tasks'[u])]
  BY DEF MappedEscrow, EscrowOf, EscrowState, Live
<1>3. ASSUME NEW u \in TaskIds
      PROVE  EscrowOf(tasks'[u]) = IF u = t THEN EscrowOf(new) ELSE EscrowOf(tasks[u])
  <2>1. CASE u = t
    <3>1. tasks'[u] = new
      BY <1>1, <2>1
    <3> QED
      BY <2>1, <3>1
  <2>2. CASE u # t
    <3>1. tasks'[u] = tasks[u]
      BY <1>1, <2>2
    <3> QED
      BY <2>2, <3>1
  <2> QED
    BY <2>1, <2>2
<1> QED
  BY <1>2, <1>3 DEF MappedEscrow

\* A transfer into or out of the contract, seen in the purses.
LEMMA PurseAfterPayment ==
  ASSUME TypeOK, NEW token \in Tokens, NEW a \in Accounts, NEW amount \in Nat,
         Transfer(token, a, Settlement, amount)
  PROVE  /\ MappedPurse[token][a] >= amount
         /\ MappedPurse' = [MappedPurse EXCEPT ![token][a] = MappedPurse[token][a] - amount]
<1>1. a \in Holders /\ Settlement \in Holders /\ a # Settlement /\ Settlement \notin Accounts
  BY SettlementAssumption DEF Holders
<1>2. /\ balanceOf[token][a] >= amount
      /\ balanceOf'[token][a] = balanceOf[token][a] - amount
      /\ \A b \in Holders \ {a, Settlement} : balanceOf'[token][b] = balanceOf[token][b]
      /\ \A c \in Tokens \ {token} : balanceOf'[c] = balanceOf[c]
  BY <1>1, TransferEffect DEF TypeOK
<1>3. \A b \in Accounts : b \in Holders /\ b # Settlement
  BY <1>1 DEF Holders
<1> DEFINE x == MappedPurse[token][a] - amount
<1>4. MappedPurse[token][a] = balanceOf[token][a]
  BY DEF MappedPurse
<1>5. ASSUME NEW c \in Tokens
      PROVE  [b \in Accounts |-> balanceOf'[c][b]] =
                IF c = token THEN [MappedPurse[c] EXCEPT ![a] = x] ELSE MappedPurse[c]
  <2>1. CASE c = token
    BY <1>2, <1>3, <1>4, <2>1 DEF MappedPurse
  <2>2. CASE c # token
    BY <1>2, <2>2 DEF MappedPurse
  <2> QED
    BY <2>1, <2>2
<1>6. /\ MappedPurse' = [c \in Tokens |-> [b \in Accounts |-> balanceOf'[c][b]]]
      /\ DOMAIN MappedPurse = Tokens
  BY DEF MappedPurse
<1> HIDE DEF x
<1>7. MappedPurse' = [MappedPurse EXCEPT ![token][a] = x]
  BY <1>5, <1>6
<1> QED
  BY <1>2, <1>4, <1>7 DEF x

LEMMA PurseAfterPayout ==
  ASSUME TypeOK, NEW token \in Tokens, NEW a \in Accounts, NEW amount \in Nat,
         Transfer(token, Settlement, a, amount)
  PROVE  MappedPurse' = [MappedPurse EXCEPT ![token][a] = MappedPurse[token][a] + amount]
<1>1. a \in Holders /\ Settlement \in Holders /\ a # Settlement /\ Settlement \notin Accounts
  BY SettlementAssumption DEF Holders
<1>2. /\ balanceOf'[token][a] = balanceOf[token][a] + amount
      /\ \A b \in Holders \ {a, Settlement} : balanceOf'[token][b] = balanceOf[token][b]
      /\ \A c \in Tokens \ {token} : balanceOf'[c] = balanceOf[c]
  BY <1>1, TransferEffect DEF TypeOK
<1>3. \A b \in Accounts : b \in Holders /\ b # Settlement
  BY <1>1 DEF Holders
<1> DEFINE x == MappedPurse[token][a] + amount
<1>4. MappedPurse[token][a] = balanceOf[token][a]
  BY DEF MappedPurse
<1>5. ASSUME NEW c \in Tokens
      PROVE  [b \in Accounts |-> balanceOf'[c][b]] =
                IF c = token THEN [MappedPurse[c] EXCEPT ![a] = x] ELSE MappedPurse[c]
  <2>1. CASE c = token
    BY <1>2, <1>3, <1>4, <2>1 DEF MappedPurse
  <2>2. CASE c # token
    BY <1>2, <2>2 DEF MappedPurse
  <2> QED
    BY <2>1, <2>2
<1>6. /\ MappedPurse' = [c \in Tokens |-> [b \in Accounts |-> balanceOf'[c][b]]]
      /\ DOMAIN MappedPurse = Tokens
  BY DEF MappedPurse
<1> HIDE DEF x
<1>7. MappedPurse' = [MappedPurse EXCEPT ![token][a] = x]
  BY <1>5, <1>6
<1> QED
  BY <1>7 DEF x

LEMMA PromiseStart == Init => Promise!PromiseInit
<1> SUFFICES ASSUME Init PROVE Promise!PromiseInit
  OBVIOUS
<1>1. EscrowOf(EmptySlot) = Promise!Unopened
  BY DEF EscrowOf, EscrowState, EmptySlot, Live, Promise!Unopened
<1>2. \A t \in TaskIds : EscrowOf(tasks[t]) = Promise!Unopened
  BY <1>1 DEF Init
<1>3. \A token \in Tokens, a \in Accounts : balanceOf[token][a] = InitialBalance
  BY SettlementAssumption DEF Init, Holders
<1> QED
  BY <1>2, <1>3 DEF Promise!PromiseInit

\* Funding a task locks the buyer's money.
LEMMA FundLocks ==
  ASSUME IInv, NEW caller \in Accounts, NEW t \in TaskIds, fundTask(caller, t)
  PROVE  Promise!PromiseNext
<1> DEFINE new == Funded(tasks[t])
<1>1. /\ Exists(tasks[t]) /\ tasks[t].status = "COMMITMENT_SUBMITTED"
      /\ caller = tasks[t].buyer
      /\ Transfer(tasks[t].token, caller, Settlement, tasks[t].amount)
      /\ tasks' = [tasks EXCEPT ![t] = new]
  BY DEF fundTask, InState
<1>2. tasks[t] \in Task /\ GoodSlot(tasks[t], CurrentTimeMs) /\ TypeOK
  BY <1>1, ExistingSlot DEF IInv
<1>3. PICK token \in Tokens, amount \in Nat, seller \in Accounts :
         /\ token = tasks[t].token /\ amount = tasks[t].amount
         /\ seller = tasks[t].seller /\ amount > 0
  BY <1>2 DEF GoodSlot, Task
<1>4. /\ EscrowOf(tasks[t]).state = "none"
      /\ EscrowOf(new) = [state |-> "held", payer |-> caller, payee |-> seller,
                          token |-> token, amount |-> amount]
  BY <1>1, <1>2, <1>3 DEF EscrowOf, EscrowState, Live, Funded, Task
<1> HIDE DEF new
<1>5. MappedEscrow' = [MappedEscrow EXCEPT ![t] = EscrowOf(new)]
  BY <1>1, <1>2, SlotMapped
<1>6. Transfer(token, caller, Settlement, amount)
  BY <1>1, <1>3 DEF Transfer
<1>7. /\ MappedPurse[token][caller] >= amount
      /\ MappedPurse' = [MappedPurse EXCEPT ![token][caller] =
                            MappedPurse[token][caller] - amount]
  BY <1>2, <1>6, PurseAfterPayment
<1>8. MappedPurse[token][caller] \in Nat
  BY <1>2 DEF MappedPurse, TypeOK, Holders
<1>9. amount \in 1..MappedPurse[token][caller]
  BY <1>3, <1>7, <1>8
<1>10. Promise!Lock(t, caller, seller, token, amount)
  <2>1. MappedEscrow[t].state = "none"
    BY <1>4 DEF MappedEscrow
  <2> QED
    BY <1>3, <1>4, <1>5, <1>7, <2>1 DEF Promise!Lock, MappedEscrow, MappedPurse
<1> QED
  BY <1>9, <1>10 DEF Promise!PromiseNext, MappedPurse

\* A payout to one of the two parties closes the escrow.
LEMMA PayoutCloses ==
  ASSUME IInv, NEW t \in TaskIds, Exists(tasks[t]), Live(tasks[t]),
         NEW new, tasks' = [tasks EXCEPT ![t] = new],
         NEW outcome, EscrowState(new) = outcome, outcome \in {"released", "returned"},
         new.buyer = tasks[t].buyer, new.seller = tasks[t].seller,
         new.token = tasks[t].token, new.amount = tasks[t].amount,
         NEW receiver \in Accounts,
         Transfer(tasks[t].token, Settlement, receiver, tasks[t].amount)
  PROVE  /\ MappedEscrow[t].state = "held"
         /\ MappedEscrow[t].payer = tasks[t].buyer /\ MappedEscrow[t].payee = tasks[t].seller
         /\ MappedEscrow' = ClosedEscrow(t, outcome)
         /\ MappedPurse' = PaidPurse(t, receiver)
<1> DEFINE amount == tasks[t].amount
           token == tasks[t].token
<1>1. tasks[t] \in Task /\ GoodSlot(tasks[t], CurrentTimeMs) /\ TypeOK
  BY ExistingSlot DEF IInv
<1>2. token \in Tokens /\ amount \in Nat
  BY <1>1 DEF GoodSlot, Task
<1>3. EscrowOf(tasks[t]) = [state |-> "held", payer |-> tasks[t].buyer,
                            payee |-> tasks[t].seller, token |-> token, amount |-> amount]
  BY DEF EscrowOf, EscrowState, Live
<1>4. EscrowOf(new) = [state |-> outcome, payer |-> tasks[t].buyer,
                       payee |-> tasks[t].seller, token |-> token, amount |-> amount]
  BY DEF EscrowOf
<1>5. EscrowOf(new) = [EscrowOf(tasks[t]) EXCEPT !.state = outcome]
  BY <1>3, <1>4
<1>6. MappedEscrow' = [MappedEscrow EXCEPT ![t] = EscrowOf(new)]
  BY <1>1, SlotMapped
<1>7. MappedPurse' = [MappedPurse EXCEPT ![token][receiver] =
                         MappedPurse[token][receiver] + amount]
  BY <1>1, <1>2, PurseAfterPayout
<1>8. MappedEscrow[t] = EscrowOf(tasks[t])
  BY DEF MappedEscrow
<1>9. /\ MappedEscrow[t].state = "held"
      /\ MappedEscrow[t].token = token /\ MappedEscrow[t].amount = amount
      /\ MappedEscrow[t].payer = tasks[t].buyer /\ MappedEscrow[t].payee = tasks[t].seller
  BY <1>3, <1>8
<1>10. MappedEscrow' = [MappedEscrow EXCEPT ![t].state = outcome]
  BY <1>5, <1>6, <1>8
<1> HIDE DEF amount, token
<1> QED
  BY <1>7, <1>9, <1>10 DEF ClosedEscrow, PaidPurse

LEMMA SettleCloses ==
  ASSUME IInv, NEW report \in SignedReports, settle(report)
  PROVE  Promise!PromiseNext
<1> DEFINE t == report.taskId
           new == Reported(tasks[t], report)
           receiver == Beneficiary(tasks[t], report)
           outcome == IF report.passed THEN "released" ELSE "returned"
<1>1. report \in VerificationReport /\ t \in TaskIds
  BY SettlementAssumption DEF VerificationReport
<1>2. /\ Exists(tasks[t]) /\ tasks[t].status = "PROOF_SUBMITTED"
      /\ Transfer(tasks[t].token, Settlement, receiver, tasks[t].amount)
      /\ tasks' = [tasks EXCEPT ![t] = new]
  BY DEF settle, InState
<1>3. tasks[t] \in Task /\ GoodSlot(tasks[t], CurrentTimeMs)
  BY <1>1, <1>2, ExistingSlot
<1>4. /\ Live(tasks[t]) /\ EscrowState(new) = outcome
      /\ new.buyer = tasks[t].buyer /\ new.seller = tasks[t].seller
      /\ new.token = tasks[t].token /\ new.amount = tasks[t].amount
  BY <1>1, <1>2, <1>3 DEF Live, EscrowState, Reported, Settled, Refunded, Task,
                          VerificationReport
<1>5. receiver \in Accounts
  BY <1>3 DEF GoodSlot, Beneficiary
<1>6. outcome \in {"released", "returned"}
  OBVIOUS
<1> HIDE DEF new, t, receiver, outcome
<1>7. /\ MappedEscrow[t].state = "held"
      /\ MappedEscrow[t].payer = tasks[t].buyer /\ MappedEscrow[t].payee = tasks[t].seller
      /\ MappedEscrow' = ClosedEscrow(t, outcome)
      /\ MappedPurse' = PaidPurse(t, receiver)
  BY <1>1, <1>2, <1>4, <1>5, <1>6, PayoutCloses
<1>8. CASE report.passed
  <2>1. outcome = "released" /\ receiver = MappedEscrow[t].payee
    BY <1>7, <1>8 DEF outcome, receiver, Beneficiary
  <2>2. Promise!Release(t)
    BY <1>7, <2>1 DEF Promise!Release, Promise!Close, ClosedEscrow, PaidPurse,
           MappedEscrow, MappedPurse
  <2> QED
    BY <1>1, <2>2 DEF Promise!PromiseNext
<1>9. CASE ~report.passed
  <2>1. outcome = "returned" /\ receiver = MappedEscrow[t].payer
    BY <1>7, <1>9 DEF outcome, receiver, Beneficiary
  <2>2. Promise!Return(t)
    BY <1>7, <2>1 DEF Promise!Return, Promise!Close, ClosedEscrow, PaidPurse,
           MappedEscrow, MappedPurse
  <2> QED
    BY <1>1, <2>2 DEF Promise!PromiseNext
<1> QED
  BY <1>8, <1>9

LEMMA RefundCloses ==
  ASSUME IInv, NEW t \in TaskIds,
         \/ refundAfterProofSubmissionDeadline(t)
         \/ refundAfterVerificationTimeout(t)
  PROVE  Promise!PromiseNext
<1> DEFINE new == Refunded(tasks[t])
           buyer == tasks[t].buyer
<1>1. /\ Exists(tasks[t]) /\ tasks[t].status \in {"FUNDED", "PROOF_SUBMITTED"}
      /\ Transfer(tasks[t].token, Settlement, buyer, tasks[t].amount)
      /\ tasks' = [tasks EXCEPT ![t] = new]
  BY DEF refundAfterProofSubmissionDeadline, refundAfterVerificationTimeout, InState
<1>2. tasks[t] \in Task /\ GoodSlot(tasks[t], CurrentTimeMs)
  BY <1>1, ExistingSlot
<1>3. /\ Live(tasks[t]) /\ EscrowState(new) = "returned" /\ buyer \in Accounts
      /\ new.buyer = tasks[t].buyer /\ new.seller = tasks[t].seller
      /\ new.token = tasks[t].token /\ new.amount = tasks[t].amount
  BY <1>1, <1>2 DEF Live, EscrowState, Refunded, Task, GoodSlot
<1> HIDE DEF new
<1>4. /\ MappedEscrow[t].state = "held" /\ MappedEscrow[t].payer = buyer
      /\ MappedEscrow' = ClosedEscrow(t, "returned")
      /\ MappedPurse' = PaidPurse(t, buyer)
  BY <1>1, <1>3, PayoutCloses
<1> HIDE DEF buyer
<1>5. Promise!Return(t)
  BY <1>4 DEF Promise!Return, Promise!Close, ClosedEscrow, PaidPurse,
           MappedEscrow, MappedPurse
<1> QED
  BY <1>5 DEF Promise!PromiseNext

\* The steps before funding, and the submission of the proof, are invisible.
LEMMA SlotStutters ==
  ASSUME IInv, NEW caller \in Accounts,
         \/ \E seller \in Accounts \cup {NoAddress}, token \in Tokens \cup {NoAddress},
               amount \in Amounts, deadlineMs \in Deadlines :
                  createTaskIntent(caller, seller, token, amount, deadlineMs)
         \/ \E t \in TaskIds, hash \in Hashes \cup {NoHash} :
               \/ submitCommitment(caller, t, hash)
               \/ submitProofBundle(caller, t, hash)
  PROVE  MappedEscrow' = MappedEscrow
<1>1. TypeOK
  BY DEF IInv
<1>2. ASSUME NEW seller, NEW token, NEW amount, NEW deadlineMs,
             createTaskIntent(caller, seller, token, amount, deadlineMs)
      PROVE  MappedEscrow' = MappedEscrow
  <2> DEFINE n == nextSequence
             new == Created(tasks[n], caller, seller, token, amount, deadlineMs)
  <2>1. n \in TaskIds /\ tasks' = [tasks EXCEPT ![n] = new]
    BY <1>2 DEF createTaskIntent
  <2>2. tasks[n] = EmptySlot /\ tasks[n] \in Task
    BY <1>1, <2>1 DEF IInv, SlotsInv, TypeOK
  <2>3. new.status = "INTENT_CREATED" /\ tasks[n].status = "INTENT_CREATED"
    BY <2>2 DEF EmptySlot, Created, Task
  <2>4. EscrowOf(new) = EscrowOf(tasks[n])
    BY <2>3 DEF EscrowOf, EscrowState, Live
  <2> HIDE DEF n, new
  <2> QED
    BY <1>1, <2>1, <2>4, SameSlots
<1>3. ASSUME NEW t \in TaskIds, NEW hash, submitCommitment(caller, t, hash)
      PROVE  MappedEscrow' = MappedEscrow
  <2> DEFINE new == Committed(tasks[t], hash)
  <2>1. tasks' = [tasks EXCEPT ![t] = new] /\ tasks[t].status = "INTENT_CREATED"
    BY <1>3 DEF submitCommitment, InState
  <2>2. new.status = "COMMITMENT_SUBMITTED"
    BY <1>1 DEF TypeOK, Committed, Task
  <2>3. EscrowOf(new) = EscrowOf(tasks[t])
    BY <2>1, <2>2 DEF EscrowOf, EscrowState, Live
  <2> HIDE DEF new
  <2> QED
    BY <1>1, <2>1, <2>3, SameSlots
<1>4. ASSUME NEW t \in TaskIds, NEW hash, submitProofBundle(caller, t, hash)
      PROVE  MappedEscrow' = MappedEscrow
  <2> DEFINE new == Proven(tasks[t], hash)
  <2>1. tasks' = [tasks EXCEPT ![t] = new] /\ tasks[t].status = "FUNDED"
    BY <1>4 DEF submitProofBundle, AwaitsProof, InState
  <2>2. /\ new.status = "PROOF_SUBMITTED"
        /\ new.buyer = tasks[t].buyer /\ new.seller = tasks[t].seller
        /\ new.token = tasks[t].token /\ new.amount = tasks[t].amount
    BY <1>1 DEF TypeOK, Proven, Task
  <2>3. EscrowOf(new) = EscrowOf(tasks[t])
    BY <2>1, <2>2 DEF EscrowOf, EscrowState, Live
  <2> HIDE DEF new
  <2> QED
    BY <1>1, <2>1, <2>3, SameSlots
<1> QED
  BY <1>2, <1>3, <1>4

LEMMA PromiseStep ==
  ASSUME IInv, [Next]_vars
  PROVE  [Promise!PromiseNext]_(Promise!promiseVars)
<1> DEFINE Goal == Promise!PromiseNext \/ (MappedEscrow' = MappedEscrow /\ MappedPurse' = MappedPurse)
<1>1. ASSUME NEW caller \in Accounts,
             \/ \E seller \in Accounts \cup {NoAddress}, token \in Tokens \cup {NoAddress},
                   amount \in Amounts, deadlineMs \in Deadlines :
                      createTaskIntent(caller, seller, token, amount, deadlineMs)
             \/ \E t \in TaskIds, hash \in Hashes \cup {NoHash} :
                   \/ submitCommitment(caller, t, hash)
                   \/ submitProofBundle(caller, t, hash)
      PROVE  Goal
  <2>1. UNCHANGED balanceOf
    BY <1>1 DEF createTaskIntent, submitCommitment, submitProofBundle
  <2>2. MappedPurse' = MappedPurse
    BY <2>1 DEF MappedPurse
  <2> QED
    BY <1>1, <2>2, SlotStutters
<1>2. ASSUME \/ \E caller \in Accounts, token \in Tokens \cup {NoAddress}, allowed \in BOOLEAN :
                   setAllowedToken(caller, token, allowed)
             \/ RegistryStep
             \/ Tick
             \/ UNCHANGED vars
      PROVE  Goal
  <2>1. UNCHANGED <<tasks, balanceOf>>
    BY <1>2 DEF setAllowedToken, RegistryStep, Tick, vars, contractVars
  <2> QED
    BY <2>1 DEF MappedEscrow, MappedPurse, EscrowOf, EscrowState, Live
<1>3. ASSUME NEW caller \in Accounts, NEW t \in TaskIds, TaskStep(caller, t)
      PROVE  Goal
  BY <1>1, <1>3, FundLocks DEF TaskStep
<1> HIDE DEF Goal
<1>4. ASSUME Promise!PromiseNext PROVE Goal
  BY <1>4 DEF Goal
<1>5. Goal
  BY <1>1, <1>2, <1>3, <1>4, SettleCloses, RefundCloses DEF Next
<1> QED
  BY <1>5 DEF Goal, Promise!promiseVars, MappedEscrow, MappedPurse

\* Refinement: every behaviour of the contract is a behaviour of EscrowPromise.
THEOREM Refinement == Spec => KeepsPromise
<1>1. IInv /\ [Next]_vars => [Promise!PromiseNext]_(Promise!promiseVars)
  BY PromiseStep
<1> QED
  BY <1>1, PromiseStart, Invariance, PTL DEF Spec, KeepsPromise, Promise!PromiseSpec

-----------------------------------------------------------------------------
(* The books: SettlementAccounting *)


\* What one task counts for in a total: in the money the contract holds, in
\* what an account paid, got back and earned.
Counted(counts, task, token) ==
    IF counts /\ task.token = token THEN task.amount ELSE 0

HeldFor(task, token) == Counted(Live(task), task, token)
PaidFor(task, a, token) ==
    Counted((Live(task) \/ Terminal(task)) /\ task.buyer = a, task, token)
GivenBack(task, a, token) ==
    Counted(task.status = "REFUNDED" /\ task.buyer = a, task, token)
EarnedFrom(task, a, token) ==
    Counted(task.status = "SETTLED" /\ task.seller = a, task, token)

-----------------------------------------------------------------------------
(* Totals when one task changes *)

LEMMA TaskIdsFinite == \A S : S \subseteq TaskIds => IsFiniteSet(S)
<1>1. IsFiniteSet(TaskIds)
  BY SettlementAssumption, FS_Interval DEF TaskIds
<1> QED
  BY <1>1, FS_Subset

\* Two sums over sets of tasks that differ in one task at most.
LEMMA SumMoves ==
  ASSUME NEW f \in [TaskIds -> Nat], NEW g \in [TaskIds -> Nat], NEW t \in TaskIds,
         \A u \in TaskIds \ {t} : f[u] = g[u],
         NEW S \in SUBSET TaskIds, NEW T \in SUBSET TaskIds, S \ {t} = T \ {t}
  PROVE  /\ SumFunctionOnSet(f, S) \in Nat /\ SumFunctionOnSet(g, T) \in Nat
         /\ SumFunctionOnSet(g, T) + (IF t \in S THEN f[t] ELSE 0)
                = SumFunctionOnSet(f, S) + (IF t \in T THEN g[t] ELSE 0)
<1> DEFINE R == S \ {t}
           rest == SumFunctionOnSet(f, R)
<1>1. IsFiniteSet(S) /\ IsFiniteSet(T) /\ IsFiniteSet(R)
  BY TaskIdsFinite
<1>2. /\ SumFunctionOnSet(f, S) \in Nat /\ SumFunctionOnSet(g, T) \in Nat
      /\ rest \in Nat
  <2>1. /\ \A u \in S : f[u] \in Nat
        /\ \A u \in T : g[u] \in Nat
        /\ \A u \in R : f[u] \in Nat
    OBVIOUS
  <2> HIDE DEF R
  <2> QED
    BY <1>1, <2>1, SumNat
<1>3. rest = SumFunctionOnSet(g, R)
  <2>1. \A u \in R : f[u] = g[u]
    OBVIOUS
  <2> HIDE DEF R
  <2> QED
    BY <1>1, <2>1, SumSame
<1>4. SumFunctionOnSet(f, S) = rest + (IF t \in S THEN f[t] ELSE 0)
  <2>1. CASE t \in S
    <3>1. SumFunctionOnSet(f, S) = f[t] + rest
      BY <1>1, <2>1, SumRemove
    <3> HIDE DEF rest
    <3> QED
      BY <1>2, <2>1, <3>1
  <2>2. CASE t \notin S
    <3>1. R = S
      BY <2>2
    <3> HIDE DEF R
    <3> QED
      BY <1>2, <2>2, <3>1
  <2> QED
    BY <2>1, <2>2
<1>5. SumFunctionOnSet(g, T) = rest + (IF t \in T THEN g[t] ELSE 0)
  <2>1. CASE t \in T
    <3>1. SumFunctionOnSet(g, T) = g[t] + SumFunctionOnSet(g, R)
      BY <1>1, <2>1, SumRemove
    <3> HIDE DEF rest, R
    <3> QED
      BY <1>2, <1>3, <2>1, <3>1
  <2>2. CASE t \notin T
    <3>1. R = T
      BY <2>2
    <3> HIDE DEF R
    <3> QED
      BY <1>2, <1>3, <2>2, <3>1
  <2> QED
    BY <2>1, <2>2
<1> HIDE DEF rest, R
<1> QED
  BY <1>2, <1>4, <1>5

\* A total moves by what the changed task counts for before and after.
LEMMA TotalMoves ==
  ASSUME TypeOK, TypeOK', NEW t \in TaskIds, NEW token,
         \A u \in TaskIds \ {t} : tasks'[u] = tasks[u],
         NEW S \in SUBSET TaskIds, NEW T \in SUBSET TaskIds, S \ {t} = T \ {t},
         NEW total, total = SumFunctionOnSet([u \in TaskIds |-> tasks'[u].amount],
                                             {u \in T : tasks'[u].token = token})
  PROVE  /\ Total(S, token) \in Nat /\ total \in Nat
         /\ total + Counted(t \in S, tasks[t], token)
                = Total(S, token) + Counted(t \in T, tasks'[t], token)
<1> DEFINE f == [u \in TaskIds |-> tasks[u].amount]
           g == [u \in TaskIds |-> tasks'[u].amount]
           SS == {u \in S : tasks[u].token = token}
           TT == {u \in T : tasks'[u].token = token}
<1>1. f \in [TaskIds -> Nat] /\ g \in [TaskIds -> Nat]
  BY DEF TypeOK, Task
<1>2. \A u \in TaskIds \ {t} : f[u] = g[u]
  OBVIOUS
<1>3. SS \in SUBSET TaskIds /\ TT \in SUBSET TaskIds /\ SS \ {t} = TT \ {t}
  OBVIOUS
<1>4. /\ (IF t \in SS THEN f[t] ELSE 0) = Counted(t \in S, tasks[t], token)
      /\ (IF t \in TT THEN g[t] ELSE 0) = Counted(t \in T, tasks'[t], token)
  BY DEF Counted
<1>5. Total(S, token) = SumFunctionOnSet(f, SS) /\ total = SumFunctionOnSet(g, TT)
  BY DEF Total
<1> HIDE DEF f, g, SS, TT
<1> QED
  BY <1>1, <1>2, <1>3, <1>4, <1>5, SumMoves

\* What a step on the slot of task t does to the total of the open tasks, and to
\* the three totals of an account.
LEMMA OpenMoves ==
  ASSUME TypeOK, TypeOK', NEW t \in TaskIds, NEW token,
         \A u \in TaskIds \ {t} : tasks'[u] = tasks[u]
  PROVE  /\ Total(Open, token) \in Nat /\ Total(Open, token)' \in Nat
         /\ Total(Open, token)' + HeldFor(tasks[t], token)
                = Total(Open, token) + HeldFor(tasks'[t], token)
<1> DEFINE S == {u \in TaskIds : Live(tasks[u])}
           T == {u \in TaskIds : Live(tasks'[u])}
           total == Total(Open, token)'
<1>1. /\ S \in SUBSET TaskIds /\ T \in SUBSET TaskIds /\ S \ {t} = T \ {t}
      /\ t \in S <=> Live(tasks[t])
      /\ t \in T <=> Live(tasks'[t])
  OBVIOUS
<1>2. /\ total = SumFunctionOnSet([u \in TaskIds |-> tasks'[u].amount],
                                 {u \in T : tasks'[u].token = token})
      /\ Total(Open, token) = Total(S, token)
  BY DEF Total, Open, Live
<1> HIDE DEF S, T, total
<1>3. /\ Total(S, token) \in Nat /\ total \in Nat
      /\ total + Counted(t \in S, tasks[t], token)
             = Total(S, token) + Counted(t \in T, tasks'[t], token)
  BY <1>1, <1>2, TotalMoves
<1>4. /\ Counted(t \in S, tasks[t], token) = HeldFor(tasks[t], token)
      /\ Counted(t \in T, tasks'[t], token) = HeldFor(tasks'[t], token)
  BY <1>1 DEF Counted, HeldFor
<1> QED
  BY <1>2, <1>3, <1>4 DEF total

LEMMA PaidMoves ==
  ASSUME TypeOK, TypeOK', NEW t \in TaskIds, NEW token, NEW a,
         \A u \in TaskIds \ {t} : tasks'[u] = tasks[u]
  PROVE  /\ Total(Paid(a), token) \in Nat /\ Total(Paid(a), token)' \in Nat
         /\ Total(Paid(a), token)' + PaidFor(tasks[t], a, token)
                = Total(Paid(a), token) + PaidFor(tasks'[t], a, token)
<1> DEFINE S == {u \in TaskIds : (Live(tasks[u]) \/ Terminal(tasks[u])) /\ tasks[u].buyer = a}
           T == {u \in TaskIds : (Live(tasks'[u]) \/ Terminal(tasks'[u])) /\ tasks'[u].buyer = a}
           total == Total(Paid(a), token)'
<1>1. /\ S \in SUBSET TaskIds /\ T \in SUBSET TaskIds /\ S \ {t} = T \ {t}
      /\ t \in S <=> (Live(tasks[t]) \/ Terminal(tasks[t])) /\ tasks[t].buyer = a
      /\ t \in T <=> (Live(tasks'[t]) \/ Terminal(tasks'[t])) /\ tasks'[t].buyer = a
  OBVIOUS
<1>2. /\ total = SumFunctionOnSet([u \in TaskIds |-> tasks'[u].amount],
                                 {u \in T : tasks'[u].token = token})
      /\ Total(Paid(a), token) = Total(S, token)
  BY DEF Total, Paid, Live, Terminal
<1> HIDE DEF S, T, total
<1>3. /\ Total(S, token) \in Nat /\ total \in Nat
      /\ total + Counted(t \in S, tasks[t], token)
             = Total(S, token) + Counted(t \in T, tasks'[t], token)
  BY <1>1, <1>2, TotalMoves
<1>4. /\ Counted(t \in S, tasks[t], token) = PaidFor(tasks[t], a, token)
      /\ Counted(t \in T, tasks'[t], token) = PaidFor(tasks'[t], a, token)
  BY <1>1 DEF Counted, PaidFor
<1> QED
  BY <1>2, <1>3, <1>4 DEF total

LEMMA GotBackMoves ==
  ASSUME TypeOK, TypeOK', NEW t \in TaskIds, NEW token, NEW a,
         \A u \in TaskIds \ {t} : tasks'[u] = tasks[u]
  PROVE  /\ Total(GotBack(a), token) \in Nat /\ Total(GotBack(a), token)' \in Nat
         /\ Total(GotBack(a), token)' + GivenBack(tasks[t], a, token)
                = Total(GotBack(a), token) + GivenBack(tasks'[t], a, token)
<1> DEFINE S == {u \in TaskIds : tasks[u].status = "REFUNDED" /\ tasks[u].buyer = a}
           T == {u \in TaskIds : tasks'[u].status = "REFUNDED" /\ tasks'[u].buyer = a}
           total == Total(GotBack(a), token)'
<1>1. /\ S \in SUBSET TaskIds /\ T \in SUBSET TaskIds /\ S \ {t} = T \ {t}
      /\ t \in S <=> tasks[t].status = "REFUNDED" /\ tasks[t].buyer = a
      /\ t \in T <=> tasks'[t].status = "REFUNDED" /\ tasks'[t].buyer = a
  OBVIOUS
<1>2. /\ total = SumFunctionOnSet([u \in TaskIds |-> tasks'[u].amount],
                                 {u \in T : tasks'[u].token = token})
      /\ Total(GotBack(a), token) = Total(S, token)
  BY DEF Total, GotBack, Live, Terminal
<1> HIDE DEF S, T, total
<1>3. /\ Total(S, token) \in Nat /\ total \in Nat
      /\ total + Counted(t \in S, tasks[t], token)
             = Total(S, token) + Counted(t \in T, tasks'[t], token)
  BY <1>1, <1>2, TotalMoves
<1>4. /\ Counted(t \in S, tasks[t], token) = GivenBack(tasks[t], a, token)
      /\ Counted(t \in T, tasks'[t], token) = GivenBack(tasks'[t], a, token)
  BY <1>1 DEF Counted, GivenBack
<1> QED
  BY <1>2, <1>3, <1>4 DEF total

LEMMA EarnedMoves ==
  ASSUME TypeOK, TypeOK', NEW t \in TaskIds, NEW token, NEW a,
         \A u \in TaskIds \ {t} : tasks'[u] = tasks[u]
  PROVE  /\ Total(Earned(a), token) \in Nat /\ Total(Earned(a), token)' \in Nat
         /\ Total(Earned(a), token)' + EarnedFrom(tasks[t], a, token)
                = Total(Earned(a), token) + EarnedFrom(tasks'[t], a, token)
<1> DEFINE S == {u \in TaskIds : tasks[u].status = "SETTLED" /\ tasks[u].seller = a}
           T == {u \in TaskIds : tasks'[u].status = "SETTLED" /\ tasks'[u].seller = a}
           total == Total(Earned(a), token)'
<1>1. /\ S \in SUBSET TaskIds /\ T \in SUBSET TaskIds /\ S \ {t} = T \ {t}
      /\ t \in S <=> tasks[t].status = "SETTLED" /\ tasks[t].seller = a
      /\ t \in T <=> tasks'[t].status = "SETTLED" /\ tasks'[t].seller = a
  OBVIOUS
<1>2. /\ total = SumFunctionOnSet([u \in TaskIds |-> tasks'[u].amount],
                                 {u \in T : tasks'[u].token = token})
      /\ Total(Earned(a), token) = Total(S, token)
  BY DEF Total, Earned, Live, Terminal
<1> HIDE DEF S, T, total
<1>3. /\ Total(S, token) \in Nat /\ total \in Nat
      /\ total + Counted(t \in S, tasks[t], token)
             = Total(S, token) + Counted(t \in T, tasks'[t], token)
  BY <1>1, <1>2, TotalMoves
<1>4. /\ Counted(t \in S, tasks[t], token) = EarnedFrom(tasks[t], a, token)
      /\ Counted(t \in T, tasks'[t], token) = EarnedFrom(tasks'[t], a, token)
  BY <1>1 DEF Counted, EarnedFrom
<1> QED
  BY <1>2, <1>3, <1>4 DEF total

-----------------------------------------------------------------------------
(* The books *)

Books == Solvent /\ BooksBalance

\* The balances of one token agree with the totals.
BooksOf(token) ==
    /\ balanceOf[token][Settlement] = Total(Open, token)
    /\ \A a \in Accounts :
           balanceOf[token][a] + Total(Paid(a), token)
               = InitialBalance + Total(GotBack(a), token) + Total(Earned(a), token)

LEMMA BooksParts == Books <=> \A token \in Tokens : BooksOf(token)
BY DEF Books, BooksOf, Solvent, BooksBalance

\* How the balances have to move when the slot of a task changes from old to new.
Owned(old, new, token, ledger, ledgerAfter) ==
    /\ ledgerAfter[Settlement] + HeldFor(old, token)
           = ledger[Settlement] + HeldFor(new, token)
    /\ \A a \in Accounts :
           ledgerAfter[a] + PaidFor(new, a, token)
             + GivenBack(old, a, token) + EarnedFrom(old, a, token)
               = ledger[a] + PaidFor(old, a, token)
             + GivenBack(new, a, token) + EarnedFrom(new, a, token)

LEMMA CountedNat ==
  ASSUME NEW task \in Task, NEW token, NEW a
  PROVE  /\ HeldFor(task, token) \in Nat /\ PaidFor(task, a, token) \in Nat
         /\ GivenBack(task, a, token) \in Nat /\ EarnedFrom(task, a, token) \in Nat
BY DEF HeldFor, PaidFor, GivenBack, EarnedFrom, Counted, Task

LEMMA BooksMove ==
  ASSUME TypeOK, TypeOK', NEW t \in TaskIds, \A u \in TaskIds \ {t} : tasks'[u] = tasks[u],
         NEW token \in Tokens, BooksOf(token),
         Owned(tasks[t], tasks'[t], token, balanceOf[token], balanceOf'[token])
  PROVE  BooksOf(token)'
<1>1. tasks[t] \in Task /\ tasks'[t] \in Task
  BY DEF TypeOK
<1>2. \A a \in Holders : balanceOf[token][a] \in Nat /\ balanceOf'[token][a] \in Nat
  BY DEF TypeOK
<1>3. balanceOf'[token][Settlement] = Total(Open, token)'
  <2>1. balanceOf[token][Settlement] = Total(Open, token)
    BY DEF BooksOf
  <2>2. balanceOf'[token][Settlement] + HeldFor(tasks[t], token)
            = balanceOf[token][Settlement] + HeldFor(tasks'[t], token)
    BY DEF Owned
  <2>3. HeldFor(tasks[t], token) \in Nat /\ HeldFor(tasks'[t], token) \in Nat
    BY <1>1, CountedNat
  <2>4. balanceOf'[token][Settlement] \in Nat
    BY <1>2 DEF Holders
  <2>5. /\ Total(Open, token) \in Nat /\ Total(Open, token)' \in Nat
        /\ Total(Open, token)' + HeldFor(tasks[t], token)
               = Total(Open, token) + HeldFor(tasks'[t], token)
    BY OpenMoves
  <2> QED
    BY <2>1, <2>2, <2>3, <2>4, <2>5
<1>4. ASSUME NEW a \in Accounts
      PROVE  balanceOf'[token][a] + Total(Paid(a), token)'
                 = InitialBalance + Total(GotBack(a), token)' + Total(Earned(a), token)'
  <2>1. balanceOf[token][a] + Total(Paid(a), token)
            = InitialBalance + Total(GotBack(a), token) + Total(Earned(a), token)
    BY DEF BooksOf
  <2>2. balanceOf'[token][a] + PaidFor(tasks'[t], a, token)
          + GivenBack(tasks[t], a, token) + EarnedFrom(tasks[t], a, token)
            = balanceOf[token][a] + PaidFor(tasks[t], a, token)
          + GivenBack(tasks'[t], a, token) + EarnedFrom(tasks'[t], a, token)
    BY DEF Owned
  <2>3. /\ PaidFor(tasks[t], a, token) \in Nat /\ PaidFor(tasks'[t], a, token) \in Nat
        /\ GivenBack(tasks[t], a, token) \in Nat /\ GivenBack(tasks'[t], a, token) \in Nat
        /\ EarnedFrom(tasks[t], a, token) \in Nat /\ EarnedFrom(tasks'[t], a, token) \in Nat
    BY <1>1, CountedNat
  <2>4. /\ balanceOf[token][a] \in Nat /\ balanceOf'[token][a] \in Nat
        /\ InitialBalance \in Nat
    BY <1>2, SettlementAssumption DEF Holders
  <2>5. /\ Total(Paid(a), token) \in Nat /\ Total(Paid(a), token)' \in Nat
        /\ Total(Paid(a), token)' + PaidFor(tasks[t], a, token)
               = Total(Paid(a), token) + PaidFor(tasks'[t], a, token)
    BY PaidMoves
  <2>6. /\ Total(GotBack(a), token) \in Nat /\ Total(GotBack(a), token)' \in Nat
        /\ Total(GotBack(a), token)' + GivenBack(tasks[t], a, token)
               = Total(GotBack(a), token) + GivenBack(tasks'[t], a, token)
    BY GotBackMoves
  <2>7. /\ Total(Earned(a), token) \in Nat /\ Total(Earned(a), token)' \in Nat
        /\ Total(Earned(a), token)' + EarnedFrom(tasks[t], a, token)
               = Total(Earned(a), token) + EarnedFrom(tasks'[t], a, token)
    BY EarnedMoves
  <2> QED
    BY <2>1, <2>2, <2>3, <2>4, <2>5, <2>6, <2>7
<1> QED
  BY <1>3, <1>4 DEF BooksOf

\* A step that writes one slot, and moves the balances accordingly.
LEMMA BooksStep ==
  ASSUME IInv, IInv', Books, NEW t \in TaskIds, NEW new, tasks' = [tasks EXCEPT ![t] = new],
         \A token \in Tokens :
             Owned(tasks[t], new, token, balanceOf[token], balanceOf'[token])
  PROVE  Books'
<1>1. TypeOK /\ TypeOK'
  BY DEF IInv
<1>2. tasks'[t] = new /\ \A u \in TaskIds \ {t} : tasks'[u] = tasks[u]
  BY <1>1 DEF TypeOK
<1>3. ASSUME NEW token \in Tokens PROVE BooksOf(token)'
  BY <1>1, <1>2, <1>3, BooksMove, BooksParts
<1>4. Books' <=> \A token \in Tokens : BooksOf(token)'
  BY DEF Books, BooksOf, Solvent, BooksBalance
<1> QED
  BY <1>3, <1>4

\* Steps that leave tasks and balances alone.
LEMMA BooksFrame ==
  ASSUME Books, UNCHANGED <<tasks, balanceOf>>
  PROVE  Books'
BY DEF Books, Solvent, BooksBalance, Total, Open, Paid, GotBack, Earned, Live, Terminal

\* A task that is not funded, and stays so, counts for nothing.
LEMMA OwnedUnfunded ==
  ASSUME NEW old, NEW new, ~Live(old), ~Terminal(old), ~Live(new), ~Terminal(new),
         NEW token \in Tokens, balanceOf \in [Tokens -> [Holders -> Nat]]
  PROVE  Owned(old, new, token, balanceOf[token], balanceOf[token])
BY DEF Owned, HeldFor, PaidFor, GivenBack, EarnedFrom, Counted, Live, Terminal

\* createTaskIntent, submitCommitment, submitProofBundle.
LEMMA BooksOther ==
  ASSUME IInv, IInv', Books, NEW caller \in Accounts,
         \/ \E seller \in Accounts \cup {NoAddress}, token \in Tokens \cup {NoAddress},
               amount \in Amounts, deadlineMs \in Deadlines :
                  createTaskIntent(caller, seller, token, amount, deadlineMs)
         \/ \E t \in TaskIds, hash \in Hashes \cup {NoHash} :
               \/ submitCommitment(caller, t, hash)
               \/ submitProofBundle(caller, t, hash)
  PROVE  Books'
<1>1. UNCHANGED balanceOf
  BY DEF createTaskIntent, submitCommitment, submitProofBundle
<1>2. TypeOK /\ balanceOf \in [Tokens -> [Holders -> Nat]]
  BY DEF IInv, TypeOK
<1>3. ASSUME NEW seller, NEW token, NEW amount, NEW deadlineMs,
             createTaskIntent(caller, seller, token, amount, deadlineMs)
      PROVE  Books'
  <2> DEFINE n == nextSequence
             new == Created(tasks[n], caller, seller, token, amount, deadlineMs)
  <2>1. n \in TaskIds /\ tasks' = [tasks EXCEPT ![n] = new]
    BY <1>3 DEF createTaskIntent
  <2>2. tasks[n] = EmptySlot /\ tasks[n] \in Task
    BY <2>1 DEF IInv, SlotsInv, TypeOK
  <2>3. ~Live(tasks[n]) /\ ~Terminal(tasks[n]) /\ ~Live(new) /\ ~Terminal(new)
    BY <2>2 DEF EmptySlot, Live, Terminal, Created, Task
  <2> HIDE DEF new, n
  <2> QED
    BY <1>1, <1>2, <2>1, <2>3, OwnedUnfunded, BooksStep
<1>4. ASSUME NEW t \in TaskIds, NEW hash, submitCommitment(caller, t, hash)
      PROVE  Books'
  <2> DEFINE new == Committed(tasks[t], hash)
  <2>1. tasks' = [tasks EXCEPT ![t] = new] /\ tasks[t].status = "INTENT_CREATED"
    BY <1>4 DEF submitCommitment, InState
  <2>2. ~Live(tasks[t]) /\ ~Terminal(tasks[t]) /\ ~Live(new) /\ ~Terminal(new)
    BY <1>2, <2>1 DEF Live, Terminal, Committed, Task, TypeOK
  <2> HIDE DEF new
  <2> QED
    BY <1>1, <1>2, <2>1, <2>2, OwnedUnfunded, BooksStep
<1>5. ASSUME NEW t \in TaskIds, NEW hash, submitProofBundle(caller, t, hash)
      PROVE  Books'
  <2> DEFINE old == tasks[t]
             new == Proven(old, hash)
  <2>1. tasks' = [tasks EXCEPT ![t] = new] /\ old.status = "FUNDED" /\ old \in Task
    BY <1>2, <1>5 DEF submitProofBundle, AwaitsProof, InState, TypeOK
  <2>2. /\ new.status = "PROOF_SUBMITTED" /\ new.buyer = old.buyer
        /\ new.token = old.token /\ new.amount = old.amount
    BY <2>1 DEF Proven, Task
  <2> HIDE DEF new, old
  <2>3. ASSUME NEW token \in Tokens
        PROVE  Owned(old, new, token, balanceOf[token], balanceOf[token])
    BY <2>1, <2>2 DEF Owned, HeldFor, PaidFor, GivenBack, EarnedFrom, Counted, Live, Terminal
  <2> QED
    BY <1>1, <2>1, <2>3, BooksStep DEF old
<1> QED
  BY <1>3, <1>4, <1>5

\* Funding moves the amount from the buyer to the contract.
LEMMA BooksFund ==
  ASSUME IInv, IInv', Books, NEW caller \in Accounts, NEW t \in TaskIds, fundTask(caller, t)
  PROVE  Books'
<1> DEFINE old == tasks[t]
           new == Funded(old)
<1>1. /\ Exists(old) /\ old.status = "COMMITMENT_SUBMITTED" /\ caller = old.buyer
      /\ Transfer(old.token, caller, Settlement, old.amount)
      /\ tasks' = [tasks EXCEPT ![t] = new]
  BY DEF fundTask, InState
<1>2. old \in Task /\ old.token \in Tokens /\ old.amount \in Nat
  BY <1>1, ExistingSlot DEF GoodSlot, Task
<1>3. /\ new.status = "FUNDED" /\ new.buyer = old.buyer
      /\ new.token = old.token /\ new.amount = old.amount
  BY <1>2 DEF Funded, Task
<1>4. caller \in Holders /\ Settlement \in Holders /\ caller # Settlement
  BY SettlementAssumption DEF Holders
<1>5. balanceOf \in [Tokens -> [Holders -> Nat]]
  BY DEF IInv, TypeOK
<1> HIDE DEF new, old
<1>6. /\ balanceOf'[old.token][caller] = balanceOf[old.token][caller] - old.amount
      /\ balanceOf'[old.token][Settlement] = balanceOf[old.token][Settlement] + old.amount
      /\ \A a \in Holders \ {caller, Settlement} :
            balanceOf'[old.token][a] = balanceOf[old.token][a]
      /\ \A c \in Tokens \ {old.token} : balanceOf'[c] = balanceOf[c]
  BY <1>1, <1>2, <1>4, <1>5, TransferEffect
<1>7. ASSUME NEW token \in Tokens
      PROVE  Owned(old, new, token, balanceOf[token], balanceOf'[token])
  <2>1. /\ HeldFor(old, token) = 0
        /\ HeldFor(new, token) = IF old.token = token THEN old.amount ELSE 0
        /\ \A a : /\ PaidFor(old, a, token) = 0
                  /\ PaidFor(new, a, token)
                         = IF caller = a /\ old.token = token THEN old.amount ELSE 0
                  /\ GivenBack(old, a, token) = 0 /\ GivenBack(new, a, token) = 0
                  /\ EarnedFrom(old, a, token) = 0 /\ EarnedFrom(new, a, token) = 0
    BY <1>1, <1>3 DEF HeldFor, PaidFor, GivenBack, EarnedFrom, Counted, Live, Terminal
  <2>2. CASE token # old.token
    <3>1. balanceOf'[token] = balanceOf[token]
      BY <1>6, <2>2
    <3> QED
      BY <1>5, <2>1, <2>2, <3>1 DEF Owned, Holders
  <2>3. CASE token = old.token
    <3>1. ASSUME NEW a \in Accounts
          PROVE  balanceOf'[token][a] + (IF caller = a THEN old.amount ELSE 0)
                     = balanceOf[token][a]
      <4>1. a \in Holders /\ a # Settlement /\ balanceOf[token][a] \in Nat
        BY <1>5, SettlementAssumption DEF Holders
      <4> QED
        BY <1>2, <1>6, <2>3, <4>1
    <3>2. ASSUME NEW a \in Accounts PROVE balanceOf'[token][a] \in Int /\ balanceOf[token][a] \in Int
      <4>1. a \in Holders /\ a # Settlement /\ balanceOf[token][a] \in Nat
        BY <1>5, SettlementAssumption DEF Holders
      <4> QED
        BY <1>2, <1>6, <2>3, <4>1
    <3>3. balanceOf[token][Settlement] \in Nat
      BY <1>4, <1>5
    <3> QED
      BY <1>2, <1>6, <2>1, <2>3, <3>1, <3>2, <3>3 DEF Owned
  <2> QED
    BY <2>2, <2>3
<1> QED
  BY <1>1, <1>7, BooksStep DEF old

\* A payout moves the amount from the contract to the seller or the buyer, as the
\* new status says.
LEMMA BooksPayout ==
  ASSUME IInv, IInv', Books, NEW t \in TaskIds, Exists(tasks[t]), Live(tasks[t]),
         NEW new, tasks' = [tasks EXCEPT ![t] = new],
         <<new.buyer, new.seller, new.token, new.amount>> =
             <<tasks[t].buyer, tasks[t].seller, tasks[t].token, tasks[t].amount>>,
         NEW receiver,
         \/ new.status = "SETTLED" /\ receiver = tasks[t].seller
         \/ new.status = "REFUNDED" /\ receiver = tasks[t].buyer,
         Transfer(tasks[t].token, Settlement, receiver, tasks[t].amount)
  PROVE  Books'
<1> DEFINE old == tasks[t]
<1>1. /\ old \in Task /\ old.token \in Tokens /\ old.amount \in Nat
      /\ old.buyer \in Accounts /\ old.seller \in Accounts
  BY ExistingSlot DEF GoodSlot, Task
<1>2. receiver \in Accounts /\ receiver \in Holders /\ Settlement \in Holders /\ receiver # Settlement
  BY <1>1, SettlementAssumption DEF Holders
<1>3. balanceOf \in [Tokens -> [Holders -> Nat]]
  BY DEF IInv, TypeOK
<1>4. Live(old) /\ Transfer(old.token, Settlement, receiver, old.amount)
  OBVIOUS
<1>5. /\ new.buyer = old.buyer /\ new.seller = old.seller
      /\ new.token = old.token /\ new.amount = old.amount
      /\ \/ new.status = "SETTLED" /\ receiver = old.seller
         \/ new.status = "REFUNDED" /\ receiver = old.buyer
  OBVIOUS
<1> HIDE DEF old
<1>6. /\ balanceOf[old.token][Settlement] >= old.amount
      /\ balanceOf'[old.token][receiver] = balanceOf[old.token][receiver] + old.amount
      /\ balanceOf'[old.token][Settlement] = balanceOf[old.token][Settlement] - old.amount
      /\ \A a \in Holders \ {receiver, Settlement} :
            balanceOf'[old.token][a] = balanceOf[old.token][a]
      /\ \A c \in Tokens \ {old.token} : balanceOf'[c] = balanceOf[c]
  BY <1>1, <1>2, <1>3, <1>4, TransferEffect
<1>7. ASSUME NEW token \in Tokens
      PROVE  Owned(old, new, token, balanceOf[token], balanceOf'[token])
  <2>1. /\ HeldFor(old, token) = IF old.token = token THEN old.amount ELSE 0
        /\ HeldFor(new, token) = 0
        /\ \A a : /\ PaidFor(new, a, token) = PaidFor(old, a, token)
                  /\ PaidFor(old, a, token) \in Nat
                  /\ GivenBack(old, a, token) = 0 /\ EarnedFrom(old, a, token) = 0
                  /\ GivenBack(new, a, token) + EarnedFrom(new, a, token)
                        = IF receiver = a /\ old.token = token THEN old.amount ELSE 0
                  /\ GivenBack(new, a, token) \in Nat /\ EarnedFrom(new, a, token) \in Nat
    BY <1>1, <1>4, <1>5 DEF HeldFor, PaidFor, GivenBack, EarnedFrom, Counted, Live, Terminal
  <2>2. CASE token # old.token
    <3>1. balanceOf'[token] = balanceOf[token]
      BY <1>6, <2>2
    <3>2. \A a \in Accounts : balanceOf[token][a] \in Nat
      BY <1>3 DEF Holders
    <3>3. \A a \in Accounts : GivenBack(new, a, token) = 0 /\ EarnedFrom(new, a, token) = 0
      BY <2>1, <2>2
    <3> QED
      BY <1>2, <1>3, <2>1, <2>2, <3>1, <3>2, <3>3 DEF Owned
  <2>3. CASE token = old.token
    <3>1. ASSUME NEW a \in Accounts
          PROVE  /\ balanceOf'[token][a]
                        = balanceOf[token][a] + (IF receiver = a THEN old.amount ELSE 0)
                 /\ balanceOf[token][a] \in Nat
      <4>1. a \in Holders /\ a # Settlement /\ balanceOf[token][a] \in Nat
        BY <1>3, SettlementAssumption DEF Holders
      <4> QED
        BY <1>1, <1>6, <2>3, <4>1
    <3>2. ASSUME NEW a \in Accounts
          PROVE  balanceOf'[token][a] + PaidFor(new, a, token)
                   + GivenBack(old, a, token) + EarnedFrom(old, a, token)
                     = balanceOf[token][a] + PaidFor(old, a, token)
                   + GivenBack(new, a, token) + EarnedFrom(new, a, token)
      BY <1>1, <2>1, <2>3, <3>1
    <3>3. balanceOf[token][Settlement] \in Nat
      BY <1>2, <1>3
    <3> QED
      BY <1>1, <1>6, <2>1, <2>3, <3>2, <3>3 DEF Owned
  <2> QED
    BY <2>2, <2>3
<1> QED
  BY <1>7, BooksStep DEF old

LEMMA BooksSettle ==
  ASSUME IInv, IInv', Books, NEW report \in SignedReports, settle(report)
  PROVE  Books'
<1> DEFINE t == report.taskId
           new == Reported(tasks[t], report)
           receiver == Beneficiary(tasks[t], report)
<1>1. report \in VerificationReport /\ t \in TaskIds /\ report.passed \in BOOLEAN
  BY SettlementAssumption DEF VerificationReport
<1>2. /\ Exists(tasks[t]) /\ Live(tasks[t]) /\ tasks' = [tasks EXCEPT ![t] = new]
      /\ Transfer(tasks[t].token, Settlement, receiver, tasks[t].amount)
  BY DEF settle, InState, Live
<1>3. tasks[t] \in Task
  BY <1>1 DEF IInv, TypeOK
<1>4. /\ <<new.buyer, new.seller, new.token, new.amount>> =
            <<tasks[t].buyer, tasks[t].seller, tasks[t].token, tasks[t].amount>>
      /\ \/ new.status = "SETTLED" /\ receiver = tasks[t].seller
         \/ new.status = "REFUNDED" /\ receiver = tasks[t].buyer
  BY <1>1, <1>3 DEF Reported, Settled, Refunded, Beneficiary, Task
<1> HIDE DEF t, new, receiver
<1> QED
  BY <1>1, <1>2, <1>4, BooksPayout

LEMMA BooksRefund ==
  ASSUME IInv, IInv', Books, NEW t \in TaskIds,
         \/ refundAfterProofSubmissionDeadline(t)
         \/ refundAfterVerificationTimeout(t)
  PROVE  Books'
<1> DEFINE new == Refunded(tasks[t])
<1>1. /\ Exists(tasks[t]) /\ Live(tasks[t]) /\ tasks' = [tasks EXCEPT ![t] = new]
      /\ Transfer(tasks[t].token, Settlement, tasks[t].buyer, tasks[t].amount)
  BY DEF refundAfterProofSubmissionDeadline, refundAfterVerificationTimeout, InState, Live
<1>2. tasks[t] \in Task
  BY DEF IInv, TypeOK
<1>3. /\ <<new.buyer, new.seller, new.token, new.amount>> =
            <<tasks[t].buyer, tasks[t].seller, tasks[t].token, tasks[t].amount>>
      /\ new.status = "REFUNDED"
  BY <1>2 DEF Refunded, Task
<1> HIDE DEF new
<1> QED
  BY <1>1, <1>3, BooksPayout

\* At the start no task counts for anything.
LEMMA BooksAtStart == Init => Books
<1> SUFFICES ASSUME Init PROVE Books
  OBVIOUS
<1>1. \A t \in TaskIds : tasks[t] = EmptySlot
  BY DEF Init
<1>2. \A t \in TaskIds : ~Live(tasks[t]) /\ ~Terminal(tasks[t])
  BY <1>1 DEF EmptySlot, Live, Terminal
<1>3. Open = {} /\ \A a : Paid(a) = {} /\ GotBack(a) = {} /\ Earned(a) = {}
  BY <1>2 DEF Open, Paid, GotBack, Earned, Terminal
<1>4. \A token : Total({}, token) = 0
  BY SumEmpty DEF Total
<1>5. \A token \in Tokens : /\ balanceOf[token][Settlement] = 0
                            /\ \A a \in Accounts : balanceOf[token][a] = InitialBalance
  BY SettlementAssumption DEF Init, Holders
<1> QED
  BY <1>3, <1>4, <1>5, SettlementAssumption DEF Books, Solvent, BooksBalance

LEMMA BooksKept == IInv /\ Books /\ [Next]_vars => Books'
<1> SUFFICES ASSUME IInv, Books, [Next]_vars PROVE Books'
  OBVIOUS
<1>1. IInv'
  BY NextInv
<1>2. ASSUME NEW caller \in Accounts,
             \E token \in Tokens \cup {NoAddress}, allowed \in BOOLEAN :
                 setAllowedToken(caller, token, allowed)
      PROVE  Books'
  BY <1>2, BooksFrame DEF setAllowedToken
<1>3. ASSUME NEW caller \in Accounts,
             \E seller \in Accounts \cup {NoAddress}, token \in Tokens \cup {NoAddress},
                amount \in Amounts, deadlineMs \in Deadlines :
                 createTaskIntent(caller, seller, token, amount, deadlineMs)
      PROVE  Books'
  BY <1>1, <1>3, BooksOther
<1>4. ASSUME NEW caller \in Accounts, NEW t \in TaskIds, TaskStep(caller, t)
      PROVE  Books'
  <2>1. CASE fundTask(caller, t)
    BY <1>1, <2>1, BooksFund
  <2>2. CASE \E hash \in Hashes \cup {NoHash} :
                \/ submitCommitment(caller, t, hash)
                \/ submitProofBundle(caller, t, hash)
    BY <1>1, <2>2, BooksOther
  <2> QED
    BY <1>4, <2>1, <2>2 DEF TaskStep
<1>5. ASSUME NEW report \in SignedReports, settle(report) PROVE Books'
  BY <1>1, <1>5, BooksSettle
<1>6. ASSUME NEW t \in TaskIds,
             \/ refundAfterProofSubmissionDeadline(t)
             \/ refundAfterVerificationTimeout(t)
      PROVE  Books'
  BY <1>1, <1>6, BooksRefund
<1>7. CASE RegistryStep \/ Tick
  BY <1>7, BooksFrame DEF RegistryStep, Tick, contractVars
<1>8. CASE UNCHANGED vars
  BY <1>8, BooksFrame DEF vars
<1> QED
  BY <1>2, <1>3, <1>4, <1>5, <1>6, <1>7, <1>8 DEF Next

-----------------------------------------------------------------------------
(* The theorems *)

\* Books is not enough on its own: the parts of IInv it is proved with say that
\* a task that exists has a token, an amount and two accounts as its parties.
LEMMA BooksAlways == Spec => []Books
<1>1. Spec => []IInv
  BY Invariance
<1> QED
  BY <1>1, BooksAtStart, BooksKept, PTL DEF Spec

\* fundTask, settle and the two refunds: the contract owns, of every token,
\* exactly the sum of the tasks that are funded and not yet paid out.
THEOREM Solvency == Spec => []Solvent
<1>1. Books => Solvent
  BY DEF Books
<1> QED
  BY <1>1, BooksAlways, PTL

\* The same functions, seen from the accounts: what an account owns is what it
\* started with, less the tasks it funded, plus those that were refunded to it or
\* that it earned; nobody else's task ever costs or pays it anything.
THEOREM BooksAreBalanced == Spec => []BooksBalance
<1>1. Books => BooksBalance
  BY DEF Books
<1> QED
  BY <1>1, BooksAlways, PTL

=============================================================================
