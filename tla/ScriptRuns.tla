----------------------------- MODULE ScriptRuns -----------------------------
(***************************************************************************)
(* The scripts of EndToEndScripts at work: each is a process with its own  *)
(* token, adapter and verifier server, on one deployment of the contracts. *)
(* Scripts that run together in one behaviour share the deployment and the *)
(* wallets.                                                                *)
(*                                                                         *)
(* An action is what one kind of step does, with every call it makes down  *)
(* to the contract.  A transaction is mined in a later block than any that *)
(* the script has seen.  Blocks come at a regular pace, slow enough for the *)
(* scripts to do in between what they need no block for; one odd block is  *)
(* late, or so early that it comes while a script is still busy.           *)
(***************************************************************************)
EXTENDS TyrPaySettlement, Sequences

CONSTANTS
    Occasions,      \* the sets of scripts that run in a behaviour
    Buyer, Seller,  \* the wallets; the contracts have one owner
    Verifier,       \* the address of the verifier's key
    Stranger,       \* the address of a key made up by a script
    Nobody,         \* what is recovered from a signature over something else
    TokenOf,        \* the token of each script
    BlockSeconds,   \* between two blocks
    EarlySeconds,   \* what the odd block takes instead, when it is early
    LateSeconds,    \* and when it is late
    NoModel, MismatchedModel, DEFAULT_MOCK_OBSERVED_AT

VARIABLES
    pc,         \* pc[p]: the next step of script p
    my,         \* my[p]: what script p remembers
    consumed,   \* consumed[p]: the registry of the verifier of script p
    odd         \* the odd block has come

scriptVars == <<pc, my, consumed, odd>>
allVars == <<vars, scriptVars>>

S == INSTANCE EndToEndScripts

Z == INSTANCE MockZkTls WITH Adapters <- {"mock", "reclaim"}, Inputs <- {},
                             inputs <- Nobody, outcome <- Nobody

Programs == {"boundaries", "mock loop", "reclaim loop", "smoke"}

Script ==
    [p \in Programs |->
        CASE p = "boundaries" -> S!BoundarySuite
          [] p = "mock loop" -> S!MockLoop
          [] p = "reclaim loop" -> S!ReclaimLoop
          [] p = "smoke" -> S!SmokeTest]

Running == DOMAIN pc

Ended(p) == pc[p] > Len(Script[p])

Step(p) == Script[p][pc[p]]

Does(p, do) == ~Ended(p) /\ Step(p).do = do

\* What a script remembers: the task it is at, its commitment and proof bundle,
\* the last report, an answer it got, and the time of the last block it has seen.
Fresh == [task |-> 0, commitment |-> Nobody, proof |-> Nobody,
          proofBundleHash |-> NoHash, report |-> Nobody, answer |-> FALSE,
          seen |-> 1]

\* The script goes on with what it remembers now.
GoesOn(p, memory) ==
    /\ pc' = [pc EXCEPT ![p] = @ + 1]
    /\ my' = [my EXCEPT ![p] = [memory EXCEPT !.seen = blockTimestamp]]
    /\ UNCHANGED odd

\* A step that sends no transaction.
Reads(p, memory) == GoesOn(p, memory) /\ UNCHANGED <<vars, consumed>>

\* The block that a transaction of the script is in.
InNewBlock(p) == my[p].seen < blockTimestamp

\* A step whose transaction is mined, and waited for.
Mined(p, memory) == InNewBlock(p) /\ GoesOn(p, memory) /\ UNCHANGED consumed

TaskOf(p) == tasks[my[p].task]

Given(option, default) == IF option = {} THEN default ELSE CHOOSE v \in option : TRUE

-----------------------------------------------------------------------------
(* Deliberately wrong variants of the definitions they name, for runs that show
   that a property can fail; no specification uses them. *)

\* For Moment: waits for the time itself, which is still allowed.
MomentItself(p, name) ==
    CASE name = "deadline passed" -> TaskOf(p).deadlineMs
      [] name = "grace period over" ->
             TaskOf(p).deadlineMs + proofSubmissionGracePeriodMs
      [] name = "verification over" ->
             TaskOf(p).proofSubmittedAtMs + verificationTimeoutMs

-----------------------------------------------------------------------------
(* Setting up *)

\* The verifier list, and the token list, as they are now.
AskVerifier(p) ==
    /\ Does(p, "isVerifier")
    /\ Reads(p, [my[p] EXCEPT !.answer = Registry!isVerifier(Verifier)])

AskToken(p) ==
    /\ Does(p, "allowedTokens")
    /\ Reads(p, [my[p] EXCEPT !.answer = TokenOf[p] \in allowedTokens])

\* A transaction that is not sent when the answer was yes.
AddVerifier(p) ==
    /\ Does(p, "addVerifier")
    /\ \/ my[p].answer /\ Reads(p, my[p])
       \/ /\ ~my[p].answer
          /\ Mined(p, my[p])
          /\ Registry!addVerifier(RegistryOwner, Verifier)
          /\ UNCHANGED <<blockTimestamp, contractVars, balanceOf>>

AllowToken(p) ==
    /\ Does(p, "setAllowedToken")
    /\ \/ my[p].answer /\ Reads(p, my[p])
       \/ ~my[p].answer /\ Mined(p, my[p]) /\ setAllowedToken(Owner, TokenOf[p], TRUE)

\* MockERC20.mint, which anybody may call.  The approval that follows it in the
\* scripts changes nothing that is modelled.
Mint(p) ==
    /\ Does(p, "mint")
    /\ Mined(p, my[p])
    /\ balanceOf' = [balanceOf EXCEPT ![TokenOf[p]][Buyer] = @ + Step(p).amount]
    /\ UNCHANGED <<blockTimestamp, contractVars, authorizedVerifiers>>

-----------------------------------------------------------------------------
(* Buyer and seller *)

\* The deadline counts from the last block that the script has seen.
CreateTaskIntent(p) ==
    /\ Does(p, "createTaskIntent")
    /\ Mined(p, [my[p] EXCEPT !.task = nextSequence])
    /\ createTaskIntent(Buyer, Seller, TokenOf[p], Step(p).amount,
                        my[p].seen * MsPerSecond + Step(p).offsetMs)

buildCommitment(p) ==
    [hash |-> <<"commitment", my[p].task>>, taskId |-> my[p].task,
     buyer |-> Buyer, seller |-> Seller, target |-> Step(p).host,
     allowedModels |-> {"gpt"}, minUsage |-> Step(p).minTokens,
     deadline |-> TaskOf(p).deadlineMs, verifier |-> Verifier]

SubmitCommitment(p) ==
    /\ Does(p, "submitCommitment")
    /\ Mined(p, [my[p] EXCEPT !.commitment = buildCommitment(p)])
    /\ submitCommitment(Seller, my[p].task,
                        Given(Step(p).hash, buildCommitment(p).hash))

\* validateCommitment of the buyer, with the expectations of the scripts.
Acceptable(p, commitment, acceptedHosts, minTotalTokens) ==
    /\ commitment.hash = TaskOf(p).commitmentHash
    /\ commitment.taskId = my[p].task
    /\ commitment.buyer = TaskOf(p).buyer /\ commitment.seller = TaskOf(p).seller
    /\ commitment.deadline <= TaskOf(p).deadlineMs
    /\ commitment.minUsage > 0 /\ commitment.minUsage >= minTotalTokens
    /\ commitment.target \in acceptedHosts
    /\ commitment.allowedModels # {} /\ commitment.allowedModels \subseteq {"gpt"}
    /\ commitment.verifier = Verifier

FundTask(p) ==
    /\ Does(p, "fundTask")
    /\ Step(p).validates =>
           Acceptable(p, my[p].commitment, Step(p).acceptedHosts, Step(p).minTotalTokens)
    /\ Mined(p, my[p])
    /\ fundTask(Buyer, my[p].task)

\* The task context of the seller and of the verifier; chain, contract and nonce
\* are what they are in every proof of a script.
TaskContext(p) ==
    [taskId |-> my[p].task, commitmentHash |-> TaskOf(p).commitmentHash,
     buyer |-> Buyer, seller |-> Seller, rest |-> "own"]

\* provenFetch for the one call of a script.  The mock is told when it has seen
\* the answer, except for a time before the funding; a native proof of Reclaim
\* is of an answer that came after the last block the script has seen.
CallInput(p) ==
    LET request == [target |-> my[p].commitment.target, model |-> "gpt", body |-> "prompt"]
        early == Step(p).scenario = "timestamp_before_funded"
    IN  [taskContext |-> TaskContext(p), callIndex |-> 0,
         callIntentHash |-> Z!callIntentHash(TaskContext(p), 0, request),
         request |-> request, declaredModel |-> "gpt",
         scenario |-> Step(p).scenario, observedModel |-> {}, totalTokens |-> {},
         commitmentMinTokens |-> {Step(p).commitmentMinTokens},
         observedAt |-> IF early THEN {} ELSE {CurrentTimeMs},
         timeWindow |-> [fundedAt |-> {TaskOf(p).fundedAtMs}, deadline |-> {}]]

SourceOf(p, raw) == IF p = "reclaim loop" THEN [raw EXCEPT !.provider = "reclaim"] ELSE raw

buildProofBundle(p, raw) ==
    [hash |-> <<"bundle", my[p].task>>, taskId |-> my[p].task,
     commitmentHash |-> my[p].commitment.hash, seller |-> Seller,
     receipts |-> <<Z!NormalizedReceipt(raw)>>, totalTokens |-> raw.totalTokens]

BuildUploadedProof(p) ==
    /\ Does(p, "buildUploadedProof")
    /\ \E input \in {CallInput(p)} : \E raw \in Z!MockProvenFetch(input) :
           LET bundle == buildProofBundle(p, SourceOf(p, raw))
           IN  Reads(p, [my[p] EXCEPT !.proof = bundle, !.proofBundleHash = bundle.hash])

SubmitProofBundle(p) ==
    LET hash == Given(Step(p).hash, my[p].proofBundleHash)
    IN  /\ Does(p, "submitProofBundle")
        /\ Mined(p, [my[p] EXCEPT !.proofBundleHash = hash])
        /\ submitProofBundle(Seller, my[p].task, hash)

-----------------------------------------------------------------------------
(* The verifier server of a script *)

\* buildProofConsumptionKeys.  Of an identifier of the mock, which is a hash of the
\* whole proof, it keeps what two proofs of a script can differ in.
consumptionKeys(p) ==
    LET receipt == my[p].proof.receipts[1]
        response == receipt.responseHash
    IN  {<<"providerProofId", my[p].task, receipt.observedAt, receipt.model>>,
         <<"receiptHash", my[p].task, receipt.observedAt, receipt.model>>,
         <<"responseHash", response.created, response.model, response.totalTokens>>,
         <<"callIntentHash", my[p].task, receipt.callIndex>>}

\* What loadInputs finds: the objects are stored under their hashes.
LoadedInputs(p) ==
    [task |-> [taskId |-> my[p].task, commitmentHash |-> TaskOf(p).commitmentHash,
               buyer |-> TaskOf(p).buyer, seller |-> TaskOf(p).seller, rest |-> "own",
               proofBundleHash |-> TaskOf(p).proofBundleHash,
               fundedAt |-> TaskOf(p).fundedAtMs, deadline |-> TaskOf(p).deadlineMs],
     commitment |-> my[p].commitment, proofBundle |-> my[p].proof,
     keyConsumed |-> consumptionKeys(p) \cap consumed[p] # {},
     bundleConsumed |-> ~Unused(TaskOf(p).proofBundleHash)]

\* The guards of verifyTask in front of the evaluation.
CanSign(p) ==
    /\ InState(TaskOf(p), "PROOF_SUBMITTED")
    /\ TaskOf(p).proofSubmittedAtMs <=
           TaskOf(p).deadlineMs + proofSubmissionGracePeriodMs
    /\ my[p].commitment.verifier = Verifier
    /\ Registry!isVerifier(Verifier)
    /\ CurrentTimeMs <= TaskOf(p).proofSubmittedAtMs + verificationTimeoutMs

reportOf(p, passed, bundleHash, reportHash, signer) ==
    [taskId |-> my[p].task, buyer |-> Buyer, seller |-> Seller,
     commitmentHash |-> TaskOf(p).commitmentHash, proofBundleHash |-> bundleHash,
     passed |-> passed, settlementAction |-> IF passed THEN "RELEASE" ELSE "REFUND",
     settlementAmount |-> TaskOf(p).amount, verifiedAt |-> CurrentTimeMs,
     reportHash |-> reportHash, signer |-> signer]

Passes(evaluation) == evaluation.passed

\* POST /verify, answered with a report that the script can go on with; all of
\* it in one step, since nobody else asks this server.
CallVerifier(p) ==
    /\ Does(p, "callVerifier")
    /\ CanSign(p)
    /\ \E loaded \in {LoadedInputs(p)} : \E evaluation \in {Z!Verified(loaded)} :
           /\ evaluation.kind = "report"
           /\ Passes(evaluation) \in Step(p).passed
           /\ \A check \in Step(p).holding : evaluation.checks[check]
           /\ \A check \in Step(p).failing : ~evaluation.checks[check]
           /\ GoesOn(p, [my[p] EXCEPT
                  !.report = reportOf(p, Passes(evaluation), TaskOf(p).proofBundleHash,
                                      <<"report", my[p].task>>, Verifier)])
           /\ consumed' =
                  [consumed EXCEPT ![p] = @ \cup
                      IF Z!EligibleForConsumption(evaluation.checks)
                      THEN consumptionKeys(p) ELSE {}]
    /\ UNCHANGED vars

\* A report of the script's own making.  Signed for another chain or contract,
\* it does not give back the address of its signer.
SignReport(p) ==
    LET key == IF Step(p).signer = "stranger" THEN Stranger ELSE Verifier
        signer == IF Step(p).ownDomain THEN key ELSE Nobody
    IN  /\ Does(p, "buildSignedSettlementReport")
        /\ Reads(p, [my[p] EXCEPT
               !.report = reportOf(p, Step(p).passed,
                                   Given(Step(p).proofBundleHash, my[p].proofBundleHash),
                                   Step(p).reportHash, signer)])

Settle(p) ==
    /\ Does(p, "settle")
    /\ Mined(p, my[p])
    /\ settle(my[p].report)

Refund(p) ==
    \/ /\ Does(p, "refundAfterProofSubmissionDeadline")
       /\ Mined(p, my[p])
       /\ refundAfterProofSubmissionDeadline(my[p].task)
    \/ /\ Does(p, "refundAfterVerificationTimeout")
       /\ Mined(p, my[p])
       /\ refundAfterVerificationTimeout(my[p].task)

-----------------------------------------------------------------------------
(* Waiting and asserting *)

\* The times that scripts wait for are a second later than the last moment at
\* which what they wait for is not yet so.
Moment(p, name) == MomentItself(p, name) + 1000

WaitUntil(p) ==
    /\ Does(p, "waitUntil")
    /\ CurrentTimeMs >= Moment(p, Step(p).moment)
    /\ Reads(p, my[p])

\* What the smoke test adds to the clock: the whole timeout, or what is missing
\* at the block that it takes for the latest.
SecondsUntil(p, moment, latest) ==
    IF moment = "verification over" THEN verificationTimeoutMs \div 1000 + 1
    ELSE Moment(p, moment) \div 1000 - latest

\* evm_increaseTime and evm_mine: a block that is so much later than the one
\* before.  Another block may have come since the script looked.
IncreaseTime(p) ==
    /\ Does(p, "increaseTime")
    /\ \E latest \in {my[p].seen, blockTimestamp} :
           LET seconds == SecondsUntil(p, Step(p).moment, latest)
           IN  blockTimestamp' = blockTimestamp + (IF seconds > 0 THEN seconds ELSE 1)
    /\ pc' = [pc EXCEPT ![p] = @ + 1]
    /\ my' = [my EXCEPT ![p].seen = blockTimestamp']
    /\ UNCHANGED <<contractVars, balanceOf, authorizedVerifiers, consumed, odd>>

\* getTask and getTaskStatus of the buyer; the latter has names of its own.
StatusIs(task, status) ==
    CASE status = "EXECUTING" -> task.status = "FUNDED"
      [] status = "EXPIRED" ->
             /\ task.status \in {"INTENT_CREATED", "COMMITMENT_SUBMITTED"}
             /\ CurrentTimeMs > task.deadlineMs
      [] OTHER -> task.status = status

ExpectTaskStatus(p) ==
    /\ Does(p, "expectTaskStatus")
    /\ StatusIs(TaskOf(p), Step(p).status)
    /\ Reads(p, my[p])

ExpectBalances(p) ==
    /\ Does(p, "expectBalances")
    /\ balanceOf[TokenOf[p]][Seller] = S!DEFAULT_AMOUNT
    /\ balanceOf[TokenOf[p]][Settlement] = 0
    /\ Reads(p, my[p])

\* The first check of a call that refuses it; "none" and "another" are no errors
\* that a script expects.
Refusal(p, call) ==
    LET task == TaskOf(p)
        report == my[p].report
        unless(condition, error) == IF condition THEN "none" ELSE error
    IN  CASE call = "validateCommitment" ->
               unless(my[p].commitment.target = "openai", "accepted by the buyer")
          [] call = "verifyTask" ->
               unless(InState(task, "PROOF_SUBMITTED"), "PROOF_SUBMITTED")
          [] call = "fundTask" ->
               unless(InState(task, "COMMITMENT_SUBMITTED"), "InvalidTaskState")
          [] call = "submitProofBundle" ->
               unless(InState(task, "FUNDED"), "InvalidTaskState")
          [] call = "refundAfterVerificationTimeout" ->
               unless(InState(task, "PROOF_SUBMITTED"), "InvalidTaskState")
          [] call = "settle" ->
               IF ~InState(task, "PROOF_SUBMITTED") THEN "InvalidTaskState"
               ELSE IF ~Unused(report.proofBundleHash) THEN "ProofBundleAlreadyUsed"
               ELSE IF ~ReportMatches(task, report) THEN "another"
               ELSE unless(Registry!isVerifier(report.signer), "UnauthorizedVerifier")

Rejects(p) ==
    /\ Does(p, "rejects")
    /\ Refusal(p, Step(p).call) = Step(p).error
    /\ Reads(p, my[p])

-----------------------------------------------------------------------------
(* The blocks *)

Transactions ==
    {"addVerifier", "setAllowedToken", "mint", "createTaskIntent", "submitCommitment",
     "fundTask", "submitProofBundle", "settle", "refundAfterProofSubmissionDeadline",
     "refundAfterVerificationTimeout"}

WaitsForBlock(p) ==
    /\ ~Ended(p)
    /\ \/ Step(p).do \in Transactions /\ ~InNewBlock(p)
       \/ Step(p).do = "waitUntil" /\ CurrentTimeMs < Moment(p, Step(p).moment)

NewBlock(seconds) ==
    /\ blockTimestamp' = blockTimestamp + seconds
    /\ UNCHANGED <<contractVars, balanceOf, authorizedVerifiers, pc, my, consumed>>

AllWait ==
    /\ \A p \in Running : Ended(p) \/ WaitsForBlock(p)
    /\ \E p \in Running : ~Ended(p)

RegularBlock == AllWait /\ NewBlock(BlockSeconds) /\ UNCHANGED odd

EarlyBlock ==
    /\ ~odd /\ odd' = TRUE
    /\ \E p \in Running : ~Ended(p)
    /\ NewBlock(EarlySeconds)

LateBlock ==
    /\ ~odd /\ odd' = TRUE
    /\ AllWait
    /\ NewBlock(LateSeconds)

-----------------------------------------------------------------------------

ScriptStep(p) ==
    \/ AskVerifier(p) \/ AskToken(p) \/ AddVerifier(p) \/ AllowToken(p) \/ Mint(p)
    \/ CreateTaskIntent(p) \/ SubmitCommitment(p) \/ FundTask(p)
    \/ BuildUploadedProof(p) \/ SubmitProofBundle(p)
    \/ CallVerifier(p) \/ SignReport(p) \/ Settle(p) \/ Refund(p)
    \/ WaitUntil(p) \/ IncreaseTime(p)
    \/ ExpectTaskStatus(p) \/ ExpectBalances(p) \/ Rejects(p)

ScriptsNext ==
    \/ \E p \in Running : ScriptStep(p)
    \/ RegularBlock \/ EarlyBlock \/ LateBlock

\* The boundary suite and the loops deploy tokens of their own; deploy.ts deploys
\* one for the smoke test, and allows it.
ScriptsInit ==
    /\ \E occasion \in Occasions :
           /\ pc = [p \in occasion |-> 1]
           /\ my = [p \in occasion |-> Fresh]
           /\ consumed = [p \in occasion |-> {}]
           /\ allowedTokens = {TokenOf[p] : p \in occasion \cap {"smoke"}}
    /\ odd = FALSE
    /\ blockTimestamp = 1 /\ nextSequence = 1
    /\ tasks = [t \in TaskIds |-> EmptySlot]
    /\ usedProofBundleHash = {}
    /\ balanceOf = [token \in Tokens |-> [a \in Holders |-> 0]]
    /\ Registry!RegistryInit

\* The scripts run, and blocks come.
ScriptsSpec ==
    ScriptsInit /\ [][ScriptsNext]_allVars /\ WF_allVars(ScriptsNext)

-----------------------------------------------------------------------------
(* Properties *)

\* Every script runs to its end, wherever one block is early, or late by no more
\* than LateSeconds: the waits fit the windows of ten seconds, no honest task is
\* refused by the registry that all tasks of a script share, and every error is the
\* one the case is about.  Two loops at once do not stand in each other's way on
\* the chain.
ScriptsRunThrough == <>(\A p \in Running : Ended(p))

\* What is paid out, and what stays in the contract, when a script has ended: of
\* the boundary suite the happy, late, replayed and settled tasks are paid, and
\* five tasks stay open, the second one of the replay, those with the three bad
\* signatures and the one without a proof.
Paid(p) ==
    CASE p = "boundaries" -> S!DEFAULT_AMOUNT + 130000 + 180000 + 198000
      [] OTHER -> S!DEFAULT_AMOUNT

Kept(p) ==
    CASE p = "boundaries" -> 181000 + 190000 + 191000 + 192000 + 197000
      [] OTHER -> 0

Minted(p) ==
    CASE p = "boundaries" -> S!INITIAL_BALANCE
      [] p = "smoke" -> S!SMOKE_BALANCE
      [] OTHER -> S!DEFAULT_MINT_AMOUNT

\* The cases look at the status of their task only.  The money agrees with what
\* they are about: the seller has what the passing reports release and nothing
\* else, the contract has the tasks that a refused call left open, and the buyer
\* has all the rest back.
MoneyAgreesWithCases ==
    \A p \in Running : Ended(p) =>
        LET ledger == balanceOf[TokenOf[p]]
        IN  /\ ledger[Seller] = Paid(p)
            /\ ledger[Settlement] = Kept(p)
            /\ ledger[Buyer] = Minted(p) - Paid(p) - Kept(p)

=============================================================================
