-------------------------- MODULE EndToEndScripts --------------------------
(***************************************************************************)
(* The scripts of packages/contracts/scripts that drive the whole system   *)
(* on a live chain: the boundary suite, the mock and the Reclaim loop, and *)
(* the smoke test.  Contract, buyer, seller, adapter and verifier service  *)
(* are put together as the scripts do, with windows of ten seconds and     *)
(* blocks that come every few seconds.                                     *)
(*                                                                         *)
(* A script is a sequence of steps, built by operators with the names of   *)
(* its functions; ScriptRuns has the meaning of a step.  A step that does  *)
(* not go as its script expects is one that the script never gets past.    *)
(***************************************************************************)
EXTENDS Naturals, Sequences

MINUTE == 60000

DEFAULT_AMOUNT == 1000000
DEFAULT_MINT_AMOUNT == 10000000
INITIAL_BALANCE == 50000000
SMOKE_BALANCE == 5000000
SHORT_DEADLINE_OFFSET_MS == 45000

\* bytes32FromSeed, and every other hash of a text in a script.
Seed(text) == <<"seed", text>>

\* What a step is given: nothing, or one value.
Nothing == {}
Just(value) == {value}

-----------------------------------------------------------------------------
(* The calls that scripts are made of *)

addVerifier == <<[do |-> "addVerifier"]>>
setAllowedToken == <<[do |-> "setAllowedToken"]>>
mint(amount) == <<[do |-> "mint", amount |-> amount]>>

createTaskIntent(amount, offsetMs) ==
    <<[do |-> "createTaskIntent", amount |-> amount, offsetMs |-> offsetMs]>>

submitCommitment(host, minTokens) ==
    <<[do |-> "submitCommitment", host |-> host, minTokens |-> minTokens,
       hash |-> Nothing]>>

submitCommitmentHash(seed) ==
    <<[do |-> "submitCommitment", host |-> "openai", minTokens |-> 0,
       hash |-> Just(Seed(seed))]>>

fundTask(acceptedHosts, minTokens) ==
    <<[do |-> "fundTask", validates |-> TRUE, acceptedHosts |-> acceptedHosts,
       minTotalTokens |-> minTokens]>>

fundTaskUnvalidated == <<[do |-> "fundTask", validates |-> FALSE]>>

\* The proof of the work for the script's task: made, stored and put into a bundle.
buildUploadedProof(scenario, minTokens) ==
    <<[do |-> "buildUploadedProof", scenario |-> scenario,
       commitmentMinTokens |-> minTokens]>>

submitProofBundle == <<[do |-> "submitProofBundle", hash |-> Nothing]>>
submitProofBundleHash(seed) ==
    <<[do |-> "submitProofBundle", hash |-> Just(Seed(seed))]>>

\* A request to the verifier: what its report may say, and the checks that the
\* script wants to see hold or fail.
callVerifier(passed, holding, failing) ==
    <<[do |-> "callVerifier", passed |-> passed, holding |-> holding,
       failing |-> failing]>>

buildSignedSettlementReport(passed, signer, ownDomain, hash, seed) ==
    <<[do |-> "buildSignedSettlementReport", passed |-> passed, signer |-> signer,
       ownDomain |-> ownDomain, proofBundleHash |-> hash, reportHash |-> Seed(seed)]>>

settle == <<[do |-> "settle"]>>
refundAfterProofSubmissionDeadline == <<[do |-> "refundAfterProofSubmissionDeadline"]>>
refundAfterVerificationTimeout == <<[do |-> "refundAfterVerificationTimeout"]>>

\* waitUntilOnChainMs, and increaseTimeSeconds of the smoke test.
waitUntil(moment) == <<[do |-> "waitUntil", moment |-> moment]>>
increaseTime(moment) == <<[do |-> "increaseTime", moment |-> moment]>>

\* Assertions: the status of the task, the balances, or the error of a call.
expectTaskStatus(status) == <<[do |-> "expectTaskStatus", status |-> status]>>
expectBalances == <<[do |-> "expectBalances"]>>
rejects(call, error) == <<[do |-> "rejects", call |-> call, error |-> error]>>

ensureVerifierAuthorized == <<[do |-> "isVerifier"]>> \o addVerifier
allowMockToken == <<[do |-> "allowedTokens"]>> \o setAllowedToken

-----------------------------------------------------------------------------
(* The boundary suite: e2e-mock-boundaries-testnet.ts *)

createCommittedTaskOf(amount, offsetMs, host, minTokens) ==
    createTaskIntent(amount, offsetMs) \o submitCommitment(host, minTokens)

createCommittedTask(amount, offsetMs) ==
    createCommittedTaskOf(amount, offsetMs, "openai", 100)

createCommittedFundedTask(amount, offsetMs, minTokens) ==
    createCommittedTaskOf(amount, offsetMs, "openai", minTokens)
    \o fundTask({"openai"}, minTokens)

createProofSubmittedTask(amount, minTokens, scenario) ==
    createCommittedFundedTask(amount, MINUTE, minTokens)
    \o buildUploadedProof(scenario, minTokens) \o submitProofBundle

verifyAndSettle(passed, holding, failing) == callVerifier(passed, holding, failing) \o settle

deployLiveBoundaryEnvironment == addVerifier \o setAllowedToken \o mint(INITIAL_BALANCE)

caseHappyPathRelease ==
    createProofSubmittedTask(DEFAULT_AMOUNT, 100, "pass")
    \o verifyAndSettle({TRUE}, {"withinTaskWindow", "modelMatched", "usageSatisfied"}, {})
    \o expectTaskStatus("SETTLED")

caseModelMismatchRefund ==
    createProofSubmittedTask(110000, 100, "model_mismatch")
    \o verifyAndSettle({FALSE}, {}, {"modelMatched"}) \o expectTaskStatus("REFUNDED")

caseUsageInsufficientRefund ==
    createProofSubmittedTask(120000, 500, "usage_insufficient")
    \o verifyAndSettle({FALSE}, {}, {"usageSatisfied"}) \o expectTaskStatus("REFUNDED")

caseLateProofWithinGrace ==
    createCommittedFundedTask(130000, SHORT_DEADLINE_OFFSET_MS, 100)
    \o buildUploadedProof("pass", 100)
    \o waitUntil("deadline passed") \o submitProofBundle
    \o verifyAndSettle({TRUE}, {"withinTaskWindow"}, {}) \o expectTaskStatus("SETTLED")

caseObservedBeforeFundedRefund ==
    createProofSubmittedTask(140000, 100, "timestamp_before_funded")
    \o verifyAndSettle({FALSE}, {}, {"withinTaskWindow"}) \o expectTaskStatus("REFUNDED")

caseRefundAfterProofSubmissionDeadline ==
    createCommittedFundedTask(150000, SHORT_DEADLINE_OFFSET_MS, 100)
    \o waitUntil("grace period over") \o refundAfterProofSubmissionDeadline
    \o expectTaskStatus("REFUNDED")

caseRefundAfterVerificationTimeout ==
    createProofSubmittedTask(160000, 100, "pass")
    \o waitUntil("verification over") \o refundAfterVerificationTimeout
    \o expectTaskStatus("REFUNDED")

caseDerivedExpired ==
    createCommittedTask(170000, SHORT_DEADLINE_OFFSET_MS)
    \o waitUntil("deadline passed")
    \o expectTaskStatus("EXPIRED") \o expectTaskStatus("COMMITMENT_SUBMITTED")

\* The second task is given the bundle of the first, which settle refuses.
caseReplayProtection ==
    createProofSubmittedTask(180000, 100, "pass") \o verifyAndSettle({TRUE}, {}, {})
    \o createCommittedFundedTask(181000, MINUTE, 100) \o submitProofBundle
    \o buildSignedSettlementReport(FALSE, "verifier", TRUE, Nothing, "replay-protection")
    \o rejects("settle", "ProofBundleAlreadyUsed")

caseInvalidVerifierSignature ==
    createProofSubmittedTask(190000, 100, "pass")
    \o buildSignedSettlementReport(TRUE, "stranger", TRUE, Nothing, "bad-verifier")
    \o rejects("settle", "UnauthorizedVerifier")

caseWrongChainIdDomain ==
    createProofSubmittedTask(191000, 100, "pass")
    \o buildSignedSettlementReport(TRUE, "verifier", FALSE, Nothing, "wrong-chain-id")
    \o rejects("settle", "UnauthorizedVerifier")

caseWrongVerifyingContractDomain ==
    createProofSubmittedTask(192000, 100, "pass")
    \o buildSignedSettlementReport(FALSE, "verifier", FALSE, Nothing, "wrong-contract")
    \o rejects("settle", "UnauthorizedVerifier")

caseBuyerCommitmentHostValidation ==
    createCommittedTaskOf(193000, MINUTE, "evil", 100)
    \o rejects("validateCommitment", "accepted by the buyer")
    \o expectTaskStatus("COMMITMENT_SUBMITTED")

caseRejectIntentToFunded ==
    createTaskIntent(194000, MINUTE) \o rejects("fundTask", "InvalidTaskState")

caseRejectIntentToProofSubmitted ==
    createTaskIntent(195000, MINUTE) \o rejects("submitProofBundle", "InvalidTaskState")

caseRejectCommitmentToProofSubmitted ==
    createCommittedTask(196000, MINUTE) \o rejects("submitProofBundle", "InvalidTaskState")

caseRejectFundedToSettled ==
    createCommittedFundedTask(197000, MINUTE, 100)
    \o buildSignedSettlementReport(TRUE, "verifier", TRUE,
           Just(Seed("funded-to-settled-proof")), "funded-to-settled")
    \o rejects("settle", "InvalidTaskState")

caseRejectTerminalTransitionsAfterSettled ==
    createProofSubmittedTask(198000, 100, "pass") \o verifyAndSettle(BOOLEAN, {}, {})
    \o rejects("refundAfterVerificationTimeout", "InvalidTaskState")

caseRejectTerminalTransitionsAfterRefunded ==
    createProofSubmittedTask(199000, 100, "model_mismatch")
    \o verifyAndSettle(BOOLEAN, {}, {}) \o expectTaskStatus("REFUNDED")
    \o rejects("refundAfterVerificationTimeout", "InvalidTaskState")

BoundarySuite ==
    deployLiveBoundaryEnvironment
    \o caseHappyPathRelease \o caseModelMismatchRefund \o caseUsageInsufficientRefund
    \o caseLateProofWithinGrace \o caseObservedBeforeFundedRefund
    \o caseRefundAfterProofSubmissionDeadline \o caseRefundAfterVerificationTimeout
    \o caseDerivedExpired \o caseReplayProtection \o caseInvalidVerifierSignature
    \o caseWrongChainIdDomain \o caseWrongVerifyingContractDomain
    \o caseBuyerCommitmentHostValidation \o caseRejectIntentToFunded
    \o caseRejectIntentToProofSubmitted \o caseRejectCommitmentToProofSubmitted
    \o caseRejectFundedToSettled \o caseRejectTerminalTransitionsAfterSettled
    \o caseRejectTerminalTransitionsAfterRefunded

-----------------------------------------------------------------------------
(* The loops: e2e-mock-testnet.ts and e2e-reclaim-testnet.ts *)

\* One task from its intent to its payment.  The commitment asks for minTokens;
\* early is what the mock loop tries before there is a proof.
Loop(minTokens, early, checks) ==
    ensureVerifierAuthorized \o allowMockToken \o mint(DEFAULT_MINT_AMOUNT)
    \o createTaskIntent(DEFAULT_AMOUNT, 60 * MINUTE) \o expectTaskStatus("INTENT_CREATED")
    \o submitCommitment("openai", minTokens) \o expectTaskStatus("COMMITMENT_SUBMITTED")
    \o fundTask({"openai"}, minTokens) \o expectTaskStatus("FUNDED")
    \o expectTaskStatus("EXECUTING") \o early
    \o buildUploadedProof("pass", minTokens) \o submitProofBundle
    \o expectTaskStatus("PROOF_SUBMITTED")
    \o callVerifier({TRUE}, checks, {}) \o settle \o expectTaskStatus("SETTLED")
    \o expectBalances

MockLoop ==
    Loop(100, rejects("verifyTask", "PROOF_SUBMITTED"),
         {"callIndicesUnique", "withinTaskWindow", "modelMatched", "usageSatisfied"})

ReclaimLoop == Loop(1, <<>>, {})

-----------------------------------------------------------------------------
(* The smoke test: smoke-local.ts, on the deployment of deploy.ts *)

createFundedTask(salt) ==
    createTaskIntent(DEFAULT_AMOUNT, 60 * MINUTE)
    \o submitCommitmentHash(salt) \o fundTaskUnvalidated

passFlow ==
    createFundedTask("smoke/default/commitment")
    \o submitProofBundleHash("smoke/pass/proof-bundle")
    \o buildSignedSettlementReport(TRUE, "verifier", TRUE,
           Just(Seed("smoke/pass/proof-bundle")), "smoke/pass/report")
    \o settle

failFlow ==
    createFundedTask("smoke/fail/commitment")
    \o submitProofBundleHash("smoke/fail/proof-bundle")
    \o buildSignedSettlementReport(FALSE, "verifier", TRUE,
           Just(Seed("smoke/fail/proof-bundle")), "smoke/fail/report")
    \o settle

verificationTimeoutFlow ==
    createFundedTask("smoke/timeout/commitment")
    \o submitProofBundleHash("smoke/timeout/proof-bundle")
    \o increaseTime("verification over") \o refundAfterVerificationTimeout

lateProofFlow ==
    createFundedTask("smoke/late-proof/commitment")
    \o increaseTime("grace period over") \o refundAfterProofSubmissionDeadline

SmokeTest ==
    ensureVerifierAuthorized \o allowMockToken \o mint(SMOKE_BALANCE)
    \o passFlow \o failFlow \o verificationTimeoutFlow \o lateProofFlow

=============================================================================
