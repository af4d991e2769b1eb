# TyrPay: specification, model checking and proofs

TyrPay pays AI agents for work that a third party verified.  A buyer posts a
task, a seller commits to how it will be done, the buyer escrows the price in a
contract, the seller calls model APIs through zkTLS and submits a bundle of
receipts, a verifier service checks the bundle and signs a report, and the
contract pays the seller or refunds the buyer as the report says.  Timeouts
refund the buyer when the seller or the verifier stays silent.

This directory holds TLA+ modules translated from the source, TLC
configurations that check them on small instances, and TLAPS proofs for every
value of the constants.

## 1. Inventory of the system

| Component | State it keeps | Operations | Talks to |
|---|---|---|---|
| `TyrPaySettlement.sol` | task slots, sequence number, used bundle hashes, token list, token balances | create, commit, fund, submit proof, settle, two timeout refunds, token list | registry (call), ERC-20 tokens (calls) |
| `VerifierRegistry.sol` | set of verifier addresses | add, remove, query | read by the contract and the verifier |
| `verifier-service` | registry of consumed proofs (memory or database), the clock, requests in flight | `verifyTask`: load, evaluate, sign, store, reserve, settle | storage, zkTLS adapters, contract, HTTP clients |
| `verifier-client` | none | `verifyTask` over HTTP with a timeout | verifier service |
| `buyer-sdk`, `buyer-skill` | a list of posted tasks (skill) | post, validate commitment, fund, status, report, refunds | contract, storage |
| `seller-sdk`, `seller-skill` | receipts collected so far | accept, proven fetch, build and upload the bundle, submit its hash, trigger verification | contract, storage, zkTLS adapters, verifier |
| `storage-adapter` | content-addressed objects (memory, local files, 0G) | put, get with hash check | all clients |
| `zktls-adapter`, 0G | none between two calls; within one, the endpoint it resolved and the answer | discover endpoints, prepare a request, proven fetch, verify, normalise a receipt | 0G broker, endpoints of providers |
| `zktls-adapter`, Reclaim | one promise of the module: the patched TLS packages | proven fetch, verify, normalise a receipt | Reclaim's zkFetch and js-sdk |
| `zktls-adapter`, mock | none | proven fetch of a scenario | tests and scripts |
| `sdk-core` | none | canonical JSON, hashes, EIP-712, object assertions | all |
| `MockERC20.sol` | balances | mint | scripts |
| end-to-end scripts of `contracts/scripts` | wallets, one token, one adapter and one verifier server each | 19 boundary cases over twenty tasks, two loops, a smoke test | everything above |
| `agent-kit`, `web`, stubs, examples | none of the protocol | wrappers and user interface | SDKs |

What is hard here:

* **Several actors race on one task.** Buyer, seller, verifier, registry owner,
  token owner and any third party call the contract in any order, and a late
  report races the timeout refund.
* **Boundaries.** Three windows are decided by comparisons in milliseconds, on
  additions that may overflow.
* **Replay.** One bundle hash may be submitted for several tasks, and one
  receipt may appear in several bundles.
* **A verification is a long chain of awaits** (storage, attestor, chain,
  database, transaction), any of which may fail, and the service may restart
  between two of them.
* **Clients read the chain and the store with several calls** and act on what
  they read earlier.
* **An adapter awaits a broker, a probe and an answer**, and the provider may
  have moved, gone down or loaded another model in between.  Native proofs come
  in several shapes, and making and verifying one must read them alike.
* **Live tests run against a clock they do not own**: windows of ten seconds
  and blocks that come early or late.

What makes each component correct:

* contract: it owns exactly what it owes; it pays each task once, to one of the
  two parties; a bundle pays by report once; terms do not change under a party;
  every funded task ends;
* verifier service: a proof belongs to one task and bundle; a report is signed
  only after all checks; an outage never becomes a verdict (it does with the
  adapter of the server, see 11); a stored report exists for every reservation;
* clients: money moves only on a commitment that was validated; a status shown
  to a user is one the task had; receipts of one task never enter another's
  bundle;
* storage: what is read under a hash has that hash;
* adapters: a request goes where the configuration lets it go, a proof says what
  was asked of whom, and a proof that was made can be verified;
* scripts: each runs to its end whenever the blocks come, and the money agrees
  with what its cases say.

## 2. Plan

| Order | Module | About | State |
|---|---|---|---|
| 1 | `VerifierRegistry` | list of verifiers | done |
| 1 | `TyrPaySettlement` | the escrow contract, composed with the registry, ERC-20 ledgers and block time | done |
| 1 | `EscrowPromise` | abstract specification of the contract | done |
| 1 | `TyrPaySettlement_proofs` | type, replay, history, exits, terms, refinement; solvency of the contract, and the books of every account | done |
| 1 | `FiniteSums` | what sums over finite sets do when one value changes, grows or moves | done |
| 2 | `VerificationChecks` | the checks of the verifier on one bundle | done |
| 2 | `VerificationChecks_proofs` | a release stands for genuine work; usage is proven; honest work is paid; the scenarios of the mock | done |
| 2 | `ConsumptionRegistry`, `KeyOwnership` | memory and database registries, and the abstract one-owner promise | done |
| 2 | `VerifierService` | `verifyTask` with concurrent requests, failures and restarts, composed with the contract | done |
| 2 | `VerifierService_proofs` | the properties of the service from two inductive invariants | done |
| 3 | `BuyerClient` | the buyer's tools, composed with the contract | done |
| 3 | `BuyerClient_proofs` | money is locked on accepted terms only; a status told is current | done |
| 3 | `ObjectStorage` | put and get of the three storage adapters, with writes in place that stop half way | done |
| 3 | `SellerAgent` | the seller's tools: commitment, execution, receipts, bundle and submission as separately failing steps, composed with the contract and the store | done |
| 3 | `SellerAgent_proofs` | bundles fit their tasks, what is published can be loaded, work follows funding | done |
| 4 | `JsonValues`, `CanonicalJson`, `ZkTlsCore` | JSON values, what canonical JSON takes, and what the adapters share | done |
| 4 | `ZeroGTeeTls`, `ReclaimZkTls` | the two adapters for real providers, composed in `ZkTlsAdapters` | done |
| 4 | `ZkTlsAdapters_proofs` | whom the adapters ask, what their proofs say, and that they verify | done |
| 4 | `MockZkTls` | the mock adapter, composed with the checks of the verifier | done |
| 5 | `EndToEndScripts`, `ScriptRuns` | the end-to-end scripts on one deployment, composed from the contract, the checks and the mock adapter; liveness of honest tasks | done |
| 6 | `BuyerProtection` | `BuyerClient`, `VerifierService` and `VerificationChecks` as one system, with any seller | done |
| 6 | `BuyerProtection_proofs` | what is paid was ordered, proven and enough; no proof is paid for twice | done |
| 7 | the same with `SellerAgent` as a third process | an honest seller is paid | left, see 12 |

The theorems that the plan named are proved.

## 3. The contract: modules and correspondence

`TyrPaySettlement` has one action per external function, with the function's
name.  The guard of an action is the conjunction of the checks that would
revert the call, its primed variables are the storage writes.  A call is
atomic, as an Ethereum transaction is; a call that reverts is a stuttering
step.

| Solidity | TLA+ |
|---|---|
| `block.timestamp`, `_currentTimeMs()` | `blockTimestamp`, `CurrentTimeMs` (seconds times `MsPerSecond`) |
| `tasks[taskId]` | `tasks[t]`; the sequence number stands for the hash it is part of; `EmptySlot` is zeroed storage, so an unknown task is one whose buyer is `NoAddress` |
| `usedProofBundleHash`, `allowedTokens` | the sets of keys mapped to true |
| `task.deadlineMs + proofSubmissionGracePeriodMs` | guarded by `AddFits`, the overflow check of Solidity 0.8 |
| `ECDSA.recover` of a report | the field `signer`; `SignedReports` is the set of reports that some key signed |
| `safeTransfer`, `safeTransferFrom` | `Transfer` on `balanceOf`; it fails when the payer owns too little |
| `IVerifierRegistry.isVerifier` | `Registry!isVerifier` of `VerifierRegistry` |

`settle` takes any report of `SignedReports`: also one whose verdict and action
disagree, one made too late, one for other terms, one by a key that is not
listed, and one that was signed long ago and kept.  So the contract is checked
against every verifier, not only against the service of this repository.

`SettlementAccounting` states who owns what as sums over tasks.
`MCTyrPaySettlement` holds the reports for TLC and the bounds of the run.

The section of deliberately wrong variants in `TyrPaySettlement` (for instance
`ProofTimeoutWithoutGrace`) is used by no specification.  Each shows that one
property fails when one line of the code is wrong.

## 4. The verifier service: modules and correspondence

`VerificationChecks` is the decision on one bundle (`evaluate` and everything
it calls, and the assertions of `sdk-core` that refuse an object before).  Its
operators have the names of the functions.  A hash is represented by the value
it is the hash of: a receipt whose `rawProofHash` fits a raw proof contains that
raw proof, because storage hands out nothing else under the hash.  A raw proof
is valid when its adapter verifies it and finds the evidence in it.  The
properties speak of the raw proofs and not of the receipts, because the seller
writes the receipts.  `MCVerificationChecks` enumerates bundles of up to two
receipts: each is the receipt of an honest or a tampered raw proof, with one
field edited.

`VerifierService` cuts `verifyTask` where it awaits something that others
change:

| Code | TLA+ |
|---|---|
| the HTTP handler calls `verifyTask`, `loadInputs` reads the task | `loadInputs`; the request keeps the slot it read |
| `clock.now()`, `assertVerifierCanSign` | `assertVerifierCanSign`; the time is any of `LocalTimes`, as the service reads a clock of its own |
| the three concurrent awaits of `evaluate` | `findAny`, `isProofBundleConsumed`, `verifyReceiptProofs`, in any order |
| `putReport` | `putReport` |
| `request.markProofsConsumed` of the client | `mark` of the request; with `MustReserve` it decides whether the next two steps come |
| `markConsumed`: the check and the write | `markConsumedCheck`, `markConsumedWrite`, with the two registries of `ConsumptionRegistry` |
| the transaction of `maybeSettle`, or the answer to the client | `maybeSettle`; the report is in `released`, and the contract may see it at any later time |
| a check that throws, an await that rejects | `Fail`, possible at every point |
| the process stops and starts | `Restart`; the memory registry is empty again |

What the checks say is a constant: `LoadableWork`, `EligibleWork` and `PassingWork`
are sets of `Work`, which is what the checks look at, namely the parties, the hashes
and the times of the task as the request read it.  That these are the ones of the task
when the report arrives is therefore a property and no assumption.  Which sets they
are is said in 9.  Tasks are funded at the start: nothing of the service depends on
how they came to be, and the contract's own module covers that.

Everything that the shipped server may do is in the model and nothing of it is
assumed away: a client may ask to reserve nothing; an adapter that is asked
during an outage may report it, and the request fails, or hide it, as the one of
Reclaim does, and a good bundle looks invalid; the registry may be the one in
memory.  What the properties allow in return is recorded where it happens, in
variables that no guard reads:

* `due`: the reports that left and whose proofs were to be reserved, because the
  client did not ask to leave them alone and no proof was found invalid;
* `lost`: the registry has lost a record, by a restart of the memory registry, or
  because two requests went through its check before either wrote.  With the
  database registry it stays false (`DatabaseLosesNothing`).

`ConsumptionRegistry` has the two implementations, `Persistent` chooses.
`KeyOwnership` is what a registry promises: a key is claimed together with all
keys of its bundle, by one owner, for ever.

### The buyer, the service and the contract together

`BuyerProtection` composes `BuyerClient`, `VerifierService` and
`VerificationChecks` on one contract.  They meet in the objects behind the hashes:
the agent judges `Commitments[h]` before it funds, and the service judges
`ProofBundles[h]` by the same commitment.  The constants of the service become what
the checks make of these objects (`InputOf`, `LoadableWork`, `EligibleWork`,
`PassingWork`, `KeysAndRepetition`), so nothing is assumed of them but what storage
guarantees (`ObjectsAssumption`).

| Step | By |
|---|---|
| `CallStep` of `BuyerClient` | the buyer's agent |
| `RequestStep`, `Restart` of `VerifierService` | the service |
| `OutsideStep` | a seller without rules, anybody who asks for a refund, the registry, the clock; and `settle` with a report that left the service |

Reports of another authorized key are left out: no check of a buyer can help
against a verifier that lies, and the contract's own module looks at any report.

## 5. The buyer: module and correspondence

`BuyerClient` is the tools of `buyer-skill` over `buyer-sdk`, as concurrent
calls composed with the contract.  `createTaskIntent` and `fundTask` are cut
into the sending and the mining of a transaction (`postTask` and `taskCreated`,
`validateCommitment` and `taskFunded`); a call that fails in between leaves its
transaction under way (`Abandon`).  `checkTask` is the two reads that
`getBuyerTaskStatus` makes side by side, one of which may go on to read the time
(`getTask`, `getTaskStatus`, `currentTimeMs`, `answerCheck`).  The agent uses
only task ids that a tool has returned (`known`).  It may or may not post again
after an error that is marked retryable (`RetriesPosts`).  The commitment object
of a hash is a constant, as the storage adapters compare the hash of what they
load.

`getTaskStatus` can never answer `VERIFIED_PASS` or `VERIFIED_FAIL`: it looks
for a report only in `PROOF_SUBMITTED`, where the slot has no report hash yet
(a part of `LawfulHistory`).  `docs/protocol/state-machine.md` says that the two
are left for later.

## 6. The seller and the store: modules and correspondence

`SellerAgent` is the tools of `seller-skill` over `seller-sdk`, as concurrent
calls composed with the contract and with `ObjectStorage`:

| Code | TLA+ |
|---|---|
| `tyrpay_accept_task`: read the task, `putObject`, the transaction | `acceptTask`, `commitmentStored`, `commitmentSubmitted` |
| `tyrpay_execute_task`: resolve the commitment, the provider, raw proof and receipt to the store | `executeTask`, `provenFetch`, `rawProofStored`, `receiptStored` |
| `tyrpay_submit_proof`: resolve, `buildProofBundle`, `uploadProofBundle`, the transaction | `submitProof`, `bundleStored`, `bundleSubmitted` |
| `tyrpay_check_settlement` | `checkSettlement`, for the answer `READY_TO_EXECUTE`, the only one that the agent acts on |
| a check that throws, an await that rejects | `Fail`, possible at every point |
| the wait for a transaction fails, the transaction does not | `Abandon`; it may be mined later or never |

`tyrpay_execute_task` looks at no status, so `executeTask` has no guard for it: an
agent may work on a task that nobody has paid for.  What the code offers against
this is the answer `READY_TO_EXECUTE`; the variables `ready` and `prompted`, which
no guard reads, keep the tasks that it was given for and the receipts of the calls
that were made after it.

The agent passes what tools have returned to it: commitments (`accepted`) and
receipts (`captured`), in any order and number, of any task.  It may also pass
only the id of a task, and the tools read its commitment from the chain and load
it from the store (`loadCommitmentForTask`).

`ObjectStorage` is a store as a value and what each call makes of it.  An object
stands for its own hash.  `putObject` of `LocalStorageAdapter` opens the file in
place, which empties it, before it writes; `RewritesInPlace` chooses this
adapter.  Two calls may write one file, and one of them may fail.

The assertion on bundles that the seller applies (`distinctCalls`) is the one
that the verifier applies in `VerificationChecks`.

## 7. The zkTLS adapters: modules and correspondence

`JsonValues` has JSON values as tagged tuples, and reading a path.  Two values
are equal when their canonical text is, so a hash is the tagged value.
`CanonicalJson` has the two recursive descents: which values `canonicalize` takes
(no null, no fraction, nothing undefined), and a value without its nulls.
`ZkTlsCore` is the evidence of requests and answers, the context of a proof and
the receipt made of it.  It has the two descents as constants (`Canonicalizes`,
`Sanitized`), for which the runs take those of `CanonicalJson`: the proofs hold
for any.

`ZeroGTeeTls` cuts a call of `ZeroGTeeTlsAdapter` where it awaits.  What is known
of a call is one record (`NewCall`), whose `pc` says what it waits for; the
candidates that are left to try are positions of the list.

| Code | TLA+ |
|---|---|
| `discoverModelEndpoints`, `prepareOpenAiRequest`, `provenFetch` | actions of these names, which start a call |
| `listService`, `getServiceMetadata` of the broker, and the loop over the candidates | `ListServices`, `GetServiceMetadata`, `NextOf` |
| the probe of an endpoint, and what follows when it fails | `ProbeEndpoint`, `Probed` |
| `assertRequestMatchesResolvedEndpoint` | `Resolves` |
| `getRequestHeaders`, the POST, `processResponse` | `GetRequestHeaders`, `ReceiveAnswer`, `ProcessResponse` or `ConfirmationFails` |
| a provider that changes meanwhile | `ServiceChanges` |

`ReclaimZkTls` has concurrent calls that share one promise
(`reclaimTlsCompatibilityPromise`): the first call makes it
(`ReclaimProvenFetch`), `PatchTlsModule` patches one package at a time and may
fail for good, before or after the names of the package were set, every call
waits for it (`DefaultReclaimClientFactory`).  A package takes a crypto
implementation or not (`takesCrypto`), as the code asks whether it has a setter.
`ZkFetch` is what Reclaim returns, in all the places where the code looks for an
answer, an identifier, a time and a context.  A time is a number or the decimal
digits of one, in seconds or in milliseconds (`ObservedAt`); of a context the five
fields of the binding count and no others (`BindingOf`), in the native proof and
in the envelope.  `ZkTlsAdapters` is an agent that
uses one of the two.

Worth knowing of the code, and part of the model:

* `prepareOpenAiRequest` always falls back to another provider, `provenFetch`
  only when the configuration says so.  Where it may fall back and has nothing
  to fall back on, it uses the endpoint whose probe has failed.
* The 0G adapter accepts a verdict `null` of the broker when it makes a proof,
  but a null has no canonical form, so hashing the proof throws.
* A proof made with a usage path of the caller's own never verifies, because
  `verifyRawProof` does not know the path.  The same holds for the extraction
  profile of the Reclaim adapter where the default order finds another body.
* `decodeChunkedResponse` takes one line of data per chunk.
* The request in a Reclaim envelope is not compared with the native proof, so
  `EnvelopesAreNotMixedUp` does not speak of it.
* `verifyRawProof` looks for the answer in the default order.  A proof that was
  made with the profile `response.body` verifies only if the default order finds
  the same body.  An envelope that does not verify may begin to when a part is
  replaced by another's, so `EnvelopesAreNotMixedUp` is about envelopes that
  verify as they are.
* An answer that was paid for is lost by the 0G adapter where the clock gives no
  time or the address of the signer in the status of the provider is none: both
  are normalized after the answer has come, and the second throws although
  nothing reads the address later.
* An offer leaves out the request path it was made for; an agent that passes
  the offer without the path gets the default path.

## 8. The mock adapter and the scripts: modules and correspondence

`MockZkTls` makes raw proofs in the form of `VerificationChecks`, one scenario
at a time; `MCVerificationChecks` puts them next to the other bundles.

`EndToEndScripts` has each script as a sequence of steps, built by operators
with the names of its functions.  `ScriptRuns` gives each kind of step its
meaning, on the contract of `TyrPaySettlement`, with the checks of
`VerificationChecks` for the verifier server and `MockZkTls` for the adapter.
Each script has a token, an adapter, a server and a registry of consumed proofs
of its own; scripts that run at the same time share the deployment and the
wallets.  A step that does not go as the script expects is never passed, so that
`ScriptsRunThrough` says that every assertion of every script holds.

Blocks come every `BlockSeconds`; a script does in between what needs no block.  One
odd block of a behaviour is early or late.  A transaction is in a later block than any
the script has seen.  The windows of ten seconds are those of the scripts, and
stricter than the fifteen minutes and the hour that `deploy.ts` sets for the smoke
test.  `LateSeconds` is 7, the most that the scripts stand: with a block that is 8
seconds late, the case of the late proof misses the grace period, which the script
does not allow for either.  So `ScriptsRunThrough` says of the waits that they are
long enough for blocks up to 7 seconds late, and no more.  A transaction of a shared
wallet is never refused for its nonce, which two scripts could both use: nonces are
not modelled.

## 9. Runs

| Run | Specification | Shows |
|---|---|---|
| `contract` | `FairSpec`, 2 tasks, 2 parties, 2 hashes, 2 amounts, 2 deadlines of which one is too late, 4 blocks | `TypeOK`, `BundleSpentOnce`, `LawfulHistory`, `ExitOpen`, `Solvent`, `BooksBalance`, `TermsFrozen`, `KeepsPromise`, `EscrowEnds` |
| `checks` | `VerificationChecks`, up to 2 receipts, minimal usage 1 or 3 | `ReleasedWorkIsGenuine`, `UsageIsProven`, `HonestWorkPasses`, `ScenariosFailTheirCheck` |
| `service` | `ServiceSpec` with the database registry, 2 requests that reserve or not, 2 tasks, 2 bundles with a common key, adapters that hide outages or not, 2 blocks | `ServiceTypeOK`, `SignedReportsFit`, `EndsByVerdict`, `ProofsBelongToOneTask`, `EndedTasksOwnTheirProofs`, `ReservationsHaveReports`, `KeepsOwnership` |
| `outage` | 1 request, with the memory registry, as the server runs | `NoFailureForOutage` fails, see 11 |
| `memory` | 1 request, with the memory registry | `ProofsBelongToOneTask` fails, see 11 |
| `buyer` | `BuyerSpec`, 2 calls, 1 job, 4 blocks, a good and a bad commitment | `BuyerTypeOK`, `MoneyFollowsTerms`, `AnswersAreCurrent` |
| `retry` | 1 call, 2 tasks, 2 blocks, an agent that retries | `OneTaskPerJob` fails, see 11 |
| `seller` | `SellerSpec`, 2 calls, 1 task, 2 targets, 2 call indices, 2 raw proofs, 1 bundle, 2 blocks | `BundlesFitTheirTasks`, `WorkFollowsFunding`, `PublishedCanBeLoaded` |
| `rewrite` | 1 task, 3 blocks, with the local adapter | `PublishedIsKept` fails, see 11 |
| `adapters` | `ZkTlsSpec`; 0G: 2 providers, 5 configurations, 2 listings, 1 change of a provider; Reclaim: 2 calls, native proofs with their parts in each place and form, packages with and without crypto | `ZkTlsTypeOK`, `FallbackOnlyWhenAsked`, `OnlyReachableIsAsked`, `OffersCanBeUsed`, `ProofsNameWhatWasAsked`, `HonestAnswersAreProven`, `PatchedBeforeFetch`, `ReclaimProofsVerify`, `EnvelopesAreNotMixedUp` |
| `protection` | `ProtectionSpec`, 1 call, 1 request, 2 jobs, 2 tasks, 3 commitments and bundles, 1 block, the memory registry, requests that reserve or not | `PaidForOrderedWork`, `PaidOnce` |
| `suite` | `ScriptsSpec`, the boundary suite, both loops at once, the smoke test | `MoneyAgreesWithCases`, `ScriptsRunThrough` |

Properties:

* `BundleSpentOnce`: a bundle hash is marked used exactly when a report paid a
  task with it, and it never paid two.
* `LawfulHistory`: money went in before the deadline, the proof came inside the
  grace period, and money went back without a report only after the open window
  had closed.
* `ExitOpen`: a funded task can at every moment either take its proof or be
  refunded, and never both, exactly when its deadline leaves room for the grace
  period in a `uint256`; otherwise it can do neither, for ever.
* `Solvent`: of every token the contract owns exactly the sum of the amounts of
  the open tasks.  `BooksBalance` says the same of every party.
* `TermsFrozen`: no step changes a term a party relied on, nor the time of the
  funding that the window of the work begins with, nor a closed task.
* `EscrowEnds`: a funded task whose deadline leaves that room is eventually settled
  or refunded.
* `KeepsPromise`: the refinement of `EscrowPromise`.
* `ReleasedWorkIsGenuine`: a passing report was made for at least one receipt;
  every raw proof is verified, was made for this task and call, and no proof
  counts twice.  `UsageIsProven` bounds the usage of every report by what
  genuine proofs show.  `HonestWorkPasses` is the other direction.
* `SignedReportsFit`: the contract has nothing to object to in a signed report
  for as long as the task waits for one, although the task was read earlier.
* `EndsByVerdict`: a seller is paid only for a bundle that passes by the terms of the
  task at its end.  The other direction is false of the shipped adapter, see the
  run `outage`.
* `ProofsBelongToOneTask`, `KeepsOwnership`: one owner for each consumption key, among
  the reports that were to reserve (`due`).
* `PaidForOrderedWork`: whatever is paid was ordered of that seller for that
  amount; there are raw proofs, every one of them is valid and was made for this
  very task, by an endpoint and a model the buyer takes, between the funding and
  the deadline; together they show what the buyer asked for at least; and the
  verifier is one the buyer takes.  The terms of the order are in the agent, the
  objects in the store, the money on the chain: the property relates all three.
* `PaidOnce`: two paid tasks share no provider proof, receipt, answer or call, unless
  the registry lost a record or a client asked to leave the proofs of one of the two
  alone (`Waived`).  The contract cannot see this, because it knows hashes of bundles
  only.
* `EndedTasksOwnTheirProofs`, `ReservationsHaveReports`: chain, registry and
  store agree after every failure and restart; the first as long as the registry
  lost nothing and all reports on the task were to reserve.
* `MoneyFollowsTerms`: money is locked only under the order and a commitment
  that meets the expectations, although validation and funding are two steps.
* `BundlesFitTheirTasks`: the bundle on the chain is about the task and the
  commitment there, with every receipt, and no call twice, whatever the agent
  has mixed up and however two calls overlapped.
* `PublishedCanBeLoaded`: the commitment, the bundle and the raw proofs that the
  chain names are in the store after every failure and retry.
* `WorkFollowsFunding`: work that was begun after the answer `READY_TO_EXECUTE` is
  under the commitment on the chain and no older than the payment for it, whatever
  happens between the check, the execution and the answer.
* `AnswersAreCurrent`: a status told to the agent is one the task had between
  the question and the answer, although it is made of two reads of the task and
  one of the time; an expired task was not funded when it was asked for.
* `ScenariosFailTheirCheck`: a bundle of the mock fails the check its scenario
  is made for and no other, so that a test which sees it fail has seen that
  check.
* `FallbackOnlyWhenAsked`, `OnlyReachableIsAsked`: whom the 0G adapter sends a
  request to, over all combinations of the three options.
* `OffersCanBeUsed`: a request for a discovered or prepared endpoint is not
  refused because `provenFetch` resolves another, while no provider changes.
* `ProofsNameWhatWasAsked`: a proof names the provider, the endpoint and the
  model that the request went out with, whatever changed before the answer came.
* `HonestAnswersAreProven`: an answer that was paid for and that the broker has an
  opinion of is lost only where it has no canonical form, the signer's address is
  malformed or the clock gives no time; and where the broker confirms it, with a chat
  id and the model of the metadata or none in the answer, the proof verifies and
  turns into a receipt for its call and no other.  Of answers without a chat id or
  with another model it says nothing; what the code does with them is in 11.
* `PatchedBeforeFetch`: no Reclaim call runs before both packages are patched, with
  crypto where they take it.
* `ReclaimProofsVerify`: `verifyRawProof` accepts what `provenFetch` returns exactly
  when the answer that the default order finds is the one that the profile took.
  `EnvelopesAreNotMixedUp`: a proof that verifies does so with a part of another
  call's proof only if that part is the same.
* `ScriptsRunThrough`: every script reaches its end whenever the odd block comes.
* `MoneyAgreesWithCases`: at its end the seller, the contract and the buyer have
  what the cases say, which look at the status of their own task only.

Bounds of the contract's run, and why they are enough.  Two tasks are the least for
one to spend what belongs to the other, or to reuse its bundle.  Two accounts are
buyer and seller in both roles; one of them is also the owner.  Blocks are at 2, 4, 6
and 8 milliseconds, one deadline is at 3, the grace period lasts 1 and the timeout 2.
The deadline lies between two blocks, and the two boundaries behind it are met from
below, exactly and from above: a proof comes before the deadline, exactly at the end
of the grace period and after it, and a timeout passes at 6 while a report made in
time is still unused.  The other deadline is `MaxUint`, and the grace period does not
fit behind it.  The balance of 2 and amounts up to 2 make a transfer fail for lack of
funds.  The amount 0 and the zero hash and addresses are offered to every call and
refused.  `InBounds` keeps the run small: nobody buys from himself (the contract
allows it, and the theorems include it), and of the two tasks only the second may have
the late deadline and only the first the second commitment.

Bounds of the service's runs.  Two requests are the least that can race for a key, on
one task or on two.  Blocks of 3 ms against a deadline of 4 and periods of 1 ms put
the second block (6) after the deadline and every timeout, so a refund races a report
in flight; the clock reads 4 or 5, in time or not.  Each bundle is work for one of the
two tasks (`MCEligible`); the first passes, the second fails (`SecondVerdict`), in all
three runs, and the proofs of both are to be reserved.  `InBounds` of `service`: two
reports at most, the first task never has the second bundle, and only a request on the
first task may ask to reserve nothing.  `memory` and `outage` have one request, the
registry of the server and no further bound.

Bounds of the buyer's runs.  Two calls are the least for a check to overlap a funding.
The two commitment hashes are an object that fits the order and one that names another
model; four blocks put one before, one at and two after the deadline.  `retry` needs a
second task and no second call.

Bounds of the run of the composition.  Two objects are as ordered, for one task
each, and share a key (the answer); the third commitment is to a model that was not
ordered, and the third bundle is of work older than its payment.  All of them may be
handed in for either task, so each of the agent, the contract and the service has
something to refuse.  One call and one request suffice, since races of two are
the matter of `buyer` and `service`; so are the clock, which has one block here, the
verifier list (`InBounds`), and outages, which only make good bundles fail.  There is
one report on a task at most, and a request on the first task alone may ask to reserve
nothing.  The registry is the one in memory and restarts happen, so that both
exceptions of `PaidOnce` are reached, and both are needed: without either TLC finds
two paid tasks with a common key.  A report reaches the contract in this run only
after it left the service.  The theorems have none of these bounds.

Bounds of the seller's runs.  Two calls are the least for two accepts of a task
to race, and two targets for them to differ.  A receipt that strays to another
task needs two tasks, which the run has not; `BundlesFit` proves the property
for any number of them.  Two raw proofs and two call indices allow
a bundle of two calls and a repeated call.  A second bundle is a second try
after the first has failed.  Two blocks let work be older than the funding: its
time is that of a block.  The agent asks or
does not, and executes when it likes; it passes the nonce of the task
(`PassedNonces`), which the tools do not check.  A receipt with another nonce is
refused by the verifier (`ReleasedWorkIsGenuine`).

Bounds of the run of the adapters.  One of the two providers is listed with its model
and one without, another service of the list is no chatbot, and one change is enough
to put a provider elsewhere between any two awaits.  The configurations are those that
take different branches: no provider named, a provider named with and without
fallback, selection on, off and not said, with and without probes.  The answers have
the usage, the chat id and the model in each place the code looks at, with a null, a
fraction and a blank header.  The adapter keeps nothing between two calls, so calls of
the 0G adapter run one at a time, and TLC stops at the end of a fetch (`InBounds`):
what begins after it also begins without it.  Two Reclaim calls share the promise;
they are interchangeable.  The native proofs have the answer, the identifier, the time
and the context in each of their places, times as numbers and as strings, a context
with a field more than the code looks at, and one of another call.

Bounds of `suite`.  There are none on the scripts: every step of every case
is there, with its amounts and waits.  Bounded are the blocks (3 seconds apart,
one odd block of 1 or 7) and which scripts run at once.

Deadlock is checked in the contract's run.  The other instances stop where the
inputs are decided, or where blocks and tasks are used up.

Fairness.  `FairSpec` assumes that blocks keep coming and that a refund which
stays possible is eventually asked for.  Anybody may call the refund functions,
and the buyer, whom they pay, has a tool for each.  Nothing is assumed of the
seller, the verifiers and the two owners, who may stop for ever.  `ScriptsSpec`
assumes of `suite` that something which can happen eventually does: a script is
a program that runs until it waits, and blocks come while one waits.

## 10. Proofs

`TyrPaySettlement_proofs` proves for every value of the constants, under
`SettlementAssumption` (the addresses are distinct from the zero address and
the contract's, the zero hash is not a hash, amounts and times are naturals,
the two periods are not zero as the constructor demands):

| Theorem | Statement |
|---|---|
| `Invariance` | `Spec => []IInv` |
| `TypeCorrect` | `Spec => []TypeOK` |
| `ReplayProtection` | `Spec => []BundleSpentOnce` |
| `HistoriesLawful` | `Spec => []LawfulHistory` |
| `TermsStayFrozen` | `Spec => TermsFrozen` |
| `FundedTaskHasAnExit` | `Spec => []ExitOpen` |
| `Refinement` | `Spec => KeepsPromise` |

The argument.  `IInv` is `TypeOK`, `SlotsInv` and `BundleSpentOnce`.  `SlotsInv`
says of each slot what its status implies of the other fields (a slot beyond
the sequence number is empty, a funded task has a commitment, a proven one has
a bundle and the reverse, a funding time is not in the future), and contains the parts of
`LawfulHistory`.  It is needed because the properties speak of times and hashes
that are guarded by the status only when they are written.  There is one lemma
per action, and under it one step per conjunct that the action disturbs.

For the modules that compose the contract with somebody, `StepEffect` says once what
any step of it does: the invariant is kept, so are the terms of every task
(`TermsKept`), and a task ends by a report only if such a report was at hand
(`EndedOnlyBy`).

`Refinement` maps `fundTask` to `Lock`, `settle` to `Release` or `Return`, the
two refunds to `Return`, and every other action to a stuttering step.

Of the money, in the same module and under the same assumption:

| Theorem | Statement |
|---|---|
| `Solvency` | `Spec => []Solvent` |
| `BooksAreBalanced` | `Spec => []BooksBalance` |

The argument.  Both properties speak of sums over the tasks of a set: those that
are open, that an account has paid, got back or earned.  The inductive invariant
is `Books`, which is `Solvent` and `BooksBalance` together, on top of `IInv`; it is
kept token by token (`BooksOf`).  A step writes one slot (`BooksStep`), so each total
changes by what that task counts for before and after (`OpenMoves`, `PaidMoves`,
`GotBackMoves`, `EarnedMoves`).  `BooksMove` says that the books stay right if the
balances move by the same amounts, and `BooksFund`, `BooksSettle` and
`BooksRefund` show of the three kinds of transfer that they do.

`FiniteSums` has what is needed of sums, which the library defines as a fold
over a set: the sum over no members, over one member more or less, over values
that agree, that are smaller or that are carried over by an injection.
Induction over a finite set takes an operator as its parameter, which the provers
cannot instantiate.  The facts are proved from a smallest counterexample instead: if
a statement fails for some finite set, it fails for one that has no smaller such
set in it (`SmallestSubset`; strict inclusion of finite sets is well-founded), and
taking one member away contradicts that.

`VerificationChecks_proofs`, for bundles of any length, written in any way, under
`InputsAssumption` (storage has compared the two hashes; a bundle has finitely many
receipts; a raw proof that evidence is read out of shows a natural number of
tokens):

| Theorem | Statement | Further assumption |
|---|---|---|
| `ReleasesAreGenuine` | `Spec => []ReleasedWorkIsGenuine` | |
| `UsageStaysProven` | `Spec => []UsageIsProven` | |
| `HonestSellersArePaid` | `Spec => []HonestWorkPasses` | |
| `ScenariosTestTheirCheck` | `Spec => []ScenariosFailTheirCheck` | bundles of the mock were made for their task (`MadeByMock`) |

The outcome is pending or the value of `Verified`; a passing report has every
check true for every receipt; and two receipts for one raw proof would have the
call intent, hence the call index, in common, which the bundle assertion
refuses.  The same makes `RawProof` an injection from the receipts that count to
the genuine proofs, and a sum does not grow along an injection into a larger set:
that is `UsageStaysProven`.  For `HonestSellersArePaid` every check is shown of an
honest receipt, and the usage that counts is then the claim of the bundle.

`ScenariosTestTheirCheck` is about tests: a bundle with a proof of the mock is one
whose input named the task, its endpoint and its terms, and left alone what the
scenario is about (`MeantFor`).  `MCVerificationChecks` has this as an assumption,
which TLC evaluates on the bundles of the run.  `ScenarioTime`, `ScenarioModel` and
`ScenarioTokens` say that the time, the model and the tokens are right for the task
exactly when the scenario is not about them, for every window and every minimum.

`VerifierService_proofs`, for any number of requests, tasks, bundles and keys,
under `SettlementAssumption` and `ServiceAssumption`:

| Theorem | Statement | Further assumption |
|---|---|---|
| `ServiceInvariance` | `ServiceSpec => []ServiceInv` | |
| `ServiceTypes` | `ServiceSpec => []ServiceTypeOK` | |
| `ReservationsCanBeSettled` | `ServiceSpec => []ReservationsHaveReports` | |
| `ReportsStayValid` | `ServiceSpec => []SignedReportsFit` | deadlines leave room for both periods |
| `TasksEndByVerdict` | `ServiceSpec => []EndsByVerdict` | |
| `OwnershipIsKept` | `ServiceSpec => KeepsOwnership` | database registry |
| `OwnersInvariance` | `ServiceSpec => []OwnersInv` | |
| `ProofsHaveOneTask` | `ServiceSpec => [](lost \/ ProofsBelongToOneTask)` | |
| `DatabaseLosesNothing` | `ServiceSpec => [](~lost /\ ProofsBelongToOneTask)` | database registry |
| `EndedTasksHoldTheirProofs` | `ServiceSpec => []EndedTasksOwnTheirProofs` | |

But for the two about the database they hold of the server as it is shipped: with a
registry in memory, an adapter that
hides outages and clients that choose whether to reserve.  The registry in memory
may lose a record, and the run `memory` shows that it does; the theorems say what
follows as long as it has not, and that the database never does.

The argument.  `ServiceInv` adds to the contract's `IInv` what is known of a
request in flight (`SameTerms`: the slot it read still tells the terms of the
task; its verdict is one that the adapters may give; from `stored` on its report
is in the store), of a stored report (`Fits`, `Truthful`) and of a task that a
report ended (`EndedBy`: such a report left the service).  The contract keeps
`SameTerms` because a task with a proof never changes its terms.  `OwnersInv` is
the second invariant: unless the registry lost a record, whoever has passed the
reservation, and every report in `due`, holds all keys of its bundle.  It is kept
because a write that overwrites a key is recorded in `lost`, so that records only
grow while it is false (`RegistryGrows`).  An outage that an adapter hides makes a
good bundle fail and never a bad one pass, so a passing report tells the truth with
any adapter; this is why `TasksEndByVerdict` needs no assumption about outages,
and why it speaks of tasks that were paid only.

`BuyerClient_proofs`, for any number of calls, jobs and tasks, under
`SettlementAssumption` and `BuyerAssumption` (an order has at least one effective
expectation, as the tools demand):

| Theorem | Statement |
|---|---|
| `BuyerTypes` | `BuyerSpec => []BuyerTypeOK` |
| `MoneyOnAcceptedTerms` | `BuyerSpec => []MoneyFollowsTerms` |
| `StatusesAreCurrent` | `BuyerSpec => []AnswersAreCurrent` |

The argument.  `BuyerInv` adds to `IInv` that a created task has the terms of its
order, and that a call which has sent the funding (`fundTask`) works on a slot
that still passes the validation (`Accepted`).  The contract never changes a
commitment or a term (`TermsKeptByStep`), so what was validated is what is
funded; a contract that let the seller commit again would break this.
`StatusInv` is a second invariant, on top of `BuyerInv`.  A slot that a check has
read lies, by the stage its task has reached, between the slot when it was asked
for and the slot on the chain, since no contract step lowers a stage and a stage
is what commitment, funding, proof and end of the slot say together.  An answer
`EXPIRED` is derived: the task was not funded when asked for, and a deadline that
has passed at the read of the time has passed at the answer too.
`VERIFIED` never occurs, because a slot with a report is closed.

`BuyerProtection_proofs`, for any sellers, commitments, bundles, adapters, and any
number of tasks, jobs, calls and requests at the same time, with failures, restarts
and outages, under the assumptions of the contract and the buyer,
`ObjectsAssumption` (storage hands out an object under its hash only; a bundle has
finitely many receipts; a raw proof that evidence is read out of shows a natural
number of tokens) and `ProtectionAssumption` (types of the constants):

| Theorem | Statement | Further assumption |
|---|---|---|
| `ProtectionInvariance` | `ProtectionSpec => []ProtectionInv` | |
| `ProtectionOwners` | `ProtectionSpec => []OwnersInv` of the service | |
| `PaymentsAreForOrderedWork` | `ProtectionSpec => []PaidForOrderedWork` | |
| `NoProofIsPaidTwice` | `ProtectionSpec => []PaidOnce` | |

The argument.  `ProtectionInv` is `BuyerInv` and `ServiceInv`, no more: each was
proved with an environment that may do anything the contract allows, so a step of
one is a step of the environment of the other.  `ContractSteps` says so of the
service (whatever happens on the chain with its own reports), `BuyerFrame` and
`OtherStepKeeps` of the buyer.  The lemmas about the service and the checks are those
of their modules, instantiated (`VP`, `CP`); `ServiceFits` and `ChecksFit` prove the
assumptions of those modules for the constants that the composition gives them, so
that what `VerifierService` assumes of its sets of work is a theorem here.

`PaymentsAreForOrderedWork` chains them.  A settled task has a passing report of the
service (`SettledByReport`), which tells the truth about the work that the slot now
describes; work that passes is genuine and enough for its commitment (`PassingShows`,
from `PassedIsGenuine` and `PassedUsage` of the checks); the commitment is one that
the agent accepted before it paid (`BuyerInv`), and meets the expectations of the
order.  Nothing of the reports that fail or never come is needed, so it holds with
adapters that hide outages.  `NoProofIsPaidTwice` adds `OwnersInv`: unless a record was
lost, the passing report of each of the two tasks, if its client did not waive the
reservation, holds all of its keys, and a key has one record.

`SellerAgent_proofs`, for any number of calls and tasks, any targets, nonces
and indices and bundles of any length, under `SettlementAssumption`,
`SellerAssumption` and `ObjectsAreNamed` (a `bytes32` names every commitment and
bundle):

| Theorem | Statement | Further assumption |
|---|---|---|
| `SellerInvariance` | `SellerSpec => []SellerInv` | |
| `SellerTypesKept` | `SellerSpec => []SellerTypeOK` | |
| `BundlesFit` | `SellerSpec => []BundlesFitTheirTasks` | |
| `PaidBeforeWork` | `SellerSpec => []WorkFollowsFunding` | |
| `PublishedStays` | `SellerSpec => []PublishedCanBeLoaded` | the store does not rewrite in place |

The argument.  `SellerInv` says what a commitment, a receipt and a bundle satisfy
wherever they are: on the chain (`SlotFits`), in a call under way (`CallFits`)
or in the agent's hands.  A receipt that a tool returned was made under the
commitment on the chain (`Chosen`), which the contract never replaces, by its
target; a bundle that passed `buildProofBundle` keeps this
until it is submitted (`GoodBundle`), because the slot it was built from keeps
its terms.  `Kept` is the part about the store: what was put stays, unless the
store rewrites.  The three parts are inductive only together, since the bundle
on the chain is about receipts that a tool made earlier.  `PaidBeforeWork` is
about tasks in `ready`: they are funded and stay so or go on, since a funded task
never returns to an earlier stage, so a call that was made for one (`PaidCall`) and
its receipt (`PaidWork`) come after the payment.

`ZkTlsAdapters_proofs`, for any providers, configurations, lists of services, inputs,
answers and changes, any number of Reclaim calls at once, native proofs with their
parts in any of the modelled places, and whatever `canonicalize` and the removal of
nulls do (`ZeroGAssumption`, `ReclaimAssumption`: the constants have the types of the
interfaces; `CanonicalAssumption`: a string has a canonical form):

| Theorem | Statement |
|---|---|
| `ZkTlsTypeCorrect` | `ZkTlsSpec => []ZkTlsTypeOK` |
| `NoUnaskedFallback` | `ZkTlsSpec => []FallbackOnlyWhenAsked` |
| `NoUnreachableIsAsked` | `ZkTlsSpec => []OnlyReachableIsAsked` |
| `DiscoveredIsUsable` | `ZkTlsSpec => []OffersCanBeUsed` |
| `ProofsAreOfTheRequest` | `ZkTlsSpec => []ProofsNameWhatWasAsked` |
| `AnsweredWorkIsProven` | `ZkTlsSpec => []HonestAnswersAreProven` |
| `NoFetchUnpatched` | `ZkTlsSpec => []PatchedBeforeFetch` |
| `ReclaimRoundTrip` | `ZkTlsSpec => []ReclaimProofsVerify` |
| `EnvelopesArePinnedDown` | `ZkTlsSpec => []EnvelopesAreNotMixedUp` |

The argument.  `ZkInv` has the invariant of the adapter that is called, and that
the other one rests.  Of the 0G adapter it is `ZgInv`.  `Consistent` says what the
record of a call means at each `pc`: its endpoint is that of the provider it asked
for; it asked for the named provider unless the candidate is one of a list or the
list is being read, and both only where the call may fall back; it waits for an
answer only after a probe succeeded or in the last resort.  `Current` and
`GoodOffers` tie what a call found, and what the last one gave out, to the
services, by the number of changes: an endpoint that was read since the last
change is where the service is.  This is why `OffersCanBeUsed` holds although
discovery, preparation and fetch each ask the broker anew: if nothing changed
since the offer, the call that uses it began after the offer and found the same
endpoint.  Many steps end in the same way (an await, an error, offers, the next
candidate), so the lemmas `AwaitsKeeps`, `FailsKeeps`, `OffersKeeps`, `NextOfKeeps`,
`ResolvesKeeps` and `ProbedKeeps` are cited by those of the actions.

Of the Reclaim adapter it is `RcInv`: a package that is marked patched has the names
and, if it takes one, the crypto, the promise is fulfilled only when both are, a call
is past the client only then (`NoFetchUnpatched`, for any number of calls), and a
proof that a call ended with was made from a native proof that says all it takes
(`MadeFrom`).  The last is what `verifyRawProof` recomputes, all but the answer, which
it looks for in the default order; so `ReclaimRoundTrip` says when a proof verifies,
in both directions; and two envelopes over one native proof that both verify agree
wherever the code compares (`BindingIsInjective` for the context), which is
`EnvelopesArePinnedDown`.

Only model-checked:

* liveness: `EscrowEnds`, `ScriptsRunThrough`;
* `MoneyAgreesWithCases`, which is about fixed scripts and has no constants to
  range over;
* that an honest seller is paid in the end, see 12;
* what the recursive definitions of `CanonicalJson` compute for a given value.
  The theorems above hold for any such operators; the runs use these.

## 11. Findings

`memory`: `server.ts` always builds the memory registry.  After a restart a key
that was reserved and reported for one task is reserved and reported for another
(in this run one of the two bundles passes and the other fails), where
`docs/protocol/verification-and-settlement.md` forbids the reuse.  With the
database registry, which the library offers, `DatabaseLosesNothing` holds.  The
memory registry also loses a record without a restart, where two requests pass its
check before either writes; `lost` covers both.

`outage`: the adapter of the server, `verifyRawProof` of Reclaim, catches every
error of the attestor's check and answers false.  The service cannot tell this from
an invalid proof and signs a failing report, which the contract takes for a
refund, where `docs/protocol/verification-and-settlement.md:81` says that no failing
report is signed because inputs are temporarily unavailable.  `TasksEndByVerdict`
and `PaymentsAreForOrderedWork` say what still holds: an outage never gets a bad
bundle paid.

`retry`: `executePostTask` creates and funds in one call.  When an await of it
fails, the task id is lost and the error says to retry; the second call locks a
second payment for the same job.

`rewrite`: `putObject` of `LocalStorageAdapter` empties the file of an object that
is already there.  `tyrpay_accept_task` stores the commitment before it looks at
anything but the buyer of the task, so a repeated call rewrites the commitment
that the chain names; if it fails at this moment the task can be neither executed
nor verified, where `docs/protocol/storage-adapters.md` asks for a URI under which
the object can be retrieved later.

Met while modelling, and not the subject of a run:

* `docs/plan/M10-0g-teetls-adapter-architecture.md` asks at 138 and 165 that the model
  in the answer match the one of the metadata when it is there, and at 142 that
  nothing verifies without a chat id.  `verifyRawProof` of the 0G adapter compares
  the extracted model with the metadata, from which `provenFetch` has taken it, never
  looks at the model in the answer, and takes proofs without a chat id.  So
  `HonestAnswersAreProven` is about answers with a chat id and without another model.
* `createTaskIntent` bounds the deadline from below only.  With a deadline
  within a grace period of the largest `uint256`, the checked addition in
  `submitProofBundle` and in `refundAfterProofSubmissionDeadline` reverts for
  ever and the escrow has no way out.  The run `contract` has such a deadline, and
  `ExitOpen` says that such tasks, and no others, lose their exit; the theorem
  `FundedTaskHasAnExit` says so for every deadline.
* A proof that the Reclaim adapter made with a profile does not verify where the
  default order finds another answer (`ReclaimProofsVerify`): the work was paid for
  and its receipt cannot be made.
* A passing report whose own reservation is refused: `evaluate` does not compare the
  provider proof ids of two receipts, and the registry refuses a bundle that repeats
  one, after its report was signed and stored.  Such a request fails every time
  (`repeated` in `VerifierService`).
* `getTaskStatus` reads the task and then the time, so a task that is funded in
  between is answered as expired.  It was unfunded when it was asked for, which
  is what `AnswersAreCurrent` says of it.
* The bundle hashes of the smoke test are constants, so a second run on one
  deployment is refused (`BundleSpentOnce`).
* The promise of the patched packages of the Reclaim adapter is kept when it is
  rejected, and every later call of the process fails with it.
* The metadata of one provider that cannot be read ends the whole discovery or
  selection of the 0G adapter.
* `assertProofBundle` refuses a bundle without receipts before any check runs,
  and no report is made; `docs/protocol/boundary-cases.md` asks for a report that
  fails `usageSatisfied`.  The buyer gets the money back by the verification
  timeout.
* `tyrpay_execute_task` executes a task that is not funded, where
  `docs/protocol/state-machine.md:82` says that a seller cannot.  `WorkFollowsFunding`
  is therefore about work that was begun after `READY_TO_EXECUTE`.
* `provenFetch` takes any nonce, where `docs/seller/seller-proof-generation-guide.md`
  says that it rejects a wrong one.
* `tyrpay_accept_task` takes a deadline later than that of the task, which the
  buyer then refuses; the task can never have another commitment.

## 12. What is not modelled, and why

* URIs, metadata, task nonces and events: no state depends on them, except that
  an empty URI makes a call revert.
* Allowances, tokens that take fees or call back, and gas: a property of the
  token and not of this code.
* Transfer of ownership: code of the imported library.
* Endpoint discovery and the readiness checks of the tools, which change nothing;
  the loss of the memory adapter's objects with its process.
* Hash collisions and forged signatures: hashes and signers are uninterpreted
  values.
* The seller's agent as a third process of `BuyerProtection`: there a seller does
  what the contract lets anybody do, which includes what the agent does, so no
  promise to the buyer is lost.  A promise to the seller (honest work is paid)
  is one of liveness, and is out of TLC's reach on that product; its parts are
  `HonestWorkPasses`, `SignedReportsFit`, `BundlesFitTheirTasks` and, in the order
  of the scripts, `ScriptsRunThrough`.
* Authorized verifiers other than the service, in `BuyerProtection`.
* What ties the request in a Reclaim envelope to its native proof: the code does not
  compare the two, so `PaidForOrderedWork` takes the adapter's word (`valid`) for it.
* The order of nonces of the wallets that several scripts share.
* `verifier-client`: one POST without a retry; a request that is repeated or not
  answered is a further request of `VerifierService`.
* The cryptography of native proofs and the retries inside Reclaim's client; of the
  signer status of 0G all but whether its address is one, since a malformed one throws.
* `agent-kit`, `web`, `demo-agent`, `mcp-server`, `shared` and the examples: they
  wrap tools, show things or try out a network, and hold no state of the protocol.
* Of the scripts: keys, environment variables, output and the deployment itself,
  but for the state that it leaves to the smoke test.
