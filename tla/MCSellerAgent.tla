--------------------------- MODULE MCSellerAgent ---------------------------
(***************************************************************************)
(* Small instances of SellerAgent for TLC.                                 *)
(***************************************************************************)
EXTENDS SellerAgent, TLC

CONSTANTS alice, bob, oracle, usd, nobody, zero, settlement, c1, c2

MCCommitments ==
    [taskId : TaskIds, buyer : Accounts \ {Seller}, seller : {Seller}, target : Targets]

Times == {n * MsPerSecond : n \in 1..MaxTimestamp}

MCReceipts(commitment) ==
    {[taskContext |-> [taskId |-> commitment.taskId, taskNonce |-> nonce,
                       commitmentHash |-> commitment, seller |-> Seller],
      callIndex |-> callIndex, target |-> commitment.target, observedAt |-> time] :
        nonce \in PassedNonces[commitment.taskId], callIndex \in CallIndices, time \in Times}

\* The hashes of the commitments and of the bundles that can come up.
MCHashes ==
    MCCommitments \cup
    UNION {[taskId : {commitment.taskId}, commitmentHash : {commitment}, seller : {Seller},
            receipts : UNION {[1..n -> MCReceipts(commitment)] : n \in 1..MaxReceipts},
            createdAt : Times] : commitment \in MCCommitments}

MCOwnNonce == [t \in TaskIds |-> {t}]

\* Bounds on the state space: of an agent that works without asking, only what is
\* too early is of interest, with one call.
Early == {o \in store.whole \cup store.torn : "rawProof" \in DOMAIN o /\ o.rawProof \notin prompted}

InBounds ==
    /\ Early # {} => Given("rawProof") = 1
    /\ \A c \in Calls :
           At(c, "provenFetch") /\ ~calls[c].prompted =>
               /\ calls[c].callIndex = 0
               /\ ~Live(tasks[calls[c].taskContext.taskId])

MCSymmetry == Permutations(Calls)

=============================================================================
