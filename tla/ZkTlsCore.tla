----------------------------- MODULE ZkTlsCore -----------------------------
(***************************************************************************)
(* What the zkTLS adapters share (packages/zktls-adapter/src/core): the    *)
(* evidence of a request and of its answer, the context a proof is made    *)
(* for, and the receipt a proof is turned into.                            *)
(*                                                                         *)
(* A task context is one value: its ten fields are compared one by one in  *)
(* the code, and differ together or not at all in what is compared here.   *)
(***************************************************************************)
EXTENDS JsonValues

CONSTANTS
    Canonicalizes(_),   \* canonicalize takes the value
    Sanitized(_)        \* the value without its nulls

\* A string is a value that canonicalize takes.
ASSUME CanonicalAssumption == Canonicalizes(Str("null"))

\* A deliberately wrong UpperCase: methods stay as they are.
UpperCaseNot(method) == method

UpperCase(method) == IF method = "post" THEN "POST" ELSE IF method = "get" THEN "GET" ELSE method

ProviderProofContext(taskContext, callIndex, callIntentHash) ==
    [taskContext |-> taskContext, callIndex |-> callIndex, callIntentHash |-> callIntentHash]

\* Throws on an empty host, path or method, or a header without a value.
RequestNormalizes(request) == request.host # "" /\ request.path # "" /\ request.method # ""

NormalizedRequest(request) == [request EXCEPT !.method = UpperCase(@)]

\* blankHeader: the answer has a header with an empty value.
ResponseNormalizes(response) == response.status \in 100..599 /\ ~response.blankHeader

NormalizedResponse(response) == [status |-> response.status, body |-> response.body]

RequestHashes(request) == RequestNormalizes(request) /\ Canonicalizes(request.body)
HashRequestEvidence(request) == Hash(NormalizedRequest(request))

ResponseHashes(response) == Canonicalizes(response.body)
HashResponseEvidence(response) == Hash(response)

\* A raw proof is its payload with the hash of the payload.
Sealed(payload) ==
    [k \in DOMAIN payload \cup {"proofHash"} |->
        IF k = "proofHash" THEN Hash(payload) ELSE payload[k]]

Payload(rawProof) == [k \in DOMAIN rawProof \ {"proofHash"} |-> rawProof[k]]

\* normalizeReceipt of every adapter, for a proof that it verified.
ReceiptContextMatches(proofContext, context) ==
    proofContext = ProviderProofContext(context.taskContext, context.callIndex,
                                        context.callIntentHash)

Receipt(rawProof, context) ==
    [taskContext |-> context.taskContext,
     callIndex |-> context.callIndex,
     callIntentHash |-> context.callIntentHash,
     provider |-> rawProof.provider,
     providerProofId |-> rawProof.providerProofId,
     requestHash |-> HashRequestEvidence(rawProof.request),
     responseHash |-> HashResponseEvidence(rawProof.response),
     observedAt |-> rawProof.observedAt,
     extracted |-> rawProof.extracted,
     rawProofHash |-> Hash(rawProof),
     rawProofURI |-> context.rawProofURI]
=============================================================================
