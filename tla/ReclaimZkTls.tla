---------------------------- MODULE ReclaimZkTls ----------------------------
(***************************************************************************)
(* ReclaimZkTlsAdapter (packages/zktls-adapter/src/reclaim): a request is  *)
(* made through Reclaim's zkFetch, and what its native proof says is put   *)
(* into a raw proof next to the native proof itself.                       *)
(*                                                                         *)
(* Calls run concurrently.  What they share is a promise of the module:    *)
(* the patch of Reclaim's TLS packages, which the first call starts and    *)
(* the others await, and which is kept whatever becomes of it.             *)
(*                                                                         *)
(* Left out: the retries, which Reclaim's client does, and the private     *)
(* options, which are passed on.                                           *)
(***************************************************************************)
EXTENDS ZkTlsCore

CONSTANTS
    Unset,          \* an option that is not given, a promise not made, no value
    ReclaimCalls,
    ReclaimFetches,     \* inputs of provenFetch: request, context, source
    NativeProofs(_),    \* what zkFetch may return for a context: JSON values
    TlsPackages         \* the versions of a TLS module that may be installed

ASSUME ReclaimAssumption ==
    /\ Unset \notin {"patching", "patched", "failed", "webcrypto", "purejs"}
    /\ \A package \in TlsPackages :
          /\ DOMAIN package = {"names", "crypto", "takesCrypto", "patched"}
          /\ package.names \in {"old", "current"} /\ ~package.patched

RECLAIM_ZKTLS_PROVIDER == "reclaim"

\* The packages that load @reclaimprotocol/tls, in the order they are patched.
PackageOrder == <<"zk-fetch", "attestor-core">>

VARIABLES
    clientConfig,   \* what a client is made from: a factory, credentials or nothing
    compatibility,  \* reclaimTlsCompatibilityPromise
    tls,            \* tls[package]: the TLS module the package has loaded
    reclaimCalls    \* reclaimCalls[c]: where call c is

rcVars == <<clientConfig, compatibility, tls, reclaimCalls>>

NotStarted == [pc |-> "idle"]

RcInit ==
    /\ clientConfig \in {"factory", "credentials", "nothing"}
    /\ compatibility = Unset
    /\ tls \in [{"zk-fetch", "attestor-core"} -> TlsPackages]
    /\ reclaimCalls = [c \in ReclaimCalls |-> NotStarted]

------------------------------------------------------------------------------
(* What a native proof says (extraction.ts). *)

IsPresent(value) == value \notin {Undefined, Null}

ResponseBodies(proof) ==
    <<ReadPath(proof, <<"extractedParameterValues", "data">>),
      ReadPath(proof, <<"extractedParameterValues", "response">>),
      ReadPath(proof, <<"extractedParameterValues", "body">>),
      ReadPath(proof, <<"response", "body">>),
      Field(proof, "responseBody"), Field(proof, "body")>>

\* Where the profile says, or the first place that has one.
ResponseBody(proof, source) ==
    FirstOf(CASE source = "extractedParameterValues.data" -> <<Head(ResponseBodies(proof))>>
              [] source = "response.body" -> <<ResponseBodies(proof)[4]>>
              [] OTHER -> ResponseBodies(proof),
            IsPresent)

\* parseMaybeJson; decodeChunkedResponse takes one line of data per chunk, so
\* that what is left of data with line breaks is no JSON.
Parsed(value) ==
    CASE Kind(value) = "text" -> Sanitized(value[2])
      [] Kind(value) = "chunked" -> IF value[3] = 1 THEN Sanitized(value[2]) ELSE Undefined
      [] Kind(value) \in {"string", "digits"} -> Undefined
      [] OTHER -> Sanitized(value)

TotalTokens(usage) == FirstOf(<<Field(usage, "total_tokens"), Field(usage, "totalTokens")>>,
                              IsPresent)

IsOpenAiCompatible(body) ==
    /\ IsRecord(body) /\ IsRecord(Field(body, "usage"))
    /\ IsNonEmptyString(Field(body, "model")) /\ IsCount(TotalTokens(Field(body, "usage")))

ResponseStatus(proof) ==
    LET status == FirstOf(<<ReadPath(proof, <<"response", "status">>), Field(proof, "status")>>,
                          IsPresent)
    IN  IF IsCount(status) /\ status[2] \in 100..599 THEN status[2] ELSE 200

ProviderProofId(proof) ==
    FirstOf(<<Field(proof, "identifier"), Field(proof, "providerProofId"), Field(proof, "id"),
              ReadPath(proof, <<"claimData", "identifier">>)>>, IsNonEmptyString)

IsScalar(value) == IsString(value) \/ Kind(value) \in {"number", "fraction"}

\* Mutant: whatever stands there is taken for a time.
ObservedAtUnchecked(proof) ==
    FirstOf(<<Field(proof, "timestamp"), Field(proof, "timestampMs"),
              ReadPath(proof, <<"claimData", "timestampS">>)>>, IsScalar)

Millis(proof) ==
    FirstOf(<<Field(proof, "observedAt"), Field(proof, "timestamp"), Field(proof, "timestampMs"),
              ReadPath(proof, <<"claimData", "timestampMs">>)>>, IsScalar)

IsUInt(value) == IsCount(value) \/ IsDigits(value)

\* Milliseconds from the first place that has a string or a number, else
\* seconds, of which BigInt takes the empty string for 0; what is no unsigned
\* integer throws.  The time is written as a string.
ObservedAt(proof) ==
    LET millis == Millis(proof)
        seconds == ReadPath(proof, <<"claimData", "timestampS">>)
    IN  CASE IsUInt(millis) -> Digits(millis[2])
          [] millis = Undefined /\ IsUInt(seconds) -> Digits(seconds[2] * 1000)
          [] millis = Undefined /\ seconds = Str("") -> Digits(0)
          [] OTHER -> Undefined

\* extractReclaimProofEvidence throws.
EvidenceMissing(proof, source) ==
    \/ ~IsOpenAiCompatible(Parsed(ResponseBody(proof, source)))
    \/ Undefined \in {ProviderProofId(proof), ObservedAt(proof)}

Evidence(proof, source) ==
    LET body == Parsed(ResponseBody(proof, source))
    IN  [providerProofId |-> ProviderProofId(proof),
         observedAt |-> ObservedAt(proof),
         response |-> [status |-> ResponseStatus(proof), body |-> body],
         extracted |-> [model |-> Field(body, "model"),
                        totalTokens |-> TotalTokens(Field(body, "usage"))]]

------------------------------------------------------------------------------
(* The binding of a proof to its context. *)

ContextJson(context) ==
    Obj([task |-> Str(context.taskContext), callIndex |-> Num(context.callIndex),
         callIntentHash |-> Str(context.callIntentHash)])

ProofContextBinding(context) ==
    Obj([protocol |-> Str("TyrPay"), version |-> Num(1), provider |-> Str("reclaim"),
         proofContextHash |-> Str(Hash(ContextJson(context))),
         proofContext |-> ContextJson(context)])

IsProviderProofContext(value) ==
    /\ IsRecord(value)
    /\ IsString(Field(value, "task")) /\ IsString(Field(value, "callIntentHash"))
    /\ Kind(Field(value, "callIndex")) \in {"number", "fraction"}

\* The fields of a binding, and of the context in it, that are compared: what
\* else an object holds does not count.
BindingOf(object) ==
    LET context == Field(object, "proofContext")
    IN  Obj([k \in {"protocol", "version", "provider", "proofContextHash", "proofContext"} |->
               IF k # "proofContext" THEN Field(object, k)
               ELSE Obj([f \in {"task", "callIndex", "callIntentHash"} |-> Field(context, f)])])

\* parseContextCandidate.
ContextCandidate(candidate) ==
    LET parsed == IF Kind(candidate) = "text" THEN candidate[2] ELSE candidate
        nested == IF IsRecord(parsed) THEN Field(parsed, "TyrPay") ELSE Undefined
        object == IF IsRecord(nested) THEN nested ELSE parsed
    IN  IF /\ IsRecord(object)
           /\ Field(object, "protocol") = Str("TyrPay") /\ Field(object, "version") = Num(1)
           /\ Field(object, "provider") = Str("reclaim")
           /\ IsString(Field(object, "proofContextHash"))
           /\ IsProviderProofContext(Field(object, "proofContext"))
        THEN BindingOf(object) ELSE Undefined

ContextBinding(proof) ==
    LET candidates == <<Field(proof, "context"), ReadPath(proof, <<"claimData", "context">>),
                        ReadPath(proof, <<"claimData", "parameters", "context">>),
                        ReadPath(proof, <<"publicOptions", "context">>)>>
    IN  FirstOf([i \in DOMAIN candidates |-> ContextCandidate(candidates[i])], IsPresent)

\* Mutant: any binding will do.
ProofContextBoundAtAll(proof, context) == ContextBinding(proof) # Undefined

ProofContextBound(proof, context) == ContextBinding(proof) = ProofContextBinding(context)

------------------------------------------------------------------------------
(* The raw proof. *)

ReclaimPayloadHashes(payload) ==
    /\ RequestHashes(payload.request) /\ ResponseHashes(payload.response)
    /\ Canonicalizes(payload.reclaimProof)

\* The payload of a raw proof that provenFetch makes.
NativePayload(proof, input, context) ==
    LET evidence == Evidence(proof, input.source)
    IN  [provider |-> RECLAIM_ZKTLS_PROVIDER, proofContext |-> context,
         request |-> NormalizedRequest(input.request), reclaimProof |-> proof,
         providerProofId |-> evidence.providerProofId, observedAt |-> evidence.observedAt,
         response |-> evidence.response, extracted |-> evidence.extracted]

\* What js-sdk needs to verify a proof: the hash of a provider in the context
\* of the claim, or the provider of the claim.
HasVerificationConfig(proof) ==
    LET claim == Field(proof, "claimData")
        context == IF IsRecord(claim) THEN Field(claim, "context") ELSE Undefined
    IN  /\ IsRecord(claim)
        /\ \/ /\ Kind(context) = "text" /\ IsRecord(context[2])
              /\ IsNonEmptyString(Field(context[2], "providerHash"))
           \/ IsNonEmptyString(Field(claim, "provider"))

\* Mutant: what is verified is looked for in response.body alone.
EnvelopeMatchesBody(rawProof, source) ==
    ~EvidenceMissing(rawProof.reclaimProof, "response.body") /\
    rawProof.response = Evidence(rawProof.reclaimProof, "response.body").response

\* reclaimEnvelopeMatchesNativeProof.  The request is not part of it.
EnvelopeMatches(rawProof, source) ==
    /\ ~EvidenceMissing(rawProof.reclaimProof, source)
    /\ LET evidence == Evidence(rawProof.reclaimProof, source)
       IN  /\ rawProof.providerProofId = evidence.providerProofId
           /\ rawProof.observedAt = evidence.observedAt
           /\ rawProof.response = evidence.response
           /\ rawProof.extracted = evidence.extracted

\* Under a js-sdk that finds every native proof genuine.
VerifyReclaimRawProof(rawProof) ==
    /\ ReclaimPayloadHashes(Payload(rawProof))
    /\ rawProof.proofHash = Hash(Payload(rawProof))
    /\ HasVerificationConfig(rawProof.reclaimProof)
    /\ ProofContextBound(rawProof.reclaimProof, rawProof.proofContext)
    /\ EnvelopeMatches(rawProof, "auto")

------------------------------------------------------------------------------
(* The steps of a call. *)

MovesTo(c, where) ==
    reclaimCalls' = [reclaimCalls EXCEPT ![c] = where] /\ UNCHANGED <<clientConfig, tls>>

Throws(c) == MovesTo(c, [pc |-> "error"])

\* The request is normalised and the client asked for; without a factory the
\* first call makes the promise.
ReclaimProvenFetch(c, input) ==
    /\ reclaimCalls[c] = NotStarted
    /\ IF ~RequestNormalizes(input.request) \/ clientConfig = "nothing"
       THEN Throws(c) /\ UNCHANGED compatibility
       ELSE IF clientConfig = "factory"
       THEN MovesTo(c, [pc |-> "fetch", input |-> input]) /\ UNCHANGED compatibility
       ELSE /\ MovesTo(c, [pc |-> "client", input |-> input])
            /\ compatibility' = IF compatibility = Unset THEN "patching" ELSE compatibility

\* patchTlsModule on the next package: it takes the names the package misses
\* from those it has, and loads an implementation of crypto where none is set
\* and one can be.  A package that cannot be found or loaded, or no crypto that
\* can, rejects the promise for good.
PatchTlsModule ==
    LET package == IF tls["zk-fetch"].patched THEN "attestor-core" ELSE "zk-fetch"
        needsCrypto == tls[package].takesCrypto /\ tls[package].crypto = Unset
        Patches(crypto) ==
            /\ tls' = [tls EXCEPT ![package].names = "current", ![package].crypto = crypto,
                                  ![package].patched = TRUE]
            /\ compatibility' = IF package = "attestor-core" THEN "patched" ELSE "patching"
    IN  /\ compatibility = "patching"
        /\ \/ compatibility' = "failed" /\ UNCHANGED tls
           \/ ~needsCrypto /\ Patches(tls[package].crypto)
           \/ needsCrypto /\ \E crypto \in {"webcrypto", "purejs"} : Patches(crypto)
           \/ /\ needsCrypto
              /\ compatibility' = "failed" /\ tls' = [tls EXCEPT ![package].names = "current"]
        /\ UNCHANGED <<clientConfig, reclaimCalls>>

\* Mutant: a call that finds the promise made does not wait for it.
DefaultReclaimClientFactoryAtOnce(c) ==
    /\ reclaimCalls[c].pc = "client"
    /\ MovesTo(c, [reclaimCalls[c] EXCEPT !.pc = "fetch"])
    /\ UNCHANGED compatibility

\* The module of the client, loaded once both packages are patched, may lack it.
DefaultReclaimClientFactory(c) ==
    /\ reclaimCalls[c].pc = "client"
    /\ \/ compatibility = "patched" /\ MovesTo(c, [reclaimCalls[c] EXCEPT !.pc = "fetch"])
       \/ compatibility \in {"patched", "failed"} /\ Throws(c)
    /\ UNCHANGED compatibility

\* zkFetch gives a native proof or fails; the rest of provenFetch is one step.
ZkFetch(c) ==
    LET input == reclaimCalls[c].input
        context == ProviderProofContext(input.taskContext, input.callIndex,
                                        input.callIntentHash)
    IN  /\ reclaimCalls[c].pc = "fetch"
        /\ \/ Throws(c)
           \/ \E proof \in NativeProofs(context) :
                IF \/ ~ProofContextBound(proof, context)
                   \/ EvidenceMissing(proof, input.source)
                   \/ ~ReclaimPayloadHashes(NativePayload(proof, input, context))
                THEN Throws(c)
                ELSE MovesTo(c, [pc |-> "proof", input |-> input,
                                 rawProof |-> Sealed(NativePayload(proof, input, context))])
        /\ UNCHANGED compatibility

RcNext ==
    \/ \E c \in ReclaimCalls :
        \/ \E input \in ReclaimFetches : ReclaimProvenFetch(c, input)
        \/ DefaultReclaimClientFactory(c)
        \/ ZkFetch(c)
    \/ PatchTlsModule

------------------------------------------------------------------------------
(* Properties. *)

\* Types of the variables.
RcTypeOK ==
    /\ clientConfig \in {"factory", "credentials", "nothing"}
    /\ compatibility \in {Unset, "patching", "patched", "failed"}
    /\ \A p \in DOMAIN tls : tls[p].names \in {"old", "current"}
    /\ \A c \in ReclaimCalls :
          /\ reclaimCalls[c].pc \in {"idle", "client", "fetch", "proof", "error"}
          /\ reclaimCalls[c].pc = "proof" => /\ IsDigits(reclaimCalls[c].rawProof.observedAt)
                                             /\ IsCount(reclaimCalls[c].rawProof.extracted.totalTokens)

\* No call reaches Reclaim's own client before both packages have the names
\* it needs and a crypto where they take one, also not a call that came while
\* the first was at it.
PatchedBeforeFetch ==
    \A c \in ReclaimCalls :
        (clientConfig = "credentials" /\ reclaimCalls[c].pc \in {"fetch", "proof"}) =>
            \A p \in DOMAIN tls :
                tls[p].names = "current" /\ (tls[p].takesCrypto => tls[p].crypto # Unset)

\* A proof that provenFetch returns is one verifyRawProof accepts, wherever the
\* native proof keeps its identifier, its time, its context and its answer,
\* except where the caller had the answer looked for elsewhere than
\* verifyRawProof looks, and the two places do not hold the same.
ReclaimProofsVerify ==
    \A c \in ReclaimCalls :
        LET raw == reclaimCalls[c].rawProof
        IN  (reclaimCalls[c].pc = "proof" /\ HasVerificationConfig(raw.reclaimProof)) =>
                (VerifyReclaimRawProof(raw) <=>
                    Parsed(ResponseBody(raw.reclaimProof, "auto")) = raw.response.body)

\* What an envelope says is what its native proof says: where it is verified, and
\* also with any of these parts taken from the proof of another call, that part is
\* the same.
EnvelopesAreNotMixedUp ==
    \A c, d \in {c \in ReclaimCalls : reclaimCalls[c].pc = "proof"} :
    \A k \in {"providerProofId", "observedAt", "response", "extracted", "proofContext"} :
        LET own == Payload(reclaimCalls[c].rawProof)
            others == reclaimCalls[d].rawProof
        IN  /\ VerifyReclaimRawProof(reclaimCalls[c].rawProof)
            /\ VerifyReclaimRawProof(Sealed([own EXCEPT ![k] = others[k]]))
            => own[k] = others[k]
=============================================================================
