---------------------------- MODULE ZeroGTeeTls ----------------------------
(***************************************************************************)
(* ZeroGTeeTlsAdapter (packages/zktls-adapter/src/zero-g-teetls/index.ts): *)
(* it looks for a provider of a model on the 0G compute network, asks one  *)
(* over its endpoint, has the broker of the network confirm the answer and *)
(* wraps all that into a raw proof.                                        *)
(*                                                                         *)
(* A call is cut into steps where it awaits the broker, a probe or the     *)
(* answer.  Between them a provider may move, change its model, go down or *)
(* become unreadable to the broker.  The adapter keeps nothing from one    *)
(* call to the next, so that one call at a time shows what it can do.      *)
(*                                                                         *)
(* The base path an endpoint puts before the request path goes with its    *)
(* host, and slashes between the two do not matter: a URL is a host and a  *)
(* request path.  Prompt and content are left out but for where they come  *)
(* from, and of the signer status whether it is acknowledged.              *)
(***************************************************************************)
EXTENDS ZkTlsCore

CONSTANTS
    None,           \* no provider, no model, no list of services, no answer
    Providers,      \* addresses of providers
    Hosts,          \* their endpoints
    Models,
    InitialServices,    \* what the providers may be at first
    Configs,        \* ZeroGTeeTlsAdapterConfig: see ConfigOK
    Listings,       \* what listService may return: sequences of descriptors
    Discoveries,    \* inputs of discoverModelEndpoints: model, path, limit, mustReach
    Preparations,   \* inputs of prepareOpenAiRequest: provider, path
    Fetches,        \* inputs of provenFetch: request, context, provider, path, profile
    Bodies,         \* bodies of answers
    Answers,        \* the other parts of an answer: status, chat id, blank header
    Clock,          \* times an answer may arrive at
    MaxChanges      \* bound: changes of providers

Services == [endpoint : Hosts, model : Models, up : BOOLEAN, readable : BOOLEAN]

\* The constants have the types of the TypeScript interfaces they stand for.
ASSUME ZeroGAssumption ==
    /\ None \notin Providers
    /\ InitialServices \subseteq [Providers -> Services]
    /\ \A c \in Configs : c.providerAddress \in Providers \cup {None}
    /\ \A list \in Listings :
           list # None => \A i \in DOMAIN list : list[i].provider \in Providers
    /\ \A list \in Listings : list # None => DOMAIN list \subseteq Nat
    /\ \A input \in Preparations \cup Fetches : input.provider \in Providers \cup {None}
    /\ \A input \in Fetches :
           input.request = [host |-> input.request.host, path |-> input.request.path,
                            method |-> input.request.method, body |-> input.request.body]
    /\ MaxChanges \in Nat

DEFAULT_ZERO_G_TEETLS_REQUEST_PATH == "/chat/completions"
ZERO_G_TEETLS_PROVIDER == "0g-teetls"

VARIABLES
    config,     \* the adapter's configuration
    listing,    \* the services the broker lists, or None where it cannot
    service,    \* service[p]: what p is at the moment
    changes,    \* how often a service has changed
    call,       \* the call that runs
    result,     \* what the last one ended with
    offers      \* what was last discovered or prepared, with the changes before it

zgVars == <<config, listing, service, changes, call, result, offers>>

\* What resolveService is asked for, and what is known so far.  The input is one of
\* Discoveries, Preparations or Fetches.
NewCall(op, input, allowFallback, asking, pc) ==
    [op |-> op, pc |-> pc, input |-> input, allowFallback |-> allowFallback,
     asking |-> asking,             \* the provider whose metadata is asked for
     listed |-> FALSE,              \* it is one of a list of candidates
     again |-> FALSE,               \* it is asked for though its probe failed
     todo |-> {}, found |-> {},     \* candidates still to look at, and the good ones
     since |-> 0,                   \* the changes before it
     endpoint |-> None, reachable |-> FALSE, sent |-> None,
     answer |-> None, response |-> None]

Idle == NewCall("idle", None, FALSE, None, "idle")
NoResult == [end |-> "none"]

ZgInit ==
    /\ config \in Configs /\ listing \in Listings
    /\ service \in InitialServices
    /\ changes = 0 /\ call = Idle /\ result = NoResult /\ offers = {}

Given(option, default) == IF option = None THEN default ELSE option

RequestPath(path) == Given(Given(path, config.defaultRequestPath),
                           DEFAULT_ZERO_G_TEETLS_REQUEST_PATH)

\* The options of a call, with what the configuration has for them.
Path(c) == RequestPath(c.input.path)
Explicit(c) == Given(c.input.provider, config.providerAddress)
MustReach(c) == Given(Given(c.input.mustReach, config.requireReachableEndpoint), TRUE)

\* resolveProviderEndpoint, once the broker answered.
Endpoint(p, path) ==
    [provider |-> p, host |-> service[p].endpoint, path |-> path, model |-> service[p].model]

\* Mutant: a provider that is named rules selection out.
UseProviderSelectionUnlessNamed(explicit) == config.enabled # FALSE /\ explicit = None

UseProviderSelection(explicit) ==
    config.enabled = TRUE \/ (config.enabled # FALSE /\ explicit = None)

ProbesEndpoints == config.requireReachableEndpoint # FALSE

MatchesProviderSelection(descriptor, model) ==
    /\ descriptor.serviceType \in {None, "chatbot"}
    /\ descriptor.verifiability \in {None, "TeeML"}
    /\ None \in {config.model, model} \/ model = config.model

\* What listService says, filtered: the positions to look at.
Candidates ==
    {i \in DOMAIN listing :
        IF call.op = "discover"
        THEN /\ listing[i].model \in {None, call.input.model}
             /\ MatchesProviderSelection(listing[i], call.input.model)
        ELSE /\ listing[i].provider # Explicit(call)
             /\ MatchesProviderSelection(listing[i], listing[i].model)}

------------------------------------------------------------------------------
(* The answer. *)

ExtractNumber(body, path) ==
    LET found == ReadPath(body, path) IN IF IsCount(found) THEN found ELSE Undefined

\* extractOpenAiCompatibleFields: where the usage may be, the best first.  The
\* model it extracts is the one of the metadata.
UsageSources(body, profile) ==
    <<[source |-> "custom",
       tokens |-> IF profile = None THEN Undefined ELSE ExtractNumber(body, profile)],
      [source |-> "response.body.usage",
       tokens |-> ExtractNumber(body, <<"usage", "total_tokens">>)],
      [source |-> "response.body.x_groq.usage",
       tokens |-> ExtractNumber(body, <<"x_groq", "usage", "total_tokens">>)]>>

Usage(body, profile) ==
    LET found == SelectSeq(UsageSources(body, profile), LAMBDA u : u.tokens # Undefined)
    IN  IF found = <<>> THEN None ELSE Head(found)

\* Mutant: nulls are kept.
ParsedBodyWithNulls(body) == IF body = Null THEN Str("null") ELSE body

\* JSON.parse, with the text itself where that fails or gives null.
ParsedBody(body) == IF body = Null THEN Str("null") ELSE Sanitized(body)

ChatId(answer, body) ==
    FirstOf(<<answer.zgResKey, ReadPath(body, <<"id">>), ReadPath(body, <<"chatID">>)>>,
            IsNonEmptyString)

DerivedProofId(at, response, observedAt) ==
    [providerAddress |-> at.provider, host |-> at.host, path |-> at.path,
     model |-> at.model, responseHash |-> HashResponseEvidence(response),
     observedAt |-> observedAt]

\* processResponse answers TRUE, FALSE or null, and null has no canonical form.
ZeroGPayloadHashes(payload) ==
    /\ RequestHashes(payload.request) /\ ResponseHashes(payload.response)
    /\ payload.zeroG.processResponseResult # None

VerifyZeroGRawProof(rawProof) ==
    LET usage == Usage(rawProof.response.body, None)
    IN  /\ ZeroGPayloadHashes(Payload(rawProof))
        /\ rawProof.proofHash = Hash(Payload(rawProof))
        /\ rawProof.zeroG.processResponseResult = TRUE
        /\ usage # None /\ rawProof.extracted.totalTokens = usage.tokens
        /\ rawProof.extracted.model = rawProof.zeroG.modelFromMetadata

ZeroGNormalizesReceipt(rawProof, context) ==
    VerifyZeroGRawProof(rawProof) /\ ReceiptContextMatches(rawProof.proofContext, context)

------------------------------------------------------------------------------
(* The steps of a call. *)

Ends(how) == result' = how /\ call' = Idle /\ UNCHANGED offers

Fails(c, why) == Ends([end |-> "error", why |-> why, call |-> c])

Awaits(c) == call' = c /\ UNCHANGED <<result, offers>>

\* The endpoints go to the caller, who may use them in a later call.
Offers(c, endpoints) ==
    /\ result' = [end |-> "offers", call |-> c]
    /\ call' = Idle
    /\ offers' = {[offer |-> endpoint, requestPath |-> Path(c), at |-> c.since] :
                     endpoint \in endpoints}

\* The loop over the candidates goes on with the first of them, or ends.
NextOf(c) ==
    IF c.todo = {} \/ (c.op = "discover" /\ Cardinality(c.found) >= c.input.limit)
    THEN IF c.op = "discover" THEN Offers(c, c.found) ELSE Fails(c, "none reachable")
    ELSE \E i \in c.todo :
            /\ \A j \in c.todo : i <= j
            /\ Awaits([c EXCEPT !.pc = "metadata", !.asking = listing[i].provider,
                                !.listed = TRUE, !.todo = c.todo \ {i}])

\* resolveService has its answer: assertRequestMatchesResolvedEndpoint and the
\* other checks of provenFetch before it sends anything.
Resolves(c) ==
    LET request == c.input.request
    IN  IF c.op = "prepare" THEN Offers(c, {c.endpoint})
        ELSE CASE ~RequestNormalizes(request) -> Fails(c, "request")
               [] /\ RequestNormalizes(request)
                  /\ \/ request.host # c.endpoint.host
                     \/ request.path # c.endpoint.path
                     \/ UpperCase(request.method) # "POST" -> Fails(c, "mismatch")
               [] OTHER -> IF IsRecord(request.body) THEN Awaits([c EXCEPT !.pc = "headers"])
                           ELSE Fails(c, "body")

\* The endpoint was probed, or needs no probe.
Probed(c) ==
    IF c.op = "discover"
    THEN NextOf(IF MustReach(c) /\ ~c.reachable THEN c
                ELSE [c EXCEPT !.found = c.found \cup {c.endpoint}])
    ELSE IF c.reachable THEN Resolves(c)
    ELSE IF c.listed THEN NextOf(c)
    ELSE IF ~c.allowFallback THEN Fails(c, "unreachable")
    ELSE IF UseProviderSelection(Explicit(c)) THEN Awaits([c EXCEPT !.pc = "list"])
    ELSE Awaits([c EXCEPT !.pc = "metadata", !.again = TRUE])

Starts(c) ==
    /\ call = Idle
    /\ call' = [c EXCEPT !.since = changes]
    /\ result' = NoResult
    /\ UNCHANGED <<config, listing, service, changes, offers>>

DiscoverModelEndpoints(input) == Starts(NewCall("discover", input, FALSE, None, "list"))

StartsResolving(op, input, allowFallback) ==
    LET explicit == Given(input.provider, config.providerAddress)
    IN  Starts(NewCall(op, input, allowFallback, explicit,
                       IF explicit # None THEN "metadata"
                       ELSE IF UseProviderSelection(None) THEN "list" ELSE "refused"))

PrepareOpenAiRequest(input) == StartsResolving("prepare", input, TRUE)

\* Mutant: it falls back as prepareOpenAiRequest does.
ProvenFetchFallingBack(input) == StartsResolving("fetch", input, TRUE)

ProvenFetch(input) == StartsResolving("fetch", input, config.fallbackOnUnreachable = TRUE)

At(pc) == call.pc = pc /\ UNCHANGED <<config, listing, service, changes>>

\* No provider was named, and none may be selected.
Refused == At("refused") /\ Fails(call, "no provider")

ListServices ==
    /\ At("list")
    /\ IF listing = None THEN Fails(call, "no list")
       ELSE NextOf([call EXCEPT !.todo = Candidates])

\* A rejection for one candidate ends the call.
GetServiceMetadata ==
    LET c == [call EXCEPT !.endpoint = Endpoint(call.asking, Path(call)),
                          !.reachable = ~ProbesEndpoints]
    IN  /\ At("metadata")
        /\ IF ~service[call.asking].readable THEN Fails(call, "metadata")
           ELSE IF call.again THEN Resolves(c)
           ELSE IF call.op = "discover" /\ c.endpoint.model # call.input.model THEN NextOf(call)
           ELSE IF ProbesEndpoints THEN Awaits([c EXCEPT !.pc = "probe"])
           ELSE Probed(c)

UpAt(host) == \E p \in Providers : service[p].endpoint = host /\ service[p].up

\* The probe fails where nothing answers, or not in time.
ProbeEndpoint ==
    /\ At("probe")
    /\ \E reachable \in {UpAt(call.endpoint.host), FALSE} :
          Probed([call EXCEPT !.reachable = reachable])

\* The POST goes out as soon as the headers are there.
GetRequestHeaders ==
    /\ At("headers")
    /\ \/ Fails(call, "headers")
       \/ Awaits([call EXCEPT !.pc = "answer",
                              !.sent = [host |-> call.endpoint.host, path |-> call.endpoint.path,
                                        model |-> call.endpoint.model]])

ReceiveAnswer ==
    /\ At("answer")
    /\ \/ Fails(call, "no answer")
       \/ /\ UpAt(call.sent.host)
          /\ \E answer \in Answers, body \in Bodies :
                LET response == [status |-> answer.status, blankHeader |-> answer.blankHeader,
                                 body |-> ParsedBody(body)]
                IN  IF ~ResponseNormalizes(response) THEN Fails(call, "response")
                    ELSE IF Usage(response.body, call.input.profile) = None
                         THEN Fails(call, "usage")
                    ELSE Awaits([call EXCEPT !.pc = "confirm",
                                             !.answer = [body |-> body, zgResKey |-> answer.zgResKey],
                                             !.response = NormalizedResponse(response)])

\* Mutant: the broker is asked again what the provider is.
EndpointUsedAnew == Endpoint(call.endpoint.provider, Path(call))

EndpointUsed == call.endpoint

\* processResponse, the signer status, which may be unknown and has an address that
\* must be one, the time, which the clock of the configuration may give in a form
\* that is none, and the raw proof.
ProcessResponse(confirmed, signer, now) ==
    LET body == call.response.body
        usage == Usage(body, call.input.profile)
        chatId == ChatId(call.answer, body)
        payload ==
          [provider |-> ZERO_G_TEETLS_PROVIDER,
           providerProofId |-> IF chatId # Undefined THEN chatId
                               ELSE DerivedProofId(EndpointUsed, call.response, now),
           proofContext |-> ProviderProofContext(call.input.taskContext, call.input.callIndex,
                                                 call.input.callIntentHash),
           request |-> NormalizedRequest(call.input.request),
           response |-> call.response,
           observedAt |-> now,
           extracted |-> [model |-> EndpointUsed.model, totalTokens |-> usage.tokens],
           zeroG |-> [endpoint |-> EndpointUsed, modelFromMetadata |-> EndpointUsed.model,
                      chatId |-> chatId, processResponseResult |-> confirmed,
                      teeSignerAddress |-> signer],
           metadata |-> [requestPath |-> Path(call), usageSource |-> usage.source]]
    IN  /\ At("confirm")
        /\ IF now # None /\ signer # "malformed" /\ ZeroGPayloadHashes(payload)
           THEN Ends([end |-> "proof", call |-> call, rawProof |-> Sealed(payload)])
           ELSE Ends([end |-> "error", why |-> "lost", call |-> call,
                      confirmed |-> confirmed, signer |-> signer, now |-> now])

\* The broker does not answer processResponse.
ConfirmationFails == At("confirm") /\ Fails(call, "confirmation")

------------------------------------------------------------------------------
\* A provider becomes another: it moves, loads another model, goes down or up.
ServiceChanges(p) ==
    /\ changes < MaxChanges
    /\ changes' = changes + 1
    /\ \E s \in Services \ {service[p]} : service' = [service EXCEPT ![p] = s]
    /\ UNCHANGED <<config, listing, call, result, offers>>

ZgNext ==
    \/ \E input \in Discoveries : DiscoverModelEndpoints(input)
    \/ \E input \in Preparations : PrepareOpenAiRequest(input)
    \/ \E input \in Fetches : ProvenFetch(input)
    \/ Refused \/ ListServices \/ GetServiceMetadata \/ ProbeEndpoint
    \/ GetRequestHeaders \/ ReceiveAnswer \/ ConfirmationFails
    \/ \E confirmed \in {TRUE, FALSE, None}, signer \in {None, "address", "malformed"},
          now \in Clock \cup {None} : ProcessResponse(confirmed, signer, now)
    \/ \E p \in Providers : ServiceChanges(p)

------------------------------------------------------------------------------
(* Properties. *)

TheCalls == {call} \cup (IF result.end = "none" THEN {} ELSE {result.call})

\* Types of the variables.
ZgTypeOK ==
    /\ config \in Configs /\ listing \in Listings
    /\ service \in [Providers -> Services] /\ changes \in 0..MaxChanges
    /\ call.op \in {"idle", "discover", "prepare", "fetch"}
    /\ call.asking \in Providers \cup {None}
    /\ result.end \in {"none", "offers", "proof", "error"}
    /\ \A o \in offers : o.offer.provider \in Providers /\ o.at \in 0..MaxChanges

\* A provider other than the one that was named is asked, and so paid, only
\* where the configuration has the adapter fall back (resolveService is told to
\* fall back by prepareOpenAiRequest always, by provenFetch as configured).
FallbackOnlyWhenAsked ==
    \A c \in TheCalls :
        (c.op = "fetch" /\ c.sent # None /\ Explicit(c) # None) =>
            c.endpoint.provider = Explicit(c) \/ config.fallbackOnUnreachable = TRUE

\* A request goes only to an endpoint that answered a probe of the same call,
\* unless probes are off or the adapter was to fall back and has nothing to
\* fall back on: then it goes where the probe failed.
OnlyReachableIsAsked ==
    \A c \in TheCalls :
        (c.sent # None /\ ProbesEndpoints) =>
            \/ c.reachable
            \/ c.again /\ config.fallbackOnUnreachable = TRUE /\ config.enabled # TRUE

\* What discovery offers, or a request was prepared for, can be used: while no
\* provider changes, provenFetch with the address and the request path of the
\* offer resolves to the very endpoint, and never refuses a request to it
\* because of the endpoint it resolved.
OffersCanBeUsed ==
    (result.end = "error" /\ result.why = "mismatch" /\ ~result.call.listed) =>
        \A o \in offers :
            (/\ o.at = changes /\ o.requestPath = Path(result.call)
             /\ o.offer.provider = Explicit(result.call)) =>
                \/ result.call.input.request.host # o.offer.host
                \/ result.call.input.request.path # o.offer.path
                \/ result.call.input.request.method \notin {"post", "POST"}

\* A proof names the provider, the endpoint and the model the POST went out
\* with, whatever became of the provider while the answer was on its way, and
\* the POST went where the evidence of the request says.
ProofsNameWhatWasAsked ==
    result.end = "proof" =>
        LET proof == result.rawProof
            sent == result.call.sent
        IN  /\ proof.zeroG.endpoint.host = sent.host /\ proof.zeroG.endpoint.path = sent.path
            /\ proof.zeroG.modelFromMetadata = sent.model /\ proof.extracted.model = sent.model
            /\ proof.request.host = sent.host /\ proof.request.path = sent.path

\* Work that was paid for can be delivered.  An answer that was taken and that the
\* broker has an opinion of is lost only where request or answer have no canonical
\* form, the signer's address is none, or the clock gives no time.  Where the broker
\* confirms it, with a chat id, with the model of the metadata or none in the answer,
\* and with no path of the caller's own, the proof verifies, and turns into a receipt
\* for its call and for no other.
HonestAnswersAreProven ==
    /\ (result.end = "error" /\ result.why = "lost") =>
            \/ result.confirmed = None
            \/ ~Canonicalizes(result.call.input.request.body)
            \/ ~Canonicalizes(Sanitized(result.call.answer.body))
            \/ result.signer = "malformed" \/ result.now = None
    /\ (/\ result.end = "proof" /\ result.rawProof.zeroG.processResponseResult = TRUE
        /\ result.rawProof.zeroG.chatId # Undefined
        /\ ReadPath(result.rawProof.response.body, <<"model">>) \in
               {Undefined, Str(result.rawProof.zeroG.modelFromMetadata)}
        /\ result.call.input.profile = None) =>
            \A input \in Fetches :
                ZeroGNormalizesReceipt(result.rawProof, input) <=>
                    /\ input.taskContext = result.call.input.taskContext
                    /\ input.callIndex = result.call.input.callIndex
                    /\ input.callIntentHash = result.call.input.callIntentHash

=============================================================================
