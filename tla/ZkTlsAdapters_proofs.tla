------------------------ MODULE ZkTlsAdapters_proofs ------------------------
(***************************************************************************)
(* Theorems about ZkTlsAdapters, for any providers, listings, inputs and   *)
(* answers, any number of concurrent calls of the Reclaim adapter, and any *)
(* native proofs.                                                          *)
(***************************************************************************)
EXTENDS ZkTlsAdapters, TLAPS

-----------------------------------------------------------------------------
(* Raw proofs *)

LEMMA SealedFields ==
  ASSUME NEW payload, "proofHash" \notin DOMAIN payload
  PROVE  /\ DOMAIN Sealed(payload) = DOMAIN payload \cup {"proofHash"}
         /\ Sealed(payload).proofHash = Hash(payload)
         /\ \A k \in DOMAIN payload : Sealed(payload)[k] = payload[k]
BY DEF Sealed

LEMMA PayloadOfSealed ==
  ASSUME NEW payload, "proofHash" \notin DOMAIN payload,
         payload = [k \in DOMAIN payload |-> payload[k]]
  PROVE  Payload(Sealed(payload)) = payload
<1>1. DOMAIN Payload(Sealed(payload)) = DOMAIN payload
  BY SealedFields DEF Payload
<1>2. \A k \in DOMAIN payload : Payload(Sealed(payload))[k] = payload[k]
  BY SealedFields DEF Payload
<1>3. Payload(Sealed(payload)) = [k \in DOMAIN payload |-> payload[k]]
  BY <1>1, <1>2, SealedFields DEF Payload
<1> QED
  BY <1>3

-----------------------------------------------------------------------------
(* The 0G adapter: what is known of a call, by how far it is *)

CallFields == {"op", "pc", "input", "allowFallback", "asking", "listed", "again", "todo",
               "found", "since", "endpoint", "reachable", "sent", "answer", "response"}

Resolved == {"probe", "headers", "answer", "confirm"}
Sending == {"headers", "answer", "confirm"}

\* What holds of a call that runs, and of the one that ended last: the input it
\* has, who may be asked, and what the request was sent to.
Consistent(c) ==
    /\ DOMAIN c = CallFields
    /\ c.op \in {"idle", "discover", "prepare", "fetch"}
    /\ c.op = "idle" => c.pc = "idle"
    /\ c.op = "discover" => ~c.again
    /\ c.op = "prepare" => c.input \in Preparations
    /\ c.op = "fetch" => c.input \in Fetches
    /\ c.asking \in Providers \cup {None}
    /\ c.pc \in Resolved \cup {"metadata"} => c.asking \in Providers
    /\ c.pc \in Resolved => c.endpoint.provider = c.asking /\ c.endpoint.path = Path(c)
    /\ c.op \in {"prepare", "fetch"} =>
          /\ ~c.listed /\ c.pc \in Resolved \cup {"metadata"} => c.asking = Explicit(c)
          /\ Explicit(c) # None /\ (c.listed \/ c.pc = "list") => c.allowFallback
          /\ c.again => c.allowFallback /\ ~UseProviderSelection(Explicit(c))
    /\ c.op = "fetch" /\ c.allowFallback => config.fallbackOnUnreachable = TRUE
    /\ c.pc \in Sending =>
          /\ c.op = "fetch"
          /\ RequestNormalizes(c.input.request)
          /\ c.input.request.host = c.endpoint.host /\ c.input.request.path = c.endpoint.path
          /\ ProbesEndpoints => c.reachable \/ c.again
    /\ c.sent = IF c.pc \in {"answer", "confirm"}
                THEN [host |-> c.endpoint.host, path |-> c.endpoint.path,
                      model |-> c.endpoint.model]
                ELSE None
    /\ c.pc = "confirm" => /\ c.response.body = ParsedBody(c.answer.body)
                           /\ Usage(c.response.body, c.input.profile) # None

\* An endpoint that a call came upon: where its provider is, if none has changed.
Known(endpoint, c) ==
    /\ endpoint.provider \in Providers /\ endpoint.path = Path(c)
    /\ c.since = changes => endpoint.host = service[endpoint.provider].endpoint

\* What holds of the call that runs besides.
Current(c) ==
    /\ c.since \in 0..changes
    /\ c.todo # {} => listing # None /\ c.todo \subseteq DOMAIN listing
    /\ c.pc \in Resolved => Known(c.endpoint, c)
    /\ \A endpoint \in c.found : Known(endpoint, c)

GoodCall(c) == Consistent(c) /\ Current(c)

\* What was offered is where it was, as long as no provider has changed.
GoodOffers ==
    \A o \in offers :
        /\ o.offer.provider \in Providers /\ o.offer.path = o.requestPath
        /\ o.at \in 0..changes
        /\ o.at = changes => o.offer.host = service[o.offer.provider].endpoint
        /\ call.op = "fetch" => o.at <= call.since

ZgInv ==
    /\ ZgTypeOK
    /\ GoodCall(call)
    /\ result.end # "none" => Consistent(result.call)
    /\ GoodOffers
    /\ OffersCanBeUsed /\ ProofsNameWhatWasAsked /\ HonestAnswersAreProven

\* The two properties of the calls follow.
LEMMA AskedAsTold ==
  ASSUME NEW c, Consistent(c), c.sent # None
  PROVE  /\ c.op = "fetch"
         /\ Explicit(c) # None =>
                c.endpoint.provider = Explicit(c) \/ config.fallbackOnUnreachable = TRUE
         /\ ProbesEndpoints =>
                \/ c.reachable
                \/ c.again /\ config.fallbackOnUnreachable = TRUE /\ config.enabled # TRUE
<1>1. c.pc \in Sending /\ c.pc \in Resolved
  BY DEF Consistent, Sending, Resolved
<1>2. c.op = "fetch"
  BY <1>1 DEF Consistent
<1>3. c.allowFallback => config.fallbackOnUnreachable = TRUE
  BY <1>2 DEF Consistent
<1>4. ASSUME Explicit(c) # None
      PROVE  c.endpoint.provider = Explicit(c) \/ config.fallbackOnUnreachable = TRUE
  BY <1>1, <1>2, <1>3, <1>4 DEF Consistent
<1>5. ASSUME ProbesEndpoints
      PROVE  \/ c.reachable
             \/ c.again /\ config.fallbackOnUnreachable = TRUE /\ config.enabled # TRUE
  BY <1>1, <1>2, <1>3, <1>5 DEF Consistent, UseProviderSelection
<1> QED
  BY <1>2, <1>4, <1>5

-----------------------------------------------------------------------------
(* How a step may end *)

\* The world a call looks at; a step of a call leaves it alone.
Still == UNCHANGED <<config, listing, service, changes>>

LEMMA StillGood ==
  ASSUME Still, NEW c
  PROVE  /\ Consistent(c)' <=> Consistent(c)
         /\ Current(c)' <=> Current(c)
         /\ Path(c)' = Path(c) /\ Explicit(c)' = Explicit(c)
BY DEF Still, Consistent, Current, Known, Path, RequestPath, Explicit, Given,
       UseProviderSelection, ProbesEndpoints

LEMMA IdleIsGood == changes \in Nat => GoodCall(Idle)
BY DEF GoodCall, Consistent, Current, Idle, NewCall, CallFields, Resolved, Sending

\* The configuration and the world are what they are.
LEMMA StillTyped ==
  ASSUME ZgInv, Still
  PROVE  /\ config' \in Configs /\ listing' \in Listings
         /\ service' \in [Providers -> Services] /\ changes' \in 0..MaxChanges
         /\ changes' = changes /\ changes \in Nat
BY ZeroGAssumption DEF ZgInv, ZgTypeOK, Still

\* The step ends in an await: result and offers stay.
LEMMA AwaitsKeeps ==
  ASSUME ZgInv, Still, NEW c, GoodCall(c), c.op = call.op, c.since = call.since, Awaits(c)
  PROVE  ZgInv'
<1>1. call' = c /\ result' = result /\ offers' = offers
  BY DEF Awaits
<1>2. GoodCall(call)'
  BY <1>1, StillGood DEF GoodCall
<1>3. ZgTypeOK'
  BY <1>1, StillTyped DEF ZgInv, ZgTypeOK, GoodCall, Consistent
<1>4. (result.end # "none" => Consistent(result.call))'
  BY <1>1, StillGood DEF ZgInv
<1>5. GoodOffers'
  BY <1>1 DEF ZgInv, GoodOffers, Still
<1>6. OffersCanBeUsed'
  BY <1>1 DEF ZgInv, OffersCanBeUsed, Still, Path, RequestPath, Explicit, Given
<1>7. ProofsNameWhatWasAsked'
  BY <1>1 DEF ZgInv, ProofsNameWhatWasAsked
<1>8. HonestAnswersAreProven'
  BY <1>1 DEF ZgInv, HonestAnswersAreProven
<1> QED
  BY <1>2, <1>3, <1>4, <1>5, <1>6, <1>7, <1>8 DEF ZgInv

\* The step ends the call, with an error or a proof.
LEMMA EndsKeeps ==
  ASSUME ZgInv, Still, NEW how, Ends(how), how.end \in {"proof", "error"},
         Consistent(how.call),
         OffersCanBeUsed', ProofsNameWhatWasAsked', HonestAnswersAreProven'
  PROVE  ZgInv'
<1>1. call' = Idle' /\ result' = how /\ offers' = offers
  BY DEF Ends, Idle, NewCall
<1>2. GoodCall(call)'
  <2>1. (changes \in Nat => GoodCall(Idle))'
    BY IdleIsGood, PTL
  <2> QED
    BY <1>1, <2>1, StillTyped
<1>3. call'.op = "idle" /\ call'.asking = None
  BY <1>1 DEF Idle, NewCall
<1>4. ZgTypeOK'
  BY <1>1, <1>3, StillTyped DEF ZgInv, ZgTypeOK
<1>5. (result.end # "none" => Consistent(result.call))'
  BY <1>1, StillGood
<1>6. GoodOffers'
  BY <1>1, <1>3 DEF ZgInv, GoodOffers, Still
<1> QED
  BY <1>2, <1>4, <1>5, <1>6 DEF ZgInv

LEMMA FailsKeeps ==
  ASSUME ZgInv, Still, NEW c, Consistent(c), NEW why, Fails(c, why),
         why \notin {"mismatch", "lost"}
  PROVE  ZgInv'
<1> DEFINE how == [end |-> "error", why |-> why, call |-> c]
<1>1. Ends(how) /\ result' = how
  BY DEF Fails, Ends
<1>2. OffersCanBeUsed' /\ ProofsNameWhatWasAsked' /\ HonestAnswersAreProven'
  BY <1>1 DEF OffersCanBeUsed, ProofsNameWhatWasAsked, HonestAnswersAreProven
<1> QED
  BY <1>1, <1>2, EndsKeeps

\* The request names another endpoint than the one that was resolved: not one
\* that was offered since the last change, for that is the one.
LEMMA MismatchKeeps ==
  ASSUME ZgInv, Still, NEW c, GoodCall(c), c.op = "fetch", c.op = call.op, c.since = call.since,
         Known(c.endpoint, c), ~c.listed => c.endpoint.provider = Explicit(c),
         \/ c.input.request.host # c.endpoint.host
         \/ c.input.request.path # c.endpoint.path
         \/ UpperCase(c.input.request.method) # "POST",
         Fails(c, "mismatch")
  PROVE  ZgInv'
<1> DEFINE how == [end |-> "error", why |-> "mismatch", call |-> c]
<1>1. Ends(how) /\ result' = how /\ offers' = offers /\ changes' = changes
  BY DEF Fails, Ends, Still
<1>2. ASSUME ~c.listed, NEW o \in offers, o.at = changes, o.requestPath = Path(c),
             o.offer.provider = Explicit(c)
      PROVE  \/ c.input.request.host # o.offer.host
             \/ c.input.request.path # o.offer.path
             \/ c.input.request.method \notin {"post", "POST"}
  <2>1. c.since = changes
    BY <1>2, StillTyped DEF ZgInv, GoodOffers, GoodCall, Current
  <2>2. c.endpoint.host = o.offer.host
    BY <1>2, <2>1 DEF ZgInv, GoodOffers, Known
  <2>3. c.endpoint.path = o.offer.path
    BY <1>2 DEF ZgInv, GoodOffers, Known
  <2>4. CASE UpperCase(c.input.request.method) # "POST"
    BY <2>4 DEF UpperCase
  <2> QED
    BY <2>2, <2>3, <2>4
<1>3. Path(c)' = Path(c) /\ Explicit(c)' = Explicit(c)
  BY StillGood
<1>4. OffersCanBeUsed'
  BY <1>1, <1>2, <1>3 DEF OffersCanBeUsed, Path, Explicit, RequestPath, Given, Still
<1>5. ProofsNameWhatWasAsked' /\ HonestAnswersAreProven'
  BY <1>1 DEF ProofsNameWhatWasAsked, HonestAnswersAreProven
<1> QED
  BY <1>1, <1>4, <1>5, EndsKeeps DEF GoodCall

\* The step ends the call with endpoints, which are where they were found if no
\* provider has changed since the call began.
LEMMA OffersKeeps ==
  ASSUME ZgInv, Still, NEW c, GoodCall(c), NEW endpoints,
         \A endpoint \in endpoints : Known(endpoint, c), Offers(c, endpoints)
  PROVE  ZgInv'
<1>1. /\ call' = Idle' /\ result' = [end |-> "offers", call |-> c]
      /\ offers' = {[offer |-> endpoint, requestPath |-> Path(c), at |-> c.since] :
                        endpoint \in endpoints}
  BY DEF Offers, Idle, NewCall
<1>2. GoodCall(call)'
  <2>1. (changes \in Nat => GoodCall(Idle))'
    BY IdleIsGood, PTL
  <2> QED
    BY <1>1, <2>1, StillTyped
<1>3. call'.op = "idle" /\ call'.asking = None
  BY <1>1 DEF Idle, NewCall
<1>4. c.since \in 0..changes /\ changes \in 0..MaxChanges /\ MaxChanges \in Nat
  BY ZeroGAssumption DEF GoodCall, Current, ZgInv, ZgTypeOK
<1>5. GoodOffers'
  BY <1>1, <1>3, <1>4 DEF GoodOffers, Known, Still
<1>6. ZgTypeOK'
  BY <1>1, <1>3, <1>4, StillTyped DEF ZgTypeOK, Known
<1>7. (result.end # "none" => Consistent(result.call))'
  BY <1>1, StillGood DEF GoodCall
<1>8. OffersCanBeUsed' /\ ProofsNameWhatWasAsked' /\ HonestAnswersAreProven'
  BY <1>1 DEF OffersCanBeUsed, ProofsNameWhatWasAsked, HonestAnswersAreProven
<1> QED
  BY <1>2, <1>5, <1>6, <1>7, <1>8 DEF ZgInv

\* The loop goes on, with a candidate that is listed.
LEMMA NextOfKeeps ==
  ASSUME ZgInv, Still, NEW c, GoodCall(c), c.op = call.op, c.since = call.since,
         c.op # "idle", c.pc \notin {"answer", "confirm"},
         c.op \in {"prepare", "fetch"} /\ Explicit(c) # None => c.allowFallback,
         NextOf(c)
  PROVE  ZgInv'
<1>1. CASE c.todo = {} \/ (c.op = "discover" /\ Cardinality(c.found) >= c.input.limit)
  <2>1. CASE c.op = "discover"
    BY <1>1, <2>1, OffersKeeps DEF NextOf, GoodCall, Current
  <2>2. CASE c.op # "discover"
    BY <1>1, <2>2, FailsKeeps DEF NextOf, GoodCall
  <2> QED
    BY <2>1, <2>2
<1>2. CASE ~(c.todo = {} \/ (c.op = "discover" /\ Cardinality(c.found) >= c.input.limit))
  <2>1. PICK i \in c.todo : Awaits([c EXCEPT !.pc = "metadata", !.asking = listing[i].provider,
                                             !.listed = TRUE, !.todo = c.todo \ {i}])
    BY <1>2 DEF NextOf
  <2> DEFINE d == [c EXCEPT !.pc = "metadata", !.asking = listing[i].provider,
                            !.listed = TRUE, !.todo = c.todo \ {i}]
  <2>2. listing[i].provider \in Providers
    BY ZeroGAssumption DEF GoodCall, Current, ZgInv, ZgTypeOK
  <2>3. /\ DOMAIN c = CallFields /\ DOMAIN d = CallFields
        /\ d.pc = "metadata" /\ d.asking = listing[i].provider /\ d.listed
        /\ d.todo = c.todo \ {i}
        /\ \A k \in {"op", "input", "allowFallback", "again", "found", "since", "endpoint",
                    "reachable", "sent", "answer", "response"} : d[k] = c[k]
    BY DEF GoodCall, Consistent, CallFields
  <2>4. Path(d) = Path(c) /\ Explicit(d) = Explicit(c)
    BY <2>3 DEF Path, Explicit
  <2>5. c.sent = None
    BY DEF GoodCall, Consistent
  <2>6. Consistent(d)
    BY <2>2, <2>3, <2>4, <2>5 DEF GoodCall, Consistent, Resolved, Sending
  <2>7. Current(d)
    BY <2>3, <2>4 DEF GoodCall, Current, Known, Resolved
  <2>8. d.op = call.op /\ d.since = call.since
    BY <2>3
  <2> QED
    BY <2>1, <2>6, <2>7, <2>8, AwaitsKeeps DEF GoodCall
<1> QED
  BY <1>1, <1>2

\* A call that has just come upon its endpoint.
Found(c) ==
    /\ GoodCall(c)
    /\ c.op = call.op /\ c.since = call.since
    /\ c.pc \in {"metadata", "probe"}
    /\ c.endpoint.provider = c.asking /\ Known(c.endpoint, c)

LEMMA ResolvesKeeps ==
  ASSUME ZgInv, Still, NEW c, Found(c), c.op \in {"prepare", "fetch"},
         ProbesEndpoints => c.reachable \/ c.again, Resolves(c)
  PROVE  ZgInv'
<1> DEFINE request == c.input.request
           differs == \/ request.host # c.endpoint.host
                      \/ request.path # c.endpoint.path
                      \/ UpperCase(request.method) # "POST"
<1>1. CASE c.op = "prepare"
  BY <1>1, OffersKeeps DEF Resolves, Found
<1>2. ~c.listed => c.endpoint.provider = Explicit(c)
  BY DEF Found, GoodCall, Consistent, Resolved
<1>3. CASE c.op = "fetch" /\ ~RequestNormalizes(request)
  BY <1>3, FailsKeeps DEF Resolves, Found, GoodCall
<1>4. CASE c.op = "fetch" /\ RequestNormalizes(request) /\ differs
  <2>1. Fails(c, "mismatch")
    BY <1>4 DEF Resolves
  <2> QED
    BY <1>2, <1>4, <2>1, MismatchKeeps DEF Found
<1>5. CASE c.op = "fetch" /\ RequestNormalizes(request) /\ ~differs
  <2> DEFINE d == [c EXCEPT !.pc = "headers"]
  <2>1. IF IsRecord(request.body) THEN Awaits(d) ELSE Fails(c, "body")
    BY <1>5 DEF Resolves
  <2>2. CASE ~IsRecord(request.body)
    BY <2>1, <2>2, FailsKeeps DEF Found, GoodCall
  <2>3. CASE IsRecord(request.body)
    <3>1. /\ DOMAIN c = CallFields /\ DOMAIN d = CallFields /\ d.pc = "headers"
          /\ \A k \in CallFields \ {"pc"} : d[k] = c[k]
      BY DEF Found, GoodCall, Consistent, CallFields
    <3>2. Path(d) = Path(c) /\ Explicit(d) = Explicit(c)
      BY <3>1 DEF Path, Explicit, CallFields
    <3>3. c.sent = None /\ c.asking \in Providers
      BY DEF Found, GoodCall, Consistent, Resolved
    <3>4. Consistent(d)
      BY <1>2, <1>5, <3>1, <3>2, <3>3
      DEF Found, GoodCall, Consistent, CallFields, Resolved, Sending, Known
    <3>5. Current(d)
      BY <3>1, <3>2 DEF Found, GoodCall, Current, CallFields, Known
    <3> QED
      BY <2>1, <2>3, <3>1, <3>4, <3>5, AwaitsKeeps DEF Found, GoodCall, CallFields
  <2> QED
    BY <2>2, <2>3
<1> QED
  BY <1>1, <1>3, <1>4, <1>5

LEMMA ProbedKeeps ==
  ASSUME ZgInv, Still, NEW c, Found(c), c.op # "idle", Probed(c)
  PROVE  ZgInv'
<1>1. /\ c.op \in {"discover", "prepare", "fetch"} /\ DOMAIN c = CallFields
      /\ c.sent = None /\ c.asking \in Providers
  BY DEF Found, GoodCall, Consistent, Resolved
<1>2. CASE c.op = "discover"
  <2> DEFINE d == [c EXCEPT !.found = c.found \cup {c.endpoint}]
  <2>1. NextOf(c) \/ NextOf(d)
    BY <1>2 DEF Probed
  <2>2. CASE NextOf(c)
    BY <1>2, <2>2, NextOfKeeps DEF Found
  <2>3. CASE NextOf(d)
    <3>1. /\ DOMAIN d = CallFields /\ d.found = c.found \cup {c.endpoint}
          /\ \A k \in CallFields \ {"found"} : d[k] = c[k]
      BY <1>1 DEF CallFields
    <3>2. Path(d) = Path(c) /\ Explicit(d) = Explicit(c)
      BY <3>1 DEF Path, Explicit, CallFields
    <3>3. Consistent(d)
      BY <1>2, <3>1, <3>2 DEF Found, GoodCall, Consistent, CallFields, Resolved, Sending
    <3>4. Current(d)
      BY <3>1, <3>2 DEF Found, GoodCall, Current, CallFields, Known, Resolved
    <3> QED
      BY <1>2, <2>3, <3>1, <3>3, <3>4, NextOfKeeps DEF Found, GoodCall, CallFields
  <2> QED
    BY <2>1, <2>2, <2>3
<1>3. CASE c.op # "discover" /\ c.reachable
  BY <1>1, <1>3, ResolvesKeeps DEF Probed
<1>4. CASE c.op # "discover" /\ ~c.reachable /\ c.listed
  <2>1. NextOf(c)
    BY <1>4 DEF Probed
  <2>2. Explicit(c) # None => c.allowFallback
    BY <1>1, <1>4 DEF Found, GoodCall, Consistent
  <2> QED
    BY <2>1, <2>2, NextOfKeeps DEF Found
<1>5. CASE c.op # "discover" /\ ~c.reachable /\ ~c.listed
  <2>1. CASE ~c.allowFallback
    BY <1>5, <2>1, FailsKeeps DEF Probed, Found, GoodCall
  <2>2. CASE c.allowFallback /\ UseProviderSelection(Explicit(c))
    <3> DEFINE d == [c EXCEPT !.pc = "list"]
    <3>1. Awaits(d)
      BY <1>5, <2>2 DEF Probed
    <3>2. /\ DOMAIN d = CallFields /\ d.pc = "list"
          /\ \A k \in CallFields \ {"pc"} : d[k] = c[k]
      BY <1>1 DEF CallFields
    <3>3. Path(d) = Path(c) /\ Explicit(d) = Explicit(c)
      BY <3>2 DEF Path, Explicit, CallFields
    <3>4. Consistent(d)
      BY <1>1, <2>2, <3>2, <3>3 DEF Found, GoodCall, Consistent, CallFields, Resolved, Sending
    <3>5. Current(d)
      BY <3>2, <3>3 DEF Found, GoodCall, Current, CallFields, Known, Resolved
    <3> QED
      BY <3>1, <3>2, <3>4, <3>5, AwaitsKeeps DEF Found, GoodCall, CallFields
  <2>3. CASE c.allowFallback /\ ~UseProviderSelection(Explicit(c))
    <3> DEFINE d == [c EXCEPT !.pc = "metadata", !.again = TRUE]
    <3>1. Awaits(d)
      BY <1>5, <2>3 DEF Probed
    <3>2. /\ DOMAIN d = CallFields /\ d.pc = "metadata" /\ d.again = TRUE
          /\ \A k \in CallFields \ {"pc", "again"} : d[k] = c[k]
      BY <1>1 DEF CallFields
    <3>3. Path(d) = Path(c) /\ Explicit(d) = Explicit(c)
      BY <3>2 DEF Path, Explicit, CallFields
    <3>4. Consistent(d)
      BY <1>1, <1>5, <2>3, <3>2, <3>3 DEF Found, GoodCall, Consistent, CallFields, Resolved, Sending
    <3>5. Current(d)
      BY <3>2, <3>3 DEF Found, GoodCall, Current, CallFields, Known, Resolved
    <3> QED
      BY <3>1, <3>2, <3>4, <3>5, AwaitsKeeps DEF Found, GoodCall, CallFields
  <2> QED
    BY <2>1, <2>2, <2>3
<1> QED
  BY <1>2, <1>3, <1>4, <1>5

-----------------------------------------------------------------------------
(* The steps of a call *)

LEMMA StartsKeeps ==
  ASSUME ZgInv, NEW c, Consistent(c), Starts(c),
         c.todo = {}, c.found = {}, c.pc \notin Resolved
  PROVE  ZgInv'
<1> DEFINE d == [c EXCEPT !.since = changes]
<1>1. call' = d /\ result' = NoResult /\ offers' = offers /\ Still
  BY DEF Starts, Still
<1>2. /\ DOMAIN d = CallFields /\ d.since = changes
      /\ \A k \in CallFields \ {"since"} : d[k] = c[k]
  BY DEF Consistent, CallFields
<1>3. Path(d) = Path(c) /\ Explicit(d) = Explicit(c)
  BY <1>2 DEF Path, Explicit, CallFields
<1>4. Consistent(d)
  BY <1>2, <1>3 DEF Consistent, CallFields, Resolved, Sending
<1>5. Current(d)
  BY <1>1, <1>2, StillTyped DEF Current, CallFields
<1>6. GoodCall(call)'
  BY <1>1, <1>4, <1>5, StillGood DEF GoodCall
<1>7. ZgTypeOK'
  BY <1>1, <1>4, StillTyped DEF ZgInv, ZgTypeOK, NoResult, Consistent
<1>8. GoodOffers'
  BY <1>1, <1>2, StillTyped DEF ZgInv, GoodOffers, Still
<1>9. /\ (result.end # "none" => Consistent(result.call))'
      /\ OffersCanBeUsed' /\ ProofsNameWhatWasAsked' /\ HonestAnswersAreProven'
  BY <1>1 DEF OffersCanBeUsed, ProofsNameWhatWasAsked, HonestAnswersAreProven, NoResult
<1> QED
  BY <1>6, <1>7, <1>8, <1>9 DEF ZgInv

LEMMA DiscoverKeeps ==
  ASSUME ZgInv, NEW input \in Discoveries, DiscoverModelEndpoints(input)
  PROVE  ZgInv'
<1> DEFINE c == NewCall("discover", input, FALSE, None, "list")
<1>1. Consistent(c) /\ c.todo = {} /\ c.found = {} /\ c.pc \notin Resolved
  BY DEF NewCall, Consistent, CallFields, Resolved, Sending
<1> QED
  BY <1>1, StartsKeeps DEF DiscoverModelEndpoints

LEMMA StartsResolvingKeeps ==
  ASSUME ZgInv, NEW op \in {"prepare", "fetch"}, NEW input, NEW allowFallback,
         IF op = "prepare" THEN input \in Preparations
         ELSE input \in Fetches /\ (allowFallback => config.fallbackOnUnreachable = TRUE),
         StartsResolving(op, input, allowFallback)
  PROVE  ZgInv'
<1> DEFINE explicit == Given(input.provider, config.providerAddress)
           pc == IF explicit # None THEN "metadata"
                 ELSE IF UseProviderSelection(None) THEN "list" ELSE "refused"
           c == NewCall(op, input, allowFallback, explicit, pc)
<1>1. explicit \in Providers \cup {None}
  BY ZeroGAssumption DEF Given, ZgInv, ZgTypeOK
<1>2. /\ DOMAIN c = CallFields /\ c.op = op /\ c.input = input /\ c.allowFallback = allowFallback
      /\ c.asking = explicit /\ c.pc = pc /\ ~c.listed /\ ~c.again
      /\ c.sent = None /\ c.todo = {} /\ c.found = {}
  BY DEF NewCall, CallFields
<1>3. Explicit(c) = explicit
  BY <1>2 DEF Explicit
<1>4. pc \in {"metadata", "list", "refused"} /\ (pc = "metadata" <=> explicit # None)
  OBVIOUS
<1> HIDE DEF c, pc, explicit
<1>5. Consistent(c) /\ c.pc \notin Resolved
  BY <1>1, <1>2, <1>3, <1>4 DEF Consistent, Resolved, Sending
<1>6. Starts(c)
  BY DEF StartsResolving, c, pc, explicit
<1> QED
  BY <1>2, <1>5, <1>6, StartsKeeps

LEMMA PrepareKeeps ==
  ASSUME ZgInv, NEW input \in Preparations, PrepareOpenAiRequest(input)
  PROVE  ZgInv'
BY StartsResolvingKeeps DEF PrepareOpenAiRequest

LEMMA ProvenFetchKeeps ==
  ASSUME ZgInv, NEW input \in Fetches, ProvenFetch(input)
  PROVE  ZgInv'
BY StartsResolvingKeeps DEF ProvenFetch

LEMMA RefusedKeeps ==
  ASSUME ZgInv, Refused
  PROVE  ZgInv'
BY FailsKeeps DEF Refused, At, Still, ZgInv, GoodCall

LEMMA ListServicesKeeps ==
  ASSUME ZgInv, ListServices
  PROVE  ZgInv'
<1>1. Still /\ call.pc = "list"
  BY DEF ListServices, At, Still
<1>2. CASE listing = None
  BY <1>1, <1>2, FailsKeeps DEF ListServices, ZgInv, GoodCall
<1>3. CASE listing # None
  <2> DEFINE d == [call EXCEPT !.todo = Candidates]
  <2>1. NextOf(d)
    BY <1>3 DEF ListServices
  <2>2. /\ DOMAIN call = CallFields /\ DOMAIN d = CallFields /\ d.todo = Candidates
        /\ \A k \in CallFields \ {"todo"} : d[k] = call[k]
    BY DEF ZgInv, GoodCall, Consistent, CallFields
  <2>3. Path(d) = Path(call) /\ Explicit(d) = Explicit(call)
    BY <2>2 DEF Path, Explicit, CallFields
  <2>4. Consistent(d)
    BY <1>1, <2>2, <2>3 DEF ZgInv, GoodCall, Consistent, CallFields, Resolved, Sending
  <2>5. Candidates \subseteq DOMAIN listing
    BY DEF Candidates
  <2>6. Current(d)
    BY <1>1, <1>3, <2>2, <2>3, <2>5 DEF ZgInv, GoodCall, Current, CallFields, Known, Resolved
  <2>7. d.op # "idle" /\ (d.op \in {"prepare", "fetch"} /\ Explicit(d) # None => d.allowFallback)
    BY <1>1, <2>2, <2>4 DEF Consistent, CallFields
  <2> QED
    BY <1>1, <2>1, <2>2, <2>4, <2>6, <2>7, NextOfKeeps DEF GoodCall, CallFields
<1> QED
  BY <1>2, <1>3

LEMMA GetServiceMetadataKeeps ==
  ASSUME ZgInv, GetServiceMetadata
  PROVE  ZgInv'
<1> DEFINE c == [call EXCEPT !.endpoint = Endpoint(call.asking, Path(call)),
                             !.reachable = ~ProbesEndpoints]
<1>1. Still /\ call.pc = "metadata"
  BY DEF GetServiceMetadata, At, Still
<1>2. /\ GoodCall(call) /\ DOMAIN call = CallFields /\ call.asking \in Providers
      /\ call.op # "idle" /\ call.sent = None
  BY <1>1 DEF ZgInv, GoodCall, Consistent
<1>3. /\ DOMAIN c = CallFields /\ c.endpoint = Endpoint(call.asking, Path(call))
      /\ c.reachable = ~ProbesEndpoints
      /\ \A k \in CallFields \ {"endpoint", "reachable"} : c[k] = call[k]
  BY <1>2 DEF CallFields
<1>4. Path(c) = Path(call) /\ Explicit(c) = Explicit(call)
  BY <1>3 DEF Path, Explicit, CallFields
<1>5. Known(c.endpoint, c) /\ c.endpoint.provider = call.asking
  BY <1>2, <1>3, <1>4 DEF Known, Endpoint
<1>6. Consistent(c)
  BY <1>1, <1>2, <1>3, <1>4 DEF GoodCall, Consistent, CallFields, Resolved, Sending
<1>7. Current(c)
  BY <1>1, <1>2, <1>3, <1>4 DEF GoodCall, Current, CallFields, Known, Resolved
<1>8. Found(c) /\ c.op # "idle" /\ c.again = call.again
  BY <1>1, <1>2, <1>3, <1>5, <1>6, <1>7 DEF Found, GoodCall, CallFields
<1>9. CASE ~service[call.asking].readable
  BY <1>1, <1>2, <1>9, FailsKeeps DEF GetServiceMetadata, GoodCall
<1>10. CASE service[call.asking].readable /\ call.again
  <2>1. Resolves(c)
    BY <1>10 DEF GetServiceMetadata
  <2>2. c.op \in {"prepare", "fetch"}
    BY <1>6, <1>8, <1>10 DEF Consistent
  <2> QED
    BY <1>1, <1>8, <1>10, <2>1, <2>2, ResolvesKeeps
<1>11. CASE /\ service[call.asking].readable /\ ~call.again
            /\ call.op = "discover" /\ c.endpoint.model # call.input.model
  <2>1. NextOf(call)
    BY <1>11 DEF GetServiceMetadata
  <2> QED
    BY <1>1, <1>2, <1>11, <2>1, NextOfKeeps
<1>12. CASE /\ service[call.asking].readable /\ ~call.again
            /\ ~(call.op = "discover" /\ c.endpoint.model # call.input.model)
  <2>1. IF ProbesEndpoints THEN Awaits([c EXCEPT !.pc = "probe"]) ELSE Probed(c)
    BY <1>12 DEF GetServiceMetadata
  <2>2. CASE ~ProbesEndpoints
    BY <1>1, <1>8, <2>1, <2>2, ProbedKeeps
  <2>3. CASE ProbesEndpoints
    <3> DEFINE d == [c EXCEPT !.pc = "probe"]
    <3>1. /\ DOMAIN d = CallFields /\ d.pc = "probe"
          /\ \A k \in CallFields \ {"pc"} : d[k] = c[k]
      BY <1>3 DEF CallFields
    <3>2. Path(d) = Path(c) /\ Explicit(d) = Explicit(c)
      BY <3>1 DEF Path, Explicit, CallFields
    <3> HIDE DEF c, d
    <3>3. c.sent = None /\ c.pc = "metadata" /\ c.asking = call.asking
      BY <1>1, <1>2, <1>3 DEF CallFields
    <3>4. Consistent(d)
      BY <1>5, <1>6, <1>8, <3>1, <3>2, <3>3 DEF Consistent, Known, CallFields, Resolved, Sending
    <3>5. Current(d)
      BY <1>5, <1>7, <3>1, <3>2 DEF Current, CallFields, Known
    <3>6. d.op = call.op /\ d.since = call.since
      BY <1>8, <3>1 DEF Found, CallFields
    <3>7. Awaits(d)
      BY <2>1, <2>3 DEF d
    <3> QED
      BY <1>1, <3>4, <3>5, <3>6, <3>7, AwaitsKeeps DEF GoodCall
  <2> QED
    BY <2>2, <2>3
<1> QED
  BY <1>9, <1>10, <1>11, <1>12

LEMMA ProbeEndpointKeeps ==
  ASSUME ZgInv, ProbeEndpoint
  PROVE  ZgInv'
<1>1. Still /\ call.pc = "probe"
  BY DEF ProbeEndpoint, At, Still
<1>2. PICK reachable \in {UpAt(call.endpoint.host), FALSE} :
          Probed([call EXCEPT !.reachable = reachable])
  BY DEF ProbeEndpoint
<1> DEFINE c == [call EXCEPT !.reachable = reachable]
<1>3. /\ GoodCall(call) /\ DOMAIN call = CallFields /\ call.op # "idle" /\ call.sent = None
      /\ call.endpoint.provider = call.asking /\ Known(call.endpoint, call)
  BY <1>1 DEF ZgInv, GoodCall, Consistent, Current, Resolved
<1>4. /\ DOMAIN c = CallFields
      /\ \A k \in CallFields \ {"reachable"} : c[k] = call[k]
  BY <1>3 DEF CallFields
<1>5. Path(c) = Path(call) /\ Explicit(c) = Explicit(call)
  BY <1>4 DEF Path, Explicit, CallFields
<1>6. Consistent(c)
  BY <1>1, <1>3, <1>4, <1>5 DEF GoodCall, Consistent, CallFields, Resolved, Sending
<1>7. Current(c) /\ Known(c.endpoint, c)
  BY <1>3, <1>4, <1>5 DEF GoodCall, Current, CallFields, Known
<1>8. Found(c) /\ c.op # "idle"
  BY <1>1, <1>3, <1>4, <1>6, <1>7 DEF Found, GoodCall, CallFields
<1> QED
  BY <1>1, <1>2, <1>8, ProbedKeeps

LEMMA GetRequestHeadersKeeps ==
  ASSUME ZgInv, GetRequestHeaders
  PROVE  ZgInv'
<1> DEFINE d == [call EXCEPT !.pc = "answer",
                             !.sent = [host |-> call.endpoint.host, path |-> call.endpoint.path,
                                       model |-> call.endpoint.model]]
<1>1. Still /\ call.pc = "headers" /\ GoodCall(call)
  BY DEF GetRequestHeaders, At, Still, ZgInv
<1>2. CASE Fails(call, "headers")
  BY <1>1, <1>2, FailsKeeps DEF GoodCall
<1>3. CASE Awaits(d)
  <2>1. /\ DOMAIN call = CallFields /\ DOMAIN d = CallFields /\ d.pc = "answer"
        /\ d.sent = [host |-> call.endpoint.host, path |-> call.endpoint.path,
                     model |-> call.endpoint.model]
        /\ \A k \in CallFields \ {"pc", "sent"} : d[k] = call[k]
    BY <1>1 DEF GoodCall, Consistent, CallFields
  <2>2. Path(d) = Path(call) /\ Explicit(d) = Explicit(call)
    BY <2>1 DEF Path, Explicit, CallFields
  <2>3. Consistent(d)
    BY <1>1, <2>1, <2>2 DEF GoodCall, Consistent, CallFields, Resolved, Sending
  <2>4. Current(d)
    BY <1>1, <2>1, <2>2 DEF GoodCall, Current, CallFields, Known, Resolved
  <2> QED
    BY <1>1, <1>3, <2>1, <2>3, <2>4, AwaitsKeeps DEF GoodCall, CallFields
<1> QED
  BY <1>2, <1>3 DEF GetRequestHeaders

LEMMA ReceiveAnswerKeeps ==
  ASSUME ZgInv, ReceiveAnswer
  PROVE  ZgInv'
<1>1. Still /\ call.pc = "answer" /\ GoodCall(call)
  BY DEF ReceiveAnswer, At, Still, ZgInv
<1>2. CASE Fails(call, "no answer")
  BY <1>1, <1>2, FailsKeeps DEF GoodCall
<1>3. ASSUME NEW answer \in Answers, NEW body \in Bodies,
             LET response == [status |-> answer.status, blankHeader |-> answer.blankHeader,
                              body |-> ParsedBody(body)]
             IN  IF ~ResponseNormalizes(response) THEN Fails(call, "response")
                 ELSE IF Usage(response.body, call.input.profile) = None
                      THEN Fails(call, "usage")
                 ELSE Awaits([call EXCEPT !.pc = "confirm",
                                          !.answer = [body |-> body, zgResKey |-> answer.zgResKey],
                                          !.response = NormalizedResponse(response)])
      PROVE  ZgInv'
  <2> DEFINE response == [status |-> answer.status, blankHeader |-> answer.blankHeader,
                          body |-> ParsedBody(body)]
             taken == [body |-> body, zgResKey |-> answer.zgResKey]
             d == [call EXCEPT !.pc = "confirm", !.answer = taken,
                               !.response = NormalizedResponse(response)]
  <2>1. CASE Fails(call, "response") \/ Fails(call, "usage")
    BY <1>1, <2>1, FailsKeeps DEF GoodCall
  <2>2. CASE Awaits(d) /\ Usage(response.body, call.input.profile) # None
    <3>1. /\ DOMAIN call = CallFields /\ DOMAIN d = CallFields
          /\ d.pc = "confirm" /\ d.answer = taken /\ d.response = NormalizedResponse(response)
          /\ \A k \in CallFields \ {"pc", "answer", "response"} : d[k] = call[k]
      BY <1>1 DEF GoodCall, Consistent, CallFields
    <3>2. d.response.body = ParsedBody(d.answer.body)
      BY <3>1 DEF NormalizedResponse
    <3>3. Usage(d.response.body, d.input.profile) # None
      BY <2>2, <3>1 DEF NormalizedResponse, CallFields
    <3>4. Path(d) = Path(call) /\ Explicit(d) = Explicit(call)
      BY <3>1 DEF Path, Explicit, CallFields
    <3> HIDE DEF d
    <3>5. Consistent(d)
      BY <1>1, <3>1, <3>2, <3>3, <3>4 DEF GoodCall, Consistent, CallFields, Resolved, Sending
    <3>6. Current(d)
      BY <1>1, <3>1, <3>4 DEF GoodCall, Current, CallFields, Known, Resolved
    <3>7. d.op = call.op /\ d.since = call.since
      BY <3>1 DEF CallFields
    <3> QED
      BY <1>1, <2>2, <3>5, <3>6, <3>7, AwaitsKeeps DEF GoodCall
  <2> QED
    BY <1>3, <2>1, <2>2
<1> QED
  BY <1>2, <1>3 DEF ReceiveAnswer

LEMMA ConfirmationFailsKeeps ==
  ASSUME ZgInv, ConfirmationFails
  PROVE  ZgInv'
BY FailsKeeps DEF ConfirmationFails, At, Still, ZgInv, GoodCall

LEMMA ProcessResponseKeeps ==
  ASSUME ZgInv, NEW confirmed, NEW signer, NEW now, ProcessResponse(confirmed, signer, now)
  PROVE  ZgInv'
<1> DEFINE body == call.response.body
           usage == Usage(body, call.input.profile)
           chatId == ChatId(call.answer, body)
           request == call.input.request
           proofContext == ProviderProofContext(call.input.taskContext, call.input.callIndex,
                                                call.input.callIntentHash)
           zeroG == [endpoint |-> EndpointUsed, modelFromMetadata |-> EndpointUsed.model,
                     chatId |-> chatId, processResponseResult |-> confirmed,
                     teeSignerAddress |-> signer]
           payload ==
             [provider |-> ZERO_G_TEETLS_PROVIDER,
              providerProofId |-> IF chatId # Undefined THEN chatId
                                  ELSE DerivedProofId(EndpointUsed, call.response, now),
              proofContext |-> proofContext,
              request |-> NormalizedRequest(request),
              response |-> call.response,
              observedAt |-> now,
              extracted |-> [model |-> EndpointUsed.model, totalTokens |-> usage.tokens],
              zeroG |-> zeroG,
              metadata |-> [requestPath |-> Path(call), usageSource |-> usage.source]]
           proven == [end |-> "proof", call |-> call, rawProof |-> Sealed(payload)]
           refused == [end |-> "error", why |-> "lost", call |-> call,
                       confirmed |-> confirmed, signer |-> signer, now |-> now]
           Made == now # None /\ signer # "malformed" /\ ZeroGPayloadHashes(payload)
<1>1. Still /\ call.pc = "confirm" /\ GoodCall(call)
  BY DEF ProcessResponse, At, Still, ZgInv
<1>2. IF Made THEN Ends(proven) ELSE Ends(refused)
  BY DEF ProcessResponse
<1>3. /\ call.op = "fetch" /\ call.input \in Fetches
      /\ RequestNormalizes(request)
      /\ request.host = call.endpoint.host /\ request.path = call.endpoint.path
      /\ call.sent = [host |-> call.endpoint.host, path |-> call.endpoint.path,
                      model |-> call.endpoint.model]
      /\ body = ParsedBody(call.answer.body) /\ usage # None
  BY <1>1 DEF GoodCall, Consistent, Sending
<1>4. /\ NormalizedRequest(request).host = request.host
      /\ NormalizedRequest(request).path = request.path
      /\ NormalizedRequest(request).method = UpperCase(request.method)
      /\ NormalizedRequest(request).body = request.body
  <2>1. request = [host |-> request.host, path |-> request.path,
                   method |-> request.method, body |-> request.body]
    BY <1>3, ZeroGAssumption
  <2>2. DOMAIN request = {"host", "path", "method", "body"}
    BY <2>1
  <2> QED
    BY <2>2 DEF NormalizedRequest
<1>5. CASE Made
  <2>1. Ends(proven) /\ result' = proven
    BY <1>2, <1>5 DEF Ends
  <2>2. "proofHash" \notin DOMAIN payload /\ payload = [k \in DOMAIN payload |-> payload[k]]
    OBVIOUS
  <2> HIDE DEF payload
  <2>3. /\ \A k \in DOMAIN payload : Sealed(payload)[k] = payload[k]
        /\ Sealed(payload).proofHash = Hash(payload)
        /\ Payload(Sealed(payload)) = payload
    BY <2>2, SealedFields, PayloadOfSealed
  <2>4. /\ Sealed(payload).proofContext = proofContext
        /\ Sealed(payload).request = NormalizedRequest(request)
        /\ Sealed(payload).response = call.response
        /\ Sealed(payload).extracted = [model |-> EndpointUsed.model, totalTokens |-> usage.tokens]
        /\ Sealed(payload).zeroG = zeroG
    BY <2>3 DEF payload
  <2>5. ProofsNameWhatWasAsked'
    BY <1>3, <1>4, <2>1, <2>4 DEF ProofsNameWhatWasAsked, EndpointUsed
  <2>6. ASSUME confirmed = TRUE, call.input.profile = None, NEW input \in Fetches
        PROVE  ZeroGNormalizesReceipt(Sealed(payload), input) <=>
                   /\ input.taskContext = call.input.taskContext
                   /\ input.callIndex = call.input.callIndex
                   /\ input.callIntentHash = call.input.callIntentHash
    <3>1. VerifyZeroGRawProof(Sealed(payload))
      BY <1>3, <1>5, <2>3, <2>4, <2>6 DEF VerifyZeroGRawProof
    <3>2. ReceiptContextMatches(proofContext, input) <=>
             /\ input.taskContext = call.input.taskContext
             /\ input.callIndex = call.input.callIndex
             /\ input.callIntentHash = call.input.callIntentHash
      BY DEF ReceiptContextMatches, ProviderProofContext
    <3> QED
      BY <2>4, <3>1, <3>2 DEF ZeroGNormalizesReceipt
  <2>7. HonestAnswersAreProven'
    <3>1. \A rawProof, input : ZeroGNormalizesReceipt(rawProof, input)' <=>
                               ZeroGNormalizesReceipt(rawProof, input)
      BY DEF ZeroGNormalizesReceipt, VerifyZeroGRawProof
    <3>2. /\ result'.end = "proof" /\ result'.call = call /\ result'.rawProof = Sealed(payload)
          /\ result'.rawProof.zeroG.processResponseResult = confirmed
      BY <2>1, <2>4
    <3> HIDE DEF proven
    <3> QED
      BY <2>6, <3>1, <3>2 DEF HonestAnswersAreProven
  <2>8. OffersCanBeUsed'
    BY <2>1 DEF OffersCanBeUsed
  <2> QED
    BY <1>1, <2>1, <2>5, <2>7, <2>8, EndsKeeps DEF GoodCall
<1>6. CASE ~Made
  <2>1. Ends(refused) /\ result' = refused
    BY <1>2, <1>6 DEF Ends
  <2>2. \/ confirmed = None \/ ~Canonicalizes(request.body)
        \/ ~Canonicalizes(Sanitized(call.answer.body))
        \/ signer = "malformed" \/ now = None
    <3> SUFFICES ASSUME confirmed # None, Canonicalizes(request.body),
                        Canonicalizes(Sanitized(call.answer.body))
                 PROVE  ZeroGPayloadHashes(payload)
      BY <1>6
    <3>1. UpperCase(request.method) # ""
      BY <1>3 DEF RequestNormalizes, UpperCase
    <3>2. RequestHashes(NormalizedRequest(request))
      BY <1>3, <1>4, <3>1 DEF RequestHashes, RequestNormalizes
    <3>3. Canonicalizes(body)
      BY <1>3, CanonicalAssumption DEF ParsedBody
    <3> QED
      BY <3>2, <3>3 DEF ZeroGPayloadHashes, ResponseHashes
  <2>3. OffersCanBeUsed' /\ ProofsNameWhatWasAsked' /\ HonestAnswersAreProven'
    BY <2>1, <2>2 DEF OffersCanBeUsed, ProofsNameWhatWasAsked, HonestAnswersAreProven
  <2> QED
    BY <1>1, <2>1, <2>3, EndsKeeps DEF GoodCall
<1> QED
  BY <1>5, <1>6

\* What was found or offered before a change is not what it was found to be.
LEMMA ServiceChangesKeeps ==
  ASSUME ZgInv, NEW p \in Providers, ServiceChanges(p)
  PROVE  ZgInv'
<1>1. /\ config' = config /\ listing' = listing /\ call' = call /\ result' = result
      /\ offers' = offers /\ changes' = changes + 1 /\ changes < MaxChanges
  BY DEF ServiceChanges
<1>2. PICK s \in Services : service' = [service EXCEPT ![p] = s]
  BY DEF ServiceChanges
<1>3. changes \in 0..MaxChanges /\ MaxChanges \in Nat
  BY ZeroGAssumption DEF ZgInv, ZgTypeOK
<1>4. \A c : /\ Consistent(c)' <=> Consistent(c)
             /\ Path(c)' = Path(c) /\ Explicit(c)' = Explicit(c)
  BY <1>1 DEF Consistent, Path, RequestPath, Explicit, Given, UseProviderSelection,
              ProbesEndpoints
<1>5. ZgTypeOK'
  BY <1>1, <1>2, <1>3 DEF ZgInv, ZgTypeOK
<1>6. Current(call)'
  BY <1>1, <1>3, <1>4 DEF ZgInv, GoodCall, Current, Known
<1>7. GoodCall(call)'
  BY <1>1, <1>4, <1>6 DEF ZgInv, GoodCall
<1>8. GoodOffers'
  BY <1>1, <1>3 DEF ZgInv, GoodOffers
<1>9. OffersCanBeUsed'
  BY <1>1, <1>3 DEF ZgInv, GoodOffers, OffersCanBeUsed
<1>10. ProofsNameWhatWasAsked' /\ HonestAnswersAreProven'
  BY <1>1 DEF ZgInv, ProofsNameWhatWasAsked, HonestAnswersAreProven
<1>11. (result.end # "none" => Consistent(result.call))'
  BY <1>1, <1>4 DEF ZgInv
<1> QED
  BY <1>5, <1>7, <1>8, <1>9, <1>10, <1>11 DEF ZgInv

LEMMA ZgInvStarts ==
  ASSUME ZgInit
  PROVE  ZgInv
<1>1. changes = 0 /\ call = Idle /\ result = NoResult /\ offers = {}
  BY DEF ZgInit
<1>2. GoodCall(call)
  BY <1>1, IdleIsGood
<1>3. service \in [Providers -> Services] /\ changes \in 0..MaxChanges
  BY <1>1, ZeroGAssumption DEF ZgInit
<1>4. ZgTypeOK
  BY <1>1, <1>3 DEF ZgInit, ZgTypeOK, Idle, NewCall, NoResult
<1>5. GoodOffers /\ OffersCanBeUsed /\ ProofsNameWhatWasAsked /\ HonestAnswersAreProven
  BY <1>1 DEF GoodOffers, OffersCanBeUsed, ProofsNameWhatWasAsked, HonestAnswersAreProven, NoResult
<1> QED
  BY <1>1, <1>2, <1>4, <1>5 DEF ZgInv, NoResult

LEMMA ZgInvKept ==
  ASSUME ZgInv, ZgNext
  PROVE  ZgInv'
<1>1. CASE \E input \in Discoveries : DiscoverModelEndpoints(input)
  BY <1>1, DiscoverKeeps
<1>2. CASE \E input \in Preparations : PrepareOpenAiRequest(input)
  BY <1>2, PrepareKeeps
<1>3. CASE \E input \in Fetches : ProvenFetch(input)
  BY <1>3, ProvenFetchKeeps
<1>4. CASE Refused
  BY <1>4, RefusedKeeps
<1>5. CASE ListServices
  BY <1>5, ListServicesKeeps
<1>6. CASE GetServiceMetadata
  BY <1>6, GetServiceMetadataKeeps
<1>7. CASE ProbeEndpoint
  BY <1>7, ProbeEndpointKeeps
<1>8. CASE GetRequestHeaders
  BY <1>8, GetRequestHeadersKeeps
<1>9. CASE ReceiveAnswer
  BY <1>9, ReceiveAnswerKeeps
<1>10. CASE ConfirmationFails
  BY <1>10, ConfirmationFailsKeeps
<1>11. CASE \E confirmed \in {TRUE, FALSE, None}, signer \in {None, "address", "malformed"},
                now \in Clock \cup {None} : ProcessResponse(confirmed, signer, now)
  BY <1>11, ProcessResponseKeeps
<1>12. CASE \E p \in Providers : ServiceChanges(p)
  BY <1>12, ServiceChangesKeeps
<1> QED
  BY <1>1, <1>2, <1>3, <1>4, <1>5, <1>6, <1>7, <1>8, <1>9, <1>10, <1>11, <1>12 DEF ZgNext

LEMMA ZgInvStutters ==
  ASSUME ZgInv, UNCHANGED zgVars
  PROVE  ZgInv'
<1>1. Still /\ call' = call /\ result' = result /\ offers' = offers
  BY DEF zgVars, Still
<1>2. \A c : /\ Consistent(c)' <=> Consistent(c)
             /\ Current(c)' <=> Current(c)
             /\ Path(c)' = Path(c) /\ Explicit(c)' = Explicit(c)
  BY <1>1, StillGood
<1>3. ZgTypeOK' /\ GoodCall(call)' /\ GoodOffers'
  BY <1>1, <1>2 DEF Still, ZgInv, ZgTypeOK, GoodCall, GoodOffers
<1>4. (result.end # "none" => Consistent(result.call))'
  BY <1>1, <1>2 DEF ZgInv
<1>5. OffersCanBeUsed'
  BY <1>1, <1>2 DEF Still, ZgInv, OffersCanBeUsed
<1>6. ProofsNameWhatWasAsked' /\ HonestAnswersAreProven'
  BY <1>1 DEF ZgInv, ProofsNameWhatWasAsked, HonestAnswersAreProven
<1> QED
  BY <1>3, <1>4, <1>5, <1>6 DEF ZgInv

LEMMA CallsAreAskedAsTold ==
  ASSUME ZgInv
  PROVE  FallbackOnlyWhenAsked /\ OnlyReachableIsAsked
<1>1. \A c \in TheCalls : Consistent(c)
  BY DEF ZgInv, GoodCall, TheCalls
<1> QED
  BY <1>1, AskedAsTold DEF FallbackOnlyWhenAsked, OnlyReachableIsAsked

-----------------------------------------------------------------------------
(* The Reclaim adapter *)

ContextOf(input) ==
    ProviderProofContext(input.taskContext, input.callIndex, input.callIntentHash)

\* What a call ends with was made from a native proof that says all it takes.
MadeFrom(proof, where) ==
    LET payload == NativePayload(proof, where.input, ContextOf(where.input))
    IN  /\ ProofContextBound(proof, ContextOf(where.input))
        /\ ~EvidenceMissing(proof, where.input.source)
        /\ ReclaimPayloadHashes(payload)
        /\ where.rawProof = Sealed(payload)

GoodPackage(module) ==
    /\ DOMAIN module = {"names", "crypto", "takesCrypto", "patched"}
    /\ module.names \in {"old", "current"}
    /\ module.patched =>
          module.names = "current" /\ (module.takesCrypto => module.crypto # Unset)

\* Packages are patched one after the other, and none is reported before.
GoodPackages ==
    /\ DOMAIN tls = {"zk-fetch", "attestor-core"}
    /\ \A p \in DOMAIN tls :
          GoodPackage(tls[p]) /\ (compatibility = "patched" => tls[p].patched)

GoodReclaimCall(where) ==
    /\ where.pc \in {"idle", "client", "fetch", "proof", "error"}
    /\ where.pc = "client" => where = [pc |-> "client", input |-> where.input]
    /\ where.pc \in {"fetch", "proof"} /\ clientConfig = "credentials" => compatibility = "patched"
    /\ where.pc = "proof" =>
          \E proof \in NativeProofs(ContextOf(where.input)) : MadeFrom(proof, where)

RcInv ==
    /\ clientConfig \in {"factory", "credentials", "nothing"}
    /\ compatibility \in {Unset, "patching", "patched", "failed"}
    /\ GoodPackages
    /\ DOMAIN reclaimCalls = ReclaimCalls
    /\ \A c \in ReclaimCalls : GoodReclaimCall(reclaimCalls[c])

LEMMA RcInvStarts ==
  ASSUME RcInit
  PROVE  RcInv
<1>1. GoodPackages
  BY ReclaimAssumption DEF RcInit, GoodPackages, GoodPackage
<1>2. \A c \in ReclaimCalls : GoodReclaimCall(reclaimCalls[c])
  BY DEF RcInit, NotStarted, GoodReclaimCall
<1> QED
  BY <1>1, <1>2 DEF RcInit, RcInv

\* A step that moves one call, and leaves what was patched as it was.
LEMMA MoveKeeps ==
  ASSUME RcInv, NEW c \in ReclaimCalls, NEW where, MovesTo(c, where),
         GoodReclaimCall(where)',
         \/ compatibility' = compatibility
         \/ compatibility = Unset /\ compatibility' = "patching"
  PROVE  RcInv'
<1>1. /\ reclaimCalls' = [reclaimCalls EXCEPT ![c] = where]
      /\ clientConfig' = clientConfig /\ tls' = tls
  BY DEF MovesTo
<1>2. GoodPackages'
  BY <1>1, ReclaimAssumption DEF RcInv, GoodPackages
<1>3. ASSUME NEW d \in ReclaimCalls
      PROVE  GoodReclaimCall(reclaimCalls[d])'
  <2>1. CASE d = c
    BY <1>1, <2>1 DEF RcInv
  <2>2. CASE d # c
    BY <1>1, <2>2, ReclaimAssumption DEF RcInv, GoodReclaimCall, MadeFrom
  <2> QED
    BY <2>1, <2>2
<1> QED
  BY <1>1, <1>2, <1>3 DEF RcInv

LEMMA ThrowsKeeps ==
  ASSUME RcInv, NEW c \in ReclaimCalls, Throws(c), compatibility' = compatibility
  PROVE  RcInv'
<1>1. GoodReclaimCall([pc |-> "error"])'
  BY DEF GoodReclaimCall
<1> QED
  BY <1>1, MoveKeeps DEF Throws

LEMMA ReclaimProvenFetchKeeps ==
  ASSUME RcInv, NEW c \in ReclaimCalls, NEW input, ReclaimProvenFetch(c, input)
  PROVE  RcInv'
<1>1. CASE ~RequestNormalizes(input.request) \/ clientConfig = "nothing"
  BY <1>1, ThrowsKeeps DEF ReclaimProvenFetch
<1>2. CASE ~(~RequestNormalizes(input.request) \/ clientConfig = "nothing")
  <2>1. CASE clientConfig = "factory"
    <3> DEFINE where == [pc |-> "fetch", input |-> input]
    <3>1. MovesTo(c, where) /\ compatibility' = compatibility
      BY <1>2, <2>1 DEF ReclaimProvenFetch
    <3>2. GoodReclaimCall(where)'
      BY <2>1, <3>1 DEF GoodReclaimCall, MovesTo
    <3> QED
      BY <3>1, <3>2, MoveKeeps
  <2>2. CASE clientConfig # "factory"
    <3> DEFINE where == [pc |-> "client", input |-> input]
    <3>1. /\ MovesTo(c, where)
          /\ compatibility' = IF compatibility = Unset THEN "patching" ELSE compatibility
      BY <1>2, <2>2 DEF ReclaimProvenFetch
    <3>2. GoodReclaimCall(where)'
      BY DEF GoodReclaimCall
    <3> QED
      BY <3>1, <3>2, MoveKeeps
  <2> QED
    BY <2>1, <2>2
<1> QED
  BY <1>1, <1>2

LEMMA ClientFactoryKeeps ==
  ASSUME RcInv, NEW c \in ReclaimCalls, DefaultReclaimClientFactory(c)
  PROVE  RcInv'
<1>1. CASE compatibility = "patched" /\ MovesTo(c, [reclaimCalls[c] EXCEPT !.pc = "fetch"])
  <2>1. PICK where : where = [reclaimCalls[c] EXCEPT !.pc = "fetch"]
    OBVIOUS
  <2>2. where.pc = "fetch"
    BY <2>1 DEF DefaultReclaimClientFactory, RcInv, GoodReclaimCall
  <2>3. compatibility' = compatibility
    BY DEF DefaultReclaimClientFactory
  <2>4. GoodReclaimCall(where)'
    BY <1>1, <2>2, <2>3 DEF GoodReclaimCall
  <2> QED
    BY <1>1, <2>1, <2>3, <2>4, MoveKeeps
<1>2. CASE compatibility \in {"patched", "failed"} /\ Throws(c)
  BY <1>2, ThrowsKeeps DEF DefaultReclaimClientFactory
<1> QED
  BY <1>1, <1>2 DEF DefaultReclaimClientFactory

LEMMA ZkFetchKeeps ==
  ASSUME RcInv, NEW c \in ReclaimCalls, ZkFetch(c)
  PROVE  RcInv'
<1>1. PICK input : input = reclaimCalls[c].input
  OBVIOUS
<1> DEFINE context == ContextOf(input)
<1>2. compatibility' = compatibility /\ reclaimCalls[c].pc = "fetch"
  BY DEF ZkFetch
<1>3. CASE Throws(c)
  BY <1>2, <1>3, ThrowsKeeps
<1>4. ASSUME NEW proof \in NativeProofs(context),
             ~(\/ ~ProofContextBound(proof, context)
               \/ EvidenceMissing(proof, input.source)
               \/ ~ReclaimPayloadHashes(NativePayload(proof, input, context))),
             MovesTo(c, [pc |-> "proof", input |-> input,
                         rawProof |-> Sealed(NativePayload(proof, input, context))])
      PROVE  RcInv'
  <2> DEFINE where == [pc |-> "proof", input |-> input,
                       rawProof |-> Sealed(NativePayload(proof, input, context))]
  <2>1. MadeFrom(proof, where)
    BY <1>4 DEF MadeFrom
  <2>2. clientConfig = "credentials" => compatibility = "patched"
    BY <1>2 DEF RcInv, GoodReclaimCall
  <2>3. GoodReclaimCall(where)'
    BY <1>2, <1>4, <2>1, <2>2 DEF GoodReclaimCall, MovesTo
  <2> QED
    BY <1>2, <1>4, <2>3, MoveKeeps
<1> QED
  BY <1>1, <1>3, <1>4 DEF ZkFetch, ContextOf

LEMMA PatchTlsModuleKeeps ==
  ASSUME RcInv, PatchTlsModule
  PROVE  RcInv'
<1> DEFINE package == IF tls["zk-fetch"].patched THEN "attestor-core" ELSE "zk-fetch"
           needsCrypto == tls[package].takesCrypto /\ tls[package].crypto = Unset
           Patches(crypto) ==
             /\ tls' = [tls EXCEPT ![package].names = "current", ![package].crypto = crypto,
                                   ![package].patched = TRUE]
             /\ compatibility' = IF package = "attestor-core" THEN "patched" ELSE "patching"
           Suits(crypto) == tls[package].takesCrypto => crypto # Unset
           PatchFails == \/ UNCHANGED tls
                         \/ tls' = [tls EXCEPT ![package].names = "current"]
<1>1. /\ compatibility = "patching" /\ clientConfig' = clientConfig
      /\ reclaimCalls' = reclaimCalls
  BY DEF PatchTlsModule
<1>2. CASE \E crypto : Suits(crypto) /\ Patches(crypto)
  <2>1. PICK crypto : Suits(crypto) /\ Patches(crypto)
    BY <1>2
  <2>2. DOMAIN tls' = {"zk-fetch", "attestor-core"} /\ package \in DOMAIN tls
    BY <2>1 DEF RcInv, GoodPackages
  <2>3. /\ tls'[package] = [tls[package] EXCEPT !.names = "current", !.crypto = crypto,
                                               !.patched = TRUE]
        /\ \A p \in DOMAIN tls : p # package => tls'[p] = tls[p]
    BY <2>1, <2>2 DEF RcInv, GoodPackages
  <2>4. /\ DOMAIN tls'[package] = DOMAIN tls[package]
        /\ tls'[package].names = "current" /\ tls'[package].crypto = crypto
        /\ tls'[package].patched /\ tls'[package].takesCrypto = tls[package].takesCrypto
    BY <2>2, <2>3 DEF RcInv, GoodPackages, GoodPackage
  <2>5. \A p \in DOMAIN tls' : GoodPackage(tls'[p])
    BY <2>1, <2>2, <2>3, <2>4 DEF RcInv, GoodPackages, GoodPackage
  <2>6. (compatibility = "patched")' => \A p \in DOMAIN tls' : tls'[p].patched
    BY <2>1, <2>2, <2>3, <2>4
  <2>7. GoodPackages'
    BY <2>2, <2>5, <2>6 DEF GoodPackages, GoodPackage
  <2>8. \A c \in ReclaimCalls : GoodReclaimCall(reclaimCalls[c])'
    BY <1>1, ReclaimAssumption DEF RcInv, GoodReclaimCall, MadeFrom
  <2>9. compatibility' \in {"patching", "patched"}
    BY <2>1
  <2> QED
    BY <1>1, <2>7, <2>8, <2>9 DEF RcInv
<1>3. CASE compatibility' = "failed" /\ PatchFails
  <2>1. GoodPackages'
    <3>1. CASE UNCHANGED tls
      BY <1>3, <3>1 DEF RcInv, GoodPackages, GoodPackage
    <3>2. CASE tls' = [tls EXCEPT ![package].names = "current"]
      <4>1. /\ DOMAIN tls' = {"zk-fetch", "attestor-core"} /\ package \in DOMAIN tls
            /\ tls'[package] = [tls[package] EXCEPT !.names = "current"]
            /\ \A p \in DOMAIN tls : p # package => tls'[p] = tls[p]
        BY <3>2 DEF RcInv, GoodPackages
      <4>2. /\ DOMAIN tls'[package] = DOMAIN tls[package]
            /\ tls'[package].names = "current" /\ tls'[package].crypto = tls[package].crypto
            /\ tls'[package].patched = tls[package].patched
            /\ tls'[package].takesCrypto = tls[package].takesCrypto
        BY <4>1 DEF RcInv, GoodPackages, GoodPackage
      <4>3. \A p \in DOMAIN tls' : GoodPackage(tls'[p])
        BY <4>1, <4>2 DEF RcInv, GoodPackages, GoodPackage
      <4> QED
        BY <1>3, <4>1, <4>3 DEF GoodPackages, GoodPackage
    <3> QED
      BY <1>3, <3>1, <3>2
  <2>2. \A c \in ReclaimCalls : GoodReclaimCall(reclaimCalls[c])'
    BY <1>1, ReclaimAssumption DEF RcInv, GoodReclaimCall, MadeFrom
  <2> QED
    BY <1>1, <1>3, <2>1, <2>2 DEF RcInv
<1>4. \/ \E crypto : Suits(crypto) /\ Patches(crypto)
      \/ compatibility' = "failed" /\ PatchFails
  <2>1. CASE compatibility' = "failed"
    BY <2>1 DEF PatchTlsModule
  <2>2. CASE ~needsCrypto /\ Patches(tls[package].crypto)
    BY <2>2
  <2>3. CASE needsCrypto /\ \E crypto \in {"webcrypto", "purejs"} : Patches(crypto)
    BY <2>3, ReclaimAssumption
  <2> QED
    BY <2>1, <2>2, <2>3 DEF PatchTlsModule
<1> QED
  BY <1>2, <1>3, <1>4

LEMMA RcInvKept ==
  ASSUME RcInv, RcNext
  PROVE  RcInv'
<1>1. ASSUME NEW c \in ReclaimCalls, NEW input \in ReclaimFetches, ReclaimProvenFetch(c, input)
      PROVE  RcInv'
  BY <1>1, ReclaimProvenFetchKeeps
<1>2. ASSUME NEW c \in ReclaimCalls, DefaultReclaimClientFactory(c)
      PROVE  RcInv'
  BY <1>2, ClientFactoryKeeps
<1>3. ASSUME NEW c \in ReclaimCalls, ZkFetch(c)
      PROVE  RcInv'
  BY <1>3, ZkFetchKeeps
<1>4. CASE PatchTlsModule
  BY <1>4, PatchTlsModuleKeeps
<1> QED
  BY <1>1, <1>2, <1>3, <1>4 DEF RcNext

LEMMA RcInvStutters ==
  ASSUME RcInv, UNCHANGED rcVars
  PROVE  RcInv'
BY DEF rcVars, RcInv, GoodPackages, GoodReclaimCall, MadeFrom

\* What a raw proof of provenFetch holds.
LEMMA MadeProof ==
  ASSUME NEW where, NEW proof, MadeFrom(proof, where)
  PROVE  LET payload == NativePayload(proof, where.input, ContextOf(where.input))
             evidence == Evidence(proof, where.input.source)
         IN  /\ Payload(where.rawProof) = payload
             /\ where.rawProof.proofHash = Hash(payload)
             /\ where.rawProof.reclaimProof = proof
             /\ where.rawProof.proofContext = ContextOf(where.input)
             /\ where.rawProof.providerProofId = evidence.providerProofId
             /\ where.rawProof.observedAt = evidence.observedAt
             /\ where.rawProof.response = evidence.response
             /\ where.rawProof.extracted = evidence.extracted
<1> DEFINE payload == NativePayload(proof, where.input, ContextOf(where.input))
<1>1. /\ "proofHash" \notin DOMAIN payload /\ payload = [k \in DOMAIN payload |-> payload[k]]
      /\ {"reclaimProof", "proofContext", "providerProofId", "observedAt", "response",
          "extracted"} \subseteq DOMAIN payload
  BY DEF NativePayload
<1>2. /\ where.rawProof.proofHash = Hash(payload) /\ Payload(where.rawProof) = payload
      /\ \A k \in DOMAIN payload : where.rawProof[k] = payload[k]
  <2>1. where.rawProof = Sealed(payload)
    BY DEF MadeFrom
  <2> HIDE DEF payload
  <2>2. Payload(Sealed(payload)) = payload
    BY <1>1, PayloadOfSealed
  <2>3. /\ Sealed(payload).proofHash = Hash(payload)
        /\ \A k \in DOMAIN payload : Sealed(payload)[k] = payload[k]
    BY <1>1, SealedFields
  <2> QED
    BY <2>1, <2>2, <2>3
<1> QED
  BY <1>1, <1>2 DEF NativePayload

LEMMA EvidenceIsCounted ==
  ASSUME NEW proof, NEW source, ~EvidenceMissing(proof, source)
  PROVE  /\ IsDigits(Evidence(proof, source).observedAt)
         /\ IsCount(Evidence(proof, source).extracted.totalTokens)
<1>1. IsDigits(ObservedAt(proof))
  <2> DEFINE millis == Millis(proof)
             seconds == ReadPath(proof, <<"claimData", "timestampS">>)
             inMillis == seconds[2] * 1000
  <2> HIDE DEF millis, seconds, inMillis
  <2>1. \A n \in Nat : IsDigits(Digits(n))
    BY DEF IsDigits, Digits, Kind
  <2>2. /\ ObservedAt(proof) # Undefined
        /\ ObservedAt(proof) = CASE IsUInt(millis) -> Digits(millis[2])
             [] millis = Undefined /\ IsUInt(seconds) -> Digits(inMillis)
             [] millis = Undefined /\ seconds = Str("") -> Digits(0)
             [] OTHER -> Undefined
    BY DEF EvidenceMissing, ObservedAt, millis, seconds, inMillis
  <2>3. CASE IsUInt(millis)
    <3>1. millis[2] \in Nat /\ Kind(millis) # "undefined"
      BY <2>3 DEF IsUInt, IsCount, IsDigits
    <3>2. ~(millis = Undefined)
      BY <3>1 DEF Kind, Undefined
    <3>3. ObservedAt(proof) = Digits(millis[2])
      BY <2>2, <2>3, <3>2
    <3> QED
      BY <2>1, <3>1, <3>3
  <2>4. CASE ~IsUInt(millis) /\ IsUInt(seconds)
    <3>1. seconds[2] \in Nat /\ Kind(seconds) # "string"
      BY <2>4 DEF IsUInt, IsCount, IsDigits
    <3>2. inMillis \in Nat
      BY <3>1 DEF inMillis
    <3>3. \A s : ~(seconds = Str(s))
      BY <3>1 DEF Kind, Str
    <3>4. ObservedAt(proof) = Digits(inMillis)
      BY <2>2, <2>4, <3>3
    <3> QED
      BY <2>1, <3>2, <3>4
  <2>5. CASE ~IsUInt(millis) /\ ~IsUInt(seconds)
    <3>1. ObservedAt(proof) = Digits(0)
      BY <2>2, <2>5
    <3> QED
      BY <2>1, <3>1
  <2> QED
    BY <2>3, <2>4, <2>5
<1>2. IsCount(TotalTokens(Field(Parsed(ResponseBody(proof, source)), "usage")))
  BY DEF EvidenceMissing, IsOpenAiCompatible
<1> QED
  BY <1>1, <1>2 DEF Evidence

\* The binding of a context says which context it is.
LEMMA BindingIsInjective ==
  ASSUME NEW one, NEW other, ProofContextBinding(one) = ProofContextBinding(other)
  PROVE  /\ one.taskContext = other.taskContext /\ one.callIndex = other.callIndex
         /\ one.callIntentHash = other.callIntentHash
<1>1. ContextJson(one) = ContextJson(other)
  <2> DEFINE fields(c) == [protocol |-> Str("TyrPay"), version |-> Num(1),
                           provider |-> Str("reclaim"),
                           proofContextHash |-> Str(Hash(ContextJson(c))),
                           proofContext |-> ContextJson(c)]
  <2>1. fields(one) = fields(other)
    BY DEF ProofContextBinding, Obj
  <2>2. fields(one).proofContext = fields(other).proofContext
    BY <2>1
  <2> QED
    BY <2>2
<1> DEFINE json(c) == [task |-> Str(c.taskContext), callIndex |-> Num(c.callIndex),
                       callIntentHash |-> Str(c.callIntentHash)]
<1>2. json(one) = json(other)
  BY <1>1 DEF ContextJson, Obj
<1>3. /\ json(one).task = json(other).task /\ json(one).callIndex = json(other).callIndex
      /\ json(one).callIntentHash = json(other).callIntentHash
  BY <1>2
<1> QED
  BY <1>3 DEF Str, Num

LEMMA ReclaimTyped ==
  ASSUME RcInv
  PROVE  RcTypeOK
<1>1. ASSUME NEW c \in ReclaimCalls
      PROVE  /\ reclaimCalls[c].pc \in {"idle", "client", "fetch", "proof", "error"}
             /\ reclaimCalls[c].pc = "proof" =>
                    /\ IsDigits(reclaimCalls[c].rawProof.observedAt)
                    /\ IsCount(reclaimCalls[c].rawProof.extracted.totalTokens)
  <2>1. ASSUME reclaimCalls[c].pc = "proof"
        PROVE  /\ IsDigits(reclaimCalls[c].rawProof.observedAt)
               /\ IsCount(reclaimCalls[c].rawProof.extracted.totalTokens)
    <3>1. PICK proof : MadeFrom(proof, reclaimCalls[c])
      BY <2>1 DEF RcInv, GoodReclaimCall
    <3>2. ~EvidenceMissing(proof, reclaimCalls[c].input.source)
      BY <3>1 DEF MadeFrom
    <3> QED
      BY <3>1, <3>2, MadeProof, EvidenceIsCounted
  <2> QED
    BY <2>1 DEF RcInv, GoodReclaimCall
<1> QED
  BY <1>1 DEF RcInv, RcTypeOK, GoodPackages, GoodPackage

LEMMA ReclaimIsPatched ==
  ASSUME RcInv
  PROVE  PatchedBeforeFetch
BY DEF RcInv, GoodPackages, GoodPackage, GoodReclaimCall, PatchedBeforeFetch

LEMMA ReclaimVerifies ==
  ASSUME RcInv
  PROVE  ReclaimProofsVerify
<1> SUFFICES ASSUME NEW c \in ReclaimCalls, reclaimCalls[c].pc = "proof",
                    HasVerificationConfig(reclaimCalls[c].rawProof.reclaimProof)
             PROVE  VerifyReclaimRawProof(reclaimCalls[c].rawProof) <=>
                    Parsed(ResponseBody(reclaimCalls[c].rawProof.reclaimProof, "auto")) =
                        reclaimCalls[c].rawProof.response.body
  BY DEF ReclaimProofsVerify
<1>1. PICK proof : MadeFrom(proof, reclaimCalls[c])
  BY DEF RcInv, GoodReclaimCall
<1> DEFINE raw == reclaimCalls[c].rawProof
           source == reclaimCalls[c].input.source
           AnswerAt(where) == Parsed(ResponseBody(proof, where))
<1>2. /\ ProofContextBound(proof, ContextOf(reclaimCalls[c].input))
      /\ ~EvidenceMissing(proof, source)
      /\ ReclaimPayloadHashes(NativePayload(proof, reclaimCalls[c].input,
                                            ContextOf(reclaimCalls[c].input)))
  BY <1>1 DEF MadeFrom
<1>3. /\ raw.reclaimProof = proof /\ raw.providerProofId = Evidence(proof, source).providerProofId
      /\ raw.observedAt = Evidence(proof, source).observedAt
      /\ raw.response = Evidence(proof, source).response
      /\ raw.extracted = Evidence(proof, source).extracted
  BY <1>1, MadeProof
<1>4. \A where : Evidence(proof, where).response.body = AnswerAt(where)
  BY DEF Evidence
<1>5. ASSUME VerifyReclaimRawProof(raw)
      PROVE  AnswerAt("auto") = raw.response.body
  <2>1. raw.response = Evidence(proof, "auto").response
    BY <1>3, <1>5 DEF VerifyReclaimRawProof, EnvelopeMatches
  <2> QED
    BY <1>4, <2>1
<1>6. ASSUME AnswerAt("auto") = raw.response.body
      PROVE  VerifyReclaimRawProof(raw)
  <2>1. AnswerAt("auto") = AnswerAt(source)
    BY <1>3, <1>4, <1>6
  <2>2. /\ EvidenceMissing(proof, "auto") <=> EvidenceMissing(proof, source)
        /\ Evidence(proof, "auto") = Evidence(proof, source)
    BY <2>1 DEF EvidenceMissing, Evidence
  <2> QED
    BY <1>1, <1>2, <1>3, <2>2, MadeProof DEF VerifyReclaimRawProof, EnvelopeMatches
<1> QED
  BY <1>3, <1>5, <1>6

LEMMA ReclaimIsNotMixedUp ==
  ASSUME RcInv
  PROVE  EnvelopesAreNotMixedUp
<1> DEFINE Parts == {"providerProofId", "observedAt", "response", "extracted", "proofContext"}
<1> SUFFICES ASSUME NEW c \in ReclaimCalls, reclaimCalls[c].pc = "proof",
                    NEW d \in ReclaimCalls, reclaimCalls[d].pc = "proof", NEW k \in Parts,
                    VerifyReclaimRawProof(reclaimCalls[c].rawProof),
                    VerifyReclaimRawProof(
                        Sealed([Payload(reclaimCalls[c].rawProof) EXCEPT
                                    ![k] = reclaimCalls[d].rawProof[k]]))
             PROVE  Payload(reclaimCalls[c].rawProof)[k] = reclaimCalls[d].rawProof[k]
  BY DEF EnvelopesAreNotMixedUp
<1> DEFINE raw == reclaimCalls[c].rawProof
           own == Payload(raw)
           others == reclaimCalls[d].rawProof
           mixed == [own EXCEPT ![k] = others[k]]
           envelope == Sealed(mixed)
<1>1. PICK proof : MadeFrom(proof, reclaimCalls[c])
  BY DEF RcInv, GoodReclaimCall
<1>2. PICK another : MadeFrom(another, reclaimCalls[d])
  BY DEF RcInv, GoodReclaimCall
<1>3. /\ own = NativePayload(proof, reclaimCalls[c].input, ContextOf(reclaimCalls[c].input))
      /\ raw.reclaimProof = proof /\ raw.proofContext = ContextOf(reclaimCalls[c].input)
      /\ others.proofContext = ContextOf(reclaimCalls[d].input)
  BY <1>1, <1>2, MadeProof
<1>4. /\ DOMAIN own = {"provider", "proofContext", "request", "reclaimProof",
                       "providerProofId", "observedAt", "response", "extracted"}
      /\ own.reclaimProof = proof /\ own.proofContext = raw.proofContext
  BY <1>3 DEF NativePayload
<1>5. \A j \in Parts : own[j] = raw[j]
  BY <1>1, <1>3, MadeProof DEF NativePayload
<1>6. /\ envelope.reclaimProof = proof
      /\ envelope[k] = others[k]
  <2>1. /\ DOMAIN mixed = DOMAIN own /\ "proofHash" \notin DOMAIN mixed
        /\ mixed[k] = others[k] /\ mixed.reclaimProof = proof
    BY <1>4
  <2> HIDE DEF mixed
  <2>2. \A j \in DOMAIN mixed : envelope[j] = mixed[j]
    BY <2>1, SealedFields
  <2> QED
    BY <1>4, <2>1, <2>2
<1> HIDE DEF own, mixed, raw, others
<1>7. VerifyReclaimRawProof(raw) /\ VerifyReclaimRawProof(envelope)
  BY DEF raw, mixed, own, others
<1>8. CASE k # "proofContext"
  <2>1. /\ EnvelopeMatches(raw, "auto") /\ EnvelopeMatches(envelope, "auto")
    BY <1>7 DEF VerifyReclaimRawProof
  <2>2. \A e \in {raw, envelope} :
           /\ e.providerProofId = Evidence(proof, "auto").providerProofId
           /\ e.observedAt = Evidence(proof, "auto").observedAt
           /\ e.response = Evidence(proof, "auto").response
           /\ e.extracted = Evidence(proof, "auto").extracted
    BY <1>3, <1>6, <2>1 DEF EnvelopeMatches
  <2>3. raw[k] = envelope[k]
    BY <1>8, <2>2
  <2> QED
    BY <1>5, <1>6, <2>3 DEF own, raw, others
<1>9. CASE k = "proofContext"
  <2>1. /\ ProofContextBound(proof, raw.proofContext) /\ ProofContextBound(proof, envelope.proofContext)
    BY <1>3, <1>6, <1>7 DEF VerifyReclaimRawProof
  <2>2. ProofContextBinding(raw.proofContext) = ProofContextBinding(others.proofContext)
    BY <1>6, <1>9, <2>1 DEF ProofContextBound
  <2>3. raw.proofContext = others.proofContext
    BY <1>3, <2>2, BindingIsInjective DEF ContextOf, ProviderProofContext
  <2> QED
    BY <1>4, <1>9, <2>3 DEF own, raw, others
<1> QED
  BY <1>8, <1>9

-----------------------------------------------------------------------------
(* The agent *)

\* The adapter that is called has its invariant, the other one rests.
ZkInv ==
    \/ provider = ZERO_G_TEETLS_PROVIDER /\ ZgInv /\ RcRests
    \/ provider = RECLAIM_ZKTLS_PROVIDER /\ RcInv /\ ZgRests

LEMMA ZkInvKept ==
  ASSUME ZkInv, [ZkTlsNext]_zkTlsVars
  PROVE  ZkInv'
<1>1. ZERO_G_TEETLS_PROVIDER # RECLAIM_ZKTLS_PROVIDER
  BY DEF ZERO_G_TEETLS_PROVIDER, RECLAIM_ZKTLS_PROVIDER
<1>2. CASE /\ provider = ZERO_G_TEETLS_PROVIDER /\ ZgInv /\ RcRests
           /\ ZgNext \/ UNCHANGED zgVars
           /\ UNCHANGED <<provider, rcVars>>
  <2>1. ZgInv'
    BY <1>2, ZgInvKept, ZgInvStutters
  <2>2. RcRests'
    BY <1>2 DEF RcRests, rcVars, NotStarted
  <2> QED
    BY <1>2, <2>1, <2>2 DEF ZkInv, ZERO_G_TEETLS_PROVIDER
<1>3. CASE /\ provider = RECLAIM_ZKTLS_PROVIDER /\ RcInv /\ ZgRests
           /\ RcNext \/ UNCHANGED rcVars
           /\ UNCHANGED <<provider, zgVars>>
  <2>1. RcInv'
    BY <1>3, RcInvKept, RcInvStutters
  <2>2. ZgRests'
    BY <1>3 DEF ZgRests, zgVars, Idle, NewCall, NoResult
  <2> QED
    BY <1>3, <2>1, <2>2 DEF ZkInv, RECLAIM_ZKTLS_PROVIDER
<1> QED
  BY <1>1, <1>2, <1>3 DEF ZkInv, ZkTlsNext, ResolveAdapter, zkTlsVars

LEMMA ZkInvHolds == ZkTlsSpec => []ZkInv
<1>1. ZkTlsInit => ZkInv
  BY ZgInvStarts, RcInvStarts DEF ZkTlsInit, ZkInv
<1>2. ZkInv /\ [ZkTlsNext]_zkTlsVars => ZkInv'
  BY ZkInvKept
<1> QED
  BY <1>1, <1>2, PTL DEF ZkTlsSpec

LEMMA TypesFollow == ZkInv => ZkTlsTypeOK
BY ReclaimTyped
DEF ZkInv, ZkTlsTypeOK, ZgInv, ZERO_G_TEETLS_PROVIDER, RECLAIM_ZKTLS_PROVIDER

LEMMA ZeroGFollows ==
  ASSUME ZkInv
  PROVE  /\ FallbackOnlyWhenAsked /\ OnlyReachableIsAsked
         /\ OffersCanBeUsed /\ ProofsNameWhatWasAsked /\ HonestAnswersAreProven
<1>1. CASE ZgInv
  BY <1>1, CallsAreAskedAsTold DEF ZgInv
<1>2. CASE ZgRests
  <2>1. result.end = "none" /\ call.sent = None
    BY <1>2 DEF ZgRests, Idle, NewCall, NoResult
  <2>2. \A c \in TheCalls : c.sent = None
    BY <2>1 DEF TheCalls
  <2> QED
    BY <2>1, <2>2
    DEF FallbackOnlyWhenAsked, OnlyReachableIsAsked, OffersCanBeUsed,
        ProofsNameWhatWasAsked, HonestAnswersAreProven
<1> QED
  BY <1>1, <1>2 DEF ZkInv

LEMMA ReclaimFollows ==
  ASSUME ZkInv
  PROVE  PatchedBeforeFetch /\ ReclaimProofsVerify /\ EnvelopesAreNotMixedUp
<1>1. CASE RcInv
  BY <1>1, ReclaimIsPatched, ReclaimVerifies, ReclaimIsNotMixedUp
<1>2. CASE RcRests
  BY <1>2
  DEF RcRests, NotStarted, PatchedBeforeFetch, ReclaimProofsVerify, EnvelopesAreNotMixedUp
<1> QED
  BY <1>1, <1>2 DEF ZkInv

\* The variables have their types: who is asked for metadata is a provider, what
\* was offered is one that exists, and the numbers of every proof of the Reclaim
\* adapter are unsigned integers whatever its native proof holds.
THEOREM ZkTlsTypeCorrect == ZkTlsSpec => []ZkTlsTypeOK
BY ZkInvHolds, TypesFollow, PTL

\* provenFetch of the 0G adapter asks, and so pays, a provider other than the one
\* that was named only where fallbackOnUnreachable is set, however the probe, the
\* list of services and the metadata of the providers interleave.
THEOREM NoUnaskedFallback == ZkTlsSpec => []FallbackOnlyWhenAsked
<1>1. ZkInv => FallbackOnlyWhenAsked
  BY ZeroGFollows
<1> QED
  BY <1>1, ZkInvHolds, PTL

\* The POST of provenFetch goes to an endpoint that answered a probe of the same
\* call, but for the last resort of an adapter that falls back without selection.
THEOREM NoUnreachableIsAsked == ZkTlsSpec => []OnlyReachableIsAsked
<1>1. ZkInv => OnlyReachableIsAsked
  BY ZeroGFollows
<1> QED
  BY <1>1, ZkInvHolds, PTL

\* What discoverModelEndpoints and prepareOpenAiRequest give out is taken by a
\* later provenFetch with the same address and path, as long as no provider changes.
THEOREM DiscoveredIsUsable == ZkTlsSpec => []OffersCanBeUsed
<1>1. ZkInv => OffersCanBeUsed
  BY ZeroGFollows
<1> QED
  BY <1>1, ZkInvHolds, PTL

\* A raw proof of the 0G adapter names the endpoint and the model that the POST
\* went out with, however often the provider changed before the broker confirmed.
THEOREM ProofsAreOfTheRequest == ZkTlsSpec => []ProofsNameWhatWasAsked
<1>1. ZkInv => ProofsNameWhatWasAsked
  BY ZeroGFollows
<1> QED
  BY <1>1, ZkInvHolds, PTL

\* An answer that provenFetch took is lost at the end only for the reasons named, and
\* the proof of one that the broker confirmed, with a chat id and no other model, is
\* accepted by verifyRawProof, and by normalizeReceipt for its own call alone.
THEOREM AnsweredWorkIsProven == ZkTlsSpec => []HonestAnswersAreProven
<1>1. ZkInv => HonestAnswersAreProven
  BY ZeroGFollows
<1> QED
  BY <1>1, ZkInvHolds, PTL

\* However many calls of the Reclaim adapter run at once, none of them reaches the
\* default client before the promise of the patch has patched both packages.
THEOREM NoFetchUnpatched == ZkTlsSpec => []PatchedBeforeFetch
<1>1. ZkInv => PatchedBeforeFetch
  BY ReclaimFollows
<1> QED
  BY <1>1, ZkInvHolds, PTL

\* What provenFetch of the Reclaim adapter returns is what verifyRawProof accepts,
\* whatever places the native proof uses for its parts, unless the caller had the
\* answer looked for in a place that holds another one than the default places do:
\* then, and only then, the adapter refuses its own proof.
THEOREM ReclaimRoundTrip == ZkTlsSpec => []ReclaimProofsVerify
<1>1. ZkInv => ReclaimProofsVerify
  BY ReclaimFollows
<1> QED
  BY <1>1, ZkInvHolds, PTL

\* An envelope with a part of the proof of another call verifies only if the part
\* is the same: a native proof pins down what reclaimEnvelopeMatchesNativeProof and
\* the binding of the context compare.
THEOREM EnvelopesArePinnedDown == ZkTlsSpec => []EnvelopesAreNotMixedUp
<1>1. ZkInv => EnvelopesAreNotMixedUp
  BY ReclaimFollows
<1> QED
  BY <1>1, ZkInvHolds, PTL
=============================================================================
