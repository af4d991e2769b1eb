------------------------------ MODULE MCZkTls ------------------------------
(***************************************************************************)
(* Small instances of ZkTlsAdapters for TLC.                               *)
(***************************************************************************)
EXTENDS ZkTlsAdapters, CanonicalJson, TLC

CONSTANTS p1, p2, c1, c2

Chat == "/chat/completions"
Old == "/v1/completions"

------------------------------------------------------------------------------
(* 0G: two providers that may swap, one listed with its model and one not. *)

Config(provider_, fallback, enabled, model, reachable) ==
    [providerAddress |-> provider_, fallbackOnUnreachable |-> fallback, enabled |-> enabled,
     model |-> model, requireReachableEndpoint |-> reachable, defaultRequestPath |-> None]

MCConfigs ==
    {Config(None, None, None, None, None),
     Config(p1, None, TRUE, None, None),
     Config(p1, TRUE, TRUE, "gpt", None),
     Config(p1, TRUE, None, None, None),
     Config(None, None, FALSE, None, FALSE)}

Descriptor(p, type, model) ==
    [provider |-> p, serviceType |-> type, verifiability |-> None, model |-> model]

MCListings == {None, <<Descriptor(p2, "image", "gpt"), Descriptor(p1, "chatbot", "gpt"),
                       Descriptor(p2, None, None)>>}

MCInitialServices ==
    {[p \in Providers |-> [endpoint |-> IF p = p1 THEN "h1" ELSE "h2", model |-> "gpt",
                           up |-> TRUE, readable |-> TRUE]]}

MCDiscoveries ==
    {[model |-> "gpt", path |-> None, limit |-> 10, mustReach |-> None],
     [model |-> "gpt", path |-> Old, limit |-> 1, mustReach |-> FALSE]}

MCPreparations == {[provider |-> p, path |-> None] : p \in {None, p2}}

Asked == Obj([model |-> Str("gpt")])

Fetch(host, path, method, body, p, profile, task) ==
    [request |-> [host |-> host, path |-> path, method |-> method, body |-> body],
     taskContext |-> task, callIndex |-> 0, callIntentHash |-> "intent",
     provider |-> p, path |-> None, profile |-> profile]

MCFetches ==
    {Fetch(host, Chat, "post", Asked, p, None, "t1") : host \in {"h1", "h2"}, p \in {None, p2}}
    \cup {Fetch("h1", Old, "POST", Asked, None, None, "t1"),
          Fetch("h1", Chat, "GET", Asked, p1, None, "t2"),
          Fetch("", Chat, "POST", Asked, p1, None, "t2"),
          Fetch("h1", Chat, "POST", Str("x"), p1, None, "t2"),
          Fetch("h1", Chat, "POST", Asked, p1, <<"tokens">>, "t2")}

TotalOf(count) == Obj([total_tokens |-> count])

MCBodies ==
    {Obj([usage |-> TotalOf(Num(2)), model |-> Str("gpt"), logprobs |-> Null]),
     Obj([x_groq |-> Obj([usage |-> TotalOf(Num(2))]), chatID |-> Str("chat"),
          model |-> Str("llama")]),
     Obj([usage |-> TotalOf(Num(2)), tokens |-> Num(1), id |-> Str("id")]),
     Obj([usage |-> TotalOf(Num(2)), seconds |-> Fraction]),
     Obj([usage |-> TotalOf(Fraction)]),
     Null}

MCAnswers ==
    {[status |-> 200, zgResKey |-> Undefined, blankHeader |-> FALSE],
     [status |-> 200, zgResKey |-> Str("key"), blankHeader |-> FALSE],
     [status |-> 200, zgResKey |-> Undefined, blankHeader |-> TRUE]}

------------------------------------------------------------------------------
(* Reclaim: two calls, and the shapes a native proof comes in. *)

MCTlsPackages ==
    {[names |-> "old", crypto |-> Unset, takesCrypto |-> TRUE, patched |-> FALSE],
     [names |-> "old", crypto |-> Unset, takesCrypto |-> FALSE, patched |-> FALSE],
     [names |-> "current", crypto |-> "installed", takesCrypto |-> TRUE, patched |-> FALSE]}

MCReclaimFetches ==
    {[request |-> [host |-> host, path |-> Chat, method |-> "POST", body |-> Asked],
      taskContext |-> task, callIndex |-> 0, callIntentHash |-> "intent", source |-> source] :
        host \in {"api", ""}, task \in {"t1", "t2"}, source \in {"auto", "response.body"}}

Completion(tokens) == Obj([model |-> Str("gpt"), usage |-> TotalOf(Num(tokens))])

WithNull(tokens) == Obj([model |-> Str("gpt"), choice |-> Null,
                         usage |-> Obj([totalTokens |-> Num(tokens)])])

Other == [taskContext |-> "t3", callIndex |-> 1, callIntentHash |-> "intent"]

Claim(context) == Obj([provider |-> Str("http"), timestampS |-> Digits(7),
                       identifier |-> Str("claim"), context |-> context])

\* A binding with fields of its own, which do not count.
Annotated(binding) ==
    LET context == Field(binding, "proofContext")
    IN  Obj([k \in Keys(binding) \cup {"note"} |->
               IF k = "note" THEN Null
               ELSE IF k = "proofContext" THEN Obj(context[2] @@ [note |-> Str("x")])
               ELSE Field(binding, k)])

Wrapped(context) == Text(Obj([TyrPay |-> Annotated(ProofContextBinding(context)),
                              providerHash |-> Str("hash")]))

MCNativeProofs(context) ==
    {Obj([claimData |-> Claim(Wrapped(context)), response |-> Obj([status |-> Num(201),
          body |-> Completion(3)])]),
     Obj([claimData |-> Claim(Wrapped(context)), identifier |-> Str("proof"),
          extractedParameterValues |-> Obj([data |-> Text(WithNull(4))]),
          response |-> Obj([body |-> Completion(4)]), timestamp |-> Digits(9)]),
     Obj([context |-> ProofContextBinding(context), id |-> Str("id"), timestampMs |-> Num(8),
          body |-> Chunked(WithNull(3), 1)]),
     Obj([context |-> ProofContextBinding(context), id |-> Str("id"), timestampMs |-> Num(8),
          body |-> Chunked(Completion(3), 2)]),
     Obj([claimData |-> Claim(Wrapped(context)), witness |-> Null,
          body |-> Completion(3)]),
     Obj([claimData |-> Claim(Wrapped(context)), timestamp |-> Num(-1),
          body |-> Completion(3)]),
     Obj([claimData |-> Claim(Wrapped(Other)), body |-> Completion(3)])}

------------------------------------------------------------------------------
\* Bound: TLC stops at the end of a fetch, since the next call forgets the result, and
\* one that begins in the same way without the fetch is among the behaviours.
InBounds == result.end \in {"none", "offers"}

\* The Reclaim calls are alike.
MCSymmetry == Permutations(ReclaimCalls)

=============================================================================
