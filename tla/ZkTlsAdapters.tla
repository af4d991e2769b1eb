--------------------------- MODULE ZkTlsAdapters ---------------------------
(***************************************************************************)
(* A seller's agent with the two adapters for real providers: a call names *)
(* its provider, and resolveAdapter (packages/seller-sdk/src/              *)
(* seller-agent.ts) takes the adapter of that name.  The adapters share    *)
(* nothing, so that an agent that calls one of them shows what it can do.  *)
(***************************************************************************)
EXTENDS ZeroGTeeTls, ReclaimZkTls

VARIABLE provider       \* the provider the calls of the agent name

zkTlsVars == <<provider, zgVars, rcVars>>

ZgRests ==
    /\ config = None /\ listing = None /\ service = None /\ changes = 0
    /\ call = Idle /\ result = NoResult /\ offers = {}

RcRests ==
    /\ clientConfig = "nothing" /\ compatibility = Unset /\ tls = <<>>
    /\ reclaimCalls = [c \in ReclaimCalls |-> NotStarted]

ZkTlsInit ==
    \/ provider = ZERO_G_TEETLS_PROVIDER /\ ZgInit /\ RcRests
    \/ provider = RECLAIM_ZKTLS_PROVIDER /\ RcInit /\ ZgRests

ResolveAdapter(name) == provider = name /\ UNCHANGED provider

ZkTlsNext ==
    \/ ResolveAdapter(ZERO_G_TEETLS_PROVIDER) /\ ZgNext /\ UNCHANGED rcVars
    \/ ResolveAdapter(RECLAIM_ZKTLS_PROVIDER) /\ RcNext /\ UNCHANGED zgVars

ZkTlsSpec == ZkTlsInit /\ [][ZkTlsNext]_zkTlsVars

\* Types of the variables.
ZkTlsTypeOK ==
    /\ provider = ZERO_G_TEETLS_PROVIDER => ZgTypeOK
    /\ provider = RECLAIM_ZKTLS_PROVIDER => RcTypeOK
=============================================================================
