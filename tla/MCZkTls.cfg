SPECIFICATION ZkTlsSpec
CONSTANTS
    None = None
    Unset = Unset
    p1 = p1
    p2 = p2
    c1 = c1
    c2 = c2
    Providers = {p1, p2}
    Hosts = {"h1", "h2"}
    Models = {"gpt", "llama"}
    InitialServices <- MCInitialServices
    Configs <- MCConfigs
    Listings <- MCListings
    Discoveries <- MCDiscoveries
    Preparations <- MCPreparations
    Fetches <- MCFetches
    Bodies <- MCBodies
    Answers <- MCAnswers
    Clock = {1}
    MaxChanges = 1
    ReclaimCalls = {c1, c2}
    ReclaimFetches <- MCReclaimFetches
    NativeProofs <- MCNativeProofs
    TlsPackages <- MCTlsPackages
    Canonicalizes <- CanonicalizesJson
    Sanitized <- SanitizedJson
CONSTRAINT InBounds
SYMMETRY MCSymmetry
INVARIANTS
    ZkTlsTypeOK
    FallbackOnlyWhenAsked
    OnlyReachableIsAsked
    OffersCanBeUsed
    ProofsNameWhatWasAsked
    HonestAnswersAreProven
    PatchedBeforeFetch
    ReclaimProofsVerify
    EnvelopesAreNotMixedUp
CHECK_DEADLOCK FALSE
