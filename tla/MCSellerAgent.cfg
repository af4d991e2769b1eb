SPECIFICATION SellerSpec
CONSTANTS
    alice = alice
    bob = bob
    oracle = oracle
    usd = usd
    nobody = nobody
    zero = zero
    settlement = settlement
    c1 = c1
    c2 = c2
    Accounts = {alice, bob}
    Verifiers = {oracle}
    Tokens = {usd}
    Hashes <- MCHashes
    Amounts = {1}
    Deadlines = {4}
    SignedReports = {}
    Settlement = settlement
    Owner = alice
    RegistryOwner = alice
    NoAddress = nobody
    NoHash = zero
    InitialBalance = 1
    MaxUint = 100
    MsPerSecond = 2
    proofSubmissionGracePeriodMs = 1
    verificationTimeoutMs = 1
    MaxTasks = 1
    MaxTimestamp = 2
    Calls = {c1, c2}
    Seller = bob
    Targets = {"promised", "other"}
    CallIndices = {0, 1}
    PassedNonces <- MCOwnNonce
    RewritesInPlace = FALSE
    MaxProofs = 2
    MaxBundles = 1
    MaxReceipts = 2
SYMMETRY MCSymmetry
CONSTRAINT InBounds
INVARIANTS
    BundlesFitTheirTasks
    WorkFollowsFunding
    PublishedCanBeLoaded
CHECK_DEADLOCK FALSE
