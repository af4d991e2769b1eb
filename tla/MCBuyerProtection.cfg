SPECIFICATION ProtectionSpec
CONSTANTS
    alice = alice
    bob = bob
    oracle = oracle
    usd = usd
    h1 = h1
    h2 = h2
    h3 = h3
    nobody = nobody
    zero = zero
    settlement = settlement
    none = none
    c1 = c1
    r1 = r1
    firstJob = firstJob
    secondJob = secondJob
    Accounts = {alice, bob}
    Verifiers = {oracle}
    Tokens = {usd}
    Hashes = {h1, h2, h3}
    Amounts = {1}
    Deadlines = {4}
    SignedReports = {}
    Settlement = settlement
    Owner = alice
    RegistryOwner = alice
    NoAddress = nobody
    NoHash = zero
    InitialBalance = 2
    MaxUint = 100
    MsPerSecond = 3
    proofSubmissionGracePeriodMs = 2
    verificationTimeoutMs = 2
    MaxTasks = 2
    MaxTimestamp = 1
    Calls = {c1}
    Buyer = alice
    Jobs = {firstJob, secondJob}
    NoJob = none
    Order <- MCOrder
    Commitments <- MCCommitments
    RetriesPosts = FALSE
    ProofBundles <- MCProofBundles
    Nonces <- MCNonces
    Adapters = {"tls"}
    NoModel = none
    Requests = {r1}
    Verifier = oracle
    LocalTimes = {4}
    ReportHash = h1
    Persistent = FALSE
    NoRecord = none
CONSTRAINT InBounds
SYMMETRY MCSymmetry
INVARIANTS
    PaidForOrderedWork
    PaidOnce
CHECK_DEADLOCK FALSE
