SPECIFICATION ServiceSpec
CONSTANTS
    alice = alice
    oracle = oracle
    usd = usd
    h1 = h1
    h2 = h2
    nobody = nobody
    zero = zero
    settlement = settlement
    none = none
    r1 = r1
    r2 = r2
    k1 = k1
    k2 = k2
    SecondVerdict = "fails"
    Accounts = {alice}
    Verifiers = {oracle}
    Tokens = {usd}
    Hashes = {h1, h2}
    Amounts = {1}
    Deadlines = {4}
    SignedReports = {}
    Settlement = settlement
    Owner = alice
    RegistryOwner = alice
    NoAddress = nobody
    NoHash = zero
    InitialBalance = 0
    MaxUint = 100
    MsPerSecond = 3
    proofSubmissionGracePeriodMs = 1
    verificationTimeoutMs = 1
    MaxTasks = 2
    MaxTimestamp = 2
    Requests = {r1, r2}
    Verifier = oracle
    AssignedVerifier <- MCAssigned
    Bundles <- MCBundles
    LoadableWork <- MCWork
    EligibleWork <- MCEligible
    PassingWork <- MCPassing
    Agreements <- MCAgreements
    LocalTimes = {4, 5}
    ReportHash = h1
    MaxEscrow = 2
    Keys = {k1, k2}
    NoRecord = none
    Persistent = TRUE
CONSTRAINT InBounds
SYMMETRY MCSymmetry
INVARIANTS
    ServiceTypeOK
    SignedReportsFit
    EndsByVerdict
    ProofsBelongToOneTask
    EndedTasksOwnTheirProofs
    ReservationsHaveReports
PROPERTIES
    KeepsOwnership
CHECK_DEADLOCK FALSE
