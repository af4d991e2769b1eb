SPECIFICATION FairSpec
CONSTANTS
    alice = alice
    bob = bob
    oracle = oracle
    usd = usd
    h1 = h1
    h2 = h2
    nobody = nobody
    zero = zero
    settlement = settlement
    Accounts = {alice, bob}
    Verifiers = {oracle}
    Tokens = {usd}
    Hashes = {h1, h2}
    Amounts = {1, 2}
    Deadlines = {3, 100}
    SignedReports <- MCReports
    Settlement = settlement
    Owner = alice
    RegistryOwner = alice
    NoAddress = nobody
    NoHash = zero
    InitialBalance = 2
    MaxUint = 100
    MsPerSecond = 2
    proofSubmissionGracePeriodMs = 1
    verificationTimeoutMs = 2
    MaxTasks = 2
    MaxTimestamp = 4
CONSTRAINT InBounds
INVARIANTS
    TypeOK
    BundleSpentOnce
    LawfulHistory
    ExitOpen
    Solvent
    BooksBalance
PROPERTIES
    TermsFrozen
    KeepsPromise
    EscrowEnds
