SPECIFICATION BuyerSpec
CONSTANTS
    alice = alice
    bob = bob
    oracle = oracle
    usd = usd
    h1 = h1
    h2 = h2
    nobody = nobody
    zero = zero
    settlement = settlement
    none = none
    c1 = c1
    c2 = c2
    job = job
    Accounts = {alice, bob}
    Verifiers = {oracle}
    Tokens = {usd}
    Hashes = {h1, h2}
    Amounts = {1}
    Deadlines = {4}
    SignedReports <- MCReports
    Settlement = settlement
    Owner = alice
    RegistryOwner = alice
    NoAddress = nobody
    NoHash = zero
    InitialBalance = 2
    MaxUint = 100
    MsPerSecond = 2
    proofSubmissionGracePeriodMs = 2
    verificationTimeoutMs = 2
    MaxTasks = 2
    MaxTimestamp = 2
    Calls = {c1}
    Buyer = alice
    Jobs = {job}
    NoJob = none
    Order <- MCOrder
    Commitments <- MCCommitmentsOfTwo
    RetriesPosts = TRUE
SYMMETRY MCSymmetry
INVARIANTS
    OneTaskPerJob
CHECK_DEADLOCK FALSE
