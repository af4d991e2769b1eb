SPECIFICATION BuyerSpec
CONSTANTS
    alice = alice
    bob = bob
    oracle = oracle
    usd = usd
    h1 = h1
    h2 = h2
    nobody = nobody
    zero = zero
    settlement = settlement
    none = none
    c1 = c1
    c2 = c2
    job = job
    Accounts = {alice, bob}
    Verifiers = {oracle}
    Tokens = {usd}
    Hashes = {h1, h2}
    Amounts = {1}
    Deadlines = {4}
    SignedReports <- MCReports
    Settlement = settlement
    Owner = alice
    RegistryOwner = alice
    NoAddress = nobody
    NoHash = zero
    InitialBalance = 1
    MaxUint = 100
    MsPerSecond = 2
    proofSubmissionGracePeriodMs = 2
    verificationTimeoutMs = 2
    MaxTasks = 1
    MaxTimestamp = 4
    Calls = {c1, c2}
    Buyer = alice
    Jobs = {job}
    NoJob = none
    Order <- MCOrder
    Commitments <- MCCommitments
    RetriesPosts = FALSE
SYMMETRY MCSymmetry
INVARIANTS
    BuyerTypeOK
    MoneyFollowsTerms
    AnswersAreCurrent
CHECK_DEADLOCK FALSE
