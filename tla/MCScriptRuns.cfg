SPECIFICATION ScriptsSpec
CONSTANTS
    boundaryToken = boundaryToken
    mockToken = mockToken
    reclaimToken = reclaimToken
    smokeToken = smokeToken
    Occasions = {{"boundaries"}, {"mock loop", "reclaim loop"}, {"smoke"}}
    Buyer = buyer
    Seller = seller
    Verifier = verifier
    Stranger = stranger
    Nobody = nobodysKey
    TokenOf <- MCTokenOf
    BlockSeconds = 3
    EarlySeconds = 1
    LateSeconds = 7
    NoModel = "none"
    MismatchedModel = "gpt-mismatch"
    DEFAULT_MOCK_OBSERVED_AT = 0
    Accounts = {owner, buyer, seller}
    Verifiers = {verifier, stranger, nobodysKey}
    Tokens = {boundaryToken, mockToken, reclaimToken, smokeToken}
    Hashes = {}
    Amounts = {}
    Deadlines = {}
    SignedReports = {}
    Settlement = settlement
    Owner = owner
    RegistryOwner = owner
    NoAddress = nobody
    NoHash = zero
    InitialBalance = 0
    MaxUint = 2147483647
    MsPerSecond = 1000
    proofSubmissionGracePeriodMs = 10000
    verificationTimeoutMs = 10000
    MaxTasks = 20
    MaxTimestamp = 0
INVARIANTS
    MoneyAgreesWithCases
PROPERTIES
    ScriptsRunThrough
CHECK_DEADLOCK FALSE
