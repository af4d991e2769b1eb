SPECIFICATION Spec
CONSTANTS
    Adapters = {"tls", "mock"}
    NoModel = "none"
    DEFAULT_MOCK_OBSERVED_AT = 3
    MismatchedModel = "m-mismatch"
    Inputs <- MCInputs
    MaxReceipts = 2
    MinUsages = {1, 3}
INVARIANTS
    ReleasedWorkIsGenuine
    UsageIsProven
    HonestWorkPasses
    ScenariosFailTheirCheck
CHECK_DEADLOCK FALSE
