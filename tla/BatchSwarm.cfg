SPECIFICATION BatchFairSpec
CONSTANTS
    N = 3
    MaxAttempts = 2
    Initial = 2
    Ceiling = 2
    Adaptive = TRUE
    Policies = {"fail-fast", "quorum"}
    Threshold = 1
    ItemEnds <- SomeEnds
    MaxCrashes = 1
    MaxFaults = 1
CHECK_DEADLOCK FALSE
INVARIANTS BatchTypeOK PoolHolds VerdictIsProved
PROPERTIES  FirstExecutionReturns
