SPECIFICATION FairSpec
CONSTANTS
    Plan <- ChainPlan
    Kind <- ChainKind
    Needs <- ChainNeeds
    Retryable = {"l", "g", "a"}
    ContentAddressed = {"l", "g"}
    Mutating = {"a"}
    MaxAttempts = 2
    ItemAttempts = 1
    Limit = 2
    Ends <- OverrunEnds
    MaxCrashes = 1
INVARIANT DependenciesFirst
PROPERTY ExecuteReturns
CHECK_DEADLOCK FALSE
