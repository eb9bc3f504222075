SPECIFICATION Spec
CONSTANTS
    Plan <- PairPlan
    Kind <- PairKind
    Needs <- PairNeeds
    Retryable = {"a", "b"}
    ContentAddressed = {"a"}
    Mutating = {"b"}
    MaxAttempts = 2
    ItemAttempts = 1
    Limit = 3
    Ends <- FewEnds
    MaxCrashes = 1
INVARIANTS AssignmentsFunded NoBlindReplay CompletedIsProved
CHECK_DEADLOCK FALSE
