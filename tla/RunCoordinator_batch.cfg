SPECIFICATION Spec
CONSTANTS
    Plan <- BatchPlan
    Kind <- BatchKind
    Needs <- BatchNeeds
    Retryable = {"b"}
    ContentAddressed = {"b"}
    Mutating = {}
    MaxAttempts = 1
    ItemAttempts = 2
    Limit = 5
    Ends <- FewEnds
    MaxCrashes = 2
INVARIANTS TypeOK 
CHECK_DEADLOCK FALSE
