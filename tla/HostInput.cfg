SPECIFICATION Spec
CONSTANTS
    a = a
    b = b
    NoInput = NoInput
    Inputs = {a, b}
    Deliveries <- Pairs
    MaxTasks = 2
    MaxPlain = 1
    MaxFaults = 1
CHECK_DEADLOCK FALSE
INVARIANTS TypeOK OfferedIsUntaken  DeliveriesDecided
