SPECIFICATION Spec
CONSTANTS
    s1 = s1
    s2 = s2
    Stacks = {s1, s2}
    Private = {s2}
    None = None
    Via = Via
    Trees <- Partial
    Changes = {FALSE, TRUE}
    MaxTx = 3
    MaxEdits = 1
    MaxFaults = 2
INVARIANT PreexistingRetained
CHECK_DEADLOCK FALSE
