SPECIFICATION Spec
CONSTANTS
    p1 = p1
    p2 = p2
    Procs = {p1, p2}
    NoProc = NoProc
    MaxRevisions = 2
    Window = 1
    Target = 1
    AllowReuse = TRUE
    Coverages = {0, 1}
    Expanding = {FALSE, TRUE}
    Usages = {0, 1}
    Worst = 1
    Capacity = 1
    MaxFaults = 1
SYMMETRY Symmetry
INVARIANTS TypeOK EndIsDecided EnvelopeCloses SettledNotRerun
