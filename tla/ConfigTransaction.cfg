SPECIFICATION Spec
CONSTANTS
    p1 = p1
    p2 = p2
    g1 = g1
    g2 = g2
    Procs = {p1, p2}
    Gens = {g1, g2}
    NoGen = NoGen
    NoProc = NoProc
    Dead = Dead
    EditInWindow = FALSE
    MaxTx = 3
    MaxEdits = 1
    MaxFaults = 2
SYMMETRY Symmetry
CHECK_DEADLOCK FALSE
INVARIANTS TypeOK OneMutator SettingsResolve GoodAtRest
PROPERTIES  EditsSurvive
