SPECIFICATION FairSpec
CONSTANTS
    p1 = p1
    p2 = p2
    t1 = t1
    t2 = t2
    t3 = t3
    Procs = {p1, p2}
    Threads = {t1, t2, t3}
    ProcOf <- TwoProcs
    Writers = {"a", "b"}
    WriterOf <- OwnWriter
    Inputs <- TwoEvents
    MaxToken = 2
    MaxSeq = 2
    NoLock = NoLock
    NoInput = NoInput
INVARIANTS TypeOK MutualExclusion JournalRecoverable  TerminalsAreFinal
PROPERTIES ImplementsFencedLog DeadWritersLockRecovered
CHECK_DEADLOCK FALSE
