SPECIFICATION FairSpec
CONSTANTS
    p1 = p1
    p2 = p2
    Procs <- OneProcess
    MaxRuns = 2
    StaleLimit = 1
    OneCopy = TRUE
    DbMayFail = TRUE
INVARIANTS
    TypeOK
    ActiveIsNewest
    RunningIsCancellable
    ActiveIsOwned
PROPERTIES
    KeepsLifecycle
    SlotIsFreed
    StopIsHonoured
    RunEnds
