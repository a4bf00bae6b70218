SPECIFICATION FairSpec
CONSTANTS
    s1 = s1
    s2 = s2
    u1 = u1
    u2 = u2
    Sources = {s1, s2}
    Urls = {u1, u2}
    UrlOf <- OneIdEach
    MaxEvents = 2
    Faults <- AllFaults
INVARIANTS
    EvidenceChain
    NewIsFirstSeen
    OnlyFinishedRunsReport
    CoverageAgrees
PROPERTIES
    RunTerminates
CHECK_DEADLOCK FALSE
