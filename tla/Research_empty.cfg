SPECIFICATION Spec
CONSTANTS
    s1 = s1
    s2 = s2
    u1 = u1
    u2 = u2
    Sources = {s1, s2}
    Urls = {u1}
    UrlOf <- TwoIdsOneUrl
    MaxEvents = 2
    Faults <- DiskFault
INVARIANTS
    FailedHasNoEmptyReport
CHECK_DEADLOCK FALSE
