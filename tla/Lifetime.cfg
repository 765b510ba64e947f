CONSTANTS
    c1 = c1
    c2 = c2
    r1 = r1
    r2 = r2
    Contexts = {c1, c2}
    Requests = {r1, r2}
    MadeBy <- BothOfOne
    TasksBound = 2
SPECIFICATION FairSpec
CHECK_DEADLOCK FALSE
INVARIANTS
    GlobalCountIsExact
    LibcurlOutlivesItsUsers
    ShareOutlivesHandles
    RequestsOutliveTheirTasks
PROPERTY EverythingIsTornDown
