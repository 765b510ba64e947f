CONSTANTS
    r1 = r1
    Requests = {r1}
    Configs <- AllConfigs
    Statuses = {0, 200, 206, 304, 404}
    Bodies = {"one", "two"}
    SubmitterThrows = FALSE
    ThrowsBound = 3
SPECIFICATION Spec
INVARIANTS
    PendingIsPrivate
    ToldWhatHappened
    FirstExceptionIsTold
