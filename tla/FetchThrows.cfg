CONSTANTS
    r1 = r1
    Requests = {r1}
    Configs <- PlainConfigs
    Statuses = {200}
    Bodies = {"body"}
    SubmitterThrows = TRUE
    ThrowsBound = 2
SPECIFICATION Spec
INVARIANT FirstExceptionIsTold
