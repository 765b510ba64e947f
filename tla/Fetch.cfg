CONSTANTS
    r1 = r1
    r2 = r2
    Requests = {r1, r2}
    Configs <- PlainConfigs
    Statuses = {0, 200}
    Bodies = {"body"}
    SubmitterThrows = TRUE
    ThrowsBound = 1
SPECIFICATION FairSpec
INVARIANTS
    NothingStranded
    TimelyCancelWins
PROPERTIES
    ImplementsContract
    CancelIsPrompt
    EverySubmissionIsHandled
