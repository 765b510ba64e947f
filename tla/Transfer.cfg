CONSTANTS
    Configs <- AllConfigs
    Statuses = {103, 200, 206, 302, 404}
    MaximumHops = 1
    MaximumBytes = 2
    ContentBytes = 3
SPECIFICATION FairSpec
INVARIANTS
    FirstExceptionIsTold
    SuccessIsWhole
    TimelyCancelIsTold
    RefusalIsTold
    StatusIsTheServers
PROPERTIES
    ImplementsContract
    ExchangeIsATask
    CancelledTransferEnds
