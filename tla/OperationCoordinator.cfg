CONSTANTS
    MaxId = 7
    Sessions = {s1}
    NoSession = none
    Operations = {read, write}
    NoOperation = idle
    RequestTimeout = 2
    MaximumRetries = 3
    InitialBackoff = 1
    MaximumBackoff = 3
    MaxTick = 12
    BackoffDelay <- MCBackoffDelay
SPECIFICATION MCFairSpec
INVARIANTS
    TypeOK
    AwaitingIsGuarded
    BackoffIsScheduled
    OperationRetained
    PendingIsNewest
    TimersAreExact
PROPERTIES
    IdsNeverReused
    InFlightEnds
    ImplementsContract
