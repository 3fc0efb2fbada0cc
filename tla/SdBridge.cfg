CONSTANTS
    MaxId = 6
    Sessions <- TwoHosts
    NoSession = 0
    Operations <- BackendOperations
    NoOperation = idle
    RequestTimeout = 1
    MaximumRetries = 1
    MaxTick = 0
    BackoffDelay <- MCBackoffDelay
    Capacity = 2
    MaxLba = 1
    Blocks = {zero, x}
    Blank = zero
    Generations = {1}
    NoLine = none
    MaxQueue = 2
    MaxTimeouts = 1
    NoWrite = none
SPECIFICATION BridgeSpec
INVARIANTS
    BridgeTypeOK
    CoherentCache
    OutstandingHasOwner
    MediaKnownOnlyInSession
    CompletedIsTheImage
    PendingWriteIsCurrent
PROPERTIES
    OnlyTheActiveWriteExecutes
    ImplementsStore
