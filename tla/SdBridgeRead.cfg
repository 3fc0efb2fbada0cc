CONSTANTS
    MaxId = 6
    Sessions <- OneHost
    NoSession = 0
    Operations <- BackendOperations
    NoOperation = idle
    RequestTimeout = 1
    MaximumRetries = 1
    MaxTick = 0
    BackoffDelay <- MCBackoffDelay
    Capacity = 1
    MaxLba = 1
    Blocks = {zero, x}
    Blank = zero
    Generations = {1}
    NoLine = none
    MaxQueue = 2
    MaxTimeouts = 0
    NoWrite = none
SPECIFICATION BridgeSpec
PROPERTY
    DeferredReadSurvives
