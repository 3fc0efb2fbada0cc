CONSTANTS
    MaxId = 6
    Sessions = {s1}
    NoSession = none
    Operations <- BackendOperations
    NoOperation = idle
    RequestTimeout = 1
    MaximumRetries = 1
    MaxTick = 1
    BackoffDelay <- MCBackoffDelay
    Capacity = 2
    MaxLba = 2
    Blocks = {zero, x}
    Blank = zero
    Generations = {1, 2}
SPECIFICATION BackendSpec
INVARIANTS
    BackendTypeOK
    SlotOwnership
    TransferMatchesOperation
    UniqueSector
    CurrentMediumOnly
PROPERTIES
    EvictsOldest
