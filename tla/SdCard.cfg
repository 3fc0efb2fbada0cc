CONSTANTS
    CardBlocks = 2
    Payloads = {zero, x}
    Blank = zero
    NoBlock = none
    TransmitCapacity = 5
    BlockSize = 3
    Results <- AnyResult
    MaxLate = 1
    DropsStreams = FALSE
SPECIFICATION SdFairSpec
INVARIANTS
    SdTypeOK
    AnswersMatch
    CommandsAnswered
    AcceptedIsStored
    PendingHasClient
PROPERTIES
    DeferredIsAnswered
