CONSTANTS
    CardBlocks = 2
    Payloads = {zero, x}
    Blank = zero
    NoBlock = none
    TransmitCapacity = 5
    BlockSize = 3
    Results <- NeverFails
    MaxLate = 1
    DropsStreams = FALSE
SPECIFICATION SdFairSpec
PROPERTY
    StreamContinues
