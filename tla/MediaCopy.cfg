CONSTANTS
    CardSizes <- Sizes
    Contents <- Origins
    Garbled = garbled
    NoWrite = nowrite
    MaxCorruptions = 2
    ImageBlocks = 2
    MaxCopies = 1
    MaxClientWrites = 1
    NoCall = nocall
SPECIFICATION MediaSpec
INVARIANTS
    CopyTypeOK
PROPERTIES
    CancellationWins
    CompleteMeansCopied
    OwnershipReturns
