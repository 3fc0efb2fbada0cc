CONSTANTS
    Transactions = {t1, t2}
    Garbled = garbled
    FrameLength = 2
    MaxBytes = 4
    HastyBytes = 1
    CaptureBytes = 3
    TransmitBytes = 4
    MaxPerPoll = 1
    Values <- MCBytes
    NoValue = none
    Capacity = 2
    Responses <- MCBytes
    NoResponse = none
    DmaQueueBytes = 3
    FifoDepth = 1
    BitsPerByte = 2
SPECIFICATION PathSpec
SYMMETRY TagSymmetry
VIEW LiveState
INVARIANTS
    PathTypeOK
    ReceivedInOrder
    AnsweredInOrder
PROPERTIES
    ImplementsFifo
    TransmitImplementsFifo
