SPECIFICATION MCSpec
CONSTANTS
    a = a
    b = b
    Bytes = {a, b}
    Size = 5
    None = None
    Room = 8
    BufSize = 3
    Messages <- MCMessages
INVARIANTS
    PartsTypeOK
    FramesRight
PROPERTIES
    IsFifo
    PublishEnds
    IsLossyQueue
