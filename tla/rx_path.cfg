SPECIFICATION FairSpec
CONSTANTS
    Depth = 4
    ESC = ESC
    Bytes = {ESC, a, b}
    MaxBytes = 8
INVARIANTS
    TypeOK
    FifoIsQueue
    DecodedInOrder
PROPERTIES
    AllDelivered
