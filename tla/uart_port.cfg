SPECIFICATION Spec
CONSTANTS
    SERIAL_BUFFER_SIZE = 3
    MaxRx = 4
    MaxTx = 2
    MaxFlush = 2
    MaxSession = 2
    Usages <- MCUsages
INVARIANTS
    AvailableIsSafe
    ClearDiscards
    ReadInLineOrder
    WriteSends
PROPERTIES
    ImplementsQueue
    CharIsOffered
    WriteReturns
CHECK_DEADLOCK FALSE
