SPECIFICATION Spec
CONSTANTS
    w1 = w1
    w2 = w2
    r1 = r1
    Writers = {w1}
    Readers = {r1}
    Prints = {1}
    MaxPrinted = 1
    Writes = {3}
    MaxWritten = 3
    Early = FALSE
    DataLenMax = 3
    TxBufSize = 2
    FifoSize = 2
    TraceSize = 6
    Slots = 2
INVARIANT InputIntact
CHECK_DEADLOCK FALSE
