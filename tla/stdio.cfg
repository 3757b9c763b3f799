SPECIFICATION FairSpec
CONSTANTS
    w1 = w1
    w2 = w2
    r1 = r1
    Writers = {w1}
    Readers = {r1}
    Prints = {1, 3}
    MaxPrinted = 5
    Writes = {1, 2}
    MaxWritten = 3
    Early = FALSE
    DataLenMax = 3
    TxBufSize = 2
    FifoSize = 2
    TraceSize = 6
    Slots = 2
INVARIANTS TypeOK PrintIntact RoomForTerminator InputIntact
PROPERTIES Completes
CHECK_DEADLOCK FALSE
