SPECIFICATION TailSpec
CONSTANTS
    f1 = f1
    f2 = f2
    stop = stop
    None = None
    Flushes <- TwoFlushes
    StopFlush <- stop
    MaxBytes = 3
    TailFaults <- NoFaults
CHECK_DEADLOCK FALSE
INVARIANT
    StoredToCursor
