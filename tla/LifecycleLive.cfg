SPECIFICATION FairSpec
CONSTANTS
    w1 = w1
    w2 = w2
    c1 = c1
    c2 = c2
    s1 = s1
    s2 = s2
    NoOne = NoOne
    Workers <- OneWorker
    Closers <- OneCloser
    Sweepers <- OneSweeper
    FaultKinds <- FaultSet
    IngestAttempts = 2
    MaxOffset = 1
    MaxFaults = 2
CHECK_DEADLOCK FALSE
PROPERTY
    Settles
