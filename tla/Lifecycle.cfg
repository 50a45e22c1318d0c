SPECIFICATION Spec
CONSTANTS
    w1 = w1
    w2 = w2
    c1 = c1
    c2 = c2
    s1 = s1
    s2 = s2
    NoOne = NoOne
    Workers <- MCWorkers
    Closers <- MCClosers
    Sweepers <- MCSweepers
    FaultKinds <- MCFaults
    IngestAttempts = 2
    MaxOffset = 1
    MaxFaults = 2
SYMMETRY MCSymmetry
CHECK_DEADLOCK FALSE
INVARIANTS
    TypeOK
    SoleClaimant
    RunningIsOpen
    CompleteIsWhole
    OneProcessor
PROPERTIES
    ImplementsAbstract
