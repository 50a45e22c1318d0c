SPECIFICATION FairSpec
CONSTANTS
    r1 = r1
    r2 = r2
    NoOne = NoOne
    Runners <- MCRunners
    MaxChunks = 2
    FaultKinds <- FaultSet
    MaxFaults = 2
CHECK_DEADLOCK FALSE
INVARIANTS
    CompleteHasAll
    NothingLeftOpen
PROPERTIES
    VerdictStands
    JobEnds
    CancelStops
