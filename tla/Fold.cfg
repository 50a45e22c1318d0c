SPECIFICATION FairSpec
CONSTANTS
    o1 = o1
    r1 = r1
    r2 = r2
    NoOne = NoOne
    NoRun = NoRun
    Owners <- OneOwner
    Runs <- TwoRuns
    MaxOwned = 1
    FaultKinds <- FaultSet
    MaxFaults = 1
CHECK_DEADLOCK FALSE
INVARIANTS
    LockAccounted
    CapRespected
PROPERTIES
    ClosedNotReclaimed
    ClosedIsParsed
    RunningIsOwned
