SPECIFICATION FairSpec
CONSTANTS
    q1 = q1
    q2 = q2
    k = k
    NoRun = NoRun
    NoKey = NoKey
    Reqs <- TwoReqs
    Key <- SameKey
    FaultKinds <- FaultSet
    MaxFaults = 3
CHECK_DEADLOCK FALSE
INVARIANTS
    RunHasBundle
    NoOrphanBundle
PROPERTIES
    WokenByTheEnd
    ClosedLetsGo
