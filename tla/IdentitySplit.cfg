SPECIFICATION Spec
CONSTANTS
    r1 = r1
    r2 = r2
    d1 = d1
    Null = Null
    Runs <- TwoRuns
    LiveRuns <- OneLive
    ClassOf <- OneClass
    Declared <- NothingSaid
    Removers <- OneRemover
    Slugs = 2
    MaxTests = 2
    FaultKinds <- NoFaults
    MaxFaults = 0
CHECK_DEADLOCK FALSE
INVARIANT
    OneTestPerClass
