SPECIFICATION Spec
CONSTANTS
    q1 = q1
    q2 = q2
    q3 = q3
    None = None
    Reqs <- ThreeReqs
    Content <- TwoFiles
    MaxPackages = 2
    FaultKinds <- FaultSet
    MaxFaults = 1
CHECK_DEADLOCK FALSE
INVARIANTS
    NeededHasFile
    RunsItsUpload
    NoOrphanFile
