SPECIFICATION Spec
CONSTANTS
    r1 = r1
    r2 = r2
    NoRequest = NoRequest
    Requests <- MCRequests
    FaultKinds <- FaultSet
    MaxBytes = 3
    MaxBundleBytes = 2
    MaxFaults = 2
SYMMETRY MCSymmetry
CHECK_DEADLOCK FALSE
INVARIANTS
    AcceptedIsStored
    ClosedHoldsAccepted
    FoldCanContinue
    ClientNeverAhead
    WithinCap
