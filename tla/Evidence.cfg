SPECIFICATION Spec
CONSTANTS
    v1 = v1
    rc = rc
    NoOne = NoOne
    Verifiers <- OneVerifier
    Recomputer <- rc
    Attempts = 2
    MaxVersion = 2
    FaultKinds <- FaultSet
    MaxFaults = 1
CHECK_DEADLOCK FALSE
INVARIANTS
    VerdictIsCurrent
    EvidenceKept
    GoneIsSettled
PROPERTY
    AnswerStands
