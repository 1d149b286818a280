SPECIFICATION Spec
CONSTANTS
    Programs <- MCPrograms
    MaxOut = 2
INVARIANTS
    OkMeansComplete
    SessionInv
PROPERTIES
    SessionEnds
    FailureReported
    ImplementsStream
CHECK_DEADLOCK FALSE
