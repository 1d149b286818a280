SPECIFICATION Spec
CONSTANTS
    StepCnt = 3
    LateNodes = TRUE
INVARIANTS
    EofMeansComplete
    StepErrorIsReal
    FetchInv
PROPERTIES
    LogsInOrder
    ClientEnds
    FailureSurfaces
CHECK_DEADLOCK FALSE
