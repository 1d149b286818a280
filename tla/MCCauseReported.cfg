SPECIFICATION Spec
CONSTANTS
    Programs <- MCPair
    MaxOut = 1
INVARIANTS
    CauseReported
CHECK_DEADLOCK FALSE
