SPECIFICATION Spec
CONSTANTS
    Workloads <- Crosses
    Models = {"m", "n"}
    Matches <- MCMatches
    MaxSamples = 2
    Faults = {}
INVARIANT CrossInClauseOrder
CHECK_DEADLOCK FALSE
