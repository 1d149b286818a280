SPECIFICATION Spec
CONSTANTS
    Workloads <- Everything
    Models = {"m", "n"}
    Matches <- MCMatches
    MaxSamples = 2
    Faults = {"db", "rows"}
INVARIANTS
    ColumnsFit
    UseSeesTraining
    
    
CHECK_DEADLOCK FALSE
