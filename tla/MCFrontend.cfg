SPECIFICATION Spec
CONSTANTS
  Sessions <- MCSessions
  Workloads <- MCWorkloads
  Tables <- MCTables
  BareName <- MCBareName
  Models = {"m1", "m2"}
  Images = {"i1", "i2"}
  Stored <- MCStored
  Faults <- FaultKinds
CHECK_DEADLOCK FALSE
INVARIANTS
    
    WorkflowIsProgram
    GraphInv
    ParserServerInv
PROPERTY CompileEnds
