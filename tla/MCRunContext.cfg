SPECIFICATION Spec
CONSTANTS
  Sessions <- MCSessions
  Workloads <- RunPair
  Models <- MCModels
  Stored <- MCStored
  Faults <- Phases
CHECK_DEADLOCK FALSE
INVARIANT RunSeesOwnContext
