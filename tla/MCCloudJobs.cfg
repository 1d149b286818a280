SPECIFICATION Spec
CONSTANTS
  Sessions <- MCSessions
  Workloads <- MCWorkloads
  Models <- MCModels
  Stored <- MCStored
  Faults <- Phases
CHECK_DEADLOCK FALSE
INVARIANTS
    NoLeftovers
    OwnInputs
    OkMeansDone
PROPERTY SessionsEnd
