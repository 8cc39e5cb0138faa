SPECIFICATION FairExecSpec
CONSTANTS
  MaxTasks = 3
  MaxEdges = 0
  MaxArity = 2
  DegMod = 3
  MaxVisits = 3
  MaxRuns = 2
  OverflowChecks = TRUE
  Types <- MCTypes
  Signatures <- MCPromise
  Misuses <- NoMisuse
  Faults <- AllFaults
INVARIANTS FirstRunSucceeds
PROPERTIES KeepsPromise
CHECK_DEADLOCK FALSE
