SPECIFICATION ExecSpec
CONSTANTS
  MaxTasks = 2
  MaxEdges = 1
  MaxArity = 1
  DegMod = 2
  MaxVisits = 5
  MaxRuns = 2
  OverflowChecks = FALSE
  Types <- MCTypes
  Signatures <- MCMixed
  Misuses <- AllMisuses
  Faults <- AllFaults
INVARIANTS RunsAreIsolated SoleOwner BlameIsRight
CHECK_DEADLOCK FALSE
