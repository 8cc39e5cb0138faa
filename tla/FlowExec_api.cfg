SPECIFICATION ExecSpec
CONSTANTS
  MaxTasks = 3
  MaxEdges = 0
  MaxArity = 2
  DegMod = 3
  MaxVisits = 3
  MaxRuns = 2
  OverflowChecks = TRUE
  Types <- MCTypes
  Signatures <- MCSwaps
  Misuses = {"builder_flow"}
  Faults <- MCFailures
INVARIANTS ExecTypeOK RunsAreIsolated LayerBarrier SoleOwner BlameIsRight WellWired NoCycleReported
PROPERTIES StartsWithItsInputs
CHECK_DEADLOCK FALSE
