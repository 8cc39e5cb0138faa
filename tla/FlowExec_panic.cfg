SPECIFICATION ExecSpec
CONSTANTS
  MaxTasks = 3
  MaxEdges = 0
  MaxArity = 2
  DegMod = 3
  MaxVisits = 3
  MaxRuns = 1
  OverflowChecks = TRUE
  Types <- MCOneType
  Signatures <- MCSignatures
  Misuses <- NoMisuse
  Faults = {"panic"}
INVARIANTS PanicsAreReported
CHECK_DEADLOCK FALSE
