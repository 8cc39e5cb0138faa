SPECIFICATION FairTopoSpec
CONSTANTS
  MaxTasks = 3
  MaxEdges = 2
  MaxArity = 1
  DegMod = 3
  MaxVisits = 6
  OverflowChecks = TRUE
  Types <- MCOneType
  Signatures <- MCShapes
  Misuses <- AllMisuses
INVARIANTS TopoTypeOK EntriesPresent DegreesExact Transposed LayersRespectEdges LayersDisjoint LayersEarliest VerdictExact CountdownSafe
PROPERTIES LayeringReturns
CHECK_DEADLOCK FALSE
