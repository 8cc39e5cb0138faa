SPECIFICATION Spec
CONSTANTS
  IndexPaths <- MCIndexPaths
  FlowPaths <- MCFlowPaths
  Listings <- MCListings
  Versions <- MCVersions
  DefaultIndex <- MCDefaultIndex
  EnvKey <- SameKey
  MaxEdits = 3
INVARIANTS BuildTypeOK UpToDate OnlyWholeFilesCompiled
CHECK_DEADLOCK FALSE
