SPECIFICATION Spec
CONSTANTS
  IndexPaths <- MCIndexPaths
  FlowPaths <- MCFlowPaths
  Listings <- MCListings
  Versions <- MCVersions
  DefaultIndex <- MCDefaultIndex
  EnvKey <- ExampleKey
  MaxEdits = 3
INVARIANTS UpToDate
CHECK_DEADLOCK FALSE
