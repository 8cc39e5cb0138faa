SPECIFICATION GenSpec
CONSTANTS
  Outputs <- MCOutputs
  Vars <- MCVars
  Ident <- MCIdent
  MaxDeps = 2
  MaxTasks = 5
  MaxEdges = 0
  MaxArity = 2
  DegMod = 3
  OverflowChecks = TRUE
  Types <- OneType
  Signatures <- MCSignatures
  Misuses <- NoMisuse
  Paths <- FewPaths
  Indexes <- FewIndexes
  FlowFiles <- FewFlowFiles
  Entries <- FewPaths
  normalize_for_concat <- FewEntries
INVARIANTS GeneratedCodeCompiles
CHECK_DEADLOCK FALSE
