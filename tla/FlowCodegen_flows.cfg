SPECIFICATION GenSpec
CONSTANTS
  Outputs <- MCOutputs
  Vars <- MCVars
  Ident <- MCIdent
  MaxDeps = 2
  MaxTasks = 5
  MaxEdges = 0
  MaxArity = 2
  DegMod = 3
  OverflowChecks = TRUE
  Types <- OneType
  Signatures <- MCSignatures
  Misuses <- NoMisuse
  Paths <- MCPaths
  Indexes <- MCIndexes
  FlowFiles <- MCFlowFiles
  Entries <- MCEntries
  normalize_for_concat <- MCNormalize
INVARIANTS CodegenTypeOK RejectsExactlyTheInvalid FirstChecksSuffice DefinedBeforeUse AllOrNothing BuildsTheFile
PROPERTIES GenerateReturns
CHECK_DEADLOCK FALSE
