SPECIFICATION Spec
CONSTANTS
  Idents <- MCIdents
  ParamTypes <- MCTypes
  Impls <- MCImpls
INVARIANTS MacroTypeOK KeepsTheDocumentation CallDelivers
CHECK_DEADLOCK FALSE
