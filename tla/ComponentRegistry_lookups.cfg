SPECIFICATION Spec
CONSTANTS
  Contexts = {c1, c2}
  Names = {"db", "req"}
  CompTypes = {"Db", "Req"}
  Inventories <- MCInventories
  MaxInstances = 2
INVARIANTS RegistryTypeOK AnswersTyped SameInstance InitIsComplete
SYMMETRY Alike
CHECK_DEADLOCK FALSE
