SPECIFICATION Spec
CONSTANTS
  Contexts = {c1, c2}
  Names = {"db", "req"}
  CompTypes = {"Db", "Req"}
  Inventories <- MCSingleton
  MaxInstances = 3
INVARIANTS OneInstancePerProcess
SYMMETRY Alike
CHECK_DEADLOCK FALSE
