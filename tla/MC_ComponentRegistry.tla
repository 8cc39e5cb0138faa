------------------------- MODULE MC_ComponentRegistry -------------------------
(***************************************************************************)
(* Small instances of ComponentRegistry for TLC.                           *)
(***************************************************************************)
EXTENDS ComponentRegistry, TLC

\* The contexts are interchangeable, and every run here checks safety only.
Alike == Permutations(Contexts)

Entry(n, k, t) == [name |-> n, kind |-> k, ty |-> t]

\* A singleton and a factory of the same type.
MCInventory == <<Entry("db", "singleton", "Db"), Entry("req", "factory", "Db")>>

\* The same name submitted twice.
MCDuplicate == <<Entry("db", "singleton", "Db"), Entry("db", "factory", "Req")>>

MCInventories == {MCInventory, MCDuplicate}

\* One singleton only.
MCSingleton == {<<Entry("db", "singleton", "Db")>>}

=============================================================================
