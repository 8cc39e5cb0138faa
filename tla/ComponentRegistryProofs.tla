----------------------- MODULE ComponentRegistryProofs -----------------------
(***************************************************************************)
(* What holds of the component registry for every inventory and any number *)
(* of contexts, names, types and instances.                                *)
(***************************************************************************)
EXTENDS ComponentRegistry, FiniteSetTheorems, FunctionTheorems, TLAPS

-----------------------------------------------------------------------------
(***************************************************************************)
(* The invariant.                                                          *)
(***************************************************************************)

\* The types, and that the variables that are indexed by context are
\* functions of it.
TypesInv ==
  /\ RegistryTypeOK
  /\ components = [c \in Contexts |-> components[c]]
  /\ todo = [c \in Contexts |-> todo[c]]

\* The entry of a singleton holds an instance of the type it tells.
EntriesInv ==
  \A c \in Contexts : \A n \in DOMAIN components[c] :
    components[c][n].kind = "singleton" =>
      /\ components[c][n].inst \in DOMAIN made
      /\ made[components[c][n].inst].ty = components[c][n].ty

\* Lookups come from contexts that were finished, and the entry that answered
\* one is still there, unless a duplicate replaced it and the program went on.
LookupInv ==
  \A a \in got :
    /\ state[a.ctx] \in {"owned", "shared", "gone"}
    /\ state[a.ctx] # "gone" /\ [ctx |-> a.ctx, name |-> a.name] \notin survived =>
         /\ Present(a.ctx, a.name)
         /\ components[a.ctx][a.name].kind = "singleton"
         /\ components[a.ctx][a.name].inst = a.inst

\* The entries that init_components has visited.
Visited(c) == Entries \ todo[c]

\* What init_components has visited is there, under different names.
FillInv ==
  \A c \in Contexts :
    /\ state[c] = "absent" => DOMAIN components[c] = {}
    /\ state[c] = "filling" =>
         /\ DOMAIN components[c] = {inventory[i].name : i \in Visited(c)}
         /\ \A i \in Visited(c) : components[c][inventory[i].name].kind = inventory[i].kind
         /\ \A i, j \in Visited(c) : inventory[i].name = inventory[j].name => i = j

\* The product of a factory is nobody else's.
OwnedAlone ==
  \A a \in created :
    /\ \A b \in got : a.inst # b.inst
    /\ \A c \in Contexts : \A n \in DOMAIN components[c] : components[c][n].inst # a.inst
    /\ \A b \in created : a.inst = b.inst => a = b

RegistryInv ==
  /\ TypesInv
  /\ EntriesInv
  /\ AnswersTyped
  /\ LookupInv
  /\ SameInstance
  /\ FillInv
  /\ OwnedAlone

-----------------------------------------------------------------------------
(***************************************************************************)
(* Building instances and entries.                                         *)
(***************************************************************************)
LEMMA InventoryEntries ==
  ASSUME TypesInv
  PROVE  /\ Len(inventory) \in Nat /\ Entries = 1 .. Len(inventory)
         /\ \A i \in Entries : /\ inventory[i].name \in Names
                               /\ inventory[i].kind \in Kinds
                               /\ inventory[i].ty \in CompTypes
  <1>1. PICK Entry : Entry = [name : Names, kind : Kinds, ty : CompTypes]
    OBVIOUS
  <1>2. inventory \in Seq(Entry)
    BY <1>1, InventoryAssumption DEF TypesInv, RegistryTypeOK
  <1>3. Len(inventory) \in Nat /\ Entries = 1 .. Len(inventory)
    BY <1>2 DEF Entries
  <1>4. \A i \in Entries : inventory[i] \in Entry
    BY <1>2, <1>3
  <1> QED
    BY <1>1, <1>3, <1>4

\* Instances are numbered in the order in which they are built.
LEMMA NewInstance ==
  ASSUME TypesInv, NEW ty \in CompTypes, NEW by \in Builders, Construct(ty, by)
  PROVE  /\ made' \in Seq([ty : CompTypes, by : Builders]) /\ Len(made') <= MaxInstances
         /\ Len(made) + 1 \in Instances
         /\ Len(made) + 1 \notin DOMAIN made /\ Len(made) + 1 \in DOMAIN made'
         /\ made'[Len(made) + 1].ty = ty
         /\ \A i \in DOMAIN made : i \in DOMAIN made' /\ made'[i] = made[i]
  <1>1. /\ made \in Seq([ty : CompTypes, by : Builders]) /\ Len(made) < MaxInstances
        /\ MaxInstances \in Nat /\ made' = Append(made, [ty |-> ty, by |-> by])
        /\ [ty |-> ty, by |-> by] \in [ty : CompTypes, by : Builders]
    BY InstancesAssumption DEF TypesInv, RegistryTypeOK, Construct
  <1>2. /\ made' \in Seq([ty : CompTypes, by : Builders]) /\ Len(made') = Len(made) + 1
        /\ DOMAIN made = 1 .. Len(made) /\ DOMAIN made' = 1 .. Len(made) + 1
        /\ Len(made) \in Nat
    BY <1>1
  <1>3. made'[Len(made) + 1] = [ty |-> ty, by |-> by]
    BY <1>1
  <1>4. \A i \in DOMAIN made : made'[i] = made[i]
    BY <1>1
  <1>5. Len(made) + 1 \in Instances /\ Len(made') <= MaxInstances
    BY <1>1, <1>2 DEF Instances
  <1> QED
    BY <1>2, <1>3, <1>4, <1>5

\* What stays the same of the instances when some are built.
MadeGrows ==
  /\ made' \in Seq([ty : CompTypes, by : Builders]) /\ Len(made') <= MaxInstances
  /\ \A i \in DOMAIN made : i \in DOMAIN made' /\ made'[i] = made[i]

\* What inserting `entry` does to the components of a context.
Inserted(c, name, entry) ==
  /\ components' = [d \in Contexts |-> components'[d]]
  /\ \A d \in Contexts \ {c} : components'[d] = components[d]
  /\ DOMAIN components'[c] = DOMAIN components[c] \cup {name}
  /\ components'[c][name] = entry
  /\ \A n \in DOMAIN components[c] \ {name} : components'[c][n] = components[c][n]

\* An entry that holds an instance holds a new one.
LEMMA MadeEntry ==
  ASSUME TypesInv, NEW c \in Contexts, NEW kind \in Kinds, NEW ty \in CompTypes,
         NEW name \in Names, NEW by \in Builders, MakeEntry(c, kind, ty, name, by)
  PROVE  /\ MadeGrows
         /\ \E entry \in EntryType :
              /\ Inserted(c, name, entry)
              /\ entry.kind = kind
              /\ entry.inst \notin DOMAIN made
              /\ kind = "singleton" => /\ entry.inst \in DOMAIN made'
                                       /\ made'[entry.inst].ty = entry.ty
  <1>1. made \in Seq([ty : CompTypes, by : Builders]) /\ Len(made) <= MaxInstances
    BY DEF TypesInv, RegistryTypeOK
  <1>2. ASSUME NEW entry, Insert(c, name, entry)
        PROVE  Inserted(c, name, entry)
    <2>1. components = [d \in Contexts |-> components[d]]
      BY DEF TypesInv
    <2> DEFINE after == [n \in DOMAIN components[c] \cup {name} |->
                         IF n = name THEN entry ELSE components[c][n]]
    <2>2. components' = [components EXCEPT ![c] = after]
      BY <1>2 DEF Insert
    <2> HIDE DEF after
    <2>3. /\ components' = [d \in Contexts |-> components'[d]]
          /\ components'[c] = after
          /\ \A d \in Contexts \ {c} : components'[d] = components[d]
      BY <2>1, <2>2
    <2> QED
      BY <2>3 DEF Inserted, after
  <1>3. CASE kind = "singleton"
    <2> DEFINE entry == [kind |-> kind, ty |-> ty, inst |-> Len(made) + 1]
    <2>1. Construct(ty, by) /\ Insert(c, name, entry)
      BY <1>3 DEF MakeEntry
    <2>2. entry \in EntryType
      BY <1>3, <2>1, NewInstance DEF EntryType
    <2>3. MadeGrows
      BY <2>1, NewInstance DEF MadeGrows
    <2>4. Inserted(c, name, entry)
      BY <1>2, <2>1
    <2>5. /\ entry.inst \notin DOMAIN made /\ entry.inst \in DOMAIN made'
          /\ made'[entry.inst].ty = entry.ty
      BY <2>1, NewInstance
    <2>6. entry.kind = kind
      OBVIOUS
    <2> HIDE DEF entry
    <2> QED
      BY <2>2, <2>3, <2>4, <2>5, <2>6
  <1>4. CASE kind = "factory"
    <2> DEFINE entry == [kind |-> kind, ty |-> ty, inst |-> None]
    <2>1. made' = made /\ Insert(c, name, entry)
      BY <1>4 DEF MakeEntry
    <2>2. entry \in EntryType
      BY <1>4 DEF EntryType
    <2>3. MadeGrows
      BY <1>1, <2>1 DEF MadeGrows
    <2>4. Inserted(c, name, entry)
      BY <1>2, <2>1
    <2>5. entry.inst \notin DOMAIN made
      BY <1>1 DEF None
    <2>6. entry.kind = kind
      OBVIOUS
    <2> HIDE DEF entry
    <2> QED
      BY <1>4, <2>2, <2>3, <2>4, <2>5, <2>6
  <1> QED
    BY <1>3, <1>4 DEF Kinds

-----------------------------------------------------------------------------
(***************************************************************************)
(* Inserting, by init_components or by the caller.                         *)
(***************************************************************************)
LEMMA InsertTypes ==
  ASSUME RegistryInv, NEW c \in Contexts, NEW name \in Names, NEW entry \in EntryType,
         Inserted(c, name, entry), AfterInsert(c, name), MadeGrows,
         UNCHANGED <<inventory, got, created>>,
         todo' = [d \in Contexts |-> todo'[d]],
         \A d \in Contexts : todo'[d] \subseteq todo[d]
  PROVE  TypesInv'
  <1>1. RegistryTypeOK
    BY DEF RegistryInv, TypesInv
  <1>2. state' \in [Contexts -> States] /\ survived' \subseteq [ctx : Contexts, name : Names]
    BY <1>1 DEF RegistryTypeOK, AfterInsert, States
  <1>3. ASSUME NEW d \in Contexts
        PROVE  /\ DOMAIN components'[d] \subseteq Names
               /\ \A n \in DOMAIN components'[d] : components'[d][n] \in EntryType
               /\ todo'[d] \subseteq Entries'
    <2>1. /\ DOMAIN components[d] \subseteq Names
          /\ \A n \in DOMAIN components[d] : components[d][n] \in EntryType
          /\ todo[d] \subseteq Entries
      BY <1>1 DEF RegistryTypeOK
    <2>2. todo'[d] \subseteq Entries'
      BY <2>1 DEF Entries
    <2>3. CASE d = c
      BY <2>1, <2>2, <2>3 DEF Inserted
    <2>4. CASE d # c
      BY <2>1, <2>2, <2>4 DEF Inserted
    <2> QED
      BY <2>3, <2>4
  <1>4. RegistryTypeOK'
    BY <1>1, <1>2, <1>3 DEF RegistryTypeOK, MadeGrows
  <1> QED
    BY <1>4 DEF TypesInv, Inserted

LEMMA InsertSafe ==
  ASSUME RegistryInv, NEW c \in Contexts, NEW name \in Names, NEW entry \in EntryType,
         state[c] \in {"filling", "owned"},
         Inserted(c, name, entry), AfterInsert(c, name), MadeGrows,
         entry.inst \notin DOMAIN made,
         entry.kind = "singleton" => /\ entry.inst \in DOMAIN made'
                                     /\ made'[entry.inst].ty = entry.ty,
         UNCHANGED <<inventory, got, created>>
  PROVE  /\ EntriesInv' /\ AnswersTyped' /\ LookupInv' /\ SameInstance' /\ OwnedAlone'
  <1>1. /\ \A a \in got : a.ctx \in Contexts
        /\ state \in [Contexts -> States]
        /\ made \in Seq([ty : CompTypes, by : Builders])
    BY DEF RegistryInv, TypesInv, RegistryTypeOK
  <1>2. EntriesInv'
    <2> SUFFICES ASSUME NEW d \in Contexts, NEW n \in DOMAIN components'[d],
                        components'[d][n].kind = "singleton"
                 PROVE  /\ components'[d][n].inst \in DOMAIN made'
                        /\ made'[components'[d][n].inst].ty = components'[d][n].ty
      BY DEF EntriesInv
    <2>1. CASE d = c /\ n = name
      BY <2>1 DEF Inserted
    <2>2. CASE ~(d = c /\ n = name)
      <3>1. n \in DOMAIN components[d] /\ components'[d][n] = components[d][n]
        BY <2>2 DEF Inserted
      <3> QED
        BY <3>1 DEF RegistryInv, EntriesInv, MadeGrows
    <2> QED
      BY <2>1, <2>2
  <1>3. AnswersTyped'
    BY DEF RegistryInv, AnswersTyped, MadeGrows
  <1>4. survived \subseteq survived' /\ state' \in [Contexts -> States]
        /\ \A d \in Contexts : state'[d] = state[d] \/ state'[d] = "gone"
    BY <1>1 DEF AfterInsert, States
  <1>5. LookupInv'
    <2> SUFFICES ASSUME NEW a \in got
                 PROVE  /\ state'[a.ctx] \in {"owned", "shared", "gone"}
                        /\ /\ state'[a.ctx] # "gone"
                           /\ [ctx |-> a.ctx, name |-> a.name] \notin survived'
                           => /\ a.name \in DOMAIN components'[a.ctx]
                              /\ components'[a.ctx][a.name].kind = "singleton"
                              /\ components'[a.ctx][a.name].inst = a.inst
      BY DEF LookupInv, Present
    <2>1. /\ state[a.ctx] \in {"owned", "shared", "gone"}
          /\ /\ state[a.ctx] # "gone"
             /\ [ctx |-> a.ctx, name |-> a.name] \notin survived
             => /\ a.name \in DOMAIN components[a.ctx]
                /\ components[a.ctx][a.name].kind = "singleton"
                /\ components[a.ctx][a.name].inst = a.inst
      BY DEF RegistryInv, LookupInv, Present
    <2>2. state'[a.ctx] \in {"owned", "shared", "gone"}
      BY <1>1, <1>4, <2>1
    <2>3. ASSUME state'[a.ctx] # "gone", [ctx |-> a.ctx, name |-> a.name] \notin survived'
          PROVE  /\ a.name \in DOMAIN components'[a.ctx]
                 /\ components'[a.ctx][a.name].kind = "singleton"
                 /\ components'[a.ctx][a.name].inst = a.inst
      <3>1. /\ a.name \in DOMAIN components[a.ctx]
            /\ components[a.ctx][a.name].kind = "singleton"
            /\ components[a.ctx][a.name].inst = a.inst
        BY <1>1, <1>4, <2>1, <2>3
      <3>2. CASE a.ctx # c
        BY <3>1, <3>2, <1>1 DEF Inserted
      <3>3. CASE a.ctx = c
        <4>1. a.name # name
          BY <3>1, <3>3, <2>3, <1>1 DEF AfterInsert, Present
        <4> QED
          BY <3>1, <3>3, <4>1 DEF Inserted
      <3> QED
        BY <3>2, <3>3
    <2> QED
      BY <2>2, <2>3
  <1>6. SameInstance'
    BY <1>4 DEF RegistryInv, SameInstance
  <1>7. OwnedAlone'
    <2>1. ASSUME NEW a \in created, NEW d \in Contexts, NEW n \in DOMAIN components'[d]
          PROVE  components'[d][n].inst # a.inst
      <3>1. a.inst \in DOMAIN made
        BY DEF RegistryInv, AnswersTyped
      <3>2. CASE d = c /\ n = name
        BY <3>1, <3>2 DEF Inserted
      <3>3. CASE ~(d = c /\ n = name)
        <4>1. n \in DOMAIN components[d] /\ components'[d][n] = components[d][n]
          BY <3>3 DEF Inserted
        <4> QED
          BY <4>1 DEF RegistryInv, OwnedAlone
      <3> QED
        BY <3>2, <3>3
    <2>2. \A a \in created : /\ \A b \in got : a.inst # b.inst
                             /\ \A b \in created : a.inst = b.inst => a = b
      BY DEF RegistryInv, OwnedAlone
    <2> QED
      BY <2>1, <2>2 DEF OwnedAlone
  <1> QED
    BY <1>2, <1>3, <1>5, <1>6, <1>7

\* A context that is not being filled does not become one by an insertion.
LEMMA FillElsewhere ==
  ASSUME RegistryInv, NEW c \in Contexts, NEW name \in Names, NEW entry \in EntryType,
         Inserted(c, name, entry), AfterInsert(c, name), UNCHANGED inventory,
         \A d \in Contexts \ {c} : todo'[d] = todo[d],
         NEW d \in Contexts \ {c}
  PROVE  /\ state'[d] = state[d] /\ components'[d] = components[d]
         /\ Visited(d)' = Visited(d)
  <1>1. state'[d] = state[d]
    BY DEF AfterInsert, RegistryInv, TypesInv, RegistryTypeOK
  <1> QED
    BY <1>1 DEF Inserted, Visited, Entries

LEMMA CallerInserts ==
  ASSUME RegistryInv, NEW c \in Contexts, NEW name \in Names, NEW ty \in CompTypes,
         insert_singleton(c, name, ty) \/ insert_factory(c, name, ty)
  PROVE  RegistryInv'
  <1>1. PICK kind \in Kinds :
          /\ state[c] = "owned" /\ MakeEntry(c, kind, ty, name, "caller") /\ AfterInsert(c, name)
          /\ UNCHANGED <<inventory, todo, got, created>>
    BY DEF insert_singleton, insert_factory, Kinds
  <1>2. TypesInv /\ RegistryTypeOK /\ "caller" \in Builders
    BY DEF RegistryInv, TypesInv, Builders
  <1>3. MadeGrows
    BY <1>1, <1>2, MadeEntry
  <1>4. PICK entry \in EntryType :
          /\ Inserted(c, name, entry)
          /\ entry.inst \notin DOMAIN made
          /\ entry.kind = "singleton" => /\ entry.inst \in DOMAIN made'
                                         /\ made'[entry.inst].ty = entry.ty
    BY <1>1, <1>2, MadeEntry
  <1>5. TypesInv'
    BY <1>1, <1>2, <1>3, <1>4, InsertTypes DEF TypesInv
  <1>6. EntriesInv' /\ AnswersTyped' /\ LookupInv' /\ SameInstance' /\ OwnedAlone'
    BY <1>1, <1>3, <1>4, InsertSafe
  <1>7. FillInv'
    <2> SUFFICES ASSUME NEW d \in Contexts
                 PROVE  /\ state'[d] = "absent" => DOMAIN components'[d] = {}
                        /\ state'[d] = "filling" =>
                             /\ DOMAIN components'[d] = {inventory'[i].name : i \in Visited(d)'}
                             /\ \A i \in Visited(d)' :
                                  components'[d][inventory'[i].name].kind = inventory'[i].kind
                             /\ \A i, j \in Visited(d)' :
                                  inventory'[i].name = inventory'[j].name => i = j
      BY DEF FillInv
    <2>1. CASE d = c
      <3>1. state'[c] \in {"owned", "gone"}
        BY <1>1, <1>2 DEF AfterInsert, RegistryTypeOK
      <3> QED
        BY <2>1, <3>1
    <2>2. CASE d # c
      <3>1. state'[d] = state[d] /\ components'[d] = components[d] /\ Visited(d)' = Visited(d)
        BY <2>2, <1>1, <1>4, FillElsewhere
      <3> QED
        BY <3>1, <1>1 DEF RegistryInv, FillInv
    <2> QED
      BY <2>1, <2>2
  <1> QED
    BY <1>5, <1>6, <1>7 DEF RegistryInv

\* One entry of the loop in init_components.
LEMMA InitInserts ==
  ASSUME RegistryInv, NEW c \in Contexts, InitEntry(c)
  PROVE  RegistryInv'
  <1>1. /\ state[c] = "filling" /\ "init_components" \in Builders
        /\ UNCHANGED <<inventory, got, created>>
        /\ TypesInv /\ RegistryTypeOK /\ todo[c] \subseteq Entries
    BY DEF InitEntry, Builders, RegistryInv, TypesInv, RegistryTypeOK
  <1>2. PICK i \in todo[c] :
          /\ MakeEntry(c, inventory[i].kind, inventory[i].ty, inventory[i].name, "init_components")
          /\ AfterInsert(c, inventory[i].name)
          /\ todo' = [todo EXCEPT ![c] = @ \ {i}]
    BY DEF InitEntry
  <1> DEFINE name == inventory[i].name
             kind == inventory[i].kind
  <1>3. i \in Entries /\ name \in Names /\ kind \in Kinds /\ inventory[i].ty \in CompTypes
    BY <1>1, InventoryEntries
  <1>4. MadeGrows
    BY <1>1, <1>2, <1>3, MadeEntry
  <1>5. PICK entry \in EntryType :
          /\ Inserted(c, name, entry)
          /\ entry.kind = kind
          /\ entry.inst \notin DOMAIN made
          /\ kind = "singleton" => /\ entry.inst \in DOMAIN made'
                                   /\ made'[entry.inst].ty = entry.ty
    BY <1>1, <1>2, <1>3, MadeEntry
  <1>6. /\ todo' = [d \in Contexts |-> todo'[d]]
        /\ todo'[c] = todo[c] \ {i}
        /\ \A d \in Contexts \ {c} : todo'[d] = todo[d]
    BY <1>1, <1>2 DEF TypesInv
  <1>7. \A d \in Contexts : todo'[d] \subseteq todo[d]
    BY <1>6
  <1>8. AfterInsert(c, name)
    BY <1>2
  <1> HIDE DEF name, kind
  <1>9. TypesInv'
    BY <1>1, <1>3, <1>4, <1>5, <1>6, <1>7, <1>8, InsertTypes
  <1>10. EntriesInv' /\ AnswersTyped' /\ LookupInv' /\ SameInstance' /\ OwnedAlone'
    BY <1>1, <1>3, <1>4, <1>5, <1>8, InsertSafe
  <1>11. FillInv'
    <2> SUFFICES ASSUME NEW d \in Contexts
                 PROVE  /\ state'[d] = "absent" => DOMAIN components'[d] = {}
                        /\ state'[d] = "filling" =>
                             /\ DOMAIN components'[d] = {inventory[k].name : k \in Visited(d)'}
                             /\ \A k \in Visited(d)' :
                                  components'[d][inventory[k].name].kind = inventory[k].kind
                             /\ \A k, j \in Visited(d)' :
                                  inventory[k].name = inventory[j].name => k = j
      BY <1>1 DEF FillInv
    <2>1. CASE d # c
      <3>1. state'[d] = state[d] /\ components'[d] = components[d] /\ Visited(d)' = Visited(d)
        BY <2>1, <1>1, <1>3, <1>5, <1>6, <1>8, FillElsewhere
      <3> QED
        BY <3>1, <1>1 DEF RegistryInv, FillInv
    <2>2. CASE d = c
      <3>1. state'[c] # "absent"
        BY <1>1, <1>8 DEF AfterInsert, RegistryTypeOK
      <3>2. ASSUME state'[c] = "filling"
            PROVE  /\ DOMAIN components'[c] = {inventory[k].name : k \in Visited(c)'}
                   /\ \A k \in Visited(c)' :
                        components'[c][inventory[k].name].kind = inventory[k].kind
                   /\ \A k, j \in Visited(c)' :
                        inventory[k].name = inventory[j].name => k = j
        <4>1. name \notin DOMAIN components[c]
          BY <3>2, <1>1, <1>8 DEF AfterInsert, Present, RegistryTypeOK
        <4>2. Visited(c)' = Visited(c) \cup {i} /\ i \notin Visited(c)
          BY <1>1, <1>2, <1>3, <1>6 DEF Visited, Entries
        <4>3. /\ DOMAIN components[c] = {inventory[k].name : k \in Visited(c)}
              /\ \A k \in Visited(c) : components[c][inventory[k].name].kind = inventory[k].kind
              /\ \A k, j \in Visited(c) : inventory[k].name = inventory[j].name => k = j
          BY <1>1 DEF RegistryInv, FillInv
        <4>4. \A k \in Visited(c) : inventory[k].name \in DOMAIN components[c]
                                    /\ inventory[k].name # name
          BY <4>1, <4>3
        <4>5. DOMAIN components'[c] = DOMAIN components[c] \cup {name}
              /\ components'[c][name].kind = kind
              /\ \A n \in DOMAIN components[c] \ {name} : components'[c][n] = components[c][n]
          BY <1>5 DEF Inserted
        <4>6. DOMAIN components'[c] = {inventory[k].name : k \in Visited(c)'}
          BY <4>2, <4>3, <4>5 DEF name
        <4>7. \A k \in Visited(c)' : components'[c][inventory[k].name].kind = inventory[k].kind
          <5>1. \A k \in Visited(c) : components'[c][inventory[k].name].kind = inventory[k].kind
            BY <4>3, <4>4, <4>5
          <5>2. components'[c][inventory[i].name].kind = inventory[i].kind
            BY <4>5 DEF name, kind
          <5> QED
            BY <5>1, <5>2, <4>2
        <4>8. \A k, j \in Visited(c)' : inventory[k].name = inventory[j].name => k = j
          BY <4>2, <4>3, <4>4 DEF name
        <4> QED
          BY <4>6, <4>7, <4>8
      <3> QED
        BY <2>2, <3>1, <3>2
    <2> QED
      BY <2>1, <2>2
  <1> QED
    BY <1>9, <1>10, <1>11 DEF RegistryInv

-----------------------------------------------------------------------------
(***************************************************************************)
(* The life of a context, and the lookups.                                 *)
(***************************************************************************)
LEMMA ContextMoves ==
  ASSUME RegistryInv, NEW c \in Contexts,
         new(c) \/ init_components(c) \/ InitDone(c) \/ with_context(c)
  PROVE  RegistryInv'
  <1>1. UNCHANGED <<inventory, components, made, got, created, survived>>
    BY DEF new, init_components, InitDone, with_context
  <1>2. TypesInv /\ RegistryTypeOK /\ state \in [Contexts -> States]
        /\ \A d \in Contexts : todo[d] \subseteq Entries
    BY DEF RegistryInv, TypesInv, RegistryTypeOK
  <1>3. /\ \A d \in Contexts \ {c} : state'[d] = state[d] /\ todo'[d] = todo[d]
        /\ todo' = [d \in Contexts |-> todo'[d]]
        /\ state' \in [Contexts -> States]
    BY <1>2 DEF new, init_components, InitDone, with_context, TypesInv, States
  <1>4. \/ state[c] = "absent" /\ state'[c] = "owned" /\ todo'[c] = todo[c]
        \/ state[c] = "absent" /\ state'[c] = "filling" /\ todo'[c] = Entries
        \/ state[c] = "filling" /\ state'[c] = "owned" /\ todo'[c] = todo[c]
        \/ state[c] = "owned" /\ state'[c] = "shared" /\ todo'[c] = todo[c]
    BY <1>2 DEF new, init_components, InitDone, with_context, TypesInv
  <1>5. \A d \in Contexts : todo'[d] \subseteq Entries
    BY <1>2, <1>3, <1>4
  <1>6. TypesInv'
    BY <1>1, <1>2, <1>3, <1>5 DEF TypesInv, RegistryTypeOK, Entries
  <1>7. EntriesInv' /\ AnswersTyped' /\ SameInstance' /\ OwnedAlone'
    BY <1>1 DEF RegistryInv, EntriesInv, AnswersTyped, SameInstance, OwnedAlone
  <1>8. LookupInv'
    <2>1. \A a \in got : a.ctx \in Contexts
      BY <1>2 DEF RegistryTypeOK
    <2>2. \A d \in Contexts :
            /\ state[d] \in {"owned", "shared", "gone"} => state'[d] \in {"owned", "shared", "gone"}
            /\ state'[d] # "gone" => state[d] # "gone"
      BY <1>3, <1>4
    <2> QED
      BY <1>1, <2>1, <2>2 DEF RegistryInv, LookupInv, Present
  <1>9. FillInv'
    <2> SUFFICES ASSUME NEW d \in Contexts
                 PROVE  /\ state'[d] = "absent" => DOMAIN components[d] = {}
                        /\ state'[d] = "filling" =>
                             /\ DOMAIN components[d] = {inventory[i].name : i \in Visited(d)'}
                             /\ \A i \in Visited(d)' :
                                  components[d][inventory[i].name].kind = inventory[i].kind
                             /\ \A i, j \in Visited(d)' :
                                  inventory[i].name = inventory[j].name => i = j
      BY <1>1 DEF FillInv
    <2>1. CASE d # c
      <3>1. state'[d] = state[d] /\ Visited(d)' = Visited(d)
        BY <2>1, <1>1, <1>3 DEF Visited, Entries
      <3> QED
        BY <3>1 DEF RegistryInv, FillInv
    <2>2. CASE d = c
      <3>1. CASE state'[c] = "filling"
        <4>1. Visited(c)' = {} /\ DOMAIN components[c] = {}
          BY <3>1, <1>1, <1>4 DEF RegistryInv, FillInv, Visited, Entries
        <4> QED
          BY <2>2, <3>1, <4>1
      <3>2. CASE state'[c] # "filling"
        BY <2>2, <3>2, <1>4
      <3> QED
        BY <3>1, <3>2
    <2> QED
      BY <2>1, <2>2
  <1> QED
    BY <1>6, <1>7, <1>8, <1>9 DEF RegistryInv

LEMMA LooksUp ==
  ASSUME RegistryInv, NEW c \in Contexts, NEW name \in Names, NEW ty \in CompTypes,
         get_singleton_component(c, name, ty)
  PROVE  RegistryInv'
  <1> DEFINE a == [ctx |-> c, name |-> name, ty |-> ty, inst |-> components[c][name].inst]
  <1>1. /\ state[c] \in {"owned", "shared"} /\ name \in DOMAIN components[c]
        /\ components[c][name].kind = "singleton" /\ components[c][name].ty = ty
        /\ got' = got \cup {a}
        /\ UNCHANGED <<inventory, state, components, todo, made, created, survived>>
    BY DEF get_singleton_component, Usable, Present
  <1>2. TypesInv /\ RegistryTypeOK /\ components[c][name] \in EntryType
    BY <1>1 DEF RegistryInv, TypesInv, RegistryTypeOK
  <1>3. /\ a.ctx = c /\ a.name = name /\ a.ty = ty /\ a.inst = components[c][name].inst
        /\ a.inst \in DOMAIN made /\ made[a.inst].ty = ty
    BY <1>1 DEF RegistryInv, EntriesInv
  <1>4. a \in [ctx : Contexts, name : Names, ty : CompTypes, inst : Instances]
    BY <1>1, <1>2 DEF EntryType
  <1> HIDE DEF a
  <1>5. TypesInv'
    BY <1>1, <1>2, <1>4 DEF TypesInv, RegistryTypeOK, Entries
  <1>6. EntriesInv' /\ FillInv'
    BY <1>1 DEF RegistryInv, EntriesInv, FillInv, Visited, Entries
  <1>7. AnswersTyped'
    BY <1>1, <1>3 DEF RegistryInv, AnswersTyped
  <1>8. LookupInv'
    BY <1>1, <1>3 DEF RegistryInv, LookupInv, Present
  <1>9. SameInstance'
    <2>1. ASSUME NEW b \in got, b.ctx = a.ctx, b.name = a.name,
                 [ctx |-> a.ctx, name |-> a.name] \notin survived
          PROVE  b.inst = a.inst
      BY <1>1, <1>3, <2>1 DEF RegistryInv, LookupInv
    <2> QED
      BY <1>1, <2>1 DEF RegistryInv, SameInstance
  <1>10. OwnedAlone'
    <2>1. \A b \in created : b.inst # a.inst
      BY <1>1, <1>3 DEF RegistryInv, OwnedAlone
    <2> QED
      BY <1>1, <2>1 DEF RegistryInv, OwnedAlone
  <1> QED
    BY <1>5, <1>6, <1>7, <1>8, <1>9, <1>10 DEF RegistryInv

\* A factory's product is built last; no lookup and no entry knows it.
LEMMA Creates ==
  ASSUME RegistryInv, NEW c \in Contexts, NEW name \in Names, NEW ty \in CompTypes,
         create_component(c, name, ty)
  PROVE  RegistryInv'
  <1> DEFINE a == [ctx |-> c, ty |-> ty, inst |-> Len(made) + 1]
             built == components[c][name].ty
  <1>1. /\ name \in DOMAIN components[c]
        /\ Construct(built, "factory")
        /\ created' = created \/ (created' = created \cup {a} /\ built = ty)
        /\ UNCHANGED <<inventory, state, components, todo, got, survived>>
    BY DEF create_component, Usable, Present
  <1>2. TypesInv /\ RegistryTypeOK /\ components[c][name] \in EntryType /\ "factory" \in Builders
    BY <1>1 DEF RegistryInv, TypesInv, RegistryTypeOK, Builders
  <1>3. built \in CompTypes
    BY <1>2 DEF EntryType
  <1>4. /\ MadeGrows
        /\ Len(made) + 1 \in Instances /\ Len(made) + 1 \notin DOMAIN made
        /\ Len(made) + 1 \in DOMAIN made' /\ made'[Len(made) + 1].ty = built
    BY <1>1, <1>2, <1>3, NewInstance DEF MadeGrows
  <1>5. /\ a.ty = ty /\ a.inst \in Instances /\ a.inst \notin DOMAIN made
        /\ a.inst \in DOMAIN made' /\ made'[a.inst].ty = built
        /\ a \in [ctx : Contexts, ty : CompTypes, inst : Instances]
    BY <1>4
  <1> HIDE DEF a, built
  <1>6. TypesInv'
    BY <1>1, <1>2, <1>4, <1>5 DEF TypesInv, RegistryTypeOK, Entries, MadeGrows
  <1>7. EntriesInv' /\ FillInv' /\ LookupInv' /\ SameInstance'
    BY <1>1, <1>4 DEF RegistryInv, EntriesInv, FillInv, Visited, Entries, LookupInv, Present,
                      SameInstance, MadeGrows
  <1>8. AnswersTyped'
    BY <1>1, <1>4, <1>5 DEF RegistryInv, AnswersTyped, MadeGrows
  <1>9. OwnedAlone'
    <2>1. \A b \in got \cup created : b.inst # a.inst
      BY <1>5 DEF RegistryInv, AnswersTyped
    <2>2. \A d \in Contexts : \A n \in DOMAIN components[d] : components[d][n].inst # a.inst
      <3> SUFFICES ASSUME NEW d \in Contexts, NEW n \in DOMAIN components[d]
                   PROVE  components[d][n].inst # a.inst
        OBVIOUS
      <3>1. components[d][n] \in EntryType
        BY <1>2 DEF RegistryTypeOK
      <3>2. CASE components[d][n].kind = "singleton"
        BY <3>2, <1>5 DEF RegistryInv, EntriesInv
      <3>3. CASE components[d][n].kind # "singleton"
        BY <3>1, <3>3, <1>5 DEF EntryType, None, Instances
      <3> QED
        BY <3>2, <3>3
    <2> QED
      BY <1>1, <2>1, <2>2 DEF RegistryInv, OwnedAlone
  <1> QED
    BY <1>6, <1>7, <1>8, <1>9 DEF RegistryInv

-----------------------------------------------------------------------------
(***************************************************************************)
(* The theorems.                                                           *)
(***************************************************************************)
LEMMA RegistryStart == Init => RegistryInv
  <1> SUFFICES ASSUME Init
               PROVE  RegistryInv
    OBVIOUS
  <1>1. TypesInv
    BY InstancesAssumption DEF Init, TypesInv, RegistryTypeOK, States
  <1>2. EntriesInv /\ AnswersTyped /\ LookupInv /\ SameInstance /\ OwnedAlone
    BY DEF Init, EntriesInv, AnswersTyped, LookupInv, SameInstance, OwnedAlone
  <1>3. FillInv
    BY DEF Init, FillInv
  <1> QED
    BY <1>1, <1>2, <1>3 DEF RegistryInv

LEMMA RegistryStep ==
  ASSUME RegistryInv, [Next]_vars
  PROVE  RegistryInv'
  <1>1. CASE Next
    <2>1. PICK c \in Contexts :
            \/ new(c) \/ init_components(c) \/ InitDone(c) \/ with_context(c)
            \/ InitEntry(c)
            \/ \E name \in Names, ty \in CompTypes :
                 \/ insert_singleton(c, name, ty) \/ insert_factory(c, name, ty)
                 \/ get_singleton_component(c, name, ty)
                 \/ create_component(c, name, ty)
      BY <1>1 DEF Next
    <2> QED
      BY <2>1, ContextMoves, InitInserts, CallerInserts, LooksUp, Creates
  <1>2. CASE UNCHANGED vars
    BY <1>2 DEF vars, RegistryInv, TypesInv, RegistryTypeOK, EntriesInv, AnswersTyped, LookupInv,
                SameInstance, FillInv, OwnedAlone, Visited, Entries, Present
  <1> QED
    BY <1>1, <1>2

\* The invariant holds of every context, however the inventory was linked.
THEOREM RegistryInvariant == Spec => []RegistryInv
  BY RegistryStart, RegistryStep, PTL DEF Spec

\* The variables are of their types; a factory's entry holds no instance.
THEOREM RegistryTypes == Spec => []RegistryTypeOK
  <1>1. RegistryInv => RegistryTypeOK
    BY DEF RegistryInv, TypesInv
  <1> QED
    BY <1>1, RegistryInvariant, PTL

\* Nobody gets an instance from get_singleton_component or create_component
\* as something it is not.
THEOREM AnswersAlwaysTyped == Spec => []AnswersTyped
  <1>1. RegistryInv => AnswersTyped
    BY DEF RegistryInv
  <1> QED
    BY <1>1, RegistryInvariant, PTL

\* All lookups of a singleton in one context return one instance, unless the
\* program went on after the panic of a duplicate of that very name.
THEOREM SingletonsAreSingle == Spec => []SameInstance
  <1>1. RegistryInv => SameInstance
    BY DEF RegistryInv
  <1> QED
    BY <1>1, RegistryInvariant, PTL

(***************************************************************************)
(* What init_components is about to return holds an entry of every         *)
(* submission under its own name, in whatever order they were visited.     *)
(***************************************************************************)
THEOREM InitAlwaysComplete == Spec => []InitIsComplete
  <1>1. ASSUME RegistryInv, NEW c \in Contexts, state[c] = "filling", todo[c] = {}
        PROVE  /\ Cardinality(DOMAIN components[c]) = Len(inventory)
               /\ \A i \in Entries : /\ Present(c, inventory[i].name)
                                     /\ components[c][inventory[i].name].kind = inventory[i].kind
    <2>1. Visited(c) = Entries /\ Entries = 1 .. Len(inventory) /\ Len(inventory) \in Nat
      BY <1>1, InventoryEntries DEF Visited, RegistryInv
    <2>2. /\ DOMAIN components[c] = {inventory[i].name : i \in Entries}
          /\ \A i \in Entries : components[c][inventory[i].name].kind = inventory[i].kind
          /\ \A i, j \in Entries : inventory[i].name = inventory[j].name => i = j
      BY <1>1, <2>1 DEF RegistryInv, FillInv
    <2> DEFINE nameOf == [i \in Entries |-> inventory[i].name]
    <2>3. nameOf \in Bijection(Entries, DOMAIN components[c])
      BY <2>2 DEF Bijection, Injection, Surjection, IsInjective
    <2>4. ExistsBijection(Entries, DOMAIN components[c])
      BY <2>3 DEF ExistsBijection
    <2>5. IsFiniteSet(Entries) /\ Cardinality(Entries) = Len(inventory)
      <3>1. \A n \in Nat : IsFiniteSet(1 .. n) /\ Cardinality(1 .. n) = n
        BY FS_Interval
      <3> QED
        BY <2>1, <3>1
    <2>6. Cardinality(DOMAIN components[c]) = Len(inventory)
      BY <2>4, <2>5, FS_Bijection
    <2> QED
      BY <2>2, <2>6 DEF Present
  <1>2. RegistryInv => InitIsComplete
    BY <1>1 DEF InitIsComplete
  <1> QED
    BY <1>2, RegistryInvariant, PTL

\* The registry never shares what create_component returned, which Rust gives
\* the caller alone: it keeps it in no entry and returns it to nobody later, as a
\* singleton or to a second caller.
THEOREM CreatedStaysAlone == Spec => []OwnedAlone
  <1>1. RegistryInv => OwnedAlone
    BY DEF RegistryInv
  <1> QED
    BY <1>1, RegistryInvariant, PTL

=============================================================================
