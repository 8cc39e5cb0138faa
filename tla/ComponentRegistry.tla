-------------------------- MODULE ComponentRegistry --------------------------
(***************************************************************************)
(* FlowContext and init_components (src/tf/component_registry.rs): the     *)
(* registry of components that a flow hands to its tasks.                  *)
(*                                                                         *)
(* A context is filled by init_components() from what the macros           *)
(* register_singleton! and register_factory! submitted to the inventory,   *)
(* or by hand; Flow::with_context then shares it behind an Arc, and tasks  *)
(* on any thread look components up.  Two threads may create contexts at   *)
(* the same time.                                                          *)
(***************************************************************************)
EXTENDS Integers, Sequences, FiniteSets, Functions

CONSTANTS
  Contexts,       \* the contexts a process may create
  Names,          \* component names
  CompTypes,      \* component types
  Inventories,    \* what may be linked in: sequences of submitted entries
  MaxInstances    \* bound: instances constructed

Kinds == {"singleton", "factory"}

ASSUME InventoryAssumption ==
  Inventories \subseteq Seq([name : Names, kind : Kinds, ty : CompTypes])
ASSUME InstancesAssumption == MaxInstances \in Nat

VARIABLES
  inventory,    \* the submitted entries: name, kind, type the creator returns
  state,        \* where each context is in its life
  components,   \* components[c]: a map from the names present to entries
  todo,         \* the inventory entries init_components has yet to visit
  made,         \* what each instance is and who built it: ids are 1, 2, ...
  got,          \* who got what from get_singleton_component
  created,      \* what create_component returned
  survived      \* the insertions whose panic the caller caught

vars == <<inventory, state, components, todo, made, got, created, survived>>

Entries == DOMAIN inventory

\* No instance: what a factory entry holds.
None == 0

Instances == 1 .. MaxInstances

Init ==
  /\ inventory \in Inventories
  /\ state = [c \in Contexts |-> "absent"]
  /\ components = [c \in Contexts |-> <<>>]
  /\ todo = [c \in Contexts |-> {}]
  /\ made = <<>>
  /\ got = {}
  /\ created = {}
  /\ survived = {}

-----------------------------------------------------------------------------

\* FlowContext::new().
new(c) ==
  /\ state[c] = "absent"
  /\ state' = [state EXCEPT ![c] = "owned"]
  /\ UNCHANGED <<inventory, components, todo, made, got, created, survived>>

\* The call of init_components(), by Flow::new() or by the user.
init_components(c) ==
  /\ state[c] = "absent"
  /\ state' = [state EXCEPT ![c] = "filling"]
  /\ todo' = [todo EXCEPT ![c] = Entries]
  /\ UNCHANGED <<inventory, components, made, got, created, survived>>

Construct(ty, by) ==
  /\ Len(made) < MaxInstances
  /\ made' = Append(made, [ty |-> ty, by |-> by])

(***************************************************************************)
(* HashMap::insert: the entry replaces an older one, and what was there    *)
(* before decides whether the caller panics.                               *)
(***************************************************************************)
Insert(c, name, entry) ==
  components' = [components EXCEPT
                   ![c] = [n \in DOMAIN components[c] \cup {name} |->
                             IF n = name THEN entry ELSE components[c][n]]]

Present(c, name) == name \in DOMAIN components[c]

\* Mutant: a factory runs when it is registered and its product is kept.
MakeEntry_Eager(c, kind, ty, name, by) ==
  /\ Construct(ty, by)
  /\ Insert(c, name, [kind |-> kind, ty |-> ty, inst |-> Len(made) + 1])

(***************************************************************************)
(* The value given to insert, built first: a singleton's instance exists   *)
(* before a duplicate can be noticed; a factory is stored and not run.     *)
(***************************************************************************)
MakeEntry(c, kind, ty, name, by) ==
  \/ /\ kind = "singleton"
     /\ Construct(ty, by)
     /\ Insert(c, name, [kind |-> kind, ty |-> ty, inst |-> Len(made) + 1])
  \/ /\ kind = "factory"
     /\ Insert(c, name, [kind |-> kind, ty |-> ty, inst |-> None])
     /\ UNCHANGED made

\* Mutant: a duplicate is not noticed.
AfterInsert_Silent(c, name) ==
  UNCHANGED <<state, survived>>

(***************************************************************************)
(* The panic of a duplicate comes after the insertion.  It drops the       *)
(* context, which is a local of init_components; a caller of insert_* may  *)
(* catch it and go on with its context as it is.                           *)
(***************************************************************************)
AfterInsert(c, name) ==
  \/ /\ ~Present(c, name)
     /\ UNCHANGED <<state, survived>>
  \/ /\ Present(c, name)
     /\ state' = [state EXCEPT ![c] = "gone"]
     /\ UNCHANGED survived
  \/ /\ Present(c, name)
     /\ state[c] = "owned"
     /\ survived' = survived \cup {[ctx |-> c, name |-> name]}
     /\ UNCHANGED state

\* Mutant: the iterator stops at the first insertion that returns None.
InitEntry_ShortCircuit(c) ==
  /\ state[c] = "filling"
  /\ \E i \in todo[c] :
       LET f == inventory[i] IN
       /\ MakeEntry(c, f.kind, f.ty, f.name, "init_components")
       /\ AfterInsert(c, f.name)
       /\ todo' = [todo EXCEPT ![c] = {}]
  /\ UNCHANGED <<inventory, got, created>>

(***************************************************************************)
(* One entry of the loop in init_components; the order of the inventory is *)
(* up to the linker.                                                       *)
(***************************************************************************)
InitEntry(c) ==
  /\ state[c] = "filling"
  /\ \E i \in todo[c] :
       LET f == inventory[i] IN
       /\ MakeEntry(c, f.kind, f.ty, f.name, "init_components")
       /\ AfterInsert(c, f.name)
       /\ todo' = [todo EXCEPT ![c] = @ \ {i}]
  /\ UNCHANGED <<inventory, got, created>>

InitDone(c) ==
  /\ state[c] = "filling"
  /\ todo[c] = {}
  /\ state' = [state EXCEPT ![c] = "owned"]
  /\ UNCHANGED <<inventory, components, todo, made, got, created, survived>>

(***************************************************************************)
(* insert_singleton and insert_factory need the context exclusively.       *)
(***************************************************************************)
insert_singleton(c, name, ty) ==
  /\ state[c] = "owned"
  /\ MakeEntry(c, "singleton", ty, name, "caller")
  /\ AfterInsert(c, name)
  /\ UNCHANGED <<inventory, todo, got, created>>

insert_factory(c, name, ty) ==
  /\ state[c] = "owned"
  /\ MakeEntry(c, "factory", ty, name, "caller")
  /\ AfterInsert(c, name)
  /\ UNCHANGED <<inventory, todo, got, created>>

\* Flow::with_context(Arc::new(ctx)), also at the end of Flow::new().
with_context(c) ==
  /\ state[c] = "owned"
  /\ state' = [state EXCEPT ![c] = "shared"]
  /\ UNCHANGED <<inventory, components, todo, made, got, created, survived>>

Usable(c) == state[c] \in {"owned", "shared"}

\* Mutant: the stored type is not compared with the one asked for.
get_singleton_component_Untyped(c, name, ty) ==
  /\ Usable(c) /\ Present(c, name)
  /\ components[c][name].kind = "singleton"
  /\ got' = got \cup {[ctx |-> c, name |-> name, ty |-> ty,
                       inst |-> components[c][name].inst]}
  /\ UNCHANGED <<inventory, state, components, todo, made, created, survived>>

(***************************************************************************)
(* The calls that return Some(_); None changes nothing, except that a      *)
(* factory has already run when its type turns out wrong.                  *)
(***************************************************************************)
get_singleton_component(c, name, ty) ==
  /\ Usable(c) /\ Present(c, name)
  /\ components[c][name].kind = "singleton"
  /\ components[c][name].ty = ty
  /\ got' = got \cup {[ctx |-> c, name |-> name, ty |-> ty,
                       inst |-> components[c][name].inst]}
  /\ UNCHANGED <<inventory, state, components, todo, made, created, survived>>

\* A factory returns its product by value and the caller gets it in a Box: what
\* it holds is the instance just constructed.
create_component(c, name, ty) ==
  /\ Usable(c) /\ Present(c, name)
  /\ components[c][name].kind = "factory"
  /\ Construct(components[c][name].ty, "factory")
  /\ created' = IF components[c][name].ty = ty
                THEN created \cup {[ctx |-> c, ty |-> ty, inst |-> Len(made) + 1]}
                ELSE created
  /\ UNCHANGED <<inventory, state, components, todo, got, survived>>

Next ==
  \E c \in Contexts :
    \/ new(c)
    \/ init_components(c)
    \/ InitEntry(c)
    \/ InitDone(c)
    \/ with_context(c)
    \/ \E name \in Names, ty \in CompTypes :
         \/ insert_singleton(c, name, ty)
         \/ insert_factory(c, name, ty)
         \/ get_singleton_component(c, name, ty)
         \/ create_component(c, name, ty)

Spec == Init /\ [][Next]_vars

-----------------------------------------------------------------------------
States == {"absent", "filling", "owned", "shared", "gone"}

Builders == {"init_components", "caller", "factory"}

EntryType == [kind : {"singleton"}, ty : CompTypes, inst : Instances]
             \cup [kind : {"factory"}, ty : CompTypes, inst : {None}]

(***************************************************************************)
(* The types of the variables; a factory's entry holds no instance.        *)
(***************************************************************************)
RegistryTypeOK ==
  /\ inventory \in Inventories
  /\ state \in [Contexts -> States]
  /\ \A c \in Contexts : /\ DOMAIN components[c] \subseteq Names
                         /\ \A n \in DOMAIN components[c] : components[c][n] \in EntryType
                         /\ todo[c] \subseteq Entries
  /\ made \in Seq([ty : CompTypes, by : Builders]) /\ Len(made) <= MaxInstances
  /\ got \subseteq [ctx : Contexts, name : Names, ty : CompTypes, inst : Instances]
  /\ created \subseteq [ctx : Contexts, ty : CompTypes, inst : Instances]
  /\ survived \subseteq [ctx : Contexts, name : Names]

(***************************************************************************)
(* A downcast that succeeds is right: nobody holds an instance as          *)
(* something it is not, whatever was inserted under the name meanwhile.    *)
(***************************************************************************)
AnswersTyped ==
  \A a \in got \cup created : a.inst \in DOMAIN made /\ made[a.inst].ty = a.ty

(***************************************************************************)
(* All lookups of a singleton in one context return the same instance,     *)
(* unless the program survived the panic of a duplicate of that very name. *)
(***************************************************************************)
SameInstance ==
  \A a, b \in got :
    /\ a.ctx = b.ctx /\ a.name = b.name
    /\ [ctx |-> a.ctx, name |-> a.name] \notin survived
    => a.inst = b.inst

(***************************************************************************)
(* "Duplicates cause init_components to panic", whatever the order of the  *)
(* inventory: a context that init_components returned holds an entry of    *)
(* each submission, and no two submissions had the same name.              *)
(***************************************************************************)
InitIsComplete ==
  \A c \in Contexts :
    state[c] = "filling" /\ todo[c] = {} =>
      /\ Cardinality(DOMAIN components[c]) = Len(inventory)
      /\ \A i \in Entries : /\ Present(c, inventory[i].name)
                            /\ components[c][inventory[i].name].kind = inventory[i].kind

(***************************************************************************)
(* src/tf/component_registry.rs:13-14: register_singleton! gives "one      *)
(* instance per process"; what a program inserts by hand is not meant.     *)
(***************************************************************************)
OneInstancePerProcess ==
  \A a, b \in got :
    /\ a.name = b.name
    /\ made[a.inst].by = "init_components"
    /\ made[b.inst].by = "init_components"
    => a.inst = b.inst

=============================================================================
