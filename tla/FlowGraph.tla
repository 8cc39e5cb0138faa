------------------------------ MODULE FlowGraph ------------------------------
(***************************************************************************)
(* Building a Flow (src/tf/flow.rs, src/tf/dependency.rs): the task vector,*)
(* the two adjacency maps and the u8 in-degree map, and the calls that a   *)
(* user makes on them between two runs.                                    *)
(*                                                                         *)
(* The user is the Rust program that owns the Flow.  The typed builder API *)
(* keeps it on the straight path; the ways around it that still compile    *)
(* are switched on one by one by the constant Misuses:                     *)
(*   "source_with_inputs"  commit_source_task is generic in the input type *)
(*   "dropped_builder"     a DependencyBuilder may be dropped unused       *)
(*   "foreign_wrapper"     an OutputWrapper does not know its Flow         *)
(*   "direct_register"     IntoDependencies::register is a public method   *)
(*   "builder_flow"        the field `flow` of a DependencyBuilder is      *)
(*                         public: it can be used before with_dependencies *)
(* The public ids need no misuse of their own: assigning the id of a       *)
(* wrapper makes a foreign one; assigning a builder's id, then calling     *)
(* with_dependencies, is dropping it, bare registrations and a foreign     *)
(* wrapper.                                                                *)
(***************************************************************************)
EXTENDS Integers, Sequences, FiniteSets, Functions

CONSTANTS
  MaxTasks,        \* bound: tasks ever committed to the flow
  MaxEdges,        \* bound: add_edges calls made through a bare register()
  MaxArity,        \* largest tuple with a FromAnyIter impl (7 in the code)
  DegMod,          \* 2^8: the in-degrees are u8
  OverflowChecks,  \* TRUE: dev profile (overflow panics), FALSE: it wraps
  Types,           \* the output types of the tasks
  Signatures,      \* what the user's tasks look like: inputs, output, sync
  Misuses          \* the ways around the typed builder API, see above

AllMisuses ==
  {"source_with_inputs", "dropped_builder", "foreign_wrapper",
   "direct_register", "builder_flow"}

Signature == [ins : Seq(Types), out : Types, sync : BOOLEAN]

ASSUME BoundsAssumption == /\ MaxTasks \in Nat \ {0}
                           /\ MaxEdges \in Nat
ASSUME ArityAssumption == /\ MaxArity \in Nat
                          /\ DegMod \in Nat
                          /\ MaxArity < DegMod
ASSUME OverflowAssumption == OverflowChecks \in BOOLEAN
ASSUME SignaturesAssumption ==
  \A s \in Signatures : /\ s \in Signature
                        /\ Len(s.ins) <= MaxArity
ASSUME MisusesAssumption == Misuses \subseteq AllMisuses

TaskId == 0 .. MaxTasks - 1

VARIABLES
  pc,         \* where the thread that owns the Flow is
  numTasks,   \* tasks.len()
  sig,        \* the signature each committed task was compiled with
  loaded,     \* ids whose slot of `tasks` is Some(_)
  edges,      \* edges[u]: the successors of u, in insertion order
  rev_edges,  \* rev_edges[v]: the dependencies of v, in insertion order
  indegrees,  \* a map: its domain is the set of keys present
  wrapped,    \* ids for which an OutputWrapper was handed out
  builder,    \* the DependencyBuilder being used: its task and the ids it
              \* has still to pass to add_edges
  lent,       \* the tasks whose DependencyBuilder lives, not yet consumed,
              \* under calls that are made on its field `flow`
  bare        \* add_edges calls that came from a bare register()

graphVars == <<numTasks, sig, loaded, edges, rev_edges, indegrees, wrapped,
               builder, lent, bare>>

NoBuilder == [id |-> 0, todo |-> <<>>]

Committed == 0 .. numTasks - 1

-----------------------------------------------------------------------------

GraphInit ==
  /\ pc = "idle"
  /\ numTasks = 0
  /\ sig = <<>>
  /\ loaded = {}
  /\ edges = [u \in TaskId |-> <<>>]
  /\ rev_edges = [v \in TaskId |-> <<>>]
  /\ indegrees = <<>>
  /\ wrapped = {}
  /\ builder = NoBuilder
  /\ lent = {}
  /\ bare = 0

(***************************************************************************)
(* What both commit functions do: push the task, enter its in-degree if it *)
(* has none yet.                                                           *)
(***************************************************************************)
\* Mutant: insert() in place of entry().or_insert(): a count is reset.
EnterDegree_Resets(id) ==
  indegrees' = [t \in DOMAIN indegrees \cup {id} |-> IF t = id THEN 0 ELSE indegrees[t]]

EnterDegree(id) ==
  indegrees' = [t \in DOMAIN indegrees \cup {id} |->
                  IF t \in DOMAIN indegrees THEN indegrees[t] ELSE 0]

PushTask(s) ==
  /\ numTasks < MaxTasks
  /\ numTasks' = numTasks + 1
  /\ sig' = [t \in 0 .. numTasks |-> IF t = numTasks THEN s ELSE sig[t]]
  /\ loaded' = loaded \cup {numTasks}
  /\ EnterDegree(numTasks)
  /\ UNCHANGED <<edges, rev_edges, lent, bare>>

commit_source_task(s) ==
  /\ pc = "idle"
  /\ s.ins = <<>> \/ "source_with_inputs" \in Misuses
  /\ PushTask(s)
  /\ wrapped' = wrapped \cup {numTasks}
  /\ UNCHANGED <<pc, builder>>

(***************************************************************************)
(* commit_task returns a builder that borrows the flow mutably: until it   *)
(* is consumed or dropped the flow can only be reached through its field.  *)
(***************************************************************************)
\* Mutant: the wrapper is handed out before the task is wired.
commit_task_EarlyWrapper(s) ==
  /\ pc = "idle"
  /\ PushTask(s)
  /\ pc' = "building"
  /\ builder' = [id |-> numTasks, todo |-> <<>>]
  /\ wrapped' = wrapped \cup {numTasks}

commit_task(s) ==
  /\ pc = "idle"
  /\ PushTask(s)
  /\ pc' = "building"
  /\ builder' = [id |-> numTasks, todo |-> <<>>]
  /\ UNCHANGED wrapped

(***************************************************************************)
(* The OutputWrappers the user can name.  A wrapper can be duplicated with *)
(* dup(), so using one does not use it up.  A wrapper of another flow has  *)
(* any id and any type.                                                    *)
(***************************************************************************)
Wrappers ==
  {[id |-> t, ty |-> sig[t].out] : t \in wrapped}
    \cup IF "foreign_wrapper" \in Misuses THEN [id : TaskId, ty : Types] ELSE {}

(***************************************************************************)
(* with_dependencies(deps): IntoDependencies<I> ties the number and the    *)
(* types of the wrappers to the input tuple of the task.                   *)
(***************************************************************************)
\* Mutant: the tuple of wrappers is registered from its last element.
IdsOf_Backwards(deps) == [i \in DOMAIN deps |-> deps[Len(deps) + 1 - i].id]

IdsOf(deps) == [i \in DOMAIN deps |-> deps[i].id]

with_dependencies ==
  /\ pc = "building"
  /\ LET ins == sig[builder.id].ins IN
     \E deps \in [DOMAIN ins -> Wrappers] :
       /\ \A i \in DOMAIN ins : deps[i].ty = ins[i]
       /\ builder' = [builder EXCEPT !.todo = IdsOf(deps)]
  /\ pc' = "wiring"
  /\ UNCHANGED <<numTasks, sig, loaded, edges, rev_edges, indegrees, wrapped, lent,
                 bare>>

DropBuilder ==
  /\ "dropped_builder" \in Misuses
  /\ pc = "building"
  /\ pc' = "idle"
  /\ builder' = NoBuilder
  /\ UNCHANGED <<numTasks, sig, loaded, edges, rev_edges, indegrees, wrapped, lent,
                 bare>>

(***************************************************************************)
(* Calls through the public field: `b.flow` is reborrowed for them, and b  *)
(* is used again when they are over.  They may be any calls, another       *)
(* commit_task and a run among them, so builders nest: the youngest of     *)
(* those that wait is the one to be used next.                             *)
(***************************************************************************)
LendFlow ==
  /\ "builder_flow" \in Misuses
  /\ pc = "building"
  /\ pc' = "idle"
  /\ lent' = lent \cup {builder.id}
  /\ builder' = NoBuilder
  /\ UNCHANGED <<numTasks, sig, loaded, edges, rev_edges, indegrees, wrapped, bare>>

TakeFlowBack ==
  /\ pc = "idle"
  /\ pc' = "building"
  /\ \E t \in lent :
       /\ \A u \in lent : u <= t
       /\ lent' = lent \ {t}
       /\ builder' = [id |-> t, todo |-> <<>>]
  /\ UNCHANGED <<numTasks, sig, loaded, edges, rev_edges, indegrees, wrapped, bare>>

(***************************************************************************)
(* `indegrees.entry(to).or_insert(InDegree(0)).0 += 1` on a u8.            *)
(***************************************************************************)
DegreeOf(t) == IF t \in DOMAIN indegrees THEN indegrees[t] ELSE 0

DegreeOverflows(to) == OverflowChecks /\ DegreeOf(to) + 1 = DegMod

\* Mutant: the count of a target without an entry is not started.
CountUp_NoEntry(to) ==
  indegrees' = [t \in DOMAIN indegrees |->
                  IF t = to THEN (indegrees[t] + 1) % DegMod ELSE indegrees[t]]

CountUp(to) ==
  indegrees' = [t \in DOMAIN indegrees \cup {to} |->
                  IF t = to /\ ~DegreeOverflows(to)
                  THEN (DegreeOf(t) + 1) % DegMod
                  ELSE DegreeOf(t)]

\* Mutant: `edges` drops duplicates, as a set would, `rev_edges` does not.
add_edges_Dedup(from, to) ==
  /\ edges' = [edges EXCEPT ![from] = IF to \in Range(@) THEN @ ELSE Append(@, to)]
  /\ rev_edges' = [rev_edges EXCEPT ![to] = Append(@, from)]
  /\ CountUp(to)

add_edges(from, to) ==
  /\ edges' = [edges EXCEPT ![from] = Append(@, to)]
  /\ rev_edges' = [rev_edges EXCEPT ![to] = Append(@, from)]
  /\ CountUp(to)

(***************************************************************************)
(* One add_edges call of the register() that with_dependencies makes.  An  *)
(* overflow panics after both adjacency lists were extended.               *)
(***************************************************************************)
WireOne ==
  /\ pc = "wiring"
  /\ builder.todo # <<>>
  /\ add_edges(Head(builder.todo), builder.id)
  /\ builder' = [builder EXCEPT !.todo = Tail(@)]
  /\ pc' = IF DegreeOverflows(builder.id) THEN "panicked" ELSE "wiring"
  /\ UNCHANGED <<numTasks, sig, loaded, wrapped, lent, bare>>

(***************************************************************************)
(* register() is done: with_dependencies returns the OutputWrapper.        *)
(***************************************************************************)
WiringDone ==
  /\ pc = "wiring"
  /\ builder.todo = <<>>
  /\ pc' = "idle"
  /\ wrapped' = wrapped \cup {builder.id}
  /\ builder' = NoBuilder
  /\ UNCHANGED <<numTasks, sig, loaded, edges, rev_edges, indegrees, lent, bare>>

(***************************************************************************)
(* w.register(&mut flow, &target), called by the user: nothing ties the    *)
(* target to the wrapper's type, or to a task of this flow.                *)
(***************************************************************************)
register(w, target) ==
  /\ "direct_register" \in Misuses
  /\ pc = "idle"
  /\ bare < MaxEdges
  /\ bare' = bare + 1
  /\ add_edges(w.id, target)
  /\ pc' = IF DegreeOverflows(target) THEN "panicked" ELSE "idle"
  /\ UNCHANGED <<numTasks, sig, loaded, wrapped, builder, lent>>

BuildNext ==
  \/ \E s \in Signatures : commit_source_task(s)
  \/ \E s \in Signatures : commit_task(s)
  \/ with_dependencies
  \/ DropBuilder
  \/ LendFlow
  \/ TakeFlowBack
  \/ WireOne
  \/ WiringDone
  \/ \E w \in Wrappers, t \in TaskId : register(w, t)

GraphSpec == GraphInit /\ [][BuildNext]_<<pc, graphVars>>

-----------------------------------------------------------------------------
(***************************************************************************)
(* The edges as a set of places: <<u, i>> is the i-th edge that leaves u.  *)
(***************************************************************************)
Places == UNION {{u} \X DOMAIN edges[u] : u \in TaskId}

InEdges(v) == {e \in Places : edges[e[1]][e[2]] = v}

Occurrences(x, seq) == {i \in DOMAIN seq : seq[i] = x}

(***************************************************************************)
(* The types of the variables.                                             *)
(***************************************************************************)
GraphTypeOK ==
  /\ numTasks \in 0 .. MaxTasks
  /\ sig \in [Committed -> Signatures]
  /\ loaded \subseteq Committed
  /\ edges \in [TaskId -> Seq(TaskId)]
  /\ rev_edges \in [TaskId -> Seq(TaskId)]
  /\ DOMAIN indegrees \subseteq TaskId
  /\ \A t \in DOMAIN indegrees : indegrees[t] \in 0 .. DegMod - 1
  /\ wrapped \subseteq Committed
  /\ builder \in [id : TaskId, todo : Seq(TaskId)]
  /\ lent \subseteq Committed
  /\ bare \in 0 .. MaxEdges

(***************************************************************************)
(* Every committed task and every target of an edge is a key of the        *)
(* in-degree map, so that `tmp_indegree.get_mut(succ).unwrap()` in         *)
(* get_topological_layers cannot panic, whatever the user registered and   *)
(* in whichever order (a target may be wired before it is committed).      *)
(***************************************************************************)
EntriesPresent ==
  /\ Committed \subseteq DOMAIN indegrees
  /\ \A u \in TaskId : \A i \in DOMAIN edges[u] : edges[u][i] \in DOMAIN indegrees

(***************************************************************************)
(* The u8 in-degree of a task is the number of edges into it, up to the    *)
(* width of the counter: committing a task after edges were registered     *)
(* into it does not reset the count, and parallel edges count each.        *)
(***************************************************************************)
DegreesExact ==
  pc # "panicked" =>
    \A v \in DOMAIN indegrees : indegrees[v] = Cardinality(InEdges(v)) % DegMod

(***************************************************************************)
(* edges, which get_topological_layers reads, and rev_edges, which execute *)
(* reads to collect the inputs, describe the same multigraph.              *)
(***************************************************************************)
Transposed ==
  \A u, v \in TaskId :
    Cardinality(Occurrences(v, edges[u])) = Cardinality(Occurrences(u, rev_edges[v]))

(***************************************************************************)
(* A reference definition: a finite graph has a cycle exactly when some    *)
(* nonempty set of tasks has, for each member, an edge from within the set.*)
(***************************************************************************)
HasEdge(u, v) == \E i \in DOMAIN edges[u] : edges[u][i] = v

Cyclic ==
  \E S \in (SUBSET TaskId) \ {{}} : \A v \in S : \E u \in S : HasEdge(u, v)

(***************************************************************************)
(* "Compile-time dependency validation": with the typed builder API, calls *)
(* through the field `flow` of a living builder included (they may commit  *)
(* and wire a later task first), every task that with_dependencies is done *)
(* with has exactly the dependencies its input tuple names, in that order  *)
(* and of those types, a task whose builder waits has none and is nobody's *)
(* dependency, and the graph has no cycle.                                 *)
(***************************************************************************)
TypedApi == Misuses \subseteq {"builder_flow"}

BeingWired(t) ==
  t \in lent \/ (pc \in {"building", "wiring", "panicked"} /\ t = builder.id)

WellWired ==
  TypedApi =>
    /\ \A t \in Committed :
         ~BeingWired(t) =>
           /\ Len(rev_edges[t]) = Len(sig[t].ins)
           /\ \A i \in DOMAIN rev_edges[t] :
                /\ rev_edges[t][i] \in wrapped
                /\ sig[rev_edges[t][i]].out = sig[t].ins[i]
    /\ \A t \in lent : edges[t] = <<>> /\ rev_edges[t] = <<>>
    /\ ~Cyclic

=============================================================================
