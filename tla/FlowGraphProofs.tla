--------------------------- MODULE FlowGraphProofs ---------------------------
(***************************************************************************)
(* What holds of FlowGraph for every value of its constants: the types of  *)
(* the variables, the agreement of the two adjacency maps and the in-degree *)
(* map, and the promise of the typed builder API.  The lemmas about        *)
(* numbers and sequences come first: the proofs of the layering and of the *)
(* generator rest on them too.                                             *)
(***************************************************************************)
EXTENDS FlowGraph, FiniteSetTheorems, SequenceTheorems, WellFoundedInduction, TLAPS

\* A nonempty set of natural numbers has a least element.
LEMMA LeastNatural ==
  ASSUME NEW K \in SUBSET Nat, K # {}
  PROVE  \E k \in K : \A j \in K : k <= j
  <1>1. PICK k \in K : \A j \in K : <<j, k>> \notin OpToRel(<, Nat)
    BY WFMin, NatLessThanWellFounded, Zenon
  <1>2. ASSUME NEW j \in K
        PROVE  k <= j
    <2>1. j \in Nat /\ k \in Nat
      OBVIOUS
    <2>2. <<j, k>> \in Nat \X Nat => ~(j < k)
      BY <1>1 DEF OpToRel
    <2> QED
      BY <2>1, <2>2
  <1> QED
    BY <1>2

\* Appending adds one element to the range.
LEMMA AppendRange ==
  ASSUME NEW S, NEW seq \in Seq(S), NEW x \in S
  PROVE  Range(Append(seq, x)) = Range(seq) \cup {x}
  <1>1. DOMAIN Append(seq, x) = DOMAIN seq \cup {Len(seq) + 1}
    OBVIOUS
  <1>2. \A i \in DOMAIN seq : Append(seq, x)[i] = seq[i]
    OBVIOUS
  <1>3. Append(seq, x)[Len(seq) + 1] = x
    OBVIOUS
  <1> QED
    BY <1>1, <1>2, <1>3 DEF Range

\* The elements of a sequence are its head and the elements of its tail.
LEMMA HeadTailRange ==
  ASSUME NEW S, NEW seq \in Seq(S), seq # <<>>
  PROVE  /\ Head(seq) \in S
         /\ Tail(seq) \in Seq(S)
         /\ Range(seq) = {Head(seq)} \cup Range(Tail(seq))
  <1>1. /\ Head(seq) \in S /\ Tail(seq) \in Seq(S)
        /\ Head(seq) = seq[1]
        /\ Len(seq) \in Nat /\ Len(seq) # 0
        /\ Len(Tail(seq)) = Len(seq) - 1
        /\ \A i \in 1 .. Len(Tail(seq)) : Tail(seq)[i] = seq[i + 1]
    BY HeadTailProperties
  <1>2. DOMAIN seq = 1 .. Len(seq) /\ DOMAIN Tail(seq) = 1 .. Len(seq) - 1
    BY <1>1
  <1>3. ASSUME NEW i \in 1 .. Len(seq)
        PROVE  seq[i] \in {Head(seq)} \cup Range(Tail(seq))
    <2>1. CASE i # 1
      <3>1. i - 1 \in 1 .. Len(seq) - 1 /\ (i - 1) + 1 = i
        BY <2>1, <1>1
      <3>2. Tail(seq)[i - 1] = seq[i]
        BY <3>1, <1>1
      <3> QED
        BY <3>1, <3>2, <1>2 DEF Range
    <2> QED
      BY <2>1, <1>1
  <1>4. {Head(seq)} \cup Range(Tail(seq)) \subseteq Range(seq)
    <2>1. 1 \in 1 .. Len(seq)
      BY <1>1
    <2>2. \A j \in 1 .. Len(seq) - 1 : j + 1 \in 1 .. Len(seq) /\ Tail(seq)[j] = seq[j + 1]
      BY <1>1
    <2> QED
      BY <2>1, <2>2, <1>1, <1>2 DEF Range
  <1> QED
    BY <1>1, <1>2, <1>3, <1>4 DEF Range

-----------------------------------------------------------------------------
\* The variables of GraphSpec.
gvars == <<pc, graphVars>>

(***************************************************************************)
(* GraphTypeOK is not inductive: with_dependencies reads sig[builder.id],  *)
(* which is typed only because the builder belongs to a committed task.    *)
(***************************************************************************)
GraphPcs == {"idle", "building", "wiring", "panicked"}

BuilderCommitted == pc \in {"building", "wiring"} => builder.id \in Committed

TypeInv == GraphTypeOK /\ pc \in GraphPcs /\ BuilderCommitted

(***************************************************************************)
(* Facts about the constants and the helpers.                              *)
(***************************************************************************)

\* The ids of committed tasks are task ids.
LEMMA CommittedIds ==
  ASSUME numTasks \in 0 .. MaxTasks
  PROVE  /\ Committed \subseteq TaskId
         /\ numTasks < MaxTasks => numTasks \in TaskId
  BY BoundsAssumption DEF Committed, TaskId

\* The steps of a builder that touch neither the tasks nor the maps.
Bookkeeping ==
  with_dependencies \/ DropBuilder \/ LendFlow \/ TakeFlowBack \/ WiringDone

LEMMA BookkeepingFrame ==
  Bookkeeping => /\ UNCHANGED <<numTasks, sig, loaded, edges, rev_edges, indegrees, bare>>
                 /\ pc # "panicked"
  BY DEF Bookkeeping, with_dependencies, DropBuilder, LendFlow, TakeFlowBack, WiringDone

\* Whatever wrapper the user can name has the id of a task.
LEMMA WrapperIds ==
  ASSUME GraphTypeOK, NEW w \in Wrappers
  PROVE  w.id \in TaskId
  BY CommittedIds DEF GraphTypeOK, Wrappers

\* The in-degree of a task is a u8, also when there is no entry for it.
LEMMA DegreeType ==
  ASSUME GraphTypeOK, NEW t
  PROVE  DegreeOf(t) \in 0 .. DegMod - 1
  BY ArityAssumption DEF GraphTypeOK, DegreeOf

\* PushTask keeps the types of what it changes.
LEMMA PushTaskTypes ==
  ASSUME GraphTypeOK, NEW s \in Signatures, PushTask(s)
  PROVE  /\ numTasks' \in 0 .. MaxTasks
         /\ sig' \in [Committed' -> Signatures]
         /\ loaded' \subseteq Committed'
         /\ edges' \in [TaskId -> Seq(TaskId)]
         /\ rev_edges' \in [TaskId -> Seq(TaskId)]
         /\ DOMAIN indegrees' \subseteq TaskId
         /\ \A t \in DOMAIN indegrees' : indegrees'[t] \in 0 .. DegMod - 1
         /\ lent' \subseteq Committed'
         /\ bare' \in 0 .. MaxEdges
         /\ numTasks \in TaskId
         /\ numTasks \in Committed'
         /\ Committed \subseteq Committed'
  <1>1. numTasks' \in 0 .. MaxTasks /\ numTasks \in TaskId
    BY BoundsAssumption DEF GraphTypeOK, PushTask, EnterDegree, TaskId
  <1>2. Committed' = 0 .. numTasks /\ Committed \subseteq Committed'
    BY DEF GraphTypeOK, PushTask, EnterDegree, Committed
  <1>3. sig' \in [Committed' -> Signatures]
    BY <1>2 DEF GraphTypeOK, PushTask, EnterDegree, Committed
  <1>4. loaded' \subseteq Committed' /\ numTasks \in Committed'
    BY <1>2 DEF GraphTypeOK, PushTask, EnterDegree, Committed
  <1>5. /\ DOMAIN indegrees' \subseteq TaskId
        /\ \A t \in DOMAIN indegrees' : indegrees'[t] \in 0 .. DegMod - 1
    BY <1>1, ArityAssumption DEF GraphTypeOK, PushTask, EnterDegree
  <1> QED
    BY <1>1, <1>2, <1>3, <1>4, <1>5 DEF GraphTypeOK, PushTask, EnterDegree

\* add_edges keeps the types of what it changes, wrapping or not.
LEMMA AddEdgesTypes ==
  ASSUME GraphTypeOK, NEW from \in TaskId, NEW to \in TaskId, add_edges(from, to)
  PROVE  /\ edges' \in [TaskId -> Seq(TaskId)]
         /\ rev_edges' \in [TaskId -> Seq(TaskId)]
         /\ DOMAIN indegrees' \subseteq TaskId
         /\ \A t \in DOMAIN indegrees' : indegrees'[t] \in 0 .. DegMod - 1
  <1>1. edges' \in [TaskId -> Seq(TaskId)] /\ rev_edges' \in [TaskId -> Seq(TaskId)]
    BY DEF GraphTypeOK, add_edges, CountUp
  <1>2. DOMAIN indegrees' \subseteq TaskId
    BY DEF GraphTypeOK, add_edges, CountUp
  <1>3. ASSUME NEW t \in DOMAIN indegrees'
        PROVE  indegrees'[t] \in 0 .. DegMod - 1
    <2>1. DegreeOf(t) \in 0 .. DegMod - 1
      BY DegreeType
    <2>2. (DegreeOf(t) + 1) % DegMod \in 0 .. DegMod - 1
      BY <2>1, ArityAssumption
    <2> QED
      BY <2>1, <2>2 DEF add_edges, CountUp
  <1> QED
    BY <1>1, <1>2, <1>3

-----------------------------------------------------------------------------
(***************************************************************************)
(* The variables of FlowGraph keep their types through every call of the   *)
(* builder API, proper or not.                                             *)
(***************************************************************************)
LEMMA TypeInit == GraphInit => TypeInv
  BY BoundsAssumption
  DEF GraphInit, TypeInv, GraphTypeOK, GraphPcs, BuilderCommitted, NoBuilder,
      Committed, TaskId

LEMMA TypeStep ==
  ASSUME TypeInv, [BuildNext]_gvars
  PROVE  TypeInv'
  <1> USE DEF TypeInv, GraphPcs, BuilderCommitted
  <1>1. ASSUME NEW s \in Signatures, commit_source_task(s)
        PROVE  TypeInv'
    <2>1. PushTask(s) BY <1>1 DEF commit_source_task
    <2> QED
      BY <1>1, <2>1, PushTaskTypes DEF commit_source_task, GraphTypeOK
  <1>2. ASSUME NEW s \in Signatures, commit_task(s)
        PROVE  TypeInv'
    <2>1. PushTask(s) BY <1>2 DEF commit_task
    <2>2. builder' \in [id : TaskId, todo : Seq(TaskId)] /\ builder'.id = numTasks
      BY <1>2, <2>1, PushTaskTypes DEF commit_task
    <2> QED
      BY <1>2, <2>1, <2>2, PushTaskTypes DEF commit_task, GraphTypeOK
  <1>3. CASE with_dependencies
    <2>1. sig[builder.id] \in Signatures
      BY <1>3 DEF with_dependencies, GraphTypeOK
    <2>2. sig[builder.id].ins \in Seq(Types)
      BY <2>1, SignaturesAssumption DEF Signature
    <2>3. PICK deps \in [DOMAIN sig[builder.id].ins -> Wrappers] :
            builder' = [builder EXCEPT !.todo = IdsOf(deps)]
      BY <1>3 DEF with_dependencies
    <2>4. builder' \in [id : TaskId, todo : Seq(TaskId)] /\ builder'.id = builder.id
      <3>1. \A i \in DOMAIN sig[builder.id].ins : deps[i].id \in TaskId
        BY WrapperIds
      <3>2. IdsOf(deps) = [i \in DOMAIN sig[builder.id].ins |-> deps[i].id]
        BY DEF IdsOf
      <3>3. IdsOf(deps) \in Seq(TaskId)
        BY <3>1, <3>2, <2>2
      <3> QED
        BY <2>3, <3>3 DEF GraphTypeOK
    <2> QED
      BY <1>3, <2>4 DEF with_dependencies, GraphTypeOK, Committed
  <1>4. CASE DropBuilder
    BY <1>4, BoundsAssumption
    DEF DropBuilder, NoBuilder, TaskId, GraphTypeOK, Committed
  <1>5. CASE WireOne
    <2>1. Head(builder.todo) \in TaskId /\ Tail(builder.todo) \in Seq(TaskId)
      BY <1>5 DEF WireOne, GraphTypeOK
    <2>2. builder' \in [id : TaskId, todo : Seq(TaskId)] /\ builder'.id = builder.id
      BY <1>5, <2>1 DEF WireOne, GraphTypeOK
    <2>3. add_edges(Head(builder.todo), builder.id) /\ builder.id \in TaskId
      BY <1>5 DEF WireOne, GraphTypeOK
    <2> QED
      BY <1>5, <2>1, <2>2, <2>3, AddEdgesTypes DEF WireOne, GraphTypeOK, Committed
  <1>6. CASE WiringDone
    <2>1. builder' \in [id : TaskId, todo : Seq(TaskId)]
      BY <1>6, BoundsAssumption DEF WiringDone, NoBuilder, TaskId
    <2>2. wrapped' \subseteq Committed' /\ Committed' = Committed
      BY <1>6 DEF WiringDone, GraphTypeOK, Committed
    <2> QED
      BY <1>6, <2>1, <2>2 DEF WiringDone, GraphTypeOK
  <1>7. ASSUME NEW w \in Wrappers, NEW t \in TaskId, register(w, t)
        PROVE  TypeInv'
    <2>1. add_edges(w.id, t) /\ w.id \in TaskId
      BY <1>7, WrapperIds DEF register
    <2>2. bare' \in 0 .. MaxEdges
      BY <1>7, BoundsAssumption DEF register, GraphTypeOK
    <2> QED
      BY <1>7, <2>1, <2>2, AddEdgesTypes DEF register, GraphTypeOK, Committed
  <1>8. CASE UNCHANGED gvars
    BY <1>8 DEF gvars, graphVars, GraphTypeOK, Committed
  <1>9. CASE LendFlow
    <2>1. builder' \in [id : TaskId, todo : Seq(TaskId)]
      BY <1>9, BoundsAssumption DEF LendFlow, NoBuilder, TaskId
    <2>2. lent' \subseteq Committed' /\ Committed' = Committed
      BY <1>9 DEF LendFlow, GraphTypeOK, Committed
    <2> QED
      BY <1>9, <2>1, <2>2 DEF LendFlow, GraphTypeOK
  <1>10. CASE TakeFlowBack
    <2>1. PICK t \in lent : lent' = lent \ {t} /\ builder' = [id |-> t, todo |-> <<>>]
      BY <1>10 DEF TakeFlowBack
    <2>2. t \in Committed /\ t \in TaskId /\ Committed' = Committed
      BY <1>10, CommittedIds DEF TakeFlowBack, GraphTypeOK, Committed
    <2>3. builder' \in [id : TaskId, todo : Seq(TaskId)] /\ builder'.id = t
      BY <2>1, <2>2
    <2> QED
      BY <1>10, <2>1, <2>2, <2>3 DEF TakeFlowBack, GraphTypeOK
  <1> QED
    BY <1>1, <1>2, <1>3, <1>4, <1>5, <1>6, <1>7, <1>8, <1>9, <1>10 DEF BuildNext

THEOREM TypeInvariant == GraphSpec => []TypeInv
  <1>1. TypeInv /\ [BuildNext]_gvars => TypeInv'
    BY TypeStep
  <1> QED
    BY <1>1, TypeInit, PTL DEF GraphSpec, gvars

THEOREM GraphTypeCorrect == GraphSpec => []GraphTypeOK
  BY TypeInvariant, PTL DEF TypeInv

-----------------------------------------------------------------------------
(***************************************************************************)
(* Every committed task and every target of an edge has an in-degree,      *)
(* whatever the user registered: get_topological_layers never unwraps a    *)
(* missing entry.                                                          *)
(***************************************************************************)
LEMMA EntriesStep ==
  ASSUME TypeInv, EntriesPresent, [BuildNext]_gvars
  PROVE  EntriesPresent'
  <1> USE DEF TypeInv, BuilderCommitted
  <1>1. ASSUME NEW s \in Signatures, PushTask(s)
        PROVE  EntriesPresent'
    BY <1>1 DEF PushTask, EnterDegree, EntriesPresent, Committed, GraphTypeOK
  <1>2. ASSUME NEW from \in TaskId, NEW to \in TaskId, add_edges(from, to),
               numTasks' = numTasks
        PROVE  EntriesPresent'
    <2>1. Committed' \subseteq DOMAIN indegrees'
      BY <1>2 DEF add_edges, CountUp, EntriesPresent, Committed
    <2>2. ASSUME NEW u \in TaskId, NEW i \in DOMAIN edges'[u]
          PROVE  edges'[u][i] \in DOMAIN indegrees'
      <3>1. CASE u = from
        <4>1. edges'[u] = Append(edges[u], to) /\ edges[u] \in Seq(TaskId)
          BY <1>2, <3>1 DEF add_edges, CountUp, GraphTypeOK
        <4>2. edges'[u][i] = to \/ (i \in DOMAIN edges[u] /\ edges'[u][i] = edges[u][i])
          BY <4>1
        <4> QED
          BY <1>2, <4>2 DEF add_edges, CountUp, EntriesPresent
      <3>2. CASE u # from
        <4>1. edges'[u] = edges[u]
          BY <1>2, <3>2 DEF add_edges, CountUp, GraphTypeOK
        <4> QED
          BY <1>2, <4>1 DEF add_edges, CountUp, EntriesPresent
      <3> QED
        BY <3>1, <3>2
    <2> QED
      BY <2>1, <2>2 DEF EntriesPresent
  <1>3. ASSUME UNCHANGED <<numTasks, edges, indegrees>>
        PROVE  EntriesPresent'
    BY <1>3 DEF EntriesPresent, Committed
  <1>4. CASE WireOne
    <2>1. Head(builder.todo) \in TaskId /\ builder.id \in TaskId
      BY <1>4 DEF WireOne, GraphTypeOK
    <2> QED
      BY <1>4, <2>1, <1>2 DEF WireOne
  <1>5. ASSUME NEW w \in Wrappers, NEW t \in TaskId, register(w, t)
        PROVE  EntriesPresent'
    BY <1>5, <1>2, WrapperIds DEF register
  <1>6. CASE Bookkeeping \/ UNCHANGED gvars
    BY <1>6, <1>3, BookkeepingFrame DEF gvars, graphVars
  <1> QED
    BY <1>1, <1>4, <1>5, <1>6 DEF BuildNext, Bookkeeping, commit_source_task, commit_task

THEOREM EntriesAlwaysPresent == GraphSpec => []EntriesPresent
  <1>1. GraphInit => EntriesPresent
    BY BoundsAssumption DEF GraphInit, EntriesPresent, Committed
  <1>2. TypeInv /\ EntriesPresent /\ [BuildNext]_gvars => EntriesPresent'
    BY EntriesStep
  <1> QED
    BY <1>1, <1>2, TypeInvariant, PTL DEF GraphSpec, gvars

-----------------------------------------------------------------------------
(***************************************************************************)
(* Counting modulo the width of the counter.                               *)
(***************************************************************************)

\* A remainder is determined by the number it remains from.
LEMMA ModUnique ==
  ASSUME NEW m \in Nat \ {0}, NEW q \in Nat, NEW r \in 0 .. m - 1
  PROVE  (m * q + r) % m = r
  OBVIOUS

\* Division with remainder.
LEMMA DivMod ==
  ASSUME NEW m \in Nat \ {0}, NEW a \in Nat
  PROVE  /\ a = (m * (a \div m)) + (a % m)
         /\ a % m \in 0 .. m - 1
         /\ a \div m \in Nat
  OBVIOUS

\* Incrementing a counter that wraps counts modulo its width.
LEMMA ModSucc ==
  ASSUME NEW m \in Nat \ {0}, NEW a \in Nat
  PROVE  ((a % m) + 1) % m = (a + 1) % m
  <1> DEFINE q == a \div m
             r == a % m
  <1>1. a = m * q + r /\ r \in 0 .. m - 1 /\ q \in Nat
    BY DivMod
  <1> HIDE DEF q, r
  <1>2. CASE r + 1 < m
    <2>1. a + 1 = m * q + (r + 1)
      BY <1>1
    <2>2. (a + 1) % m = r + 1
      BY <2>1, <1>1, <1>2, ModUnique
    <2>3. (m * 0 + (r + 1)) % m = r + 1
      BY <1>1, <1>2, ModUnique
    <2>4. m * 0 + (r + 1) = r + 1
      BY <1>1
    <2> QED
      BY <2>2, <2>3, <2>4 DEF r
  <1>3. CASE r + 1 = m
    <2>1. m * (q + 1) = m * q + m
      BY <1>1
    <2>2. a + 1 = m * (q + 1) + 0
      BY <1>1, <1>3, <2>1
    <2>3. (a + 1) % m = 0
      BY <2>2, <1>1, ModUnique
    <2>4. m * 1 + 0 = r + 1
      BY <1>3
    <2>5. (m * 1 + 0) % m = 0
      BY ModUnique
    <2> QED
      BY <2>3, <2>4, <2>5 DEF r
  <1> QED
    BY <1>1, <1>2, <1>3

(***************************************************************************)
(* A new edge is one new place, which leads into its target.               *)
(***************************************************************************)
LEMMA NewPlace ==
  ASSUME GraphTypeOK, NEW from \in TaskId, NEW to \in TaskId, add_edges(from, to),
         NEW v \in TaskId, IsFiniteSet(InEdges(v))
  PROVE  /\ IsFiniteSet(InEdges(v)')
         /\ Cardinality(InEdges(v)') =
              IF v = to THEN Cardinality(InEdges(v)) + 1 ELSE Cardinality(InEdges(v))
  <1> DEFINE new == <<from, Len(edges[from]) + 1>>
  <1>1. /\ edges \in [TaskId -> Seq(TaskId)]
        /\ edges' = [edges EXCEPT ![from] = Append(@, to)]
    BY DEF GraphTypeOK, add_edges, CountUp
  <1>2. \A u \in TaskId : u # from => edges'[u] = edges[u]
    BY <1>1
  <1>3. /\ DOMAIN edges'[from] = DOMAIN edges[from] \cup {Len(edges[from]) + 1}
        /\ Len(edges[from]) + 1 \notin DOMAIN edges[from]
        /\ edges'[from][Len(edges[from]) + 1] = to
        /\ \A i \in DOMAIN edges[from] : edges'[from][i] = edges[from][i]
    BY <1>1
  <1>4. \A e : e \in InEdges(v) <=>
                \E u \in TaskId : \E i \in DOMAIN edges[u] :
                  e = <<u, i>> /\ edges[u][i] = v
    BY DEF InEdges, Places
  <1>5. \A e : e \in InEdges(v)' <=>
                \E u \in TaskId : \E i \in DOMAIN edges'[u] :
                  e = <<u, i>> /\ edges'[u][i] = v
    BY DEF InEdges, Places
  <1>6. new \notin InEdges(v)
    BY <1>3, <1>4
  <1>7. CASE v = to
    <2>1. ASSUME NEW e
          PROVE  e \in InEdges(v)' <=> e \in InEdges(v) \cup {new}
      <3>1. ASSUME e \in InEdges(v)'
            PROVE  e \in InEdges(v) \cup {new}
        <4>0. PICK u \in TaskId :
                \E i \in DOMAIN edges'[u] : e = <<u, i>> /\ edges'[u][i] = v
          BY <3>1, <1>5
        <4>1. PICK i \in DOMAIN edges'[u] : e = <<u, i>> /\ edges'[u][i] = v
          BY <4>0
        <4>2. CASE u = from
          BY <4>1, <4>2, <1>3, <1>4
        <4>3. CASE u # from
          BY <4>1, <4>3, <1>2, <1>4
        <4> QED
          BY <4>2, <4>3
      <3>2. ASSUME e \in InEdges(v)
            PROVE  e \in InEdges(v)'
        <4>0. PICK u \in TaskId :
                \E i \in DOMAIN edges[u] : e = <<u, i>> /\ edges[u][i] = v
          BY <3>2, <1>4
        <4>1. PICK i \in DOMAIN edges[u] : e = <<u, i>> /\ edges[u][i] = v
          BY <4>0
        <4> QED
          BY <4>1, <1>2, <1>3, <1>5
      <3>3. new \in InEdges(v)'
        BY <1>3, <1>5, <1>7
      <3> QED
        BY <3>1, <3>2, <3>3
    <2>2. InEdges(v)' = InEdges(v) \cup {new}
      BY <2>1
    <2> QED
      BY <2>2, <1>6, <1>7, FS_AddElement
  <1>8. CASE v # to
    <2>1. ASSUME NEW e
          PROVE  e \in InEdges(v)' <=> e \in InEdges(v)
      <3>1. ASSUME NEW u \in TaskId, NEW i
            PROVE  (i \in DOMAIN edges'[u] /\ edges'[u][i] = v)
                     <=> (i \in DOMAIN edges[u] /\ edges[u][i] = v)
        BY <1>2, <1>3, <1>8
      <3> QED
        BY <3>1, <1>4, <1>5
    <2>2. InEdges(v)' = InEdges(v)
      BY <2>1
    <2> QED
      BY <2>2, <1>8
  <1> QED
    BY <1>7, <1>8

(***************************************************************************)
(* The u8 in-degree counts the edges into a task modulo its width.  The    *)
(* set of those edges is finite, and empty for a task without an entry, so *)
(* that an edge into a task counts also before the task is committed.      *)
(***************************************************************************)
DegreeCount(v) ==
  /\ IsFiniteSet(InEdges(v))
  /\ DegreeOf(v) = Cardinality(InEdges(v)) % DegMod

CountInv == pc # "panicked" => \A v \in TaskId : DegreeCount(v)

LEMMA CountInit == GraphInit => CountInv
  <1> SUFFICES ASSUME GraphInit, NEW v \in TaskId
               PROVE  DegreeCount(v)
    BY DEF CountInv
  <1>1. InEdges(v) = {}
    BY DEF GraphInit, InEdges, Places
  <1>2. DegreeOf(v) = 0
    BY DEF GraphInit, DegreeOf
  <1>3. 0 % DegMod = 0
    <2>1. DegMod \in Nat \ {0}
      BY ArityAssumption
    <2>2. (DegMod * 0 + 0) % DegMod = 0
      BY <2>1, ModUnique
    <2> QED
      BY <2>1, <2>2
  <1> QED
    BY <1>1, <1>2, <1>3, FS_EmptySet DEF DegreeCount

\* An edge that does not overflow is counted.
LEMMA CountEdge ==
  ASSUME GraphTypeOK, NEW from \in TaskId, NEW to \in TaskId, add_edges(from, to),
         ~DegreeOverflows(to), \A v \in TaskId : DegreeCount(v),
         NEW v \in TaskId
  PROVE  DegreeCount(v)'
  <1>1. /\ IsFiniteSet(InEdges(v)')
        /\ Cardinality(InEdges(v)') =
             IF v = to THEN Cardinality(InEdges(v)) + 1 ELSE Cardinality(InEdges(v))
    BY NewPlace DEF DegreeCount
  <1>2. Cardinality(InEdges(v)) \in Nat
    BY FS_CardinalityType DEF DegreeCount
  <1>3. DegreeOf(v)' = IF v = to THEN (DegreeOf(v) + 1) % DegMod ELSE DegreeOf(v)
    BY DEF DegreeOf, add_edges, CountUp
  <1>4. ((Cardinality(InEdges(v)) % DegMod) + 1) % DegMod
          = (Cardinality(InEdges(v)) + 1) % DegMod
    BY <1>2, ModSucc, ArityAssumption
  <1> QED
    BY <1>1, <1>3, <1>4 DEF DegreeCount

LEMMA CountStep ==
  ASSUME TypeInv, CountInv, [BuildNext]_gvars
  PROVE  CountInv'
  <1> SUFFICES ASSUME pc' # "panicked", NEW v \in TaskId
               PROVE  DegreeCount(v)'
    BY DEF CountInv
  <1>1. ASSUME UNCHANGED <<edges, indegrees>>, pc # "panicked"
        PROVE  DegreeCount(v)'
    BY <1>1 DEF CountInv, DegreeCount, InEdges, Places, DegreeOf
  <1>2. ASSUME NEW s \in Signatures, PushTask(s), pc # "panicked"
        PROVE  DegreeCount(v)'
    <2>1. UNCHANGED edges /\ DegreeOf(v)' = DegreeOf(v)
      BY <1>2 DEF PushTask, EnterDegree, DegreeOf
    <2> QED
      BY <1>2, <2>1 DEF CountInv, DegreeCount, InEdges, Places
  <1>3. CASE WireOne
    <2>1. Head(builder.todo) \in TaskId /\ builder.id \in TaskId
      BY <1>3 DEF WireOne, TypeInv, GraphTypeOK
    <2>2. ~DegreeOverflows(builder.id) /\ pc # "panicked"
      BY <1>3 DEF WireOne
    <2> QED
      BY <1>3, <2>1, <2>2, CountEdge DEF WireOne, CountInv, TypeInv
  <1>4. ASSUME NEW w \in Wrappers, NEW t \in TaskId, register(w, t)
        PROVE  DegreeCount(v)'
    <2>1. w.id \in TaskId
      BY WrapperIds DEF TypeInv
    <2>2. ~DegreeOverflows(t) /\ pc # "panicked"
      BY <1>4 DEF register
    <2> QED
      BY <1>4, <2>1, <2>2, CountEdge DEF register, CountInv, TypeInv
  <1>5. CASE Bookkeeping \/ UNCHANGED gvars
    BY <1>1, <1>5, BookkeepingFrame DEF gvars, graphVars
  <1> QED
    BY <1>2, <1>3, <1>4, <1>5 DEF BuildNext, Bookkeeping, commit_source_task, commit_task

THEOREM DegreesAlwaysExact == GraphSpec => []DegreesExact
  <1>1. TypeInv /\ CountInv /\ [BuildNext]_gvars => CountInv'
    BY CountStep
  <1>2. TypeInv /\ CountInv => DegreesExact
    BY DEF TypeInv, GraphTypeOK, CountInv, DegreeCount, DegreesExact, DegreeOf
  <1> QED
    BY <1>1, <1>2, CountInit, TypeInvariant, PTL DEF GraphSpec, gvars

-----------------------------------------------------------------------------
(***************************************************************************)
(* edges and rev_edges are transposes of each other, as multigraphs.       *)
(***************************************************************************)

\* Appending y adds one occurrence of y and of nothing else.
LEMMA OccurrencesAppend ==
  ASSUME NEW S, NEW seq \in Seq(S), NEW y \in S, NEW x
  PROVE  /\ IsFiniteSet(Occurrences(x, seq))
         /\ Cardinality(Occurrences(x, Append(seq, y))) =
              IF x = y THEN Cardinality(Occurrences(x, seq)) + 1
                       ELSE Cardinality(Occurrences(x, seq))
  <1>1. IsFiniteSet(Occurrences(x, seq))
    <2>1. Occurrences(x, seq) \subseteq 1 .. Len(seq) /\ Len(seq) \in Nat
      BY DEF Occurrences
    <2>2. IsFiniteSet(1 .. Len(seq))
      BY <2>1, FS_Interval
    <2> QED
      BY <2>1, <2>2, FS_Subset
  <1>2. Occurrences(x, Append(seq, y)) =
          IF x = y THEN Occurrences(x, seq) \cup {Len(seq) + 1} ELSE Occurrences(x, seq)
    BY DEF Occurrences
  <1>3. Len(seq) + 1 \notin Occurrences(x, seq)
    BY DEF Occurrences
  <1> QED
    BY <1>1, <1>2, <1>3, FS_AddElement

LEMMA TransposedStep ==
  ASSUME TypeInv, Transposed, [BuildNext]_gvars
  PROVE  Transposed'
  <1>1. ASSUME NEW from \in TaskId, NEW to \in TaskId, add_edges(from, to)
        PROVE  Transposed'
    <2> SUFFICES ASSUME NEW u \in TaskId, NEW v \in TaskId
                 PROVE  Cardinality(Occurrences(v, edges'[u]))
                          = Cardinality(Occurrences(u, rev_edges'[v]))
      BY DEF Transposed, Occurrences
    <2>1. /\ edges[u] \in Seq(TaskId)
          /\ rev_edges[v] \in Seq(TaskId)
          /\ edges'[u] = IF u = from THEN Append(edges[u], to) ELSE edges[u]
          /\ rev_edges'[v] = IF v = to THEN Append(rev_edges[v], from) ELSE rev_edges[v]
      BY <1>1 DEF add_edges, CountUp, TypeInv, GraphTypeOK
    <2>2. Cardinality(Occurrences(v, edges[u])) = Cardinality(Occurrences(u, rev_edges[v]))
      BY DEF Transposed
    <2>3. Cardinality(Occurrences(v, Append(edges[u], to))) =
            IF v = to THEN Cardinality(Occurrences(v, edges[u])) + 1
                      ELSE Cardinality(Occurrences(v, edges[u]))
      BY <2>1, OccurrencesAppend
    <2>4. Cardinality(Occurrences(u, Append(rev_edges[v], from))) =
            IF u = from THEN Cardinality(Occurrences(u, rev_edges[v])) + 1
                        ELSE Cardinality(Occurrences(u, rev_edges[v]))
      BY <2>1, OccurrencesAppend
    <2> QED
      BY <2>1, <2>2, <2>3, <2>4
  <1>2. ASSUME UNCHANGED <<edges, rev_edges>>
        PROVE  Transposed'
    BY <1>2 DEF Transposed, Occurrences
  <1>3. CASE WireOne
    <2>1. Head(builder.todo) \in TaskId /\ builder.id \in TaskId
      BY <1>3 DEF WireOne, TypeInv, GraphTypeOK
    <2> QED
      BY <1>1, <1>3, <2>1 DEF WireOne
  <1>4. ASSUME NEW w \in Wrappers, NEW t \in TaskId, register(w, t)
        PROVE  Transposed'
    BY <1>1, <1>4, WrapperIds DEF register, TypeInv
  <1>5. ASSUME NEW s \in Signatures, PushTask(s)
        PROVE  Transposed'
    BY <1>2, <1>5 DEF PushTask, EnterDegree
  <1>6. CASE Bookkeeping \/ UNCHANGED gvars
    BY <1>2, <1>6, BookkeepingFrame DEF gvars, graphVars
  <1> QED
    BY <1>3, <1>4, <1>5, <1>6 DEF BuildNext, Bookkeeping, commit_source_task, commit_task

THEOREM AlwaysTransposed == GraphSpec => []Transposed
  <1>1. GraphInit => Transposed
    BY DEF GraphInit, Transposed, Occurrences
  <1>2. TypeInv /\ Transposed /\ [BuildNext]_gvars => Transposed'
    BY TransposedStep
  <1> QED
    BY <1>1, <1>2, TypeInvariant, PTL DEF GraphSpec, gvars

-----------------------------------------------------------------------------
(***************************************************************************)
(* The typed builder API.  WellWired says nothing of the task that is      *)
(* being wired; the invariant that carries it says how far its wiring has  *)
(* come: the edges it has and the ids its builder still holds make up its  *)
(* input tuple.  Nobody can name a task before it is wired, for no wrapper *)
(* of it was handed out: so a builder that waits while its flow is used    *)
(* for other calls has a task without edges, and the task that is wired    *)
(* next closes no cycle.                                                   *)
(***************************************************************************)

\* u can be the i-th input of t.
Fits(u, t, i) == u \in wrapped /\ sig[u].out = sig[t].ins[i]

Unnamed == pc \in {"building", "wiring"} => builder.id \notin wrapped \cup lent

Waiting ==
  /\ lent \cap wrapped = {}
  /\ Misuses = {} => lent = {}
  /\ \A t \in lent : rev_edges[t] = <<>>

SourcesWrapped == \A u \in TaskId : edges[u] # <<>> => u \in wrapped

FreshUnwired == \A t \in TaskId : numTasks <= t => rev_edges[t] = <<>>

Unwired == pc = "building" => rev_edges[builder.id] = <<>>

HalfWired ==
  pc = "wiring" =>
    LET t == builder.id IN
    /\ Len(rev_edges[t]) + Len(builder.todo) = Len(sig[t].ins)
    /\ \A i \in DOMAIN rev_edges[t] : Fits(rev_edges[t][i], t, i)
    /\ \A j \in DOMAIN builder.todo :
         Fits(builder.todo[j], t, Len(rev_edges[t]) + j)

WiredTask(t) ==
  /\ Len(rev_edges[t]) = Len(sig[t].ins)
  /\ \A i \in DOMAIN rev_edges[t] : Fits(rev_edges[t][i], t, i)

OthersWired == \A t \in Committed : ~BeingWired(t) => WiredTask(t)

WireInv ==
  /\ Unnamed
  /\ FreshUnwired
  /\ Unwired
  /\ HalfWired
  /\ OthersWired
  /\ Waiting
  /\ SourcesWrapped
  /\ ~Cyclic

\* Whether there is a cycle depends on the edges alone.
LEMMA CyclicSame ==
  ASSUME edges' = edges
  PROVE  Cyclic' <=> Cyclic
  BY DEF Cyclic, HasEdge

(***************************************************************************)
(* An edge into a task that is no source of edges closes no cycle: without *)
(* that task, a set of tasks that has the cycle had it before.             *)
(***************************************************************************)
LEMMA StaysAcyclic ==
  ASSUME GraphTypeOK, NEW from \in TaskId, NEW to \in TaskId, add_edges(from, to),
         edges[to] = <<>>, from # to, ~Cyclic
  PROVE  ~Cyclic'
  <1> SUFFICES ASSUME NEW S \in (SUBSET TaskId) \ {{}},
                      \A v \in S : \E u \in S : HasEdge(u, v)'
               PROVE  FALSE
    BY DEF Cyclic
  <1>1. /\ edges'[from] = Append(edges[from], to)
        /\ \A u \in TaskId : u # from => edges'[u] = edges[u]
        /\ edges[from] \in Seq(TaskId)
    BY DEF add_edges, CountUp, GraphTypeOK
  <1>2. \A i \in DOMAIN edges'[from] :
          edges'[from][i] = to \/ (i \in DOMAIN edges[from] /\ edges'[from][i] = edges[from][i])
    BY <1>1
  <1>3. \A u, v \in TaskId : HasEdge(u, v)' /\ v # to => HasEdge(u, v)
    BY <1>1, <1>2 DEF HasEdge
  <1>4. \A v \in TaskId : ~HasEdge(to, v)'
    <2>1. edges'[to] = <<>>
      BY <1>1
    <2>2. DOMAIN <<>> = {}
      OBVIOUS
    <2> QED
      BY <2>1, <2>2 DEF HasEdge
  <1>5. \A v \in S : \E u \in S \ {to} : HasEdge(u, v)'
    BY <1>4
  <1>6. S \ {to} # {}
    BY <1>5
  <1>7. \A v \in S \ {to} : \E u \in S \ {to} : HasEdge(u, v)
    BY <1>3, <1>5
  <1> QED
    BY <1>6, <1>7 DEF Cyclic

\* A task that was wired stays wired when others are committed.
LEMMA WiredStays ==
  ASSUME TypeInv, NEW s \in Signatures, PushTask(s), wrapped \subseteq wrapped',
         NEW t \in Committed, WiredTask(t)
  PROVE  WiredTask(t)'
  <1>1. \A u \in Committed : sig'[u] = sig[u]
    BY DEF PushTask, EnterDegree, Committed, TypeInv, GraphTypeOK
  <1>2. wrapped \subseteq Committed
    BY DEF TypeInv, GraphTypeOK
  <1>3. rev_edges' = rev_edges
    BY DEF PushTask, EnterDegree
  <1> QED
    BY <1>1, <1>2, <1>3 DEF WiredTask, Fits

\* Committing a task leaves every edge as it is.
LEMMA CommitKeepsEdges ==
  ASSUME TypeInv, NEW s \in Signatures, PushTask(s), wrapped \subseteq wrapped', lent' = lent,
         wrapped' \subseteq wrapped \cup {numTasks},
         Waiting, SourcesWrapped, ~Cyclic
  PROVE  Waiting' /\ SourcesWrapped' /\ ~Cyclic'
  <1>1. UNCHANGED <<edges, rev_edges>>
    BY DEF PushTask, EnterDegree
  <1>2. numTasks \notin lent
    BY DEF TypeInv, GraphTypeOK, Committed
  <1> QED
    BY <1>1, <1>2, CyclicSame DEF Waiting, SourcesWrapped

LEMMA WireStep ==
  ASSUME TypedApi, TypeInv, WireInv, [BuildNext]_gvars
  PROVE  WireInv'
  <1> USE DEF TypeInv, WireInv, BuilderCommitted, TypedApi
  <1>1. ASSUME NEW s \in Signatures, commit_source_task(s)
        PROVE  WireInv'
    <2>1. PushTask(s) /\ s.ins = <<>> /\ pc' = "idle" /\ pc = "idle"
      BY <1>1 DEF commit_source_task
    <2>2. numTasks \in TaskId /\ numTasks \in Committed' /\ numTasks' = numTasks + 1
      BY <2>1, PushTaskTypes DEF PushTask, EnterDegree
    <2>3. FreshUnwired'
      BY <2>1, <2>2 DEF FreshUnwired, PushTask, EnterDegree, GraphTypeOK, TaskId
    <2>4. ASSUME NEW t \in Committed', ~BeingWired(t)'
          PROVE  WiredTask(t)'
      <3>1. CASE t = numTasks
        <4>1. rev_edges'[t] = <<>>
          BY <2>1, <2>2, <3>1 DEF PushTask, EnterDegree, FreshUnwired, GraphTypeOK
        <4>2. sig'[t].ins = <<>>
          BY <2>1, <2>2, <3>1 DEF PushTask, EnterDegree, Committed
        <4> QED
          BY <4>1, <4>2 DEF WiredTask
      <3>2. CASE t # numTasks
        <4>1. t \in Committed /\ ~BeingWired(t)
          BY <1>1, <2>1, <2>2, <2>4, <3>2 DEF Committed, GraphTypeOK, BeingWired, PushTask
        <4> QED
          BY <1>1, <2>1, <4>1, WiredStays DEF OthersWired, commit_source_task
      <3> QED
        BY <3>1, <3>2
    <2>5. Waiting' /\ SourcesWrapped' /\ ~Cyclic'
      BY <1>1, <2>1, CommitKeepsEdges DEF commit_source_task, PushTask
    <2> QED
      BY <2>1, <2>3, <2>4, <2>5 DEF Unnamed, Unwired, HalfWired, OthersWired
  <1>2. ASSUME NEW s \in Signatures, commit_task(s)
        PROVE  WireInv'
    <2>1. /\ PushTask(s) /\ pc' = "building" /\ pc = "idle"
          /\ builder'.id = numTasks /\ wrapped' = wrapped
      BY <1>2 DEF commit_task
    <2>2. numTasks \in TaskId /\ numTasks' = numTasks + 1
      BY <2>1, PushTaskTypes DEF PushTask, EnterDegree
    <2>3. FreshUnwired' /\ Unwired'
      BY <2>1, <2>2 DEF FreshUnwired, Unwired, PushTask, EnterDegree, GraphTypeOK, TaskId
    <2>4. Unnamed'
      BY <2>1, <2>2 DEF Unnamed, GraphTypeOK, Committed, PushTask
    <2>5. ASSUME NEW t \in Committed', ~BeingWired(t)'
          PROVE  WiredTask(t)'
      <3>1. t \in Committed /\ ~BeingWired(t)
        BY <2>1, <2>2, <2>5 DEF Committed, GraphTypeOK, BeingWired, PushTask
      <3> QED
        BY <2>1, <3>1, WiredStays DEF OthersWired
    <2>6. Waiting' /\ SourcesWrapped' /\ ~Cyclic'
      BY <2>1, CommitKeepsEdges DEF PushTask
    <2> QED
      BY <2>1, <2>3, <2>4, <2>5, <2>6 DEF HalfWired, OthersWired
  <1>3. CASE with_dependencies
    <2> DEFINE t == builder.id
               ins == sig[t].ins
    <2>1. /\ pc = "building" /\ pc' = "wiring"
          /\ UNCHANGED <<numTasks, sig, edges, rev_edges, wrapped, lent>>
      BY <1>3 DEF with_dependencies
    <2>2. PICK deps \in [DOMAIN ins -> Wrappers] :
            /\ \A i \in DOMAIN ins : deps[i].ty = ins[i]
            /\ builder' = [builder EXCEPT !.todo = IdsOf(deps)]
      BY <1>3 DEF with_dependencies
    <2>3. t \in Committed /\ ins \in Seq(Types) /\ rev_edges[t] = <<>>
      BY <2>1, SignaturesAssumption DEF GraphTypeOK, Signature, Unwired
    <2>4. builder'.id = t /\ builder'.todo = [i \in DOMAIN ins |-> deps[i].id]
      BY <2>2 DEF GraphTypeOK, IdsOf
    <2>5. Len(builder'.todo) = Len(ins) /\ DOMAIN builder'.todo = DOMAIN ins
      <3>1. DOMAIN ins = 1 .. Len(ins) /\ Len(ins) \in Nat
        BY <2>3
      <3> HIDE DEF ins
      <3> QED
        BY <2>4, <3>1
    <2>6. ASSUME NEW j \in DOMAIN ins
          PROVE  Fits(deps[j].id, t, j)
      <3>1. deps[j].id \in wrapped /\ deps[j].ty = sig[deps[j].id].out
        BY <2>2 DEF Wrappers
      <3> QED
        BY <2>2, <3>1 DEF Fits
    <2>7. HalfWired'
      <3>1. Len(<<>>) = 0 /\ DOMAIN <<>> = {}
        OBVIOUS
      <3>2. \A j \in DOMAIN ins : 0 + j = j
        BY <2>3
      <3>3. /\ rev_edges'[builder'.id] = <<>>
            /\ sig'[builder'.id].ins = ins
            /\ Len(ins) \in Nat
        BY <2>1, <2>3, <2>4
      <3>4. \A j \in DOMAIN builder'.todo : Fits(builder'.todo[j], t, j)
        BY <2>4, <2>5, <2>6
      <3> HIDE DEF ins
      <3>5. Len(rev_edges'[builder'.id]) + Len(builder'.todo) = Len(sig'[builder'.id].ins)
        BY <2>5, <3>1, <3>3
      <3>6. ASSUME NEW j \in DOMAIN builder'.todo
            PROVE  Fits(builder.todo[j], builder.id, Len(rev_edges[builder.id]) + j)'
        <4>1. Len(rev_edges'[builder'.id]) + j = j
          BY <3>1, <3>2, <3>3, <2>5
        <4> QED
          BY <4>1, <3>4, <2>1, <2>4 DEF Fits
      <3> QED
        BY <3>1, <3>3, <3>5, <3>6 DEF HalfWired
    <2>8. OthersWired'
      BY <2>1, <2>4 DEF OthersWired, WiredTask, Fits, BeingWired, Committed
    <2> QED
      BY <2>1, <2>4, <2>7, <2>8, CyclicSame
      DEF Unnamed, FreshUnwired, Unwired, Waiting, SourcesWrapped
  <1>4. CASE WireOne
    <2>0. PICK t \in TaskId, u \in TaskId : t = builder.id /\ u = Head(builder.todo)
      BY <1>4 DEF WireOne, GraphTypeOK
    <2>1. /\ pc = "wiring" /\ pc' \in {"wiring", "panicked"} /\ builder.todo # <<>>
          /\ UNCHANGED <<numTasks, sig, wrapped, lent>>
          /\ add_edges(u, t)
          /\ builder' = [builder EXCEPT !.todo = Tail(@)]
          /\ rev_edges' = [rev_edges EXCEPT ![t] = Append(@, u)]
      BY <1>4, <2>0 DEF WireOne, add_edges, CountUp
    <2>2. /\ t \in Committed /\ t \in TaskId /\ rev_edges[t] \in Seq(TaskId)
          /\ builder.todo \in Seq(TaskId)
      BY <2>0, <2>1 DEF GraphTypeOK
    <2>3. /\ builder'.id = t /\ builder'.todo = Tail(builder.todo)
          /\ rev_edges'[t] = Append(rev_edges[t], u)
          /\ \A v \in TaskId : v # t => rev_edges'[v] = rev_edges[v]
      BY <2>0, <2>1, <2>2 DEF GraphTypeOK
    <2>4. HalfWired'
      <3> SUFFICES ASSUME pc' = "wiring"
                   PROVE  HalfWired'
        BY DEF HalfWired
      <3>1. /\ Len(rev_edges[t]) + Len(builder.todo) = Len(sig[t].ins)
            /\ \A i \in DOMAIN rev_edges[t] : Fits(rev_edges[t][i], t, i)
            /\ \A j \in DOMAIN builder.todo :
                 Fits(builder.todo[j], t, Len(rev_edges[t]) + j)
        BY <2>0, <2>1 DEF HalfWired
      <3>2. /\ Len(rev_edges[t]) \in Nat /\ Len(builder.todo) \in Nat
            /\ Len(rev_edges'[t]) = Len(rev_edges[t]) + 1
            /\ \A i \in DOMAIN rev_edges'[t] :
                 \/ i \in DOMAIN rev_edges[t] /\ rev_edges'[t][i] = rev_edges[t][i]
                 \/ i = Len(rev_edges[t]) + 1 /\ rev_edges'[t][i] = u
        BY <2>2, <2>3
      <3>3. /\ 1 \in DOMAIN builder.todo /\ u = builder.todo[1]
            /\ Len(builder'.todo) = Len(builder.todo) - 1
            /\ \A j \in DOMAIN builder'.todo :
                 /\ j \in Nat
                 /\ j + 1 \in DOMAIN builder.todo
                 /\ builder'.todo[j] = builder.todo[j + 1]
        BY <2>0, <2>1, <2>2, <2>3
      <3>4. Len(rev_edges'[t]) + Len(builder'.todo) = Len(sig'[t].ins)
        <4>1. \A a, b \in Nat : (a + 1) + (b - 1) = a + b
          OBVIOUS
        <4>2. (Len(rev_edges[t]) + 1) + (Len(builder.todo) - 1)
                = Len(rev_edges[t]) + Len(builder.todo)
          BY <3>2, <4>1
        <4> QED
          BY <2>1, <3>1, <3>2, <3>3, <4>2
      <3>5. \A i \in DOMAIN rev_edges'[t] : Fits(rev_edges'[t][i], t, i)
        BY <3>1, <3>2, <3>3
      <3>6. ASSUME NEW j \in DOMAIN builder'.todo
            PROVE  Fits(builder'.todo[j], t, Len(rev_edges'[t]) + j)
        <4>0. /\ Len(rev_edges[t]) \in Nat /\ j \in Nat
              /\ Len(rev_edges'[t]) = Len(rev_edges[t]) + 1
          BY <3>2, <3>3
        <4>1. Len(rev_edges'[t]) + j = Len(rev_edges[t]) + (j + 1)
          BY ONLY <4>0
        <4> QED
          BY <4>1, <3>1, <3>3
      <3>7. builder'.id = t /\ sig' = sig /\ wrapped' = wrapped
        BY <2>1, <2>3
      <3> QED
        BY <3>4, <3>5, <3>6, <3>7 DEF HalfWired, Fits
    <2>5. OthersWired'
      <3> SUFFICES ASSUME NEW v \in Committed', ~BeingWired(v)'
                   PROVE  WiredTask(v)'
        BY DEF OthersWired
      <3>1. v \in Committed /\ v \in TaskId /\ v # t
        BY <2>0, <2>1, <2>3, CommittedIds DEF BeingWired, Committed, GraphTypeOK
      <3>2. WiredTask(v)
        BY <2>0, <2>1, <3>1 DEF OthersWired, BeingWired
      <3> QED
        BY <2>1, <2>3, <3>1, <3>2 DEF WiredTask, Fits
    <2>6. FreshUnwired'
      BY <2>1, <2>2, <2>3 DEF FreshUnwired, Committed, GraphTypeOK
    <2>7. u \in wrapped /\ t \notin wrapped \cup lent
      <3>1. 1 \in DOMAIN builder.todo /\ u = builder.todo[1]
        BY <2>0, <2>1, <2>2
      <3> QED
        BY <2>0, <2>1, <3>1 DEF HalfWired, Fits, Unnamed
    <2>8. /\ edges'[u] = Append(edges[u], t)
          /\ \A v \in TaskId : v # u => edges'[v] = edges[v]
      BY <2>0, <2>1 DEF add_edges, CountUp, GraphTypeOK
    <2>9. SourcesWrapped' /\ Waiting'
      <3>1. lent \subseteq TaskId
        BY CommittedIds DEF GraphTypeOK
      <3> QED
        BY <2>1, <2>3, <2>7, <2>8, <3>1 DEF SourcesWrapped, Waiting
    <2>10. ~Cyclic'
      <3>1. edges[t] = <<>> /\ u # t
        BY <2>2, <2>7 DEF SourcesWrapped
      <3> QED
        BY <2>1, <3>1, StaysAcyclic
    <2> QED
      BY <2>0, <2>1, <2>3, <2>4, <2>5, <2>6, <2>9, <2>10 DEF Unnamed, Unwired
  <1>5. CASE WiringDone
    <2>1. /\ pc = "wiring" /\ pc' = "idle" /\ builder.todo = <<>>
          /\ wrapped' = wrapped \cup {builder.id} /\ builder.id \notin lent
          /\ UNCHANGED <<numTasks, sig, edges, rev_edges, lent>>
      BY <1>5 DEF WiringDone, Unnamed
    <2>2. WiredTask(builder.id)
      BY <2>1, CommittedIds DEF HalfWired, WiredTask, GraphTypeOK
    <2>3. OthersWired'
      BY <2>1, <2>2 DEF OthersWired, WiredTask, Fits, BeingWired, Committed
    <2> QED
      BY <2>1, <2>3, CyclicSame
      DEF Unnamed, FreshUnwired, Unwired, HalfWired, Waiting, SourcesWrapped
  <1>6. CASE UNCHANGED gvars
    <2>1. UNCHANGED <<pc, numTasks, sig, edges, rev_edges, wrapped, builder, lent>>
      BY <1>6 DEF gvars, graphVars
    <2>2. Waiting' /\ SourcesWrapped' /\ ~Cyclic'
      BY <2>1, CyclicSame DEF Waiting, SourcesWrapped
    <2> QED
      BY <2>1, <2>2 DEF Unnamed, FreshUnwired, Unwired, HalfWired, OthersWired,
                        WiredTask, Fits, BeingWired, Committed
  <1>7. ~DropBuilder /\ \A w \in Wrappers, v \in TaskId : ~register(w, v)
    BY DEF DropBuilder, register
  <1>8. CASE LendFlow
    <2>1. /\ pc = "building" /\ pc' = "idle" /\ lent' = lent \cup {builder.id}
          /\ rev_edges[builder.id] = <<>> /\ builder.id \notin wrapped /\ Misuses # {}
          /\ UNCHANGED <<numTasks, sig, edges, rev_edges, wrapped>>
      BY <1>8 DEF LendFlow, Unwired, Unnamed
    <2>2. OthersWired'
      BY <2>1 DEF OthersWired, WiredTask, Fits, BeingWired, Committed
    <2> QED
      BY <2>1, <2>2, CyclicSame
      DEF Unnamed, FreshUnwired, Unwired, HalfWired, Waiting, SourcesWrapped
  <1>9. CASE TakeFlowBack
    <2>1. PICK t \in lent : lent' = lent \ {t} /\ builder' = [id |-> t, todo |-> <<>>]
      BY <1>9 DEF TakeFlowBack
    <2>2. /\ pc = "idle" /\ pc' = "building" /\ builder'.id = t
          /\ rev_edges[t] = <<>> /\ t \notin wrapped /\ Misuses # {}
          /\ UNCHANGED <<numTasks, sig, edges, rev_edges, wrapped>>
      BY <1>9, <2>1 DEF TakeFlowBack, Waiting
    <2>3. OthersWired'
      BY <2>1, <2>2 DEF OthersWired, WiredTask, Fits, BeingWired, Committed
    <2> QED
      BY <2>1, <2>2, <2>3, CyclicSame
      DEF Unnamed, FreshUnwired, Unwired, HalfWired, Waiting, SourcesWrapped
  <1> QED
    BY <1>1, <1>2, <1>3, <1>4, <1>5, <1>6, <1>7, <1>8, <1>9 DEF BuildNext

\* The invariant holds when nothing is committed.
LEMMA WireInit == GraphInit => WireInv
  <1> SUFFICES ASSUME GraphInit
               PROVE  WireInv
    OBVIOUS
  <1>1. \A u \in TaskId : edges[u] = <<>>
    BY DEF GraphInit
  <1>2. \A u, v \in TaskId : ~HasEdge(u, v)
    <2>1. DOMAIN <<>> = {}
      OBVIOUS
    <2> QED
      BY <1>1, <2>1 DEF HasEdge
  <1>3. ~Cyclic
    BY <1>2 DEF Cyclic
  <1> QED
    BY <1>1, <1>3
    DEF GraphInit, WireInv, Unnamed, FreshUnwired, Unwired, HalfWired, OthersWired,
        Waiting, SourcesWrapped, Committed

\* What the invariant says of the wiring, in the words of the property.
LEMMA WireMeans ==
  ASSUME GraphTypeOK, TypedApi => WireInv
  PROVE  WellWired
  <1> SUFFICES ASSUME WireInv
               PROVE  /\ \A t \in Committed :
                           ~BeingWired(t) =>
                             /\ Len(rev_edges[t]) = Len(sig[t].ins)
                             /\ \A i \in DOMAIN rev_edges[t] :
                                  /\ rev_edges[t][i] \in wrapped
                                  /\ sig[rev_edges[t][i]].out = sig[t].ins[i]
                      /\ \A t \in lent : edges[t] = <<>> /\ rev_edges[t] = <<>>
                      /\ ~Cyclic
    BY DEF WellWired
  <1>1. \A t \in lent : edges[t] = <<>> /\ rev_edges[t] = <<>>
    BY CommittedIds DEF WireInv, Waiting, SourcesWrapped, GraphTypeOK
  <1> QED
    BY <1>1 DEF WireInv, OthersWired, WiredTask, Fits

(***************************************************************************)
(* The type checker's promise, for every program that stays with the typed *)
(* builder API or reaches the flow through a living builder besides: each  *)
(* wired task has exactly the dependencies its inputs declare, in their    *)
(* order and of their types, a task whose builder waits has no edge, and   *)
(* no order of the calls builds a cycle.                                   *)
(***************************************************************************)
THEOREM TypedApiWiresWell == GraphSpec => []WellWired
  <1> DEFINE Inv == TypeInv /\ (TypedApi => WireInv)
  <1>1. GraphInit => Inv
    BY TypeInit, WireInit
  <1>2. Inv /\ [BuildNext]_gvars => Inv'
    <2>1. ASSUME Inv, [BuildNext]_gvars
          PROVE  Inv'
      <3>1. TypeInv'
        BY <2>1, TypeStep
      <3>2. TypedApi => WireInv'
        BY <2>1, WireStep
      <3>3. TypedApi' <=> TypedApi
        BY DEF TypedApi
      <3> QED
        BY <3>1, <3>2, <3>3
    <2> QED
      BY <2>1
  <1>3. Inv => WellWired
    BY WireMeans DEF TypeInv
  <1> QED
    BY <1>1, <1>2, <1>3, PTL DEF GraphSpec, gvars

=============================================================================
