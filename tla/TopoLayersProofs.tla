--------------------------- MODULE TopoLayersProofs ---------------------------
(***************************************************************************)
(* What holds of the layering (TopoLayers) for every value of the          *)
(* constants, on every graph that the builder API can leave behind: the    *)
(* counts are the numbers of edges still to come, so counting down never   *)
(* panics; layers are disjoint, respect edges and are as early as they can *)
(* be; the verdict on cycles is right.                                     *)
(***************************************************************************)
EXTENDS TopoLayers, FlowGraphProofs

-----------------------------------------------------------------------------
(***************************************************************************)
(* The graph.  FlowGraphProofs shows what the builder's calls preserve; it *)
(* is collected here with two facts that only the layering needs.          *)
(***************************************************************************)

\* With overflow checks no count wraps: the call that would wrap it panics.
CheckedNoWrap == OverflowChecks /\ pc # "panicked" => NoWrap

\* Nothing but commits and edges makes an entry.
EntriesTight ==
  \A v \in DOMAIN indegrees : v \in Committed \/ \E u \in TaskId : HasEdge(u, v)

\* The edges into a task are as many as its dependencies.
RevCount == \A v \in TaskId : Cardinality(InEdges(v)) = Len(rev_edges[v])

GraphInv ==
  /\ GraphTypeOK
  /\ BuilderCommitted
  /\ EntriesPresent
  /\ CountInv
  /\ Transposed
  /\ TypedApi => WireInv
  /\ CheckedNoWrap
  /\ EntriesTight
  /\ RevCount

\* A task id is a natural number, and there are finitely many.
LEMMA TaskIds == TaskId \subseteq Nat /\ IsFiniteSet(TaskId)
  <1>1. MaxTasks - 1 \in Int
    BY BoundsAssumption
  <1>2. IsFiniteSet(0 .. MaxTasks - 1)
    BY <1>1, FS_Interval
  <1> QED
    BY <1>2 DEF TaskId

\* Only the builder's own states allow a call of the builder API.
LEMMA BuildPc == BuildNext => pc \in {"idle", "building", "wiring"}
  BY DEF BuildNext, commit_source_task, commit_task, with_dependencies, DropBuilder,
         LendFlow, TakeFlowBack, WireOne, WiringDone, register

\* A new edge that does not overflow leaves every count below the modulus.
LEMMA NoWrapAdd ==
  ASSUME GraphTypeOK, NEW from \in TaskId, NEW to \in TaskId, add_edges(from, to),
         \A v \in TaskId : DegreeCount(v), NoWrap, OverflowChecks,
         ~DegreeOverflows(to)
  PROVE  NoWrap'
  <1> SUFFICES ASSUME NEW v \in TaskId
               PROVE  Cardinality(InEdges(v)') < DegMod
    BY DEF NoWrap
  <1>1. /\ IsFiniteSet(InEdges(v))
        /\ Cardinality(InEdges(v)') =
             IF v = to THEN Cardinality(InEdges(v)) + 1 ELSE Cardinality(InEdges(v))
    BY NewPlace DEF DegreeCount
  <1>2. Cardinality(InEdges(v)) \in Nat /\ Cardinality(InEdges(v)) < DegMod
    BY <1>1, FS_CardinalityType DEF NoWrap
  <1>3. DegreeOf(v) = Cardinality(InEdges(v))
    <2>1. (DegMod * 0 + Cardinality(InEdges(v))) % DegMod = Cardinality(InEdges(v))
      BY <1>2, ArityAssumption, ModUnique
    <2>2. DegMod * 0 + Cardinality(InEdges(v)) = Cardinality(InEdges(v))
      BY <1>2, ArityAssumption
    <2> QED
      BY <2>1, <2>2 DEF DegreeCount
  <1> QED
    BY <1>1, <1>2, <1>3, ArityAssumption DEF DegreeOverflows

\* A new edge enters its target, and the edges there were stay.
LEMMA TightAdd ==
  ASSUME GraphTypeOK, NEW from \in TaskId, NEW to \in TaskId, add_edges(from, to),
         EntriesTight, numTasks' = numTasks
  PROVE  EntriesTight'
  <1> SUFFICES ASSUME NEW v \in DOMAIN indegrees'
               PROVE  v \in Committed' \/ \E u \in TaskId : HasEdge(u, v)'
    BY DEF EntriesTight
  <1>1. v \in DOMAIN indegrees \/ v = to
    BY DEF add_edges, CountUp
  <1>2. /\ edges \in [TaskId -> Seq(TaskId)]
        /\ edges' = [edges EXCEPT ![from] = Append(@, to)]
    BY DEF add_edges, GraphTypeOK
  <1>3. HasEdge(from, to)'
    <2>1. /\ edges'[from] = Append(edges[from], to) /\ edges[from] \in Seq(TaskId)
      BY <1>2
    <2>2. /\ Len(edges[from]) + 1 \in DOMAIN edges'[from]
          /\ edges'[from][Len(edges[from]) + 1] = to
      BY <2>1
    <2> QED
      BY <2>2 DEF HasEdge
  <1>4. ASSUME NEW u \in TaskId, HasEdge(u, v)
        PROVE  HasEdge(u, v)'
    <2>1. PICK i \in DOMAIN edges[u] : edges[u][i] = v
      BY <1>4 DEF HasEdge
    <2>2. i \in DOMAIN edges'[u] /\ edges'[u][i] = v
      BY <2>1, <1>2
    <2> QED
      BY <2>2 DEF HasEdge
  <1> QED
    BY <1>1, <1>3, <1>4 DEF EntriesTight, Committed

\* A new edge is one more edge into its target and one more dependency of it.
LEMMA RevCountAdd ==
  ASSUME GraphTypeOK, NEW from \in TaskId, NEW to \in TaskId, add_edges(from, to),
         \A v \in TaskId : DegreeCount(v), RevCount
  PROVE  RevCount'
  <1> SUFFICES ASSUME NEW v \in TaskId
               PROVE  Cardinality(InEdges(v)') = Len(rev_edges'[v])
    BY DEF RevCount
  <1>1. Cardinality(InEdges(v)') =
          IF v = to THEN Cardinality(InEdges(v)) + 1 ELSE Cardinality(InEdges(v))
    BY NewPlace DEF DegreeCount
  <1>2. /\ rev_edges[v] \in Seq(TaskId)
        /\ rev_edges'[v] = IF v = to THEN Append(rev_edges[v], from) ELSE rev_edges[v]
    BY DEF add_edges, CountUp, GraphTypeOK
  <1> QED
    BY <1>1, <1>2 DEF RevCount

(***************************************************************************)
(* Every call of the builder API preserves GraphInv, and so does any other *)
(* step that at most takes tasks out of their slots and does not begin to  *)
(* build.                                                                  *)
(***************************************************************************)
LEMMA GraphStep ==
  ASSUME GraphInv, BuildNext
  PROVE  GraphInv' /\ pc' \in GraphPcs
  <1> USE DEF GraphInv
  <1>1. TypeInv
    BY BuildPc DEF TypeInv, GraphPcs
  <1>2. TypeInv'
    BY <1>1, TypeStep
  <1>3. EntriesPresent' /\ CountInv' /\ Transposed' /\ (TypedApi => WireInv')
    BY <1>1, EntriesStep, CountStep, TransposedStep, WireStep
  <1>4. /\ pc # "panicked"
        /\ \A v \in TaskId : DegreeCount(v)
    BY BuildPc DEF CountInv
  <1>5. CheckedNoWrap' /\ EntriesTight' /\ RevCount'
    <2>1. ASSUME UNCHANGED <<numTasks, edges, rev_edges, indegrees>>
          PROVE  CheckedNoWrap' /\ EntriesTight' /\ RevCount'
      BY <2>1, <1>4
      DEF CheckedNoWrap, NoWrap, InEdges, Places, EntriesTight, HasEdge, Committed, RevCount
    <2>2. ASSUME NEW s \in Signatures, PushTask(s)
          PROVE  CheckedNoWrap' /\ EntriesTight' /\ RevCount'
      <3>1. UNCHANGED <<edges, rev_edges>> /\ DOMAIN indegrees' = DOMAIN indegrees \cup {numTasks}
        BY <2>2 DEF PushTask, EnterDegree
      <3>2. numTasks \in Committed' /\ Committed \subseteq Committed'
        BY <2>2, PushTaskTypes
      <3> QED
        BY <3>1, <3>2, <1>4
        DEF CheckedNoWrap, NoWrap, InEdges, Places, EntriesTight, HasEdge, RevCount
    <2>3. ASSUME NEW from \in TaskId, NEW to \in TaskId, add_edges(from, to),
                 numTasks' = numTasks, pc' # "panicked" => ~DegreeOverflows(to)
          PROVE  CheckedNoWrap' /\ EntriesTight' /\ RevCount'
      <3>1. EntriesTight'
        BY <2>3, TightAdd
      <3>2. CheckedNoWrap'
        BY <2>3, <1>4, NoWrapAdd DEF CheckedNoWrap
      <3>3. RevCount'
        BY <2>3, <1>4, RevCountAdd
      <3> QED
        BY <3>1, <3>2, <3>3
    <2>4. CASE WireOne
      <3>1. Head(builder.todo) \in TaskId /\ builder.id \in TaskId
        BY <2>4 DEF WireOne, GraphTypeOK
      <3> QED
        BY <2>3, <2>4, <3>1 DEF WireOne
    <2>5. ASSUME NEW w \in Wrappers, NEW t \in TaskId, register(w, t)
          PROVE  CheckedNoWrap' /\ EntriesTight' /\ RevCount'
      BY <2>3, <2>5, WrapperIds DEF register
    <2> QED
      BY <2>1, <2>2, <2>4, <2>5, BookkeepingFrame
      DEF BuildNext, commit_source_task, commit_task, Bookkeeping
  <1> QED
    BY <1>2, <1>3, <1>5 DEF TypeInv, TypedApi

LEMMA GraphFrameTake ==
  ASSUME GraphInv, loaded' \subseteq loaded,
         UNCHANGED <<numTasks, sig, edges, rev_edges, indegrees, wrapped, builder,
                   lent, bare>>,
         \/ pc' = pc
         \/ pc \notin {"building", "wiring", "panicked"} /\ pc' \notin {"building", "wiring"}
  PROVE  GraphInv'
  <1>1. /\ UNCHANGED <<numTasks, sig, edges, rev_edges, indegrees, wrapped, builder,
                   lent, bare>>
        /\ loaded' \subseteq loaded
    OBVIOUS
  <1>2. Committed' = Committed
    BY <1>1 DEF Committed
  <1>3. GraphTypeOK' /\ BuilderCommitted' /\ EntriesPresent'
    BY <1>1, <1>2 DEF GraphInv, GraphTypeOK, BuilderCommitted, EntriesPresent
  <1>4. Transposed' /\ EntriesTight' /\ RevCount'
    BY <1>1, <1>2
    DEF GraphInv, Transposed, EntriesTight, HasEdge, Occurrences, RevCount, InEdges, Places
  <1>5. CountInv' /\ CheckedNoWrap'
    BY <1>1
    DEF GraphInv, CountInv, DegreeCount, DegreeOf, CheckedNoWrap, NoWrap, InEdges, Places
  <1>6. ASSUME TypedApi
        PROVE  WireInv'
    <2>1. WireInv /\ \A t : BeingWired(t) => BeingWired(t)'
      BY <1>1, <1>6 DEF GraphInv, BeingWired
    <2>2. FreshUnwired' /\ \A t : WiredTask(t) => WiredTask(t)'
      BY <1>1, <2>1 DEF WireInv, FreshUnwired, WiredTask, Fits
    <2>3. Unnamed' /\ Unwired' /\ HalfWired'
      BY <1>1, <2>1 DEF WireInv, Unnamed, Unwired, HalfWired, Fits
    <2>4. Waiting' /\ SourcesWrapped' /\ ~Cyclic'
      BY <1>1, <2>1 DEF WireInv, Waiting, SourcesWrapped, Cyclic, HasEdge
    <2> QED
      BY <1>2, <2>1, <2>2, <2>3, <2>4 DEF WireInv, OthersWired
  <1> QED
    BY <1>3, <1>4, <1>5, <1>6 DEF GraphInv, TypedApi

LEMMA GraphFrame ==
  ASSUME GraphInv, UNCHANGED graphVars,
         \/ pc' = pc
         \/ pc \notin {"building", "wiring", "panicked"} /\ pc' \notin {"building", "wiring"}
  PROVE  GraphInv'
  BY GraphFrameTake DEF graphVars

LEMMA GraphStart == GraphInit => GraphInv
  <1> SUFFICES ASSUME GraphInit
               PROVE  GraphInv
    OBVIOUS
  <1>1. GraphTypeOK /\ BuilderCommitted
    BY TypeInit DEF TypeInv
  <1>2. EntriesPresent /\ Transposed /\ EntriesTight
    BY BoundsAssumption
    DEF GraphInit, EntriesPresent, Transposed, Occurrences, EntriesTight, Committed
  <1>3. CountInv /\ CheckedNoWrap /\ RevCount
    <2>1. ASSUME NEW v \in TaskId
          PROVE  Cardinality(InEdges(v)) = 0 /\ Len(rev_edges[v]) = 0
      <3>1. InEdges(v) = {}
        BY DEF GraphInit, InEdges, Places
      <3> QED
        BY <3>1, FS_EmptySet DEF GraphInit
    <2> QED
      BY <2>1, CountInit, ArityAssumption DEF CheckedNoWrap, NoWrap, RevCount
  <1>4. WireInv
    BY WireInit
  <1> QED
    BY <1>1, <1>2, <1>3, <1>4 DEF GraphInv

-----------------------------------------------------------------------------
(***************************************************************************)
(* The invariant of Kahn's algorithm.  An edge has been relaxed when its   *)
(* source was visited and the loop over its successors has passed it.      *)
(***************************************************************************)
Relaxed(e) ==
  \/ e[1] \in AllLayered
  \/ \E i \in 1 .. cursor : cur_layer[i] = e[1] /\ (i < cursor \/ e[2] < next)

Pending(v) == {e \in InEdges(v) : ~Relaxed(e)}

Scheduled == AllLayered \cup Range(cur_layer) \cup Range(queue)

Visited == AllLayered \cup {cur_layer[i] : i \in 1 .. cursor}

\* A count is the number of edges still to come; this is what makes counting
\* down safe.
CountsPending ==
  \A v \in DOMAIN indegrees : tmp_indegree[v] = Cardinality(Pending(v))

\* The tasks without an edge to come are in the layers or on their way there...
ZeroScheduled == Scheduled = {v \in DOMAIN indegrees : tmp_indegree[v] = 0}

\* ... and nowhere twice.
ScheduledOnce ==
  /\ LayersDisjoint
  /\ IsInjective(cur_layer)
  /\ IsInjective(queue)
  /\ AllLayered \cap Range(cur_layer) = {}
  /\ AllLayered \cap Range(queue) = {}
  /\ Range(cur_layer) \cap Range(queue) = {}

\* The layer being visited waits for nothing.
CurLayerReady ==
  \A v \in Range(cur_layer), u \in TaskId : HasEdge(u, v) => u \in AllLayered

VisitedCount == visited = Cardinality(Visited)

KahnInv ==
  /\ CountsPending
  /\ ZeroScheduled
  /\ ScheduledOnce
  /\ LayersRespectEdges
  /\ CurLayerReady
  /\ VisitedCount

\* Whoever is scheduled after the first layer follows a task of the last one.
Follows(v, S) == \E u \in S : HasEdge(u, v)

EarliestInv ==
  /\ \A k \in DOMAIN layers \ {1} : \A v \in LayerTasks(k) : Follows(v, LayerTasks(k - 1))
  /\ layers # <<>> =>
       /\ \A v \in Range(cur_layer) : Follows(v, LayerTasks(Len(layers)))
       /\ pc = "drain" => \A v \in Range(queue) : Follows(v, LayerTasks(Len(layers)))
  /\ pc = "visit" =>
       \A v \in Range(queue) : Follows(v, {cur_layer[i] : i \in 1 .. cursor})

(***************************************************************************)
(* Where the loops are, and what is left of the locals outside of them.    *)
(***************************************************************************)
LocalTypes ==
  /\ DOMAIN tmp_indegree \subseteq TaskId
  /\ \A v \in DOMAIN tmp_indegree : tmp_indegree[v] \in 0 .. DegMod - 1
  /\ queue \in Seq(TaskId)
  /\ cur_layer \in Seq(TaskId)
  /\ cursor \in 0 .. Len(cur_layer)
  /\ next \in Nat \ {0}
  /\ layers \in Seq(Seq(TaskId))
  /\ visited \in 0 .. MaxVisits

Shape ==
  /\ pc \in BuildPcs => LocalsReset
  /\ pc \in LayerPcs \ {"visit"} => cur_layer = <<>> /\ cursor = 0 /\ next = 1
  /\ pc \in LayerPcs => DOMAIN tmp_indegree = DOMAIN indegrees
  /\ pc \in {"layered", "cyclic"} => queue = <<>>
  /\ pc = "layered" => visited = numTasks
  /\ pc = "cyclic" => visited # numTasks

LayerInv ==
  /\ GraphInv
  /\ LocalTypes
  /\ Shape
  /\ pc \in LayerPcs => EarliestInv
  /\ pc \in LayerPcs /\ NoWrap => KahnInv

TopoInv == LayerInv /\ pc \in BuildPcs \cup LayerPcs

-----------------------------------------------------------------------------
(***************************************************************************)
(* Facts about the graph, the edges and the tasks in the locals.           *)
(***************************************************************************)

\* What is said of the graph stays true while the graph is left alone.
LEMMA GraphSame ==
  ASSUME UNCHANGED graphVars
  PROVE  /\ \A v : InEdges(v)' = InEdges(v)
         /\ \A u, v : HasEdge(u, v)' <=> HasEdge(u, v)
         /\ NoWrap' <=> NoWrap
  <1>1. edges' = edges
    BY DEF graphVars
  <1>2. \A v : InEdges(v)' = InEdges(v)
    BY <1>1 DEF InEdges, Places
  <1>3. \A u, v : HasEdge(u, v)' <=> HasEdge(u, v)
    BY <1>1 DEF HasEdge
  <1> QED
    BY <1>2, <1>3 DEF NoWrap

\* An edge as a place, and the other way round.
LEMMA EdgePlaces ==
  ASSUME GraphTypeOK, NEW v
  PROVE  /\ \A e \in InEdges(v) :
              /\ e = <<e[1], e[2]>>
              /\ e[1] \in TaskId /\ e[2] \in 1 .. Len(edges[e[1]])
              /\ edges[e[1]][e[2]] = v /\ HasEdge(e[1], v)
         /\ \A u \in TaskId : \A i \in 1 .. Len(edges[u]) :
              edges[u][i] = v => <<u, i>> \in InEdges(v)
         /\ \A u \in TaskId :
              HasEdge(u, v) => \E i \in 1 .. Len(edges[u]) : <<u, i>> \in InEdges(v)
  <1>1. \A u \in TaskId : edges[u] \in Seq(TaskId) /\ DOMAIN edges[u] = 1 .. Len(edges[u])
    BY DEF GraphTypeOK
  <1>2. ASSUME NEW e \in InEdges(v)
        PROVE  /\ e = <<e[1], e[2]>>
               /\ e[1] \in TaskId /\ e[2] \in 1 .. Len(edges[e[1]])
               /\ edges[e[1]][e[2]] = v /\ HasEdge(e[1], v)
    <2>1. PICK u \in TaskId : e \in {u} \X DOMAIN edges[u]
      BY DEF InEdges, Places
    <2>2. e = <<e[1], e[2]>> /\ e[1] = u /\ e[2] \in DOMAIN edges[u]
      BY <2>1
    <2>3. edges[e[1]][e[2]] = v
      BY DEF InEdges
    <2> QED
      BY <1>1, <2>2, <2>3 DEF HasEdge
  <1>3. ASSUME NEW u \in TaskId, NEW i \in 1 .. Len(edges[u]), edges[u][i] = v
        PROVE  <<u, i>> \in InEdges(v)
    <2>1. <<u, i>> \in {u} \X DOMAIN edges[u]
      BY <1>1
    <2>2. <<u, i>> \in Places
      BY <2>1 DEF Places
    <2> QED
      BY <2>2, <1>3 DEF InEdges
  <1> QED
    BY <1>1, <1>2, <1>3 DEF HasEdge

\* The locals hold task ids, finitely many.
LEMMA LayerFacts ==
  ASSUME LocalTypes
  PROVE  /\ AllLayered \subseteq TaskId
         /\ Range(cur_layer) = {cur_layer[i] : i \in 1 .. Len(cur_layer)}
         /\ Range(cur_layer) \subseteq TaskId
         /\ Range(queue) \subseteq TaskId
         /\ Visited \subseteq TaskId
         /\ IsFiniteSet(Visited)
  <1>1. AllLayered \subseteq TaskId
    BY DEF LocalTypes, AllLayered, LayerTasks
  <1>2. /\ Range(cur_layer) = {cur_layer[i] : i \in 1 .. Len(cur_layer)}
        /\ Range(cur_layer) \subseteq TaskId
        /\ Range(queue) \subseteq TaskId
    BY DEF LocalTypes, Range
  <1>3. {cur_layer[i] : i \in 1 .. cursor} \subseteq TaskId
    BY DEF LocalTypes
  <1>4. Visited \subseteq TaskId
    BY <1>1, <1>3 DEF Visited
  <1> QED
    BY <1>1, <1>2, <1>4, TaskIds, FS_Subset

\* The edges to come are finitely many; none is left where the count is 0.
LEMMA PendingFacts ==
  ASSUME GraphInv, pc # "panicked", NEW v \in TaskId
  PROVE  /\ IsFiniteSet(InEdges(v))
         /\ IsFiniteSet(Pending(v))
         /\ Cardinality(Pending(v)) \in Nat
         /\ Cardinality(Pending(v)) <= Cardinality(InEdges(v))
         /\ Cardinality(InEdges(v)) \in Nat
         /\ Cardinality(Pending(v)) = 0 <=> Pending(v) = {}
  <1>1. IsFiniteSet(InEdges(v))
    BY DEF GraphInv, CountInv, DegreeCount
  <1>2. Pending(v) \in SUBSET InEdges(v)
    BY DEF Pending
  <1>3. IsFiniteSet(Pending(v)) /\ Cardinality(Pending(v)) <= Cardinality(InEdges(v))
    BY <1>1, <1>2, FS_Subset
  <1> QED
    BY <1>1, <1>3, FS_CardinalityType, FS_EmptySet

\* While nothing wraps, an in-degree is the number of edges.
LEMMA DegreeIsCount ==
  ASSUME GraphInv, pc # "panicked", NoWrap, NEW v \in DOMAIN indegrees
  PROVE  indegrees[v] = Cardinality(InEdges(v))
  <1>1. v \in TaskId
    BY DEF GraphInv, GraphTypeOK
  <1>2. Cardinality(InEdges(v)) \in Nat /\ Cardinality(InEdges(v)) < DegMod
    BY <1>1, PendingFacts DEF NoWrap
  <1>3. DegreeOf(v) = Cardinality(InEdges(v)) % DegMod
    BY <1>1 DEF GraphInv, CountInv, DegreeCount
  <1>4. (DegMod * 0 + Cardinality(InEdges(v))) % DegMod = Cardinality(InEdges(v))
    BY <1>2, ArityAssumption, ModUnique
  <1>5. DegMod * 0 + Cardinality(InEdges(v)) = Cardinality(InEdges(v))
    BY <1>2, ArityAssumption
  <1> QED
    BY <1>3, <1>4, <1>5 DEF DegreeOf

-----------------------------------------------------------------------------
(***************************************************************************)
(* Each step of the layering preserves LayerInv.                           *)
(***************************************************************************)
LEMMA BeginLayersStep ==
  ASSUME LayerInv, BeginLayers
  PROVE  LayerInv'
  <1>1. /\ pc = "idle" /\ pc' = "drain" /\ UNCHANGED graphVars
        /\ LocalsReset
    BY DEF BeginLayers, LayerInv, Shape, BuildPcs
  <1>2. GraphInv'
    BY <1>1, GraphFrame DEF LayerInv
  <1>3. Sources \subseteq TaskId /\ IsFiniteSet(Sources)
    <2>1. Sources \subseteq TaskId
      BY DEF Sources, LayerInv, GraphInv, GraphTypeOK
    <2> QED
      BY <2>1, TaskIds, FS_Subset
  <1>4. /\ Len(queue') = Cardinality(Sources)
        /\ queue' \in Seq(TaskId)
        /\ Range(queue') = Sources
        /\ IsInjective(queue')
    <2>1. Cardinality(Sources) \in Nat
      BY <1>3, FS_CardinalityType
    <2>2. queue' \in Bijection(1 .. Cardinality(Sources), Sources)
      BY DEF BeginLayers
    <2>3. /\ queue' \in [1 .. Cardinality(Sources) -> Sources]
          /\ \A a, b \in 1 .. Cardinality(Sources) : queue'[a] = queue'[b] => a = b
          /\ \A s \in Sources : \E a \in 1 .. Cardinality(Sources) : queue'[a] = s
      BY <2>2 DEF Bijection, Injection, Surjection, IsInjective
    <2>4. Range(queue') = Sources
      BY <2>3 DEF Range
    <2>5. IsInjective(queue')
      BY <2>3 DEF IsInjective
    <2> QED
      BY <2>1, <2>3, <2>4, <2>5, <1>3
  <1>5. /\ tmp_indegree' = indegrees
        /\ cur_layer' = <<>> /\ cursor' = 0 /\ next' = 1 /\ layers' = <<>> /\ visited' = 0
        /\ indegrees' = indegrees
    BY <1>1 DEF BeginLayers, LocalsReset, graphVars
  <1>6. LocalTypes'
    BY <1>4, <1>5, MaxVisitsAssumption DEF LayerInv, GraphInv, GraphTypeOK, LocalTypes
  <1>7. Shape' /\ EarliestInv'
    BY <1>1, <1>5 DEF Shape, EarliestInv, BuildPcs, LayerPcs, Range
  <1>8. ASSUME NoWrap'
        PROVE  KahnInv'
    <2>1. AllLayered' = {} /\ Visited' = {}
      BY <1>5 DEF AllLayered, LayerTasks, Visited
    <2>2. Range(cur_layer') = {}
      BY <1>5 DEF Range
    <2>3. NoWrap
      BY <1>1, <1>8, GraphSame
    <2>4. \A e : ~Relaxed(e)'
      BY <2>1, <1>5 DEF Relaxed
    <2>5. \A v : Pending(v)' = InEdges(v)
      BY <2>4, <1>1, GraphSame DEF Pending
    <2>6. CountsPending'
      BY <2>3, <2>5, <1>5, <1>1, DegreeIsCount DEF CountsPending, LayerInv
    <2>7. ZeroScheduled'
      BY <2>1, <2>2, <1>4, <1>5 DEF ZeroScheduled, Scheduled, Sources
    <2>8. ScheduledOnce' /\ LayersRespectEdges' /\ CurLayerReady'
      BY <2>1, <2>2, <1>4, <1>5
      DEF ScheduledOnce, LayersRespectEdges, CurLayerReady, LayersDisjoint, LayerTasks,
          IsInjective
    <2>9. VisitedCount'
      BY <2>1, <1>5, FS_EmptySet DEF VisitedCount
    <2> QED
      BY <2>6, <2>7, <2>8, <2>9 DEF KahnInv
  <1> QED
    BY <1>2, <1>6, <1>7, <1>8 DEF LayerInv

LEMMA DrainQueueStep ==
  ASSUME LayerInv, DrainQueue
  PROVE  LayerInv'
  <1>1. /\ pc = "drain" /\ pc' = "visit" /\ UNCHANGED graphVars
        /\ UNCHANGED <<tmp_indegree, cursor, next, layers, visited>>
        /\ cur_layer' = queue /\ queue' = <<>>
        /\ cur_layer = <<>> /\ cursor = 0 /\ next = 1
        /\ indegrees' = indegrees
    BY DEF DrainQueue, TakeQueue, LayerInv, Shape, LayerPcs, graphVars
  <1>2. GraphInv'
    BY <1>1, GraphFrame DEF LayerInv
  <1>3. LocalTypes'
    BY <1>1 DEF LayerInv, LocalTypes
  <1>4. Shape'
    BY <1>1 DEF LayerInv, Shape, BuildPcs, LayerPcs
  <1>5. /\ AllLayered' = AllLayered
        /\ \A k : LayerTasks(k)' = LayerTasks(k)
        /\ Range(queue') = {} /\ Range(cur_layer) = {} /\ Range(cur_layer') = Range(queue)
    BY <1>1 DEF AllLayered, LayerTasks, Range
  <1>6. EarliestInv'
    <2>1. EarliestInv
      BY <1>1 DEF LayerInv, LayerPcs
    <2>2. \A v, S : Follows(v, S)' <=> Follows(v, S)
      BY <1>1, GraphSame DEF Follows
    <2> QED
      BY <2>1, <2>2, <1>1, <1>5 DEF EarliestInv
  <1>7. ASSUME NoWrap'
        PROVE  KahnInv'
    <2>1. NoWrap /\ KahnInv
      BY <1>1, <1>7, GraphSame DEF LayerInv, LayerPcs
    <2>2. \A e : Relaxed(e)' <=> Relaxed(e)
      BY <1>1, <1>5 DEF Relaxed
    <2>3. \A v : Pending(v)' = Pending(v)
      BY <2>2, <1>1, GraphSame DEF Pending
    <2>4. CountsPending' /\ ZeroScheduled'
      BY <2>1, <2>3, <1>1, <1>5 DEF KahnInv, CountsPending, ZeroScheduled, Scheduled
    <2>5. ScheduledOnce'
      <3>1. LayersDisjoint'
        BY <2>1, <1>1 DEF KahnInv, ScheduledOnce, LayersDisjoint
      <3>2. IsInjective(queue')
        BY <1>1 DEF IsInjective
      <3> QED
        BY <2>1, <3>1, <3>2, <1>1, <1>5 DEF KahnInv, ScheduledOnce
    <2>6. LayersRespectEdges'
      BY <2>1, <1>1, <1>5, GraphSame DEF KahnInv, LayersRespectEdges
    <2>7. CurLayerReady'
      <3> SUFFICES ASSUME NEW v \in Range(queue), NEW u \in TaskId, HasEdge(u, v)
                   PROVE  u \in AllLayered
        BY <1>1, <1>5, GraphSame DEF CurLayerReady
      <3>1. v \in TaskId /\ v \in DOMAIN indegrees /\ tmp_indegree[v] = 0
        BY <2>1, LayerFacts DEF KahnInv, ZeroScheduled, Scheduled, LayerInv
      <3>2. Pending(v) = {}
        BY <3>1, <2>1, <1>1, PendingFacts DEF KahnInv, CountsPending, LayerInv
      <3>3. PICK i \in 1 .. Len(edges[u]) : <<u, i>> \in InEdges(v)
        BY EdgePlaces DEF LayerInv, GraphInv
      <3>4. Relaxed(<<u, i>>)
        BY <3>2, <3>3 DEF Pending
      <3> QED
        BY <3>4, <1>1 DEF Relaxed
    <2>8. VisitedCount'
      <3>1. Visited' = Visited
        BY <1>1, <1>5 DEF Visited
      <3> QED
        BY <3>1, <2>1, <1>1 DEF KahnInv, VisitedCount
    <2> QED
      BY <2>4, <2>5, <2>6, <2>7, <2>8 DEF KahnInv
  <1> QED
    BY <1>2, <1>3, <1>4, <1>6, <1>7 DEF LayerInv

\* When the successors of the current task are done, going on to the next
\* task relaxes nothing by itself.
LEMMA VisitTaskStep ==
  ASSUME LayerInv, VisitTask
  PROVE  LayerInv'
  <1>1. /\ pc = "visit" /\ pc' = "visit" /\ UNCHANGED graphVars
        /\ UNCHANGED <<tmp_indegree, queue, cur_layer, layers>>
        /\ cursor' = cursor + 1 /\ next' = 1 /\ visited' = visited + 1
        /\ cursor < Len(cur_layer) /\ visited < MaxVisits
        /\ indegrees' = indegrees
    BY DEF VisitTask, MoreTasks, graphVars
  <1>2. GraphInv'
    BY <1>1, GraphFrame DEF LayerInv
  <1>t. LocalTypes
    BY DEF LayerInv
  <1>3. LocalTypes'
    BY <1>1, <1>t, MaxVisitsAssumption DEF LocalTypes
  <1>4. Shape'
    BY <1>1 DEF LayerInv, Shape, BuildPcs, LayerPcs
  <1>5. /\ AllLayered' = AllLayered
        /\ \A k : LayerTasks(k)' = LayerTasks(k)
    BY <1>1 DEF AllLayered, LayerTasks
  <1>6. 1 .. cursor' = 1 .. cursor \cup {cursor + 1}
    BY <1>1, <1>t DEF LocalTypes
  <1>7. EarliestInv'
    <2>1. EarliestInv
      BY <1>1 DEF LayerInv, LayerPcs
    <2>2. \A v, S : Follows(v, S)' <=> Follows(v, S)
      BY <1>1, GraphSame DEF Follows
    <2>3. {cur_layer[i] : i \in 1 .. cursor} \subseteq {cur_layer'[i] : i \in 1 .. cursor'}
      BY <1>1, <1>6
    <2>4. \A v \in Range(queue') : Follows(v, {cur_layer[i] : i \in 1 .. cursor})
      BY <2>1, <1>1 DEF EarliestInv
    <2>5. \A v \in Range(queue') : Follows(v, {cur_layer'[i] : i \in 1 .. cursor'})
      BY <2>3, <2>4 DEF Follows
    <2> QED
      BY <2>1, <2>2, <2>5, <1>1, <1>5 DEF EarliestInv
  <1>8. ASSUME NoWrap'
        PROVE  KahnInv'
    <2>1. NoWrap /\ KahnInv
      BY <1>1, <1>8, GraphSame DEF LayerInv, LayerPcs
    <2>2. ASSUME NEW v, NEW e \in InEdges(v)
          PROVE  Relaxed(e)' <=> Relaxed(e)
      <3>1. e[2] \in 1 .. Len(edges[e[1]]) /\ Len(edges[e[1]]) \in Nat
        BY EdgePlaces DEF LayerInv, GraphInv, GraphTypeOK
      <3>2. cursor \in Nat /\ next \in Nat
        BY <1>t DEF LocalTypes
      <3>3. cursor > 0 /\ cur_layer[cursor] = e[1] => e[2] < next
        BY <3>1, <3>2 DEF VisitTask, SuccessorsDone
      <3>4. \A i \in 1 .. cursor : cur_layer[i] = e[1] => i < cursor \/ e[2] < next
        BY <3>2, <3>3
      <3>5. Relaxed(e) <=> e[1] \in AllLayered \/ \E i \in 1 .. cursor : cur_layer[i] = e[1]
        BY <3>4 DEF Relaxed
      <3>6. Relaxed(e)' <=> \/ e[1] \in AllLayered
                            \/ \E i \in 1 .. cursor + 1 : cur_layer[i] = e[1] /\ i < cursor + 1
        BY <1>1, <1>5, <3>1 DEF Relaxed
      <3> QED
        BY <3>2, <3>5, <3>6
    <2>3. \A v : Pending(v)' = Pending(v)
      BY <2>2, <1>1, GraphSame DEF Pending
    <2>4. CountsPending' /\ ZeroScheduled'
      BY <2>1, <2>3, <1>1, <1>5 DEF KahnInv, CountsPending, ZeroScheduled, Scheduled
    <2>5. ScheduledOnce'
      <3>1. LayersDisjoint'
        BY <2>1, <1>1 DEF KahnInv, ScheduledOnce, LayersDisjoint
      <3> QED
        BY <2>1, <3>1, <1>1, <1>5 DEF KahnInv, ScheduledOnce
    <2>6. LayersRespectEdges' /\ CurLayerReady'
      BY <2>1, <1>1, <1>5, GraphSame DEF KahnInv, LayersRespectEdges, CurLayerReady
    <2>7. VisitedCount'
      <3> DEFINE t == cur_layer[cursor + 1]
      <3>1. cursor + 1 \in 1 .. Len(cur_layer) /\ DOMAIN cur_layer = 1 .. Len(cur_layer)
        BY <1>1, <1>t DEF LocalTypes
      <3>2. Visited' = Visited \cup {t}
        BY <1>1, <1>5, <1>6 DEF Visited
      <3>3. t \notin AllLayered
        BY <2>1, <3>1 DEF KahnInv, ScheduledOnce, Range
      <3>4. \A i \in 1 .. cursor : cur_layer[i] # t
        <4> SUFFICES ASSUME NEW i \in 1 .. cursor, cur_layer[i] = t
                     PROVE  FALSE
          OBVIOUS
        <4>1. i \in 1 .. Len(cur_layer) /\ i # cursor + 1
          BY <1>t DEF LocalTypes
        <4> QED
          BY <4>1, <2>1, <3>1 DEF KahnInv, ScheduledOnce, IsInjective
      <3>5. t \notin Visited
        BY <3>3, <3>4 DEF Visited
      <3>6. Cardinality(Visited \cup {t}) = Cardinality(Visited) + 1
        BY <3>5, <1>t, LayerFacts, FS_AddElement
      <3> QED
        BY <3>2, <3>6, <2>1, <1>1 DEF KahnInv, VisitedCount
    <2> QED
      BY <2>4, <2>5, <2>6, <2>7 DEF KahnInv
  <1> QED
    BY <1>2, <1>3, <1>4, <1>7, <1>8 DEF LayerInv

(***************************************************************************)
(* The edge that is relaxed next is one of those to come, and the only one *)
(* that this step takes away; its target is counted, and its count is not  *)
(* zero yet.                                                               *)
(***************************************************************************)
CurEdge == <<cur_layer[cursor], next>>

CurTarget == edges[cur_layer[cursor]][next]

LEMMA CurrentEdge ==
  ASSUME LayerInv, pc = "visit", ~SuccessorsDone
  PROVE  /\ cursor \in 1 .. Len(cur_layer)
         /\ cur_layer[cursor] \in TaskId
         /\ next \in 1 .. Len(edges[cur_layer[cursor]])
         /\ CurEdge \in InEdges(CurTarget)
         /\ HasEdge(cur_layer[cursor], CurTarget)
         /\ CurTarget \in TaskId
         /\ CurTarget \in DOMAIN indegrees
         /\ CurTarget \in DOMAIN tmp_indegree
  <1>1. LocalTypes /\ GraphTypeOK /\ GraphInv /\ Shape
    BY DEF LayerInv, GraphInv
  <1>2. cursor \in 1 .. Len(cur_layer) /\ cur_layer[cursor] \in TaskId
    BY <1>1 DEF SuccessorsDone, LocalTypes
  <1>3. edges[cur_layer[cursor]] \in Seq(TaskId)
    BY <1>1, <1>2 DEF GraphTypeOK
  <1>4. next \in 1 .. Len(edges[cur_layer[cursor]])
    BY <1>1, <1>2, <1>3 DEF SuccessorsDone, LocalTypes
  <1>5. CurEdge \in InEdges(CurTarget)
    BY <1>1, <1>2, <1>4, EdgePlaces DEF CurEdge, CurTarget
  <1>6. HasEdge(cur_layer[cursor], CurTarget)
    BY <1>3, <1>4 DEF HasEdge, CurTarget
  <1>7. CurTarget \in DOMAIN indegrees /\ CurTarget \in TaskId
    BY <1>1, <1>2, <1>3, <1>4 DEF GraphInv, EntriesPresent, CurTarget
  <1>8. DOMAIN tmp_indegree = DOMAIN indegrees
    BY <1>1 DEF Shape, LayerPcs
  <1> QED
    BY <1>2, <1>4, <1>5, <1>6, <1>7, <1>8

LEMMA CurrentPending ==
  ASSUME LayerInv, pc = "visit", ~SuccessorsDone, NoWrap
  PROVE  /\ CurEdge \in Pending(CurTarget)
         /\ tmp_indegree[CurTarget] \in 1 .. DegMod - 1
         /\ CurTarget \notin Scheduled
  <1>1. KahnInv /\ LocalTypes
    BY DEF LayerInv, LayerPcs
  <1>2. ~Relaxed(CurEdge)
    <2>1. cur_layer[cursor] \notin AllLayered
      BY <1>1, CurrentEdge DEF KahnInv, ScheduledOnce, LocalTypes, Range
    <2>2. ASSUME NEW i \in 1 .. cursor, cur_layer[i] = cur_layer[cursor]
          PROVE  i = cursor
      <3>1. i \in DOMAIN cur_layer /\ cursor \in DOMAIN cur_layer
        BY <1>1 DEF LocalTypes
      <3> QED
        BY <3>1, <2>2, <1>1 DEF KahnInv, ScheduledOnce, IsInjective
    <2>3. CurEdge[1] = cur_layer[cursor] /\ CurEdge[2] = next
      BY DEF CurEdge
    <2>4. ~(next < next) /\ ~(cursor < cursor)
      BY <1>1 DEF LocalTypes
    <2> QED
      BY <2>1, <2>2, <2>3, <2>4 DEF Relaxed
  <1>3. CurEdge \in Pending(CurTarget)
    BY <1>2, CurrentEdge DEF Pending
  <1>4. tmp_indegree[CurTarget] = Cardinality(Pending(CurTarget))
    BY <1>1, CurrentEdge DEF KahnInv, CountsPending
  <1>5. Cardinality(Pending(CurTarget)) \in Nat \ {0}
    BY <1>3, CurrentEdge, PendingFacts DEF LayerInv
  <1>6. tmp_indegree[CurTarget] \in 0 .. DegMod - 1
    BY <1>1, CurrentEdge DEF LocalTypes
  <1>7. CurTarget \notin Scheduled
    BY <1>1, <1>4, <1>5 DEF KahnInv, ZeroScheduled
  <1> QED
    BY <1>3, <1>4, <1>5, <1>6, <1>7, ArityAssumption

\* Counting down does not panic: there is a count, and where zero would
\* panic it is not zero, for with overflow checks no in-degree wrapped.
LEMMA RelaxSafe ==
  ASSUME LayerInv, pc = "visit", ~SuccessorsDone
  PROVE  ~RelaxPanics(CurTarget)
  <1>1. CurTarget \in DOMAIN tmp_indegree
    BY CurrentEdge
  <1>2. ASSUME OverflowChecks
        PROVE  tmp_indegree[CurTarget] # 0
    <2>1. NoWrap
      BY <1>2 DEF LayerInv, GraphInv, CheckedNoWrap
    <2> QED
      BY <2>1, CurrentPending, ArityAssumption
  <1> QED
    BY <1>1, <1>2 DEF RelaxPanics

LEMMA RelaxSuccessorStep ==
  ASSUME LayerInv, RelaxSuccessor
  PROVE  LayerInv'
  <1> DEFINE deg == (tmp_indegree[CurTarget] + DegMod - 1) % DegMod
  <1>0. pc = "visit" /\ ~SuccessorsDone
    BY DEF RelaxSuccessor
  <1>1. /\ pc' = "visit" /\ UNCHANGED graphVars
        /\ UNCHANGED <<cur_layer, cursor, layers, visited>>
        /\ tmp_indegree' = [tmp_indegree EXCEPT ![CurTarget] = deg]
        /\ queue' = IF deg = 0 THEN Append(queue, CurTarget) ELSE queue
        /\ next' = next + 1
        /\ indegrees' = indegrees
    BY <1>0, RelaxSafe DEF RelaxSuccessor, CurTarget, CountedDown, graphVars
  <1>2. GraphInv'
    BY <1>0, <1>1, GraphFrame DEF LayerInv
  <1>t. LocalTypes /\ Shape /\ EarliestInv
    BY <1>0 DEF LayerInv, LayerPcs
  <1>c. /\ CurTarget \in TaskId /\ CurTarget \in DOMAIN tmp_indegree
        /\ cursor \in 1 .. Len(cur_layer)
        /\ HasEdge(cur_layer[cursor], CurTarget)
    BY <1>0, CurrentEdge DEF LayerInv
  <1>d. deg \in 0 .. DegMod - 1
    <2>1. tmp_indegree[CurTarget] \in 0 .. DegMod - 1
      BY <1>t, <1>c DEF LocalTypes
    <2>2. tmp_indegree[CurTarget] + DegMod - 1 \in Nat /\ DegMod \in Nat \ {0}
      BY <2>1, ArityAssumption
    <2> QED
      BY <2>2, DivMod
  <1> HIDE DEF deg
  <1>3. LocalTypes'
    <2>1. DOMAIN tmp_indegree' = DOMAIN tmp_indegree
      BY <1>1
    <2>2. \A v \in DOMAIN tmp_indegree' : tmp_indegree'[v] \in 0 .. DegMod - 1
      BY <1>1, <1>t, <1>d DEF LocalTypes
    <2>3. queue' \in Seq(TaskId)
      BY <1>1, <1>t, <1>c DEF LocalTypes
    <2> QED
      BY <2>1, <2>2, <2>3, <1>1, <1>t DEF LocalTypes
  <1>4. Shape'
    BY <1>0, <1>1, <1>t DEF Shape, BuildPcs, LayerPcs
  <1>5. /\ AllLayered' = AllLayered
        /\ \A k : LayerTasks(k)' = LayerTasks(k)
        /\ Range(queue') = IF deg = 0 THEN Range(queue) \cup {CurTarget} ELSE Range(queue)
    <2>1. AllLayered' = AllLayered /\ \A k : LayerTasks(k)' = LayerTasks(k)
      BY <1>1 DEF AllLayered, LayerTasks
    <2>2. queue \in Seq(TaskId)
      BY <1>t DEF LocalTypes
    <2>3. Range(Append(queue, CurTarget)) = Range(queue) \cup {CurTarget}
      BY <2>2, <1>c, AppendRange
    <2> QED
      BY <2>1, <2>3, <1>1
  <1>6. EarliestInv'
    <2>1. \A v, S : Follows(v, S)' <=> Follows(v, S)
      BY <1>1, GraphSame DEF Follows
    <2>2. Follows(CurTarget, {cur_layer[i] : i \in 1 .. cursor})
      BY <1>c DEF Follows
    <2>3. \A v \in Range(queue') : Follows(v, {cur_layer[i] : i \in 1 .. cursor})
      BY <2>2, <1>0, <1>5, <1>t DEF EarliestInv
    <2> QED
      BY <2>1, <2>3, <1>0, <1>1, <1>5, <1>t DEF EarliestInv
  <1>7. ASSUME NoWrap'
        PROVE  KahnInv'
    <2>1. NoWrap /\ KahnInv
      BY <1>0, <1>1, <1>7, GraphSame DEF LayerInv, LayerPcs
    <2>2. /\ CurEdge \in Pending(CurTarget)
          /\ tmp_indegree[CurTarget] \in 1 .. DegMod - 1
          /\ CurTarget \notin Scheduled
      BY <2>1, <1>0, CurrentPending
    <2>3. deg = tmp_indegree[CurTarget] - 1
      <3> DEFINE c == tmp_indegree[CurTarget]
      <3>1. c - 1 \in 0 .. DegMod - 1 /\ DegMod \in Nat \ {0}
        BY <2>2, ArityAssumption
      <3>2. (DegMod * 1 + (c - 1)) % DegMod = c - 1
        BY <3>1, ModUnique
      <3>3. DegMod * 1 + (c - 1) = c + DegMod - 1
        BY <2>2, <3>1
      <3> QED
        BY <3>2, <3>3 DEF deg
    <2>4. ASSUME NEW v, NEW e \in InEdges(v)
          PROVE  Relaxed(e)' <=> Relaxed(e) \/ e = CurEdge
      <3>1. e = <<e[1], e[2]>> /\ e[2] \in Nat /\ next \in Nat /\ cursor \in Nat
        BY EdgePlaces, <1>t DEF LayerInv, GraphInv, GraphTypeOK, LocalTypes
      <3>2. e = CurEdge <=> e[1] = cur_layer[cursor] /\ e[2] = next
        BY <3>1 DEF CurEdge
      <3>3. Relaxed(e)' <=> \/ e[1] \in AllLayered
                            \/ \E i \in 1 .. cursor :
                                 cur_layer[i] = e[1] /\ (i < cursor \/ e[2] < next + 1)
        BY <1>1, <1>5 DEF Relaxed
      <3>4. ASSUME NEW i \in 1 .. cursor
            PROVE  (i < cursor \/ e[2] < next + 1)
                     <=> (i < cursor \/ e[2] < next) \/ (i = cursor /\ e[2] = next)
        BY <3>1
      <3>5. Relaxed(e)' <=> Relaxed(e) \/ \E i \in 1 .. cursor :
                                            cur_layer[i] = e[1] /\ i = cursor /\ e[2] = next
        BY <3>3, <3>4 DEF Relaxed
      <3>6. cursor \in 1 .. cursor
        BY <1>c, <3>1
      <3> QED
        BY <3>2, <3>5, <3>6
    <2>5. \A v : Pending(v)' = Pending(v) \ {CurEdge}
      BY <2>4, <1>1, GraphSame DEF Pending
    <2>6. \A v : v # CurTarget => CurEdge \notin Pending(v)
      BY DEF Pending, InEdges, CurEdge, CurTarget
    <2>7. CountsPending'
      <3> SUFFICES ASSUME NEW v \in DOMAIN indegrees
                   PROVE  tmp_indegree'[v] = Cardinality(Pending(v)')
        BY <1>1 DEF CountsPending
      <3>1. tmp_indegree[v] = Cardinality(Pending(v)) /\ v \in DOMAIN tmp_indegree
        BY <2>1, <1>0, <1>t DEF KahnInv, CountsPending, Shape, LayerPcs
      <3>2. CASE v = CurTarget
        <4>1. IsFiniteSet(Pending(v))
          BY <3>2, <1>c, <1>0, PendingFacts DEF LayerInv
        <4>2. Cardinality(Pending(v) \ {CurEdge}) = Cardinality(Pending(v)) - 1
          BY <4>1, <2>2, <3>2, FS_RemoveElement
        <4> QED
          BY <4>2, <3>1, <3>2, <2>3, <2>5, <1>1
      <3>3. CASE v # CurTarget
        BY <3>1, <3>3, <2>5, <2>6, <1>1
      <3> QED
        BY <3>2, <3>3
    <2>8. ZeroScheduled'
      <3>1. Scheduled' = IF deg = 0 THEN Scheduled \cup {CurTarget} ELSE Scheduled
        BY <1>1, <1>5 DEF Scheduled
      <3>2. Scheduled = {v \in DOMAIN indegrees : tmp_indegree[v] = 0}
        BY <2>1 DEF KahnInv, ZeroScheduled
      <3>3. \A v \in DOMAIN indegrees :
              tmp_indegree'[v] = IF v = CurTarget THEN deg ELSE tmp_indegree[v]
        BY <1>0, <1>1, <1>t DEF Shape, LayerPcs
      <3>4. CurTarget \in DOMAIN indegrees
        BY <1>0, CurrentEdge
      <3>5. Scheduled' = {v \in DOMAIN indegrees : tmp_indegree'[v] = 0}
        BY <3>1, <3>2, <3>3, <3>4, <2>2
      <3> QED
        BY <3>5, <1>1 DEF ZeroScheduled
    <2>9. ScheduledOnce'
      <3>1. LayersDisjoint'
        BY <2>1, <1>1 DEF KahnInv, ScheduledOnce, LayersDisjoint
      <3>2. IsInjective(queue')
        <4>1. queue \in Seq(TaskId) /\ IsInjective(queue)
          BY <2>1, <1>t DEF KahnInv, ScheduledOnce, LocalTypes
        <4>2. \A i \in DOMAIN queue : queue[i] # CurTarget
          BY <2>2 DEF Scheduled, Range
        <4>3. IsInjective(Append(queue, CurTarget))
          BY <4>1, <4>2 DEF IsInjective
        <4> QED
          BY <4>1, <4>3, <1>1
      <3> QED
        BY <2>1, <2>2, <3>1, <3>2, <1>1, <1>5 DEF KahnInv, ScheduledOnce, Scheduled
    <2>10. LayersRespectEdges' /\ CurLayerReady'
      BY <2>1, <1>1, <1>5, GraphSame DEF KahnInv, LayersRespectEdges, CurLayerReady
    <2>11. VisitedCount'
      <3>1. Visited' = Visited
        BY <1>1, <1>5 DEF Visited
      <3> QED
        BY <3>1, <2>1, <1>1 DEF KahnInv, VisitedCount
    <2> QED
      BY <2>7, <2>8, <2>9, <2>10, <2>11 DEF KahnInv
  <1> QED
    BY <1>2, <1>3, <1>4, <1>6, <1>7 DEF LayerInv

(***************************************************************************)
(* A layer is pushed when all its tasks were visited and all their edges   *)
(* relaxed: in the layers they stay relaxed.                               *)
(***************************************************************************)
LEMMA PushLayerStep ==
  ASSUME LayerInv, PushLayer
  PROVE  LayerInv'
  <1>1. /\ pc = "visit" /\ pc' = "drain" /\ UNCHANGED graphVars
        /\ UNCHANGED <<tmp_indegree, queue, visited>>
        /\ layers' = Append(layers, cur_layer)
        /\ cur_layer' = <<>> /\ cursor' = 0 /\ next' = 1
        /\ cursor = Len(cur_layer)
        /\ indegrees' = indegrees
    BY DEF PushLayer, graphVars
  <1>2. GraphInv'
    BY <1>1, GraphFrame DEF LayerInv
  <1>t. LocalTypes /\ EarliestInv
    BY <1>1 DEF LayerInv, LayerPcs
  <1>3. LocalTypes'
    BY <1>1, <1>t DEF LocalTypes
  <1>4. Shape'
    BY <1>1 DEF LayerInv, Shape, BuildPcs, LayerPcs
  <1>n. PICK n : n = Len(layers) + 1
    OBVIOUS
  <1>5. /\ n \in Nat \ {0} /\ DOMAIN layers = 1 .. n - 1 /\ DOMAIN layers' = 1 .. n
        /\ \A k \in 1 .. n - 1 : layers'[k] = layers[k]
        /\ layers'[n] = cur_layer /\ Len(layers') = n
    BY <1>1, <1>t, <1>n DEF LocalTypes
  <1>6. /\ \A k \in 1 .. n - 1 : LayerTasks(k)' = LayerTasks(k)
        /\ LayerTasks(n)' = Range(cur_layer)
    BY <1>5 DEF LayerTasks, Range
  <1>7. AllLayered' = AllLayered \cup Range(cur_layer)
    <2>1. DOMAIN layers' = DOMAIN layers \cup {n}
      BY <1>5
    <2> QED
      BY <2>1, <1>5, <1>6 DEF AllLayered
  <1>8. Range(cur_layer) = {cur_layer[i] : i \in 1 .. cursor} /\ Range(cur_layer') = {}
    BY <1>1, <1>t, LayerFacts DEF Range
  <1>10. EarliestInv'
    <2>1. ASSUME NEW k \in DOMAIN layers' \ {1}, NEW v \in LayerTasks(k)'
          PROVE  Follows(v, LayerTasks(k - 1))'
      <3>1. CASE k = n
        <4>1. k - 1 \in 1 .. n - 1 /\ layers # <<>> /\ Len(layers) = k - 1
          BY <3>1, <1>5, <1>t DEF LocalTypes
        <4>2. Follows(v, LayerTasks(k - 1))
          BY <4>1, <2>1, <3>1, <1>6, <1>t DEF EarliestInv
        <4> QED
          BY <4>1, <4>2, <1>1, <1>6, GraphSame DEF Follows
      <3>2. CASE k # n
        <4>1. k \in 1 .. n - 1 /\ k - 1 \in 1 .. n - 1
          BY <3>2, <2>1, <1>5
        <4>2. Follows(v, LayerTasks(k - 1))
          BY <4>1, <2>1, <1>5, <1>6, <1>t DEF EarliestInv
        <4> QED
          BY <4>1, <4>2, <1>1, <1>6, GraphSame DEF Follows
      <3> QED
        BY <3>1, <3>2
    <2>2. \A v \in Range(queue') : Follows(v, LayerTasks(n))'
      BY <1>1, <1>6, <1>8, <1>t, GraphSame DEF EarliestInv, Follows
    <2> QED
      BY <2>1, <2>2, <1>1, <1>5, <1>8 DEF EarliestInv
  <1>11. ASSUME NoWrap'
         PROVE  KahnInv'
    <2>1. NoWrap /\ KahnInv
      BY <1>1, <1>11, GraphSame DEF LayerInv, LayerPcs
    <2>2. ASSUME NEW v, NEW e \in InEdges(v)
          PROVE  Relaxed(e)' <=> Relaxed(e)
      <3>1. e[2] \in 1 .. Len(edges[e[1]]) /\ Len(edges[e[1]]) \in Nat
        BY EdgePlaces DEF LayerInv, GraphInv, GraphTypeOK
      <3>2. cursor \in Nat /\ next \in Nat
        BY <1>t DEF LocalTypes
      <3>3. \A i \in 1 .. cursor : cur_layer[i] = e[1] => i < cursor \/ e[2] < next
        BY <3>1, <3>2 DEF PushLayer, SuccessorsDone
      <3>4. Relaxed(e) <=> e[1] \in AllLayered \/ \E i \in 1 .. cursor : cur_layer[i] = e[1]
        BY <3>3 DEF Relaxed
      <3>5. Relaxed(e)' <=> e[1] \in AllLayered'
        BY <1>1 DEF Relaxed
      <3> QED
        BY <3>4, <3>5, <1>7, <1>8
    <2>3. \A v : Pending(v)' = Pending(v)
      BY <2>2, <1>1, GraphSame DEF Pending
    <2>4. CountsPending'
      BY <2>1, <2>3, <1>1 DEF KahnInv, CountsPending
    <2>5. ZeroScheduled'
      <3>1. Scheduled' = Scheduled
        BY <1>1, <1>7, <1>8 DEF Scheduled
      <3> QED
        BY <3>1, <2>1, <1>1 DEF KahnInv, ZeroScheduled
    <2>6. ScheduledOnce'
      <3>1. LayersDisjoint'
        <4> SUFFICES ASSUME NEW k \in 1 .. n, NEW l \in 1 .. n,
                            NEW i \in DOMAIN layers'[k], NEW j \in DOMAIN layers'[l],
                            layers'[k][i] = layers'[l][j]
                     PROVE  k = l /\ i = j
          BY <1>5 DEF LayersDisjoint
        <4>1. ASSUME NEW m \in 1 .. n - 1, NEW a \in DOMAIN layers'[m]
              PROVE  layers'[m][a] \in AllLayered
          BY <4>1, <1>5 DEF AllLayered, LayerTasks
        <4>2. \A a \in DOMAIN layers'[n] : layers'[n][a] \in Range(cur_layer)
          BY <1>5 DEF Range
        <4>3. AllLayered \cap Range(cur_layer) = {}
          BY <2>1 DEF KahnInv, ScheduledOnce
        <4>4. CASE k = n /\ l = n
          BY <4>4, <2>1, <1>5 DEF KahnInv, ScheduledOnce, IsInjective
        <4>5. CASE k # n /\ l # n
          <5>1. k \in DOMAIN layers /\ l \in DOMAIN layers
            BY <4>5, <1>5
          <5> QED
            BY <5>1, <2>1, <1>5 DEF KahnInv, ScheduledOnce, LayersDisjoint
        <4>6. CASE k # n /\ l = n
          BY <4>1, <4>2, <4>3, <4>6, <1>5
        <4>7. CASE k = n /\ l # n
          BY <4>1, <4>2, <4>3, <4>7, <1>5
        <4> QED
          BY <4>4, <4>5, <4>6, <4>7
      <3>2. IsInjective(cur_layer')
        BY <1>1 DEF IsInjective
      <3> QED
        BY <3>1, <3>2, <2>1, <1>1, <1>7, <1>8 DEF KahnInv, ScheduledOnce
    <2>7. LayersRespectEdges'
      <3> SUFFICES ASSUME NEW k \in 1 .. n, NEW v \in LayerTasks(k)', NEW u \in TaskId,
                          HasEdge(u, v)
                   PROVE  \E j \in 1 .. k - 1 : u \in LayerTasks(j)'
        BY <1>5, <1>1, GraphSame DEF LayersRespectEdges
      <3>1. CASE k = n
        <4>1. u \in AllLayered
          BY <3>1, <2>1, <1>6 DEF KahnInv, CurLayerReady
        <4>2. PICK j \in 1 .. n - 1 : u \in LayerTasks(j)
          BY <4>1, <1>5 DEF AllLayered
        <4> QED
          BY <3>1, <4>2, <1>6
      <3>2. CASE k # n
        <4>1. k \in 1 .. n - 1
          BY <3>2, <1>5
        <4>2. PICK j \in 1 .. k - 1 : u \in LayerTasks(j)
          BY <4>1, <2>1, <1>5, <1>6 DEF KahnInv, LayersRespectEdges
        <4> QED
          BY <4>1, <4>2, <1>5, <1>6
      <3> QED
        BY <3>1, <3>2
    <2>8. CurLayerReady'
      BY <1>8 DEF CurLayerReady
    <2>9. VisitedCount'
      <3>1. Visited' = Visited
        BY <1>1, <1>7, <1>8 DEF Visited
      <3> QED
        BY <3>1, <2>1, <1>1 DEF KahnInv, VisitedCount
    <2> QED
      BY <2>4, <2>5, <2>6, <2>7, <2>8, <2>9 DEF KahnInv
  <1> QED
    BY <1>2, <1>3, <1>4, <1>10, <1>11 DEF LayerInv

LEMMA FinishLayersStep ==
  ASSUME LayerInv, FinishLayers
  PROVE  LayerInv'
  <1>1. /\ pc = "drain" /\ pc' \in {"layered", "cyclic"} /\ UNCHANGED graphVars
        /\ UNCHANGED <<tmp_indegree, queue, cur_layer, cursor, next, layers, visited>>
        /\ queue = <<>> /\ (pc' = "layered" <=> visited = numTasks)
        /\ indegrees' = indegrees /\ numTasks' = numTasks
    BY DEF FinishLayers, AllVisited, graphVars, localVars
  <1>2. GraphInv'
    BY <1>1, GraphFrame DEF LayerInv
  <1>3. LocalTypes' /\ Shape'
    BY <1>1 DEF LayerInv, LocalTypes, Shape, BuildPcs, LayerPcs
  <1>4. AllLayered' = AllLayered /\ \A k : LayerTasks(k)' = LayerTasks(k)
    BY <1>1 DEF AllLayered, LayerTasks
  <1>5. EarliestInv'
    <2>1. EarliestInv
      BY <1>1 DEF LayerInv, LayerPcs
    <2> QED
      BY <2>1, <1>1, <1>4, GraphSame DEF EarliestInv, Follows
  <1>6. ASSUME NoWrap'
        PROVE  KahnInv'
    <2>1. NoWrap /\ KahnInv
      BY <1>1, <1>6, GraphSame DEF LayerInv, LayerPcs
    <2>2. \A e : Relaxed(e)' <=> Relaxed(e)
      BY <1>1, <1>4 DEF Relaxed
    <2>3. \A v : Pending(v)' = Pending(v)
      BY <2>2, <1>1, GraphSame DEF Pending
    <2>4. CountsPending' /\ ZeroScheduled'
      BY <2>1, <2>3, <1>1, <1>4 DEF KahnInv, CountsPending, ZeroScheduled, Scheduled
    <2>5. ScheduledOnce'
      <3>1. LayersDisjoint'
        BY <2>1, <1>1 DEF KahnInv, ScheduledOnce, LayersDisjoint
      <3> QED
        BY <2>1, <3>1, <1>1, <1>4 DEF KahnInv, ScheduledOnce
    <2>6. LayersRespectEdges' /\ CurLayerReady'
      BY <2>1, <1>1, <1>4, GraphSame DEF KahnInv, LayersRespectEdges, CurLayerReady
    <2>7. VisitedCount'
      <3>1. Visited' = Visited
        BY <1>1, <1>4 DEF Visited
      <3> QED
        BY <3>1, <2>1, <1>1 DEF KahnInv, VisitedCount
    <2> QED
      BY <2>4, <2>5, <2>6, <2>7 DEF KahnInv
  <1> QED
    BY <1>2, <1>3, <1>5, <1>6 DEF LayerInv

LEMMA LayerStepInv ==
  ASSUME LayerInv, LayerStep
  PROVE  LayerInv' /\ pc \in LayerPcs /\ pc' \in LayerPcs
  <1>1. LayerInv'
    BY DrainQueueStep, VisitTaskStep, RelaxSuccessorStep, PushLayerStep, FinishLayersStep
    DEF LayerStep
  <1>2. pc \in LayerPcs /\ pc' \in LayerPcs
    <2>1. CASE RelaxSuccessor
      BY <2>1, RelaxSafe DEF RelaxSuccessor, CurTarget, LayerPcs
    <2> QED
      BY <2>1 DEF LayerStep, DrainQueue, VisitTask, PushLayer, FinishLayers, LayerPcs
  <1> QED
    BY <1>1, <1>2

\* The locals at rest satisfy what LayerInv says of them.
LEMMA RestInv ==
  ASSUME GraphInv, LocalsReset, pc \notin LayerPcs
  PROVE  LayerInv
  <1>1. LocalTypes
    BY MaxVisitsAssumption DEF LocalsReset, LocalTypes
  <1>2. Shape
    BY DEF Shape, LayerPcs
  <1> QED
    BY <1>1, <1>2 DEF LayerInv

LEMMA BuildStepInv ==
  ASSUME LayerInv, BuildNext, UNCHANGED localVars
  PROVE  LayerInv' /\ pc \in BuildPcs /\ pc' \in BuildPcs
  <1>1. pc \in BuildPcs
    BY BuildPc DEF BuildPcs
  <1>2. GraphInv' /\ pc' \in BuildPcs
    BY GraphStep DEF LayerInv, GraphPcs, BuildPcs
  <1>3. LocalsReset'
    BY <1>1 DEF LayerInv, Shape, LocalsReset, localVars
  <1>4. pc' \notin LayerPcs
    BY <1>2 DEF BuildPcs, LayerPcs
  <1>5. LayerInv'
    <2>1. LocalTypes'
      BY <1>3, MaxVisitsAssumption DEF LocalsReset, LocalTypes
    <2>2. Shape'
      BY <1>3, <1>4 DEF Shape, LayerPcs
    <2> QED
      BY <1>2, <1>4, <2>1, <2>2 DEF LayerInv
  <1> QED
    BY <1>1, <1>2, <1>5

LEMMA TakeResultStep ==
  ASSUME LayerInv, TakeResult
  PROVE  LayerInv' /\ pc' = "idle"
  <1>1. pc \in {"layered", "cyclic"} /\ pc' = "idle" /\ UNCHANGED graphVars /\ LocalsReset'
    BY DEF TakeResult, ResetLocals, LocalsReset
  <1>2. GraphInv'
    BY <1>1, GraphFrame DEF LayerInv
  <1>3. LocalTypes'
    BY <1>1, MaxVisitsAssumption DEF LocalsReset, LocalTypes
  <1>4. Shape' /\ pc' \notin LayerPcs
    BY <1>1 DEF Shape, LayerPcs
  <1> QED
    BY <1>1, <1>2, <1>3, <1>4 DEF LayerInv

\* A step that touches neither the graph nor the locals.
LEMMA LayerSame ==
  ASSUME LayerInv, UNCHANGED topoVars
  PROVE  LayerInv'
  <1>1. /\ UNCHANGED graphVars /\ pc' = pc
        /\ UNCHANGED <<tmp_indegree, queue, cur_layer, cursor, next, layers, visited>>
        /\ indegrees' = indegrees /\ numTasks' = numTasks
    BY DEF topoVars, localVars, graphVars
  <1>2. GraphInv'
    BY <1>1, GraphFrame DEF LayerInv
  <1>3. LocalTypes' /\ Shape'
    BY <1>1 DEF LayerInv, LocalTypes, Shape, LocalsReset
  <1>4. AllLayered' = AllLayered /\ \A k : LayerTasks(k)' = LayerTasks(k)
    BY <1>1 DEF AllLayered, LayerTasks
  <1>5. pc \in LayerPcs => EarliestInv'
    BY <1>1, <1>4, GraphSame DEF LayerInv, EarliestInv, Follows
  <1>6. ASSUME pc \in LayerPcs, NoWrap'
        PROVE  KahnInv'
    <2>1. NoWrap /\ KahnInv
      BY <1>1, <1>6, GraphSame DEF LayerInv
    <2>2. \A e : Relaxed(e)' <=> Relaxed(e)
      BY <1>1, <1>4 DEF Relaxed
    <2>3. \A v : Pending(v)' = Pending(v)
      BY <2>2, <1>1, GraphSame DEF Pending
    <2>4. CountsPending' /\ ZeroScheduled'
      BY <2>1, <2>3, <1>1, <1>4 DEF KahnInv, CountsPending, ZeroScheduled, Scheduled
    <2>5. ScheduledOnce'
      BY <2>1, <1>1, <1>4 DEF KahnInv, ScheduledOnce, LayersDisjoint
    <2>6. LayersRespectEdges' /\ CurLayerReady'
      BY <2>1, <1>1, <1>4, GraphSame DEF KahnInv, LayersRespectEdges, CurLayerReady
    <2>7. Visited' = Visited
      BY <1>1, <1>4 DEF Visited
    <2> QED
      BY <2>1, <2>4, <2>5, <2>6, <2>7, <1>1 DEF KahnInv, VisitedCount
  <1> QED
    BY <1>1, <1>2, <1>3, <1>5, <1>6 DEF LayerInv

LEMMA TopoInvStart == TopoInit => TopoInv
  <1> SUFFICES ASSUME TopoInit
               PROVE  TopoInv
    OBVIOUS
  <1>1. GraphInv /\ LocalsReset /\ pc = "idle"
    BY GraphStart DEF TopoInit, GraphInit
  <1>2. LayerInv
    BY <1>1, RestInv DEF LayerPcs
  <1> QED
    BY <1>1, <1>2 DEF TopoInv, BuildPcs

LEMMA TopoInvStep == TopoInv /\ [TopoNext]_topoVars => TopoInv'
  <1> SUFFICES ASSUME TopoInv, [TopoNext]_topoVars
               PROVE  TopoInv'
    OBVIOUS
  <1>1. CASE BuildNext /\ UNCHANGED localVars
    BY <1>1, BuildStepInv DEF TopoInv
  <1>2. CASE BeginLayers
    BY <1>2, BeginLayersStep DEF TopoInv, BeginLayers, LayerPcs
  <1>3. CASE LayerStep
    BY <1>3, LayerStepInv DEF TopoInv
  <1>4. CASE TakeResult
    BY <1>4, TakeResultStep DEF TopoInv, BuildPcs
  <1>5. CASE UNCHANGED topoVars
    BY <1>5, LayerSame DEF TopoInv, topoVars
  <1> QED
    BY <1>1, <1>2, <1>3, <1>4, <1>5 DEF TopoNext

-----------------------------------------------------------------------------
(***************************************************************************)
(* What follows from the invariant.                                        *)
(***************************************************************************)

\* The number of committed tasks.
LEMMA CommittedCount ==
  ASSUME GraphTypeOK
  PROVE  /\ Committed \subseteq TaskId
         /\ IsFiniteSet(Committed)
         /\ Cardinality(Committed) = numTasks
  <1>1. numTasks \in 0 .. MaxTasks /\ numTasks \in Nat
    BY BoundsAssumption DEF GraphTypeOK
  <1>2. Committed \subseteq TaskId
    BY <1>1, CommittedIds
  <1>3. IsFiniteSet(0 .. numTasks - 1)
    BY <1>1, FS_Interval
  <1>4. Cardinality(0 .. numTasks - 1) = IF 0 > numTasks - 1 THEN 0 ELSE numTasks - 1 - 0 + 1
    BY <1>1, FS_Interval
  <1> QED
    BY <1>1, <1>2, <1>3, <1>4 DEF Committed

\* Nothing but tasks has an entry when all edges join tasks.
LEMMA EntriesAreTasks ==
  ASSUME GraphInv, EdgesCommitted
  PROVE  DOMAIN indegrees = Committed
  <1>1. ASSUME NEW v \in DOMAIN indegrees
        PROVE  v \in Committed
    <2>1. v \in TaskId
      BY DEF GraphInv, GraphTypeOK
    <2> QED
      BY <2>1 DEF GraphInv, EntriesTight, EdgesCommitted
  <1> QED
    BY <1>1 DEF GraphInv, EntriesPresent

\* At the end the layers hold the tasks whose count is zero, and `visited`
\* is the number of tasks in the layers.
LEMMA AtTheEnd ==
  ASSUME LayerInv, pc \in {"layered", "cyclic"}, NoWrap
  PROVE  /\ KahnInv
         /\ AllLayered = {v \in DOMAIN indegrees : tmp_indegree[v] = 0}
         /\ \A v \in DOMAIN indegrees : tmp_indegree[v] = Cardinality(Pending(v))
         /\ \A e : Relaxed(e) <=> e[1] \in AllLayered
         /\ visited = Cardinality(AllLayered)
  <1>1. KahnInv /\ cur_layer = <<>> /\ queue = <<>> /\ cursor = 0
    BY DEF LayerInv, Shape, LayerPcs
  <1>2. Range(cur_layer) = {} /\ Range(queue) = {}
    BY <1>1 DEF Range
  <1>3. Visited = AllLayered /\ Scheduled = AllLayered
    BY <1>1, <1>2 DEF Visited, Scheduled
  <1>4. \A e : Relaxed(e) <=> e[1] \in AllLayered
    BY <1>1 DEF Relaxed
  <1> QED
    BY <1>1, <1>3, <1>4 DEF KahnInv, ZeroScheduled, CountsPending, VisitedCount

\* What was not layered is held back by an edge from what was not layered.
LEMMA CyclicRight ==
  ASSUME LayerInv, pc = "cyclic", NoWrap, EdgesCommitted
  PROVE  Cyclic
  <1> DEFINE S == Committed \ AllLayered
  <1>1. /\ AllLayered = {v \in Committed : tmp_indegree[v] = 0}
        /\ \A v \in Committed : tmp_indegree[v] = Cardinality(Pending(v))
        /\ \A e : Relaxed(e) <=> e[1] \in AllLayered
        /\ visited = Cardinality(AllLayered) /\ visited # numTasks
    BY AtTheEnd, EntriesAreTasks DEF LayerInv, Shape, LayerPcs
  <1>2. Committed \subseteq TaskId /\ Cardinality(Committed) = numTasks
    BY CommittedCount DEF LayerInv, GraphInv
  <1>3. S # {} /\ S \subseteq TaskId
    BY <1>1, <1>2
  <1>4. ASSUME NEW v \in S
        PROVE  \E u \in S : HasEdge(u, v)
    <2>1. v \in TaskId /\ tmp_indegree[v] # 0 /\ tmp_indegree[v] = Cardinality(Pending(v))
      BY <1>1, <1>2
    <2>2. Pending(v) # {}
      BY <2>1, PendingFacts DEF LayerInv
    <2>3. PICK e \in InEdges(v) : ~Relaxed(e)
      BY <2>2 DEF Pending
    <2>4. e[1] \in TaskId /\ HasEdge(e[1], v) /\ e[1] \notin AllLayered
      BY <2>3, <1>1, EdgePlaces DEF LayerInv, GraphInv
    <2>5. e[1] \in Committed
      BY <2>1, <2>4 DEF EdgesCommitted
    <2> QED
      BY <2>4, <2>5
  <1> QED
    BY <1>3, <1>4 DEF Cyclic

\* A cycle has no task in the earliest of the layers that hold one of it.
LEMMA LayeredRight ==
  ASSUME LayerInv, pc = "layered", NoWrap, EdgesCommitted
  PROVE  AllLayered = Committed /\ ~Cyclic
  <1>1. /\ KahnInv
        /\ AllLayered \subseteq Committed
        /\ visited = Cardinality(AllLayered) /\ visited = numTasks
    BY AtTheEnd, EntriesAreTasks DEF LayerInv, Shape, LayerPcs
  <1>2. IsFiniteSet(Committed) /\ Cardinality(Committed) = numTasks
    BY CommittedCount DEF LayerInv, GraphInv
  <1>3. AllLayered = Committed
    BY <1>1, <1>2, FS_Subset
  <1>4. ASSUME Cyclic
        PROVE  FALSE
    <2>1. PICK S \in (SUBSET TaskId) \ {{}} : \A v \in S : \E u \in S : HasEdge(u, v)
      BY <1>4 DEF Cyclic
    <2> DEFINE K == {k \in DOMAIN layers : LayerTasks(k) \cap S # {}}
    <2>2. K \subseteq Nat
      BY DEF LayerInv, LocalTypes
    <2>3. K # {}
      <3>1. PICK v \in S : TRUE
        BY <2>1
      <3>2. v \in AllLayered
        BY <1>3, <2>1, <3>1 DEF EdgesCommitted
      <3> QED
        BY <3>2 DEF AllLayered
    <2>4. PICK k \in K : \A j \in K : k <= j
      BY <2>2, <2>3, LeastNatural
    <2>5. PICK v \in S : v \in LayerTasks(k)
      OBVIOUS
    <2>6. PICK u \in S : HasEdge(u, v)
      BY <2>1
    <2>7. PICK j \in 1 .. k - 1 : u \in LayerTasks(j)
      BY <1>1, <2>1, <2>5, <2>6 DEF KahnInv, LayersRespectEdges
    <2>8. j \in DOMAIN layers
      BY <2>7 DEF LayerInv, LocalTypes
    <2>9. j \in K
      BY <2>6, <2>7, <2>8
    <2> QED
      BY <2>2, <2>4, <2>7, <2>9
  <1> QED
    BY <1>3, <1>4

THEOREM TopoInvariant == TopoSpec => []TopoInv
  <1>1. TopoInit => TopoInv
    BY TopoInvStart
  <1>2. TopoInv /\ [TopoNext]_topoVars => TopoInv'
    BY TopoInvStep
  <1> QED
    BY <1>1, <1>2, PTL DEF TopoSpec

(***************************************************************************)
(* The types of the variables, and the facts of FlowGraph, which hold also *)
(* when layerings come between the calls of the builder.                   *)
(***************************************************************************)
THEOREM TopoTypes == TopoSpec => []TopoTypeOK
  <1>1. TopoInv => TopoTypeOK
    BY DEF TopoInv, LayerInv, GraphInv, LocalTypes, TopoTypeOK
  <1> QED
    BY <1>1, TopoInvariant, PTL

THEOREM TopoEntriesPresent == TopoSpec => []EntriesPresent
  <1>1. TopoInv => EntriesPresent
    BY DEF TopoInv, LayerInv, GraphInv
  <1> QED
    BY <1>1, TopoInvariant, PTL

THEOREM TopoDegreesExact == TopoSpec => []DegreesExact
  <1>1. TopoInv => DegreesExact
    BY DEF TopoInv, LayerInv, GraphInv, GraphTypeOK, CountInv, DegreeCount, DegreesExact,
           DegreeOf
  <1> QED
    BY <1>1, TopoInvariant, PTL

THEOREM TopoTransposed == TopoSpec => []Transposed
  <1>1. TopoInv => Transposed
    BY DEF TopoInv, LayerInv, GraphInv
  <1> QED
    BY <1>1, TopoInvariant, PTL

(***************************************************************************)
(* When execute() walks through the layers of a graph in which no count    *)
(* wrapped, every dependency of a task lies in an earlier layer...         *)
(***************************************************************************)
THEOREM LayersAlwaysRespectEdges == TopoSpec => []LayersRespectEdges
  <1>1. TopoInv => LayersRespectEdges
    <2> SUFFICES ASSUME TopoInv, NoWrap
                 PROVE  LayersRespectEdges
      BY DEF LayersRespectEdges
    <2>1. CASE pc \in LayerPcs
      BY <2>1 DEF TopoInv, LayerInv, KahnInv
    <2>2. CASE pc \in BuildPcs
      BY <2>2 DEF TopoInv, LayerInv, Shape, LocalsReset, LayersRespectEdges
    <2> QED
      BY <2>1, <2>2 DEF TopoInv
  <1> QED
    BY <1>1, TopoInvariant, PTL

\* ... no task is scheduled twice ...
THEOREM LayersAlwaysDisjoint == TopoSpec => []LayersDisjoint
  <1>1. TopoInv => LayersDisjoint
    <2> SUFFICES ASSUME TopoInv, NoWrap
                 PROVE  LayersDisjoint
      BY DEF LayersDisjoint
    <2>1. CASE pc \in LayerPcs
      BY <2>1 DEF TopoInv, LayerInv, KahnInv, ScheduledOnce
    <2>2. CASE pc \in BuildPcs
      BY <2>2 DEF TopoInv, LayerInv, Shape, LocalsReset, LayersDisjoint
    <2> QED
      BY <2>1, <2>2 DEF TopoInv
  <1> QED
    BY <1>1, TopoInvariant, PTL

\* ... and none later than one of its dependencies makes it wait.
THEOREM LayersAlwaysEarliest == TopoSpec => []LayersEarliest
  <1>1. TopoInv => LayersEarliest
    BY DEF TopoInv, LayerInv, EarliestInv, Follows, LayersEarliest, LayerPcs
  <1> QED
    BY <1>1, TopoInvariant, PTL

(***************************************************************************)
(* HasCycle is returned exactly for the graphs that have a cycle, whatever *)
(* was registered between committed tasks, as long as no count wrapped;    *)
(* otherwise the layers hold every task.                                   *)
(***************************************************************************)
THEOREM VerdictAlwaysExact == TopoSpec => []VerdictExact
  <1>1. TopoInv => VerdictExact
    BY CyclicRight, LayeredRight DEF TopoInv, VerdictExact
  <1> QED
    BY <1>1, TopoInvariant, PTL

(***************************************************************************)
(* `deg.0 -= 1` and the unwrap() before it never panic, in either profile  *)
(* and on every graph, also where counts wrapped.                          *)
(***************************************************************************)
THEOREM CountdownAlwaysSafe == TopoSpec => []CountdownSafe
  <1>1. TopoInv => CountdownSafe
    BY DEF TopoInv, LayerInv, Shape, LocalsReset, BuildPcs, CountdownSafe
  <1> QED
    BY <1>1, TopoInvariant, PTL

(***************************************************************************)
(* The bound MaxVisits of the model takes nothing away while no count has  *)
(* wrapped: a task that the loop would visit next can be visited, for no   *)
(* more tasks are visited than there are.                                  *)
(***************************************************************************)
BoundUnused == NoWrap /\ pc = "visit" /\ MoreTasks => visited < MaxVisits

THEOREM BoundNeverBites == TopoSpec => []BoundUnused
  <1>1. TopoInv => BoundUnused
    <2> SUFFICES ASSUME TopoInv, NoWrap, pc = "visit", MoreTasks
                 PROVE  visited < MaxVisits
      BY DEF BoundUnused
    <2> DEFINE t == cur_layer[cursor + 1]
    <2>1. KahnInv /\ LocalTypes
      BY DEF TopoInv, LayerInv, LayerPcs
    <2>2. cursor \in Nat /\ cursor + 1 \in 1 .. Len(cur_layer) /\ cursor + 1 \in DOMAIN cur_layer
      BY <2>1 DEF MoreTasks, LocalTypes
    <2>3. t \in TaskId /\ t \notin AllLayered
      BY <2>1, <2>2 DEF KahnInv, ScheduledOnce, Range, LocalTypes
    <2>4. \A i \in 1 .. cursor : cur_layer[i] # t
      <3> SUFFICES ASSUME NEW i \in 1 .. cursor, cur_layer[i] = t
                   PROVE  FALSE
        OBVIOUS
      <3>1. i \in DOMAIN cur_layer /\ i # cursor + 1
        BY <2>1, <2>2 DEF LocalTypes
      <3> QED
        BY <3>1, <2>1, <2>2 DEF KahnInv, ScheduledOnce, IsInjective
    <2>5. t \notin Visited
      BY <2>3, <2>4 DEF Visited
    <2>6. /\ Visited \cup {t} \in SUBSET TaskId
          /\ Cardinality(Visited \cup {t}) = Cardinality(Visited) + 1
      BY <2>1, <2>3, <2>5, LayerFacts, FS_AddElement
    <2>7. Cardinality(TaskId) = MaxTasks
      <3>1. MaxTasks - 1 \in Int /\ MaxTasks \in Nat \ {0}
        BY BoundsAssumption
      <3>2. Cardinality(0 .. MaxTasks - 1) =
              IF 0 > MaxTasks - 1 THEN 0 ELSE MaxTasks - 1 - 0 + 1
        BY <3>1, FS_Interval
      <3> QED
        BY <3>1, <3>2 DEF TaskId
    <2>8. Cardinality(Visited \cup {t}) <= Cardinality(TaskId)
      BY <2>6, TaskIds, FS_Subset
    <2>9. visited = Cardinality(Visited) /\ visited \in Nat
      BY <2>1 DEF KahnInv, VisitedCount, LocalTypes
    <2> QED
      BY <2>6, <2>7, <2>8, <2>9, MaxVisitsAssumption, BoundsAssumption
  <1> QED
    BY <1>1, TopoInvariant, PTL

=============================================================================
