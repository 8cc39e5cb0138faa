-------------------------- MODULE FlowPromiseProofs --------------------------
(***************************************************************************)
(* The typed API for every value of the constants.  With calls through     *)
(* living builders (TypedApi): the graph is acyclic, no count wraps and no *)
(* run reports a cycle.  Every builder used before the next call           *)
(* (Misuses = {}): the layers that are left depend on none that is still   *)
(* to come, the first run succeeds, and every step of FlowExec is a step   *)
(* of DagPromise or changes nothing of it.                                 *)
(***************************************************************************)
EXTENDS FlowExecProofs

-----------------------------------------------------------------------------
(***************************************************************************)
(* The invariant for the typed API.                                        *)
(***************************************************************************)

\* The builder's task has not been invoked, for no run came between.
BuilderFresh == pc \in {"building", "wiring"} => builder.id \in loaded

\* A typed sink is the wrapper of a task.
SinkInv == sink.typed => sink.id \in Committed /\ sig[sink.id].out = sink.ty

\* A task of a later layer depends on no task of that or of a later one ...
LaterInv ==
  \A k, j \in DOMAIN layers : \A v \in LayerTasks(k), u \in LayerTasks(j) :
    k <= j => ~HasEdge(u, v)

\* ... and a task that is to be taken next on none that is still to finish.
TakenInv ==
  \A v \in Range(layer), u \in TaskId :
    HasEdge(u, v) => u \notin Range(layer) \cup Range(handles) \cup AllLayered

\* Only the layers that are left hold tasks that were not invoked.
ProgressInv ==
  /\ AllLayered \cup Range(layer) \subseteq Committed
  /\ \A t \in Committed : t \in AllLayered \/ t \in Range(layer) \/ fut[t] # "none"

WalkInv ==
  /\ pc \in WalkPcs => LaterInv /\ ProgressInv
  /\ pc \in {"single", "spawn"} => TakenInv

\* What the first run cannot return.
FirstRunInv ==
  runs = 1 =>
    /\ \A t \in TaskId : fut[t] \notin InputErrors
    /\ sink.typed => result.kind \notin {"TaskNotFound"}

PromiseInv ==
  /\ BuilderFresh
  /\ SinkInv
  /\ WalkInv
  /\ result.kind \notin {"HasCycle", "output type mismatch"}
  /\ result.kind = "unwound" => result.tid \in Committed
  /\ FirstRunInv

-----------------------------------------------------------------------------
(***************************************************************************)
(* The graph that the typed API builds.                                    *)
(***************************************************************************)

\* `edges` and `rev_edges` agree: an edge leads from u to v exactly when u is
\* a dependency of v.
LEMMA EdgesAreDependencies ==
  ASSUME GraphTypeOK, Transposed, NEW u \in TaskId, NEW v \in TaskId
  PROVE  HasEdge(u, v) <=> u \in Range(rev_edges[v])
  <1>1. edges[u] \in Seq(TaskId) /\ rev_edges[v] \in Seq(TaskId)
    BY DEF GraphTypeOK
  <1>2. ASSUME NEW seq \in Seq(TaskId), NEW x
        PROVE  /\ IsFiniteSet(Occurrences(x, seq))
               /\ Cardinality(Occurrences(x, seq)) = 0 <=> ~ \E i \in DOMAIN seq : seq[i] = x
    <2>1. DOMAIN seq = 1 .. Len(seq) /\ Occurrences(x, seq) \in SUBSET (1 .. Len(seq))
      BY DEF Occurrences
    <2>2. IsFiniteSet(Occurrences(x, seq))
      BY <2>1, FS_Interval, FS_Subset
    <2>3. Occurrences(x, seq) = {} <=> ~ \E i \in DOMAIN seq : seq[i] = x
      BY DEF Occurrences
    <2> QED
      BY <2>2, <2>3, FS_EmptySet
  <1>3. HasEdge(u, v) <=> Cardinality(Occurrences(v, edges[u])) # 0
    BY <1>1, <1>2 DEF HasEdge
  <1>4. u \in Range(rev_edges[v]) <=> Cardinality(Occurrences(u, rev_edges[v])) # 0
    BY <1>1, <1>2 DEF Range
  <1> QED
    BY <1>3, <1>4 DEF Transposed

(***************************************************************************)
(* All edges join tasks, there is no cycle, and no task has more           *)
(* dependencies than the largest tuple, so no u8 wraps.                    *)
(***************************************************************************)
LEMMA TypedGraph ==
  ASSUME TypedApi, ExecInv, pc \in RunPcs \cup {"idle"}
  PROVE  /\ \A u, v \in TaskId : HasEdge(u, v) => u \in Committed /\ v \in Committed
         /\ \A u, v \in TaskId : HasEdge(u, v) <=> u \in Range(rev_edges[v])
         /\ NoWrap
         /\ EdgesCommitted
         /\ ~Cyclic
  <1>1. /\ GraphTypeOK /\ Transposed /\ WireInv /\ RevCount
        /\ Committed \subseteq TaskId /\ TaskId \subseteq Nat /\ numTasks \in Nat
    BY CommittedCount, TaskIds DEF ExecInv, LayerInv, GraphInv, GraphTypeOK
  <1>2. \A t \in Committed \ lent : Len(rev_edges[t]) = Len(sig[t].ins)
    BY Wired
  <1>3. \A t \in TaskId : t \in Committed \ lent \/ rev_edges[t] = <<>>
    BY <1>1 DEF WireInv, Waiting, FreshUnwired, Committed, TaskId
  <1>4. \A u, v \in TaskId : HasEdge(u, v) <=> u \in Range(rev_edges[v])
    BY <1>1, EdgesAreDependencies
  <1>5. ASSUME NEW u \in TaskId, NEW v \in TaskId, HasEdge(u, v)
        PROVE  u \in Committed /\ v \in Committed
    <2>1. edges[u] # <<>> /\ rev_edges[v] # <<>>
      <3>1. Range(<<>>) = {} /\ DOMAIN <<>> = {}
        BY DEF Range
      <3> QED
        BY <1>4, <1>5, <3>1 DEF HasEdge
    <2> QED
      BY <2>1, <1>1, <1>3 DEF WireInv, SourcesWrapped, GraphTypeOK
  <1>6. NoWrap
    <2> SUFFICES ASSUME NEW v \in TaskId
                 PROVE  Len(rev_edges[v]) < DegMod
      BY <1>1 DEF NoWrap, RevCount
    <2>1. CASE v \in Committed \ lent
      <3>1. sig[v] \in Signature /\ Len(sig[v].ins) <= MaxArity
        BY <2>1, <1>1, SignaturesAssumption DEF GraphTypeOK
      <3>2. Len(sig[v].ins) \in Nat
        BY <3>1 DEF Signature
      <3> QED
        BY <2>1, <3>1, <3>2, <1>2, ArityAssumption
    <2>2. CASE rev_edges[v] = <<>>
      BY <2>2, ArityAssumption
    <2> QED
      BY <2>1, <2>2, <1>3
  <1>7. EdgesCommitted
    BY <1>5 DEF EdgesCommitted
  <1>8. ~Cyclic
    BY <1>1 DEF WireInv
  <1> QED
    BY <1>4, <1>5, <1>6, <1>7, <1>8

\* Every builder used at once: the stricter use of the typed API.
LEMMA NoneLent ==
  ASSUME Misuses = {}, ExecInv
  PROVE  TypedApi /\ lent = {}
  <1>1. TypedApi
    BY DEF TypedApi
  <1> QED
    BY <1>1 DEF ExecInv, LayerInv, GraphInv, WireInv, Waiting

(***************************************************************************)
(* What the layering hands over: every task, in layers that depend on none *)
(* of their own and of no later tasks.                                     *)
(***************************************************************************)
LEMMA AtLayered ==
  ASSUME Misuses = {}, ExecInv, pc = "layered"
  PROVE  LaterInv /\ ProgressInv
  <1>1. pc \in RunPcs /\ pc \in LayerPcs /\ pc \notin WalkPcs
    BY DEF RunPcs, LayerPcs, WalkPcs
  <1>2. LayerInv /\ GraphTypeOK /\ NoWrap /\ EdgesCommitted
    BY <1>1, NoneLent, TypedGraph DEF ExecInv, LayerInv, GraphInv
  <1>3. AllLayered = Committed
    BY <1>2, LayeredRight
  <1>4. KahnInv /\ LocalTypes
    BY <1>1, <1>2 DEF LayerInv
  <1>5. LayersRespectEdges /\ LayersDisjoint
    BY <1>4 DEF KahnInv, ScheduledOnce
  <1>6. ASSUME NEW k \in DOMAIN layers, NEW j \in DOMAIN layers,
               NEW v \in LayerTasks(k), NEW u \in LayerTasks(j), k <= j, HasEdge(u, v)
        PROVE  FALSE
    <2>1. DOMAIN layers = 1 .. Len(layers) /\ Len(layers) \in Nat
      BY <1>4 DEF LocalTypes
    <2>2. u \in TaskId
      BY <1>4, LayerFacts DEF AllLayered
    <2>3. PICK l \in 1 .. k - 1 : u \in LayerTasks(l)
      BY <2>2, <1>2, <1>5, <1>6 DEF LayersRespectEdges
    <2>4. l \in DOMAIN layers /\ l # j
      BY <2>1, <1>6
    <2>5. PICK a \in DOMAIN layers[l] : layers[l][a] = u
      BY <2>3 DEF LayerTasks
    <2>6. PICK b \in DOMAIN layers[j] : layers[j][b] = u
      BY DEF LayerTasks
    <2> QED
      BY <2>4, <2>5, <2>6, <1>2, <1>5 DEF LayersDisjoint
  <1>7. layer = <<>>
    BY <1>1 DEF ExecInv, ExecShape
  <1> QED
    BY <1>3, <1>6, <1>7 DEF LaterInv, ProgressInv, Range

\* No layering of a typed flow ends in Err(HasCycle).
LEMMA NeverCyclic ==
  ASSUME TypedApi, ExecInv
  PROVE  pc # "cyclic"
  <1> SUFFICES ASSUME pc = "cyclic"
               PROVE  FALSE
    OBVIOUS
  <1>1. pc \in RunPcs
    BY DEF RunPcs, LayerPcs
  <1>2. LayerInv /\ NoWrap /\ EdgesCommitted /\ ~Cyclic
    BY <1>1, TypedGraph DEF ExecInv
  <1> QED
    BY <1>2, CyclicRight

-----------------------------------------------------------------------------
(***************************************************************************)
(* The invariant for the typed API is inductive, one lemma per group of    *)
(* actions.                                                                *)
(***************************************************************************)
LEMMA PromiseStart ==
  ASSUME ExecInit
  PROVE  PromiseInv
  <1>1. /\ pc = "idle" /\ sink.typed = FALSE /\ result.kind = "none"
        /\ runs = 0 /\ pc \notin WalkPcs
    BY DEF ExecInit, TopoInit, GraphInit, NoSink, NoResult, WalkPcs
  <1> QED
    BY <1>1 DEF PromiseInv, BuilderFresh, SinkInv, WalkInv, FirstRunInv

LEMMA PromiseBuild ==
  ASSUME Misuses = {}, ExecInv, PromiseInv, BuildNext, UNCHANGED <<localVars, execVars>>
  PROVE  PromiseInv'
  <1>1. /\ pc \in BuildPcs /\ pc' \in BuildPcs
        /\ pc' \notin WalkPcs /\ pc' \notin {"single", "spawn"}
    BY BuildStepInv DEF ExecInv, BuildPcs, WalkPcs
  <1>2. UNCHANGED <<runs, sink, result, fut>>
    BY DEF execVars
  <1>3. GraphTypeOK
    BY DEF ExecInv, ExecTypeOK
  <1>4. /\ Committed \subseteq Committed' /\ \A t \in Committed : sig'[t] = sig[t]
        /\ BuilderFresh'
    <2>1. ASSUME NEW s \in Signatures, commit_source_task(s) \/ commit_task(s)
          PROVE  /\ Committed \subseteq Committed' /\ \A t \in Committed : sig'[t] = sig[t]
                 /\ BuilderFresh'
      <3>1. /\ numTasks \in Nat /\ numTasks' = numTasks + 1
            /\ sig' = [t \in 0 .. numTasks |-> IF t = numTasks THEN s ELSE sig[t]]
            /\ loaded' = loaded \cup {numTasks}
        BY <1>3, <2>1 DEF GraphTypeOK, commit_source_task, commit_task, PushTask
      <3>2. Committed \subseteq Committed' /\ \A t \in Committed : t \in 0 .. numTasks /\ t # numTasks
        BY <3>1 DEF Committed
      <3>3. BuilderFresh'
        BY <2>1, <3>1 DEF BuilderFresh, commit_source_task, commit_task
      <3> QED
        BY <3>1, <3>2, <3>3
    <2>2. CASE with_dependencies \/ WireOne \/ WiringDone
      <3>1. UNCHANGED <<numTasks, sig, loaded>>
        BY <2>2 DEF with_dependencies, WireOne, WiringDone
      <3>2. BuilderFresh'
        <4>1. CASE with_dependencies \/ WireOne
          <5>1. pc \in {"building", "wiring"} /\ builder.id \in loaded
            BY <4>1 DEF with_dependencies, WireOne, PromiseInv, BuilderFresh
          <5>2. builder'.id = builder.id
            BY <4>1, <1>3 DEF with_dependencies, WireOne, GraphTypeOK
          <5> QED
            BY <5>1, <5>2, <3>1 DEF BuilderFresh
        <4>2. CASE WiringDone
          BY <4>2 DEF WiringDone, BuilderFresh
        <4> QED
          BY <2>2, <4>1, <4>2
      <3> QED
        BY <3>1, <3>2 DEF Committed
    <2>3. /\ ~DropBuilder /\ ~LendFlow /\ ~TakeFlowBack
          /\ ~ \E w \in Wrappers, t \in TaskId : register(w, t)
      BY NoneLent DEF DropBuilder, LendFlow, TakeFlowBack, register
    <2> QED
      BY <2>1, <2>2, <2>3 DEF BuildNext
  <1> QED
    BY <1>1, <1>2, <1>4 DEF PromiseInv, SinkInv, WalkInv, FirstRunInv

\* Before the first run nothing was invoked.
LEMMA PromiseCall ==
  ASSUME Misuses = {}, ExecInv, PromiseInv, NEW s, CallExecute(s),
         s.typed => s.id \in Committed /\ sig[s.id].out = s.ty
  PROVE  PromiseInv'
  <1>1. /\ pc' = "drain" /\ pc' \notin WalkPcs /\ sink' = s /\ result' = NoResult
        /\ runs' = runs + 1 /\ fut' = fut /\ UNCHANGED <<numTasks, sig>>
    BY DEF CallExecute, BeginLayers, WalkPcs, graphVars
  <1>2. SinkInv'
    BY <1>1 DEF SinkInv, Committed
  <1>3. FirstRunInv'
    <2> SUFFICES ASSUME runs' = 1
                 PROVE  /\ \A t \in TaskId : fut[t] \notin InputErrors
                        /\ result'.kind # "TaskNotFound"
      BY <1>1 DEF FirstRunInv
    <2>1. runs = 0
      BY <1>1 DEF ExecInv, ExecTypeOK
    <2>2. \A t \in TaskId : fut[t] = "none"
      <3>1. \A t \in TaskId : bornIn[t] \in Nat
        BY DEF ExecInv, ExecTypeOK
      <3> QED
        BY <2>1, <3>1 DEF ExecInv, BornInv
    <2> QED
      BY <2>2, <1>1 DEF InputErrors, NoResult
  <1> QED
    BY <1>1, <1>2, <1>3 DEF PromiseInv, BuilderFresh, WalkInv, NoResult

\* The run is over: what is left to show is about what it returned.
LEMMA PromiseLeave ==
  ASSUME PromiseInv, NEW newpc \in {"idle", "panicked"}, NEW kind, NEW tid,
         Leave(newpc, kind, tid), UNCHANGED graphVars,
         kind \notin {"HasCycle", "output type mismatch"},
         kind = "unwound" => tid \in Committed,
         runs = 1 => /\ \A t \in TaskId : fut'[t] \notin InputErrors
                     /\ sink.typed => kind # "TaskNotFound"
  PROVE  PromiseInv'
  <1>1. /\ pc' \in {"idle", "panicked"} /\ pc' \notin WalkPcs
        /\ result'.kind = kind /\ result'.tid = tid
        /\ UNCHANGED <<runs, sink, numTasks, sig>>
    BY DEF Leave, graphVars, WalkPcs
  <1>2. SinkInv' /\ Committed' = Committed
    BY <1>1 DEF PromiseInv, SinkInv, Committed
  <1> QED
    BY <1>1, <1>2 DEF PromiseInv, BuilderFresh, WalkInv, FirstRunInv

\* The run goes on: what is left to show is about the layers and the futures.
LEMMA PromiseWalk ==
  ASSUME PromiseInv, pc' \in RunPcs, UNCHANGED <<numTasks, sig, runs, sink, result>>,
         WalkInv', runs = 1 => \A t \in TaskId : fut'[t] \notin InputErrors
  PROVE  PromiseInv'
  <1>1. pc' \notin {"building", "wiring"}
    BY DEF RunPcs, LayerPcs
  <1>2. SinkInv' /\ Committed' = Committed
    BY DEF PromiseInv, SinkInv, Committed
  <1> QED
    BY <1>1, <1>2 DEF PromiseInv, BuilderFresh, FirstRunInv

LEMMA PromiseLayer ==
  ASSUME ExecInv, PromiseInv, LayerStep, UNCHANGED execVars
  PROVE  PromiseInv'
  <1>1. pc' \in LayerPcs /\ pc' \in RunPcs /\ pc' \notin WalkPcs
        /\ pc' \notin {"single", "spawn"}
    BY LayerStepInv DEF ExecInv, RunPcs, LayerPcs, WalkPcs
  <1>2. UNCHANGED graphVars /\ UNCHANGED <<runs, sink, result, fut>>
    BY DEF LayerStep, DrainQueue, VisitTask, RelaxSuccessor, PushLayer, FinishLayers, execVars
  <1>3. UNCHANGED <<numTasks, sig, runs, sink, result>>
    BY <1>2 DEF graphVars
  <1>4. WalkInv'
    BY <1>1 DEF WalkInv
  <1> QED
    BY <1>1, <1>2, <1>3, <1>4, PromiseWalk DEF PromiseInv, FirstRunInv

\* The layers that are left when the first of them is taken.
LEMMA FirstLayer ==
  ASSUME LocalTypes, layers # <<>>, layers' = Tail(layers)
  PROVE  /\ AllLayered = Range(Head(layers)) \cup AllLayered'
         /\ 1 \in DOMAIN layers /\ LayerTasks(1) = Range(Head(layers))
         /\ \A k \in DOMAIN layers' : /\ k + 1 \in DOMAIN layers
                                      /\ LayerTasks(k)' = LayerTasks(k + 1)
                                      /\ k \in Nat
  <1>1. /\ layers \in Seq(Seq(TaskId)) /\ Len(layers) \in Nat /\ Len(layers) # 0
        /\ DOMAIN layers = 1 .. Len(layers)
    BY DEF LocalTypes
  <1>2. /\ layers' \in Seq(Seq(TaskId)) /\ Len(layers') = Len(layers) - 1
        /\ \A k \in 1 .. Len(layers') : layers'[k] = layers[k + 1]
    BY <1>1, HeadTailProperties
  <1>3. DOMAIN layers' = 1 .. Len(layers) - 1
    BY <1>2
  <1>4. \A k \in DOMAIN layers' : k + 1 \in DOMAIN layers /\ layers'[k] = layers[k + 1] /\ k \in Nat
    BY <1>1, <1>2, <1>3
  <1>5. \A k \in DOMAIN layers' : LayerTasks(k)' = LayerTasks(k + 1)
    BY <1>4 DEF LayerTasks
  <1>6. 1 \in DOMAIN layers /\ LayerTasks(1) = Range(Head(layers))
    BY <1>1 DEF LayerTasks, Range
  <1>7. \A k \in DOMAIN layers : k = 1 \/ (k - 1 \in DOMAIN layers' /\ (k - 1) + 1 = k)
    BY <1>1, <1>3
  <1>8. ASSUME NEW t \in AllLayered
        PROVE  t \in Range(Head(layers)) \cup AllLayered'
    <2>1. PICK k \in DOMAIN layers : t \in LayerTasks(k)
      BY DEF AllLayered
    <2>2. CASE k = 1
      BY <2>1, <2>2, <1>6
    <2>3. CASE k # 1
      <3>1. PICK j \in DOMAIN layers' : j + 1 = k
        BY <2>3, <1>7
      <3>2. t \in LayerTasks(j)'
        BY <2>1, <3>1, <1>5
      <3> QED
        BY <3>2 DEF AllLayered
    <2> QED
      BY <2>2, <2>3
  <1>9. ASSUME NEW t \in AllLayered'
        PROVE  t \in AllLayered
    <2>1. PICK k \in DOMAIN layers' : t \in LayerTasks(k)'
      BY DEF AllLayered
    <2>2. k + 1 \in DOMAIN layers /\ t \in LayerTasks(k + 1)
      BY <2>1, <1>4, <1>5
    <2> QED
      BY <2>2 DEF AllLayered
  <1>10. Range(Head(layers)) \subseteq AllLayered
    BY <1>6 DEF AllLayered
  <1> QED
    BY <1>4, <1>5, <1>6, <1>8, <1>9, <1>10

LEMMA PromiseStartLayer ==
  ASSUME Misuses = {}, ExecInv, PromiseInv, StartLayer
  PROVE  PromiseInv'
  <1>1. /\ pc \in {"layered", "layer"} /\ layers # <<>> /\ pc' \in {"single", "spawn"}
        /\ layer' = Head(layers) /\ layers' = Tail(layers)
        /\ UNCHANGED graphVars
        /\ UNCHANGED <<runs, sink, result, handles, fut>>
    BY DEF StartLayer
  <1>2. UNCHANGED <<numTasks, sig>> /\ Committed' = Committed
    BY <1>1 DEF graphVars, Committed
  <1>3. /\ pc' \in RunPcs /\ LocalTypes
        /\ pc = "layer" => pc \in WalkPcs
        /\ pc \notin {"spawn", "join"}
    BY <1>1 DEF RunPcs, WalkPcs, ExecInv, LayerInv
  <1>4. LaterInv /\ ProgressInv
    BY <1>1, <1>3, AtLayered DEF PromiseInv, WalkInv
  <1>5. /\ AllLayered = Range(layer') \cup AllLayered'
        /\ 1 \in DOMAIN layers /\ LayerTasks(1) = Range(layer')
        /\ \A k \in DOMAIN layers' : /\ k + 1 \in DOMAIN layers
                                     /\ LayerTasks(k)' = LayerTasks(k + 1)
                                     /\ k \in Nat
    BY <1>1, <1>3, FirstLayer
  <1>6. \A u, v : HasEdge(u, v)' <=> HasEdge(u, v)
    BY <1>1, GraphSame
  <1>7. LaterInv'
    <2> SUFFICES ASSUME NEW k \in DOMAIN layers', NEW j \in DOMAIN layers', k <= j,
                        NEW v \in LayerTasks(k)', NEW u \in LayerTasks(j)'
                 PROVE  ~HasEdge(u, v)
      BY <1>6 DEF LaterInv
    <2>1. /\ k + 1 \in DOMAIN layers /\ j + 1 \in DOMAIN layers /\ k + 1 <= j + 1
          /\ v \in LayerTasks(k + 1) /\ u \in LayerTasks(j + 1)
      BY <1>5
    <2> QED
      BY <2>1, <1>4 DEF LaterInv
  <1>8. layer = <<>> /\ handles = <<>>
    BY <1>1, <1>3 DEF ExecInv, ExecShape, WalkPcs
  <1>9. ProgressInv'
    BY <1>1, <1>2, <1>4, <1>5, <1>8 DEF ProgressInv, Range
  <1>10. TakenInv'
    <2> SUFFICES ASSUME NEW v \in Range(layer'), NEW u \in TaskId, HasEdge(u, v)
                 PROVE  u \notin AllLayered /\ Range(handles') = {}
      BY <1>5, <1>6 DEF TakenInv
    <2>1. Range(handles') = {}
      BY <1>1, <1>8 DEF Range
    <2>2. \A j \in DOMAIN layers : 1 <= j
      BY <1>3 DEF LocalTypes
    <2>3. \A j \in DOMAIN layers : u \notin LayerTasks(j)
      BY <2>2, <1>4, <1>5 DEF LaterInv
    <2> QED
      BY <2>1, <2>3 DEF AllLayered
  <1>11. WalkInv'
    BY <1>7, <1>9, <1>10 DEF WalkInv
  <1> QED
    BY <1>1, <1>2, <1>3, <1>11, PromiseWalk DEF PromiseInv, FirstRunInv

(***************************************************************************)
(* A task that is taken and lacks an input lacks it for good: an earlier   *)
(* run consumed the dependency.                                            *)
(***************************************************************************)
LEMMA Unsupplied ==
  ASSUME Misuses = {}, ExecInv, PromiseInv, pc \in {"single", "spawn"},
         NEW t \in Range(layer), NEW u \in Range(rev_edges[t]), u \notin outputs
  PROVE  u \in TaskId /\ fut[u] # "none" /\ u \notin ThisRun /\ runs # 1
  <1>1. pc \in RunPcs /\ pc \in WalkPcs
    BY DEF RunPcs, WalkPcs
  <1>2. ProgressInv /\ TakenInv
    BY <1>1 DEF PromiseInv, WalkInv
  <1>3. t \in Committed /\ t \in TaskId
    BY <1>2, CommittedCount DEF ProgressInv, ExecInv, ExecTypeOK
  <1>4. u \in TaskId
    <2>1. rev_edges[t] \in Seq(TaskId)
      BY <1>3 DEF ExecInv, ExecTypeOK, GraphTypeOK
    <2> QED
      BY <2>1 DEF Range
  <1>5. HasEdge(u, t) /\ u \in Committed
    BY <1>1, <1>3, <1>4, NoneLent, TypedGraph
  <1>6. u \notin Range(layer) /\ u \notin Range(handles) /\ u \notin AllLayered
    BY <1>2, <1>4, <1>5 DEF TakenInv
  <1>7. fut[u] # "none"
    BY <1>2, <1>5, <1>6 DEF ProgressInv
  <1>8. u \notin ThisRun
    BY <1>1, <1>4, <1>6 DEF ExecInv, CohortInv, Inline
  <1>9. runs # 1
    <2>1. bornIn[u] # runs /\ 1 <= bornIn[u] /\ bornIn[u] <= runs
      BY <1>4, <1>7, <1>8 DEF ExecInv, BornInv, ThisRun
    <2>2. bornIn[u] \in Nat
      BY <1>4 DEF ExecInv, ExecTypeOK
    <2> QED
      BY <2>1, <2>2
  <1> QED
    BY <1>4, <1>7, <1>8, <1>9

\* The task that is taken next.
LEMMA NextTaken ==
  ASSUME Misuses = {}, ExecInv, PromiseInv,
         \/ pc = "single"
         \/ pc = "spawn" /\ layer # <<>>
  PROVE  /\ Head(layer) = layer[1] /\ Head(layer) \in Range(layer) /\ Head(layer) \in Committed
         /\ Tail(layer) \in Seq(TaskId)
         /\ Range(layer) = {Head(layer)} \cup Range(Tail(layer))
         /\ pc = "single" => Range(layer) = {Head(layer)} /\ handles = <<>>
  <1>1. pc \in WalkPcs
    BY DEF WalkPcs
  <1>2. layer \in Seq(TaskId)
    BY DEF ExecInv, ExecTypeOK
  <1>3. layer # <<>> /\ (pc = "single" => Len(layer) = 1 /\ handles = <<>>)
    BY DEF ExecInv, ExecShape
  <1>4. /\ Tail(layer) \in Seq(TaskId) /\ Range(layer) = {Head(layer)} \cup Range(Tail(layer))
        /\ Head(layer) = layer[1]
    BY <1>2, <1>3, HeadTailRange
  <1>5. Len(layer) = 1 => Range(layer) = {Head(layer)}
    BY <1>2, <1>4 DEF Range
  <1>6. Range(layer) \subseteq Committed
    BY <1>1 DEF PromiseInv, WalkInv, ProgressInv
  <1> QED
    BY <1>3, <1>4, <1>5, <1>6

\* What the future of an invoked task is.
LEMMA InvokedState ==
  ASSUME Misuses = {}, ExecInv, PromiseInv, pc \in {"single", "spawn"},
         NEW t \in loaded, t \in Range(layer), invoke(t)
  PROVE  /\ fut'[t] \in InputErrors \cup {"ready"}
         /\ \A u \in TaskId \ {t} : fut'[u] = fut[u]
         /\ fut'[t] = "ready" <=> \A u \in Range(rev_edges[t]) : u \in outputs
         /\ fut' = [fut EXCEPT ![t] = fut'[t]]
         /\ runs = 1 => fut'[t] = "ready"
  <1> DEFINE state == from_any_iter(sig[t].ins, ArcsFor(t))
  <1>1. fut' = [fut EXCEPT ![t] = state]
    BY DEF invoke
  <1>2. t \in TaskId /\ fut \in [TaskId -> FutureStates]
    BY CommittedCount DEF ExecInv, ExecTypeOK, SlotsInv
  <1>3. fut'[t] = state /\ \A u \in TaskId \ {t} : fut'[u] = fut[u]
    BY <1>1, <1>2
  <1>4. /\ state \in InputErrors \cup {"ready"}
        /\ state = "ready" <=> \A u \in Range(rev_edges[t]) : u \in outputs
    BY NoneLent, ReadyExactly
  <1>5. runs = 1 => \A u \in Range(rev_edges[t]) : u \in outputs
    BY Unsupplied
  <1> HIDE DEF state
  <1> QED
    BY <1>1, <1>3, <1>4, <1>5

LEMMA PromiseTake ==
  ASSUME Misuses = {}, ExecInv, PromiseInv, TakeSingle \/ SpawnNext
  PROVE  PromiseInv'
  <1> DEFINE t == Head(layer)
  <1>1. /\ pc = "single" \/ (pc = "spawn" /\ layer # <<>>)
        /\ pc \in WalkPcs /\ pc \in {"single", "spawn"}
    BY DEF TakeSingle, SpawnNext, WalkPcs
  <1>2. /\ t = layer[1] /\ t \in Range(layer) /\ t \in Committed
        /\ Range(layer) = {t} \cup Range(Tail(layer))
        /\ pc = "single" => Range(layer) = {t} /\ handles = <<>>
        /\ Tail(layer) \in Seq(TaskId)
    BY <1>1, NextTaken
  <1>3. /\ LaterInv /\ TakenInv /\ ProgressInv
        /\ runs = 1 => \A u \in TaskId : fut[u] \notin InputErrors
    BY <1>1 DEF PromiseInv, WalkInv, FirstRunInv
  <1>4. /\ GraphTypeOK /\ t \in TaskId /\ handles \in Seq(TaskId)
        /\ Committed \subseteq TaskId
        /\ loaded = {u \in Committed : fut[u] = "none"}
    BY <1>2, CommittedCount DEF ExecInv, ExecTypeOK, SlotsInv
  <1> HIDE DEF t
  <1>5. CASE t \in loaded /\ invoke(t) /\ UNCHANGED <<localVars, runs, sink, result, outputs>>
    <2>1. UNCHANGED <<numTasks, sig, edges, rev_edges, runs, sink, result>>
      BY <1>5 DEF invoke
    <2>2. layers' = layers
      BY <1>5 DEF localVars
    <2>3. /\ fut'[t] \in InputErrors \cup {"ready"}
          /\ \A u \in TaskId \ {t} : fut'[u] = fut[u]
          /\ runs = 1 => fut'[t] = "ready"
      BY <1>1, <1>2, <1>5, InvokedState
    <2>4. fut'[t] # "none" /\ "ready" \notin InputErrors
      BY <2>3 DEF InputErrors
    <2>5. runs = 1 => \A u \in TaskId : fut'[u] \notin InputErrors
      BY <2>3, <2>4, <1>3
    <2>6. /\ \A u, v : HasEdge(u, v)' <=> HasEdge(u, v)
          /\ \A k : LayerTasks(k)' = LayerTasks(k)
          /\ AllLayered' = AllLayered /\ Committed' = Committed
      BY <2>1, <2>2 DEF HasEdge, LayerTasks, AllLayered, Committed
    <2>7. LaterInv'
      BY <2>2, <2>6, <1>3 DEF LaterInv
    <2>8. CASE pc = "single" /\ pc' = "inline" /\ UNCHANGED <<layer, handles>>
      <3>1. ProgressInv'
        BY <2>3, <2>4, <2>6, <2>8, <1>3, <1>4 DEF ProgressInv
      <3>2. WalkInv' /\ pc' \in RunPcs
        BY <2>7, <2>8, <3>1 DEF WalkInv, RunPcs
      <3> QED
        BY <2>1, <2>5, <3>2, PromiseWalk
    <2>9. CASE pc = "spawn" /\ pc' = pc /\ layer' = Tail(layer) /\ handles' = Append(handles, t)
      <3>1. Range(handles') = Range(handles) \cup {t}
        BY <2>9, <1>4, AppendRange
      <3>2. Range(layer') \cup Range(handles') = Range(layer) \cup Range(handles)
            /\ Range(layer') \subseteq Range(layer)
        BY <2>9, <3>1, <1>2
      <3>3. ProgressInv'
        BY <2>3, <2>4, <2>6, <2>9, <1>2, <1>3, <1>4 DEF ProgressInv
      <3>4. TakenInv'
        BY <2>6, <3>2, <1>3 DEF TakenInv
      <3>5. WalkInv' /\ pc' \in RunPcs
        BY <2>7, <2>9, <3>3, <3>4 DEF WalkInv, RunPcs
      <3> QED
        BY <2>1, <2>5, <3>5, PromiseWalk
    <2> QED
      BY <2>8, <2>9, <1>5, <1>2 DEF TakeSingle, SpawnNext, t
  <1>6. CASE t \in Committed \ loaded
             /\ UNCHANGED <<graphVars, localVars, runs, sink, result, handles, fut>>
    <2>1. UNCHANGED <<numTasks, sig, edges, layers, fut, handles, runs, sink, result>>
      BY <1>6 DEF graphVars, localVars
    <2>2. /\ \A u, v : HasEdge(u, v)' <=> HasEdge(u, v)
          /\ \A k : LayerTasks(k)' = LayerTasks(k)
          /\ AllLayered' = AllLayered /\ Committed' = Committed
      BY <2>1 DEF HasEdge, LayerTasks, AllLayered, Committed
    <2>3. LaterInv'
      BY <2>1, <2>2, <1>3 DEF LaterInv
    <2>4. fut[t] # "none"
      BY <1>4, <1>6
    <2>5. CASE pc = "single" /\ pc' = "layer" /\ layer' = <<>>
      <3>1. ProgressInv'
        <4>1. Range(layer') = {}
          BY <2>5 DEF Range
        <4>2. Range(layer) = {t}
          BY <2>5, <1>2
        <4> QED
          BY <4>1, <4>2, <2>1, <2>2, <2>4, <1>3 DEF ProgressInv
      <3>2. WalkInv' /\ pc' \in RunPcs
        BY <2>3, <2>5, <3>1 DEF WalkInv, RunPcs
      <3> QED
        BY <2>1, <3>2, <1>3, PromiseWalk
    <2>6. CASE pc = "spawn" /\ pc' = pc /\ layer' = Tail(layer)
      <3>1. ProgressInv'
        BY <2>1, <2>2, <2>4, <2>6, <1>2, <1>3 DEF ProgressInv
      <3>2. TakenInv'
        BY <2>1, <2>2, <2>6, <1>2, <1>3 DEF TakenInv
      <3>3. WalkInv' /\ pc' \in RunPcs
        BY <2>3, <2>6, <3>1, <3>2 DEF WalkInv, RunPcs
      <3> QED
        BY <2>1, <3>3, <1>3, PromiseWalk
    <2> QED
      BY <2>5, <2>6, <1>6, <1>2 DEF TakeSingle, SpawnNext, t
  <1> QED
    BY <1>2, <1>5, <1>6 DEF TakeSingle, SpawnNext, t

\* Only the place in execute(), its handles and its outputs change.
LEMMA PromiseOn ==
  ASSUME PromiseInv, pc \in WalkPcs, pc' \in {"layer", "join"},
         UNCHANGED <<graphVars, localVars, runs, sink, result>>,
         layer = <<>> \/ pc = "inline", layer' = <<>>,
         NEW done \in SUBSET TaskId,
         pc = "inline" => Range(layer) \subseteq done,
         \A t \in TaskId : IF t \in done THEN fut'[t] # "none" /\ fut'[t] \notin InputErrors
                                         ELSE fut'[t] = fut[t],
         Committed \subseteq TaskId
  PROVE  PromiseInv'
  <1>1. UNCHANGED <<numTasks, sig, edges, layers, runs, sink, result>>
    BY DEF graphVars, localVars
  <1>2. /\ \A u, v : HasEdge(u, v)' <=> HasEdge(u, v)
        /\ \A k : LayerTasks(k)' = LayerTasks(k)
        /\ AllLayered' = AllLayered /\ Committed' = Committed
    BY <1>1 DEF HasEdge, LayerTasks, AllLayered, Committed
  <1>3. /\ LaterInv /\ ProgressInv
        /\ runs = 1 => \A t \in TaskId : fut[t] \notin InputErrors
    BY DEF PromiseInv, WalkInv, FirstRunInv
  <1>4. LaterInv'
    BY <1>1, <1>2, <1>3 DEF LaterInv
  <1>5. Range(layer') = {} /\ Range(layer) \subseteq done
    BY DEF Range
  <1>6. ProgressInv'
    <2>1. AllLayered' \cup Range(layer') \subseteq Committed'
      BY <1>2, <1>3, <1>5 DEF ProgressInv
    <2>2. \A t \in Committed : t \in AllLayered \/ fut'[t] # "none"
      BY <1>3, <1>5 DEF ProgressInv
    <2> QED
      BY <2>1, <2>2, <1>2 DEF ProgressInv
  <1>7. runs = 1 => \A t \in TaskId : fut'[t] \notin InputErrors
    BY <1>3
  <1>8. WalkInv' /\ pc' \in RunPcs
    BY <1>4, <1>6 DEF WalkInv, RunPcs
  <1> QED
    BY <1>1, <1>7, <1>8, PromiseWalk

\* Only futures change, and none of them back to one that was not invoked.
LEMMA PromiseFutures ==
  ASSUME PromiseInv, UNCHANGED <<topoVars, runs, sink, result, layer, handles>>,
         \A t \in TaskId : /\ fut[t] # "none" => fut'[t] # "none"
                           /\ fut[t] \notin InputErrors => fut'[t] \notin InputErrors,
         Committed \subseteq TaskId
  PROVE  PromiseInv'
  <1>1. /\ UNCHANGED <<pc, numTasks, sig, loaded, builder, edges, layers>>
        /\ UNCHANGED <<runs, sink, result, layer, handles>>
    BY DEF topoVars, graphVars, localVars
  <1>2. /\ \A u, v : HasEdge(u, v)' <=> HasEdge(u, v)
        /\ \A k : LayerTasks(k)' = LayerTasks(k)
        /\ AllLayered' = AllLayered /\ Committed' = Committed
    BY <1>1 DEF HasEdge, LayerTasks, AllLayered, Committed
  <1>3. LaterInv => LaterInv'
    BY <1>1, <1>2 DEF LaterInv
  <1>4. ProgressInv => ProgressInv'
    BY <1>1, <1>2 DEF ProgressInv
  <1>5. TakenInv => TakenInv'
    BY <1>1, <1>2 DEF TakenInv
  <1>6. WalkInv'
    BY <1>1, <1>3, <1>4, <1>5 DEF PromiseInv, WalkInv
  <1>7. BuilderFresh' /\ SinkInv'
    BY <1>1, <1>2 DEF PromiseInv, BuilderFresh, SinkInv
  <1>8. FirstRunInv'
    BY <1>1 DEF PromiseInv, FirstRunInv
  <1> QED
    BY <1>1, <1>2, <1>6, <1>7, <1>8 DEF PromiseInv

LEMMA PromiseEnds ==
  ASSUME ExecInv, PromiseInv, NEW t \in TaskId, Suspend(t) \/ Complete(t) \/ Panic(t)
  PROVE  PromiseInv'
  <1>1. PICK state \in {"suspended", "done", "panicked"} : fut' = [fut EXCEPT ![t] = state]
    BY DEF Suspend, Complete, Panic, EndFuture
  <1>2. UNCHANGED <<topoVars, runs, sink, result, layer, handles>>
    BY DEF Suspend, Complete, Panic, EndFuture
  <1>3. fut \in [TaskId -> FutureStates] /\ Committed \subseteq TaskId
    BY CommittedCount DEF ExecInv, ExecTypeOK
  <1>4. state # "none" /\ state \notin InputErrors
    BY DEF InputErrors
  <1>5. \A u \in TaskId : /\ fut[u] # "none" => fut'[u] # "none"
                          /\ fut[u] \notin InputErrors => fut'[u] \notin InputErrors
    BY <1>1, <1>3, <1>4
  <1> QED
    BY <1>2, <1>3, <1>5, PromiseFutures

LEMMA PromiseSame ==
  ASSUME ExecInv, PromiseInv, UNCHANGED vars
  PROVE  PromiseInv'
  <1>1. UNCHANGED <<topoVars, runs, sink, result, layer, handles>> /\ fut' = fut
    BY DEF vars, execVars
  <1>2. Committed \subseteq TaskId
    BY CommittedCount DEF ExecInv, ExecTypeOK
  <1> QED
    BY <1>1, <1>2, PromiseFutures

LEMMA PromiseJoin ==
  ASSUME ExecInv, PromiseInv, SpawnDone \/ JoinDone \/ Join
  PROVE  PromiseInv'
  <1>1. Committed \subseteq TaskId /\ {} \in SUBSET TaskId
    BY CommittedCount DEF ExecInv, ExecTypeOK
  <1>2. CASE SpawnDone \/ JoinDone
    <2>1. /\ pc \in WalkPcs /\ pc # "inline" /\ pc' \in {"layer", "join"}
          /\ UNCHANGED <<graphVars, localVars, runs, sink, result>>
          /\ layer = <<>> /\ layer' = <<>> /\ fut' = fut
      BY <1>2 DEF SpawnDone, JoinDone, WalkPcs, execVars, ExecInv, ExecShape
    <2> QED
      BY <2>1, <1>1, PromiseOn
  <1>3. CASE Join /\ UNCHANGED pc
    <2>1. pc = "join"
      BY <1>3 DEF Join
    <2>2. ~Leave("idle", fut[Head(handles)], Named(Head(handles)))
      BY <1>3, <2>1 DEF Leave
    <2>3. /\ pc \in WalkPcs /\ pc # "inline" /\ pc' \in {"layer", "join"}
          /\ UNCHANGED <<graphVars, localVars, runs, sink, result>>
          /\ layer = <<>> /\ layer' = <<>> /\ fut' = fut
      BY <1>3, <2>1, <2>2 DEF Join, PassError, Return, WalkPcs, ExecInv, ExecShape
    <2> QED
      BY <2>3, <1>1, PromiseOn
  <1>4. CASE Join /\ ~UNCHANGED pc
    <2> DEFINE t == Head(handles)
    <2>1. /\ pc = "join" /\ handles # <<>> /\ Leave("idle", fut[t], Named(t))
          /\ UNCHANGED graphVars /\ fut' = fut /\ fut[t] \in Finished /\ fut[t] # "done"
      BY <1>4 DEF Join, Joinable, PassError, Return
    <2>2. t \in TaskId
      BY <2>1 DEF ExecInv, ExecTypeOK
    <2>3. /\ fut[t] \notin {"HasCycle", "output type mismatch"} /\ fut[t] # "unwound"
          /\ fut[t] # "TaskNotFound"
      BY <2>1 DEF Finished, InputErrors
    <2>4. runs = 1 => \A u \in TaskId : fut[u] \notin InputErrors
      BY DEF PromiseInv, FirstRunInv
    <2> QED
      BY <2>1, <2>3, <2>4, PromiseLeave
  <1> QED
    BY <1>2, <1>3, <1>4

LEMMA PromiseInline ==
  ASSUME ExecInv, PromiseInv, NEW t \in TaskId,
         CompleteInline(t) \/ PanicInline(t) \/ FailInline(t) \/ CancelInline(t)
  PROVE  PromiseInv'
  <1>1. pc = "inline" /\ layer = <<t>> /\ pc \in WalkPcs
    BY DEF CompleteInline, PanicInline, FailInline, CancelInline, Inline, WalkPcs
  <1>2. /\ fut \in [TaskId -> FutureStates] /\ Committed \subseteq TaskId
        /\ ProgressInv /\ runs = 1 => \A u \in TaskId : fut[u] \notin InputErrors
    BY <1>1, CommittedCount DEF ExecInv, ExecTypeOK, PromiseInv, FirstRunInv, WalkInv
  <1>3. Range(layer) = {t}
    BY <1>1 DEF Range
  <1>4. t \in Committed
    BY <1>1, <1>3 DEF PromiseInv, WalkInv, ProgressInv
  <1>5. CASE CompleteInline(t)
    <2>1. /\ pc' = "layer" /\ UNCHANGED <<graphVars, localVars, runs, sink, result>>
          /\ layer' = <<>> /\ fut' = [fut EXCEPT ![t] = "done"]
      BY <1>5 DEF CompleteInline, EndFuture
    <2>2. \A u \in TaskId : IF u \in {t} THEN fut'[u] # "none" /\ fut'[u] \notin InputErrors
                                         ELSE fut'[u] = fut[u]
      BY <2>1, <1>2 DEF InputErrors
    <2> QED
      BY <2>1, <2>2, <1>1, <1>2, <1>3, PromiseOn
  <1>6. CASE PanicInline(t)
    <2>1. /\ Leave("panicked", "unwound", t) /\ UNCHANGED graphVars
          /\ fut' = [fut EXCEPT ![t] = "panicked"]
      BY <1>6 DEF PanicInline, EndFuture, Unwind
    <2>2. runs = 1 => \A u \in TaskId : fut'[u] \notin InputErrors
      BY <2>1, <1>2 DEF PromiseInv, FirstRunInv, InputErrors
    <2> QED
      BY <2>1, <2>2, <1>4, PromiseLeave
  <1>7. CASE FailInline(t)
    <2>1. /\ Leave("idle", fut[t], Named(t)) /\ UNCHANGED graphVars
          /\ fut' = fut /\ fut[t] \in InputErrors
      BY <1>7 DEF FailInline, PassError, Return
    <2>2. /\ fut[t] \notin {"HasCycle", "output type mismatch"} /\ fut[t] # "unwound"
          /\ fut[t] # "TaskNotFound"
      BY <2>1 DEF InputErrors
    <2>3. runs = 1 => \A u \in TaskId : fut[u] \notin InputErrors
      BY DEF PromiseInv, FirstRunInv
    <2> QED
      BY <2>1, <2>2, <2>3, PromiseLeave
  <1>8. CASE CancelInline(t)
    <2>1. /\ Leave("idle", "cancelled", NoTask) /\ UNCHANGED graphVars
          /\ fut' = [fut EXCEPT ![t] = "dropped"]
      BY <1>8 DEF CancelInline, Return
    <2>2. runs = 1 => \A u \in TaskId : fut'[u] \notin InputErrors
      BY <2>1, <1>2 DEF PromiseInv, FirstRunInv, InputErrors
    <2> QED
      BY <2>1, <2>2, PromiseLeave
  <1> QED
    BY <1>5, <1>6, <1>7, <1>8

(***************************************************************************)
(* When the layers are used up every task was invoked; the outputs are     *)
(* those of this run's tasks.                                              *)
(***************************************************************************)
LEMMA RunComplete ==
  ASSUME Misuses = {}, ExecInv, PromiseInv, ExecuteDone
  PROVE  /\ \A t \in Committed : fut[t] # "none"
         /\ \A t \in ThisRun : fut[t] = "done"
         /\ outputs = ThisRun
         /\ Outcome \in IF sink.id \in ThisRun THEN {"ok", "output has multiple owners"}
                                               ELSE {"TaskNotFound"}
         /\ sink.typed /\ runs = 1 => sink.id \in ThisRun
  <1>1. pc \in {"layered", "layer"} /\ layers = <<>> /\ (pc = "layer" => pc \in WalkPcs)
    BY DEF ExecuteDone, WalkPcs
  <1>2. ProgressInv
    BY <1>1, AtLayered DEF PromiseInv, WalkInv
  <1>3. layer = <<>> /\ AllLayered = {}
    BY <1>1 DEF ExecInv, ExecShape, WalkPcs, AllLayered
  <1>4. \A t \in Committed : fut[t] # "none"
    BY <1>2, <1>3 DEF ProgressInv, Range
  <1>5. \A t \in ThisRun : t \in outputs /\ fut[t] = "done"
    BY <1>1, NobodyHolds
  <1>6. outputs \subseteq ThisRun
    BY DEF ExecInv, ExecTypeOK, OutputsInv, ThisRun
  <1>7. SinkInv
    BY DEF PromiseInv
  <1>8. Outcome \in IF sink.id \in ThisRun THEN {"ok", "output has multiple owners"}
                                           ELSE {"TaskNotFound"}
    <2>1. CASE sink.id \in outputs
      <3>1. ~(sink.typed /\ sig[sink.id].out # sink.ty)
        BY <1>7 DEF SinkInv
      <3>2. Outcome \in {"ok", "output has multiple owners"}
        BY <2>1, <3>1 DEF Outcome
      <3> QED
        BY <2>1, <3>2, <1>6
    <2>2. CASE sink.id \notin outputs
      <3>1. Outcome = "TaskNotFound"
        BY <2>2 DEF Outcome
      <3> QED
        BY <2>2, <3>1, <1>5
    <2> QED
      BY <2>1, <2>2
  <1>9. ASSUME sink.typed, runs = 1
        PROVE  sink.id \in ThisRun
    <2>1. sink.id \in Committed /\ sink.id \in TaskId
      BY <1>7, <1>9 DEF SinkInv, ExecInv, ExecTypeOK
    <2>2. fut[sink.id] # "none" /\ 1 <= bornIn[sink.id] /\ bornIn[sink.id] <= 1
          /\ bornIn[sink.id] \in Nat
      BY <2>1, <1>4, <1>9 DEF ExecInv, ExecTypeOK, BornInv
    <2> QED
      BY <2>1, <2>2, <1>9 DEF ThisRun
  <1> QED
    BY <1>4, <1>5, <1>6, <1>8, <1>9

LEMMA PromiseDone ==
  ASSUME Misuses = {}, ExecInv, PromiseInv, ExecuteDone
  PROVE  PromiseInv'
  <1>1. Leave("idle", Outcome, sink.id) /\ UNCHANGED graphVars /\ fut' = fut
    BY DEF ExecuteDone, Return
  <1>2. /\ Outcome \in {"ok", "output has multiple owners", "TaskNotFound"}
        /\ runs = 1 /\ sink.typed => Outcome # "TaskNotFound"
    BY RunComplete
  <1>3. runs = 1 => \A u \in TaskId : fut[u] \notin InputErrors
    BY DEF PromiseInv, FirstRunInv
  <1> QED
    BY <1>1, <1>2, <1>3, PromiseLeave

LEMMA PromiseCancelJoin ==
  ASSUME PromiseInv, CancelJoin
  PROVE  PromiseInv'
  <1>1. Leave("idle", "cancelled", NoTask) /\ UNCHANGED graphVars /\ fut' = fut
    BY DEF CancelJoin, Return
  <1>2. runs = 1 => \A u \in TaskId : fut[u] \notin InputErrors
    BY DEF PromiseInv, FirstRunInv
  <1> QED
    BY <1>1, <1>2, PromiseLeave

\* With the typed API the user can name only wrappers of tasks of this flow.
LEMMA OwnWrapper ==
  ASSUME Misuses = {}, GraphTypeOK, NEW w \in Wrappers
  PROVE  w.id \in Committed /\ w.ty = sig[w.id].out
  <1>1. PICK t \in wrapped : w = [id |-> t, ty |-> sig[t].out]
    BY DEF Wrappers
  <1> QED
    BY <1>1 DEF GraphTypeOK

LEMMA PromiseStep ==
  ASSUME Misuses = {}, ExecInv, PromiseInv, [ExecNext]_vars
  PROVE  PromiseInv'
  <1>1. CASE BuildNext /\ UNCHANGED <<localVars, execVars>>
    BY <1>1, PromiseBuild
  <1>2. CASE \E w \in Wrappers : run(w)
    <2>1. PICK w \in Wrappers : CallExecute([id |-> w.id, ty |-> w.ty, typed |-> TRUE])
      BY <1>2 DEF run
    <2>2. w.id \in Committed /\ w.ty = sig[w.id].out
      BY OwnWrapper DEF ExecInv, ExecTypeOK
    <2> QED
      BY <2>1, <2>2, PromiseCall
  <1>3. CASE \E t \in TaskId : run_with_sink_id(t)
    <2>1. PICK t \in TaskId : CallExecute([id |-> t, ty |-> sink.ty, typed |-> FALSE])
      BY <1>3 DEF run_with_sink_id
    <2> QED
      BY <2>1, PromiseCall
  <1>4. CASE RunStep
    <2>1. CASE LayerStep /\ UNCHANGED execVars
      BY <2>1, PromiseLayer
    <2>2. CASE ReportCycle
      BY <2>2, NoneLent, NeverCyclic DEF ReportCycle
    <2>3. CASE StartLayer \/ ExecuteDone
      BY <2>3, PromiseStartLayer, PromiseDone
    <2>4. CASE TakeSingle \/ SpawnNext
      BY <2>4, PromiseTake
    <2>5. CASE SpawnDone \/ Join \/ JoinDone
      BY <2>5, PromiseJoin
    <2>6. CASE \E t \in TaskId : CompleteInline(t) \/ PanicInline(t) \/ FailInline(t)
      BY <2>6, PromiseInline
    <2> QED
      BY <2>1, <2>2, <2>3, <2>4, <2>5, <2>6, <1>4 DEF RunStep
  <1>5. CASE \E t \in TaskId : Suspend(t) \/ Complete(t) \/ Panic(t) \/ CancelInline(t)
    BY <1>5, PromiseEnds, PromiseInline
  <1>6. CASE CancelJoin
    BY <1>6, PromiseCancelJoin
  <1>7. CASE UNCHANGED vars
    BY <1>7, PromiseSame
  <1> QED
    BY <1>1, <1>2, <1>3, <1>4, <1>5, <1>6, <1>7 DEF ExecNext

TypedInv == ExecInv /\ (Misuses = {} => PromiseInv)

THEOREM TypedInvariant == ExecSpec => []TypedInv
  <1>1. ExecInit => TypedInv
    BY ExecStart, PromiseStart DEF TypedInv
  <1>2. TypedInv /\ [ExecNext]_vars => TypedInv'
    BY ExecStep, PromiseStep DEF TypedInv
  <1> QED
    BY <1>1, <1>2, PTL DEF ExecSpec

(***************************************************************************)
(* The first run of a flow that the typed API built succeeds, unless a     *)
(* task panicked, a task stored an output away, or the caller cancelled.   *)
(***************************************************************************)
THEOREM FirstRunAlwaysSucceeds == ExecSpec => []FirstRunSucceeds
  <1>1. ASSUME TypedInv, Misuses = {}, sink.typed, kept = {}, runs = 1,
               result.kind \notin {"none", "cancelled"},
               \A t \in TaskId : fut[t] # "panicked"
        PROVE  result.kind = "ok"
    <2>1. ExecInv /\ PromiseInv
      BY <1>1 DEF TypedInv
    <2>2. result.kind \in ResultKinds /\ result.tid \in TaskId /\ ThisRun \subseteq TaskId
      BY <2>1 DEF ExecInv, ExecTypeOK, ThisRun
    <2>3. result.kind \notin {"HasCycle", "output type mismatch", "TaskNotFound"}
      BY <1>1, <2>1 DEF PromiseInv, FirstRunInv
    <2>4. result.kind # "output has multiple owners"
      BY <1>1, <2>1 DEF ExecInv, ResultInv, SoleOwner
    <2>5. result.kind \notin InputErrors \cup {"panicked"}
      BY <1>1, <2>1, <2>2 DEF ExecInv, ResultInv, BlameIsRight, PromiseInv, FirstRunInv
    <2>6. result.kind # "unwound"
      BY <1>1, <2>1, <2>2 DEF ExecInv, ResultInv, BlameIsRight, PromiseInv
    <2> QED
      BY <1>1, <2>2, <2>3, <2>4, <2>5, <2>6 DEF ResultKinds, ExecutionErrors
  <1>2. TypedInv => FirstRunSucceeds
    BY <1>1 DEF FirstRunSucceeds
  <1> QED
    BY <1>2, TypedInvariant, PTL

(***************************************************************************)
(* What the typed API promises at compile time also holds while flows run, *)
(* runs made through living builders included: each task that was wired    *)
(* has the dependencies its inputs declare, and there is no cycle.         *)
(***************************************************************************)
THEOREM TypedRunsWellWired == ExecSpec => []WellWired
  <1>1. ASSUME ExecInv
        PROVE  WellWired
    BY <1>1, WireMeans DEF ExecInv, LayerInv, GraphInv
  <1> QED
    BY <1>1, ExecInvariant, PTL

\* Only ReportCycle returns Err(HasCycle), and it is never reached.
LEMMA CycleStep ==
  ASSUME TypedApi, ExecInv, result.kind # "HasCycle", [ExecNext]_vars
  PROVE  result'.kind # "HasCycle"
  <1>1. CASE UNCHANGED result
    BY <1>1
  <1>2. ASSUME NEW newpc, NEW kind, NEW tid, Leave(newpc, kind, tid), kind # "HasCycle"
        PROVE  result'.kind # "HasCycle"
    BY <1>2 DEF Leave
  <1>3. CASE (\E w \in Wrappers : run(w)) \/ (\E t \in TaskId : run_with_sink_id(t))
    BY <1>3 DEF run, run_with_sink_id, CallExecute, NoResult
  <1>4. CASE ReportCycle
    BY <1>4, NeverCyclic DEF ReportCycle
  <1>5. CASE TakeSingle \/ SpawnNext
    BY <1>1, <1>2, <1>5 DEF TakeSingle, SpawnNext, Unwind
  <1>6. CASE Join
    <2>1. Joinable(Head(handles)) => fut[Head(handles)] # "HasCycle"
      BY DEF Joinable, Finished, InputErrors
    <2> QED
      BY <1>1, <1>2, <1>6, <2>1 DEF Join, PassError, Return
  <1>7. CASE ExecuteDone
    BY <1>2, <1>7 DEF ExecuteDone, Return, Outcome
  <1>8. CASE CancelJoin
    BY <1>2, <1>8 DEF CancelJoin, Return
  <1>9. ASSUME NEW t \in TaskId, PanicInline(t) \/ FailInline(t) \/ CancelInline(t)
        PROVE  result'.kind # "HasCycle"
    <2>1. "HasCycle" \notin InputErrors
      BY DEF InputErrors
    <2> QED
      BY <1>2, <1>9, <2>1 DEF PanicInline, FailInline, CancelInline, PassError, Return, Unwind
  <1>10. /\ BuildNext /\ UNCHANGED <<localVars, execVars>> => UNCHANGED result
         /\ LayerStep /\ UNCHANGED execVars => UNCHANGED result
         /\ UNCHANGED vars => UNCHANGED result
    BY DEF execVars, vars
  <1>11. StartLayer \/ SpawnDone \/ JoinDone
           \/ (\E t \in TaskId : CompleteInline(t) \/ Suspend(t) \/ Complete(t) \/ Panic(t))
           => UNCHANGED result
    BY DEF StartLayer, SpawnDone, JoinDone, CompleteInline, Suspend, Complete, Panic, execVars
  <1> QED
    BY <1>1, <1>3, <1>4, <1>5, <1>6, <1>7, <1>8, <1>9, <1>10, <1>11 DEF ExecNext, RunStep

(***************************************************************************)
(* No run of a flow that was built with the typed API returns HasCycle,    *)
(* however the calls through living builders nest: the check in the layer  *)
(* algorithm is for the misuses alone.                                     *)
(***************************************************************************)
THEOREM NeverReportsACycle == ExecSpec => []NoCycleReported
  <1> DEFINE Inv == ExecInv /\ NoCycleReported
  <1>1. ExecInit => Inv
    BY ExecStart DEF NoCycleReported, ExecInit, NoResult
  <1>2. Inv /\ [ExecNext]_vars => Inv'
    BY ExecStep, CycleStep DEF NoCycleReported, TypedApi
  <1>3. Inv => NoCycleReported
    OBVIOUS
  <1> QED
    BY <1>1, <1>2, <1>3, PTL DEF ExecSpec

-----------------------------------------------------------------------------
(***************************************************************************)
(* The refinement: what a step of FlowExec is in terms of DagPromise.      *)
(***************************************************************************)
LEMMA StatusValues ==
  /\ StatusOf("none") = "fresh"
  /\ \A state \in Alive : StatusOf(state) = "running"
  /\ \A state \in InputErrors : StatusOf(state) = "refused"
  /\ StatusOf("panicked") = "failed"
  /\ StatusOf("done") = "done" /\ StatusOf("dropped") = "dropped"
  /\ \A state \in FutureStates : StatusOf(state) = "fresh" <=> state = "none"
  /\ \A state \in FutureStates : StatusOf(state) = "done" <=> state = "done"
  BY DEF StatusOf, Alive, InputErrors, FutureStates, Finished

LEMMA VerdictValues ==
  /\ \A kind \in InputErrors : VerdictOf(kind) = "refused"
  /\ VerdictOf("panicked") = "failed"
  /\ VerdictOf("unwound") = "died" /\ VerdictOf("TaskNotFound") = "missing"
  /\ VerdictOf("output has multiple owners") = "shared"
  /\ VerdictOf("ok") = "ok" /\ VerdictOf("none") = "none"
  /\ VerdictOf("cancelled") = "cancelled"
  BY DEF VerdictOf, InputErrors

LEMMA PhaseValues ==
  /\ pc \in RunPcs => Phase = "running"
  /\ pc = "panicked" => Phase = "dead"
  /\ pc \in {"idle", "building", "wiring"} => Phase = "idle"
  BY DEF Phase, RunPcs, LayerPcs

LEMMA StatusAfter ==
  ASSUME ExecInv, NEW t \in TaskId, NEW state, fut' = [fut EXCEPT ![t] = state]
  PROVE  Status' = [Status EXCEPT ![t] = StatusOf(state)]
  <1>1. fut \in [TaskId -> FutureStates]
    BY DEF ExecInv, ExecTypeOK
  <1>2. \A u \in TaskId : fut'[u] = IF u = t THEN state ELSE fut[u]
    BY <1>1
  <1>3. /\ Status = [u \in TaskId |-> StatusOf(fut[u])]
        /\ Status' = [u \in TaskId |-> StatusOf(fut'[u])]
    BY DEF Status
  <1>4. \A u \in TaskId : StatusOf(fut'[u]) = IF u = t THEN StatusOf(state) ELSE StatusOf(fut[u])
    BY <1>2
  <1> QED
    BY <1>3, <1>4

\* Neither the graph, nor the tasks, nor what run() returned changed.
LEMMA AbstractStutter ==
  ASSUME Phase' = Phase, UNCHANGED <<numTasks, rev_edges, sink, result, runs, bornIn>>,
         \A t \in TaskId : /\ StatusOf(fut'[t]) = StatusOf(fut[t])
                           /\ fut'[t] = "none" <=> fut[t] = "none"
  PROVE  UNCHANGED Promise!vars
  <1>1. Committed' = Committed /\ Deps' = Deps /\ Verdict' = Verdict
    BY DEF Committed, Deps, Verdict
  <1>2. Status' = Status /\ ThisRun' = ThisRun
    BY DEF Status, ThisRun
  <1> QED
    BY <1>1, <1>2 DEF Promise!vars

LEMMA AbstractInit ==
  ASSUME ExecInit
  PROVE  Promise!Init
  <1>1. /\ pc = "idle" /\ numTasks = 0 /\ rev_edges = [v \in TaskId |-> <<>>]
        /\ fut = [t \in TaskId |-> "none"] /\ result = NoResult
    BY DEF ExecInit, TopoInit, GraphInit
  <1>2. sink.id = 0 /\ 0 \in TaskId
    BY BoundsAssumption DEF ExecInit, NoSink, TaskId
  <1>3. Phase = "idle" /\ Committed = {} /\ ThisRun = {}
    BY <1>1, PhaseValues DEF Committed, ThisRun
  <1>4. Deps = [t \in TaskId |-> {}]
    <2>1. \A t \in TaskId : Range(rev_edges[t]) = {}
      BY <1>1 DEF Range
    <2> QED
      BY <2>1 DEF Deps
  <1>5. Status = [t \in TaskId |-> "fresh"]
    BY <1>1, StatusValues DEF Status
  <1>6. Verdict = [kind |-> "none", task |-> sink.id]
    BY <1>1, VerdictValues DEF Verdict, NoResult
  <1> QED
    BY <1>2, <1>3, <1>4, <1>5, <1>6 DEF Promise!Init, Promise!NoVerdict

\* A number below the modulus is its own remainder.
LEMMA DegModSmall ==
  ASSUME NEW k \in 0 .. DegMod - 1
  PROVE  k % DegMod = k
  <1>1. DegMod \in Nat \ {0} /\ DegMod * 0 + k = k
    BY ArityAssumption
  <1>2. (DegMod * 0 + k) % DegMod = k
    BY <1>1, ModUnique
  <1> QED
    BY <1>1, <1>2

\* With the typed API the u8 in-degree of the task being wired never wraps.
LEMMA WiringSafe ==
  ASSUME Misuses = {}, ExecInv, WireOne
  PROVE  /\ ~DegreeOverflows(builder.id)
         /\ builder.id \in Committed /\ Head(builder.todo) \in Committed
  <1> DEFINE t == builder.id
             n == Len(sig[t].ins)
  <1>1. /\ GraphTypeOK /\ HalfWired /\ CountInv /\ RevCount /\ t \in Committed
        /\ Committed \subseteq TaskId /\ wrapped \subseteq Committed
    BY NoneLent, CommittedCount
    DEF ExecInv, LayerInv, GraphInv, WireInv, WireOne, BuilderCommitted, GraphTypeOK
  <1>2. pc = "wiring" /\ builder.todo # <<>>
    BY DEF WireOne
  <1>3. /\ builder.todo \in Seq(TaskId) /\ rev_edges[t] \in Seq(TaskId) /\ sig[t] \in Signatures
    BY <1>1 DEF GraphTypeOK
  <1>4. /\ Len(rev_edges[t]) + Len(builder.todo) = n
        /\ \A j \in DOMAIN builder.todo : Fits(builder.todo[j], t, Len(rev_edges[t]) + j)
    BY <1>1, <1>2 DEF HalfWired
  <1>5. n <= MaxArity /\ n \in Nat
    <2>1. sig[t] \in Signature /\ n <= MaxArity
      BY <1>3, SignaturesAssumption
    <2> QED
      BY <2>1 DEF Signature
  <1> HIDE DEF t, n
  <1>6. 1 \in DOMAIN builder.todo /\ Head(builder.todo) = builder.todo[1]
        /\ Len(builder.todo) \in Nat /\ Len(builder.todo) # 0
    BY <1>2, <1>3
  <1>7. Head(builder.todo) \in Committed
    BY <1>1, <1>4, <1>6 DEF Fits
  <1>8. DegreeOf(t) = Len(rev_edges[t]) % DegMod
    <2>1. DegreeCount(t) /\ Cardinality(InEdges(t)) = Len(rev_edges[t])
      BY <1>1, <1>2 DEF CountInv, RevCount
    <2> QED
      BY <2>1 DEF DegreeCount
  <1>9. Len(rev_edges[t]) \in Nat /\ Len(rev_edges[t]) + 1 <= MaxArity
    <2>1. \A a, b \in Nat : a + b = n /\ b # 0 => a + 1 <= MaxArity
      BY <1>5, ArityAssumption
    <2>2. Len(rev_edges[t]) \in Nat
      BY <1>3
    <2> QED
      BY <2>1, <2>2, <1>4, <1>6
  <1>10. DegreeOf(t) + 1 # DegMod
    <2>1. \A k \in Nat : k + 1 <= MaxArity => k \in 0 .. DegMod - 1 /\ k + 1 # DegMod
      BY ArityAssumption
    <2>2. \A k \in 0 .. DegMod - 1 : k % DegMod = k
      BY ArityAssumption, DegModSmall
    <2> QED
      BY <2>1, <2>2, <1>8, <1>9
  <1> QED
    BY <1>1, <1>7, <1>10 DEF DegreeOverflows, t

LEMMA RefineBuild ==
  ASSUME Misuses = {}, ExecInv, PromiseInv, BuildNext, UNCHANGED <<localVars, execVars>>
  PROVE  Promise!Next \/ UNCHANGED Promise!vars
  <1>1. UNCHANGED <<runs, sink, result, fut, bornIn>>
    BY DEF execVars
  <1>2. Status' = Status /\ ThisRun' = ThisRun /\ Verdict' = Verdict
    BY <1>1 DEF Status, ThisRun, Verdict
  <1>3. GraphTypeOK /\ Committed \subseteq TaskId /\ numTasks \in Nat
    <2>1. GraphTypeOK
      BY DEF ExecInv, ExecTypeOK
    <2>2. numTasks \in Nat
      BY <2>1, BoundsAssumption DEF GraphTypeOK
    <2> QED
      BY <2>1, <2>2, CommittedCount
  <1>4. CASE \E s \in Signatures : commit_source_task(s) \/ commit_task(s)
    <2>1. /\ pc = "idle" /\ pc' \in {"idle", "building"}
          /\ numTasks < MaxTasks /\ numTasks' = numTasks + 1 /\ rev_edges' = rev_edges
      BY <1>4 DEF commit_source_task, commit_task, PushTask
    <2>2. /\ numTasks \in TaskId /\ numTasks \notin Committed
          /\ Committed' = Committed \cup {numTasks}
      <3>1. numTasks \in TaskId
        BY <2>1, <1>3, BoundsAssumption DEF TaskId
      <3>2. \A n \in Nat : /\ 0 .. (n + 1) - 1 = (0 .. n - 1) \cup {n}
                           /\ n \notin 0 .. n - 1
        OBVIOUS
      <3> QED
        BY <3>1, <3>2, <2>1, <1>3 DEF Committed
    <2>3. Phase = "idle" /\ Phase' = "idle" /\ Deps' = Deps
      BY <2>1, PhaseValues DEF Phase, Deps, RunPcs, LayerPcs
    <2>4. Promise!AddTask(numTasks)
      BY <2>2, <2>3, <1>1, <1>2 DEF Promise!AddTask
    <2> QED
      BY <2>2, <2>4 DEF Promise!Next
  <1>5. CASE with_dependencies \/ WiringDone
    <2>1. /\ pc \in {"building", "wiring"} /\ pc' \in {"idle", "wiring"}
          /\ UNCHANGED <<numTasks, rev_edges>>
      BY <1>5 DEF with_dependencies, WiringDone
    <2>2. Phase = "idle" /\ Phase' = "idle"
      BY <2>1 DEF Phase, RunPcs, LayerPcs
    <2> QED
      BY <2>1, <2>2, <1>1, AbstractStutter
  <1>6. CASE WireOne
    <2> DEFINE t == builder.id
               u == Head(builder.todo)
    <2>1. ~DegreeOverflows(t) /\ t \in Committed /\ u \in Committed
      BY <1>6, WiringSafe
    <2>2. /\ pc = "wiring" /\ pc' = "wiring" /\ numTasks' = numTasks
          /\ rev_edges' = [rev_edges EXCEPT ![t] = Append(@, u)]
      BY <2>1, <1>6 DEF WireOne, add_edges
    <2>3. fut[t] = "none" /\ t \in TaskId /\ u \in TaskId
      BY <2>1, <2>2, <1>3 DEF PromiseInv, BuilderFresh, ExecInv, SlotsInv
    <2> HIDE DEF t, u
    <2>4. Phase = "idle" /\ Phase' = "idle" /\ Committed' = Committed
      BY <2>2 DEF Phase, RunPcs, LayerPcs, Committed
    <2>5. Deps' = [Deps EXCEPT ![t] = @ \cup {u}]
      <3>1. rev_edges \in [TaskId -> Seq(TaskId)]
        BY <1>3 DEF GraphTypeOK
      <3>2. Range(Append(rev_edges[t], u)) = Range(rev_edges[t]) \cup {u}
        BY <3>1, <2>3, AppendRange
      <3>3. \A v \in TaskId : Range(rev_edges'[v]) =
                                IF v = t THEN Range(rev_edges[t]) \cup {u} ELSE Range(rev_edges[v])
        BY <3>1, <3>2, <2>2
      <3>4. /\ Deps = [v \in TaskId |-> Range(rev_edges[v])]
            /\ Deps' = [v \in TaskId |-> Range(rev_edges'[v])]
        BY DEF Deps
      <3> QED
        BY <3>3, <3>4
    <2>6. Status[t] = "fresh"
      BY <2>3, StatusValues DEF Status
    <2>7. Promise!AddDependency(t, u)
      BY <2>1, <2>4, <2>5, <2>6, <1>1, <1>2 DEF Promise!AddDependency
    <2> QED
      BY <2>3, <2>7 DEF Promise!Next
  <1>7. /\ ~DropBuilder /\ ~LendFlow /\ ~TakeFlowBack
        /\ ~ \E w \in Wrappers, v \in TaskId : register(w, v)
    BY NoneLent DEF DropBuilder, LendFlow, TakeFlowBack, register
  <1> QED
    BY <1>4, <1>5, <1>6, <1>7 DEF BuildNext

LEMMA RefineCall ==
  ASSUME ExecInv, NEW s \in [id : TaskId, ty : Types, typed : BOOLEAN], CallExecute(s)
  PROVE  Promise!BeginRun(s.id)
  <1>1. /\ pc = "idle" /\ pc' = "drain" /\ UNCHANGED graphVars
        /\ runs' = runs + 1 /\ sink' = s /\ result' = NoResult /\ UNCHANGED <<fut, bornIn>>
    BY DEF CallExecute, BeginLayers
  <1>2. Phase = "idle" /\ Phase' = "running"
    BY <1>1 DEF Phase, RunPcs, LayerPcs
  <1>3. UNCHANGED <<numTasks, rev_edges>>
    BY <1>1 DEF graphVars
  <1>4. Committed' = Committed /\ Deps' = Deps /\ Status' = Status
    BY <1>1, <1>3 DEF Committed, Deps, Status
  <1>5. ThisRun' = {}
    <2>1. \A t \in TaskId : bornIn[t] \in Nat /\ bornIn[t] <= runs /\ runs \in Nat
      BY DEF ExecInv, ExecTypeOK, BornInv
    <2> QED
      BY <2>1, <1>1 DEF ThisRun
  <1>6. Verdict' = [kind |-> "none", task |-> s.id]
    BY <1>1, VerdictValues DEF Verdict, NoResult
  <1> QED
    BY <1>1, <1>2, <1>4, <1>5, <1>6 DEF Promise!BeginRun

\* Inside run() the flow is in the running phase, before a step and after it.
LEMMA RunningPhase ==
  /\ pc \in RunPcs => Phase = "running"
  /\ pc' \in RunPcs => Phase' = "running"
  <1>1. Phase = CASE pc \in RunPcs -> "running" [] pc = "panicked" -> "dead" [] OTHER -> "idle"
    BY DEF Phase
  <1>2. Phase' = CASE pc' \in RunPcs -> "running" [] pc' = "panicked" -> "dead" [] OTHER -> "idle"
    BY DEF Phase, RunPcs, LayerPcs
  <1>3. "panicked" \notin RunPcs
    BY DEF RunPcs, LayerPcs
  <1>4. pc \in RunPcs => Phase = "running"
    BY <1>1, <1>3
  <1>5. pc' \in RunPcs => Phase' = "running"
    BY <1>2, <1>3
  <1> QED
    BY <1>4, <1>5

\* Layering, taking layers, spawning, joining: none of it shows.
LEMMA RefineQuiet ==
  ASSUME pc \in RunPcs, pc' \in RunPcs, UNCHANGED <<numTasks, rev_edges>>,
         UNCHANGED <<runs, sink, result, fut, bornIn>>
  PROVE  UNCHANGED Promise!vars
  <1>1. Phase' = Phase
    BY RunningPhase
  <1> QED
    BY <1>1, AbstractStutter

\* A task that is invoked starts, or is refused for good.
LEMMA RefineInvoke ==
  ASSUME Misuses = {}, ExecInv, PromiseInv, pc \in {"single", "spawn"}, pc' \in RunPcs,
         NEW t \in loaded, t \in Range(layer), invoke(t), UNCHANGED <<runs, sink, result>>
  PROVE  Promise!Start(t) \/ Promise!Refuse(t)
  <1>1. /\ UNCHANGED <<numTasks, rev_edges>> /\ bornIn' = [bornIn EXCEPT ![t] = runs]
    BY DEF invoke
  <1>2. /\ pc \in RunPcs /\ Phase = "running" /\ Phase' = "running"
        /\ Committed' = Committed /\ Deps' = Deps /\ Verdict' = Verdict
    <2>1. pc \in RunPcs
      BY DEF RunPcs
    <2>2. Phase = "running" /\ Phase' = "running"
      BY <2>1, RunningPhase
    <2>3. Committed' = Committed /\ Deps' = Deps /\ Verdict' = Verdict
      BY <1>1 DEF Committed, Deps, Verdict
    <2> QED
      BY <2>1, <2>2, <2>3
  <1>3. /\ t \in Committed /\ t \in TaskId /\ fut[t] = "none"
        /\ fut \in [TaskId -> FutureStates] /\ bornIn \in [TaskId -> 0 .. MaxRuns]
        /\ rev_edges \in [TaskId -> Seq(TaskId)] /\ outputs \subseteq TaskId
    BY CommittedCount DEF ExecInv, ExecTypeOK, SlotsInv, GraphTypeOK
  <1>4. /\ fut'[t] \in InputErrors \cup {"ready"}
        /\ \A u \in TaskId \ {t} : fut'[u] = fut[u]
        /\ fut'[t] = "ready" <=> \A u \in Range(rev_edges[t]) : u \in outputs
        /\ fut' = [fut EXCEPT ![t] = fut'[t]]
    BY InvokedState
  <1>5. Status[t] = "fresh" /\ Status' = [Status EXCEPT ![t] = StatusOf(fut'[t])]
    <2>1. Status[t] = "fresh"
      BY <1>3, StatusValues DEF Status
    <2>2. PICK state : state = fut'[t]
      OBVIOUS
    <2>3. fut' = [fut EXCEPT ![t] = state]
      BY <2>2, <1>4
    <2>4. Status' = [Status EXCEPT ![t] = StatusOf(state)]
      BY <2>3, <1>3, StatusAfter
    <2> QED
      BY <2>1, <2>2, <2>4
  <1>6. ThisRun' = ThisRun \cup {t}
    <2>1. fut'[t] # "none" /\ \A u \in TaskId : bornIn'[u] = IF u = t THEN runs ELSE bornIn[u]
      BY <1>1, <1>3, <1>4 DEF InputErrors
    <2> QED
      BY <2>1, <1>3, <1>4 DEF ThisRun
  <1>7. Deps[t] = Range(rev_edges[t])
    BY <1>3 DEF Deps
  <1>8. CASE fut'[t] = "ready"
    <2>1. StatusOf(fut'[t]) = "running"
      BY <1>8, StatusValues DEF Alive
    <2>2. Promise!Launch(t, "running")
      BY <2>1, <1>2, <1>3, <1>5, <1>6 DEF Promise!Launch
    <2>3. \A u \in Deps[t] : u \in outputs /\ fut[u] = "done" /\ u \in ThisRun /\ u \in TaskId
      BY <1>3, <1>4, <1>7, <1>8 DEF ExecInv, OutputsInv, ThisRun
    <2>4. \A u \in Deps[t] : Status[u] = "done"
      BY <2>3, StatusValues DEF Status
    <2>5. Promise!Supplied(t)
      BY <2>3, <2>4 DEF Promise!Supplied, Promise!Done
    <2> QED
      BY <2>2, <2>5 DEF Promise!Start
  <1>9. CASE fut'[t] \in InputErrors
    <2>1. StatusOf(fut'[t]) = "refused"
      BY <1>9, StatusValues
    <2>2. Promise!Launch(t, "refused")
      BY <2>1, <1>2, <1>3, <1>5, <1>6 DEF Promise!Launch
    <2>3. PICK u \in Range(rev_edges[t]) : u \notin outputs
      BY <1>4, <1>9 DEF InputErrors
    <2>4. u \in TaskId /\ fut[u] # "none" /\ u \notin ThisRun
      BY <2>3, Unsupplied
    <2>5. Status[u] # "fresh"
      BY <2>4, <1>3, StatusValues DEF Status
    <2> QED
      BY <2>2, <2>3, <2>4, <2>5, <1>7 DEF Promise!Refuse
  <1> QED
    BY <1>4, <1>8, <1>9

\* Taking a task out of the layer: it is invoked, or its slot was empty.
LEMMA RefineTake ==
  ASSUME Misuses = {}, ExecInv, PromiseInv, TakeSingle \/ SpawnNext
  PROVE  Promise!Next \/ UNCHANGED Promise!vars
  <1> DEFINE t == Head(layer)
  <1>1. /\ pc = "single" \/ (pc = "spawn" /\ layer # <<>>)
        /\ pc \in {"single", "spawn"} /\ pc \in RunPcs
    BY DEF TakeSingle, SpawnNext, RunPcs
  <1>2. t = layer[1] /\ t \in Range(layer) /\ t \in Committed
    BY <1>1, NextTaken
  <1>3. t \in TaskId
    BY <1>2, CommittedCount DEF ExecInv, ExecTypeOK
  <1> HIDE DEF t
  <1>4. \/ /\ t \in loaded /\ invoke(t) /\ pc' \in {"inline", "spawn"}
           /\ UNCHANGED <<runs, sink, result>>
        \/ /\ pc' \in {"layer", "spawn"}
           /\ UNCHANGED <<graphVars, runs, sink, result, fut, bornIn>>
    <2>1. CASE TakeSingle
      BY <2>1, <1>2 DEF TakeSingle
    <2>2. CASE SpawnNext
      BY <2>2, <1>1, <1>2 DEF SpawnNext, t
    <2> QED
      BY <2>1, <2>2
  <1>5. CASE /\ t \in loaded /\ invoke(t) /\ pc' \in {"inline", "spawn"}
             /\ UNCHANGED <<runs, sink, result>>
    <2>1. pc' \in RunPcs
      BY <1>5 DEF RunPcs
    <2>2. Promise!Start(t) \/ Promise!Refuse(t)
      BY <1>1, <1>2, <1>5, <2>1, RefineInvoke
    <2> QED
      BY <1>3, <2>2 DEF Promise!Next
  <1>6. CASE /\ pc' \in {"layer", "spawn"}
             /\ UNCHANGED <<graphVars, runs, sink, result, fut, bornIn>>
    <2>1. pc' \in RunPcs /\ UNCHANGED <<numTasks, rev_edges>>
      BY <1>6 DEF RunPcs, graphVars
    <2> QED
      BY <1>1, <1>6, <2>1, RefineQuiet
  <1> QED
    BY <1>4, <1>5, <1>6

\* The steps between taking and joining, and a join that succeeds.
LEMMA RefineWalk ==
  ASSUME ExecInv, (LayerStep /\ UNCHANGED execVars) \/ StartLayer \/ SpawnDone \/ JoinDone
  PROVE  UNCHANGED Promise!vars
  <1>1. pc \in RunPcs /\ pc' \in RunPcs /\ UNCHANGED graphVars
    <2>1. CASE LayerStep
      <3>1. pc \in LayerPcs /\ pc' \in LayerPcs
        BY <2>1, LayerStepInv DEF ExecInv
      <3>2. UNCHANGED graphVars
        BY <2>1 DEF LayerStep, DrainQueue, VisitTask, RelaxSuccessor, PushLayer, FinishLayers
      <3> QED
        BY <3>1, <3>2 DEF RunPcs
    <2>2. CASE StartLayer \/ SpawnDone \/ JoinDone
      BY <2>2 DEF StartLayer, SpawnDone, JoinDone, RunPcs, LayerPcs
    <2> QED
      BY <2>1, <2>2
  <1>2. UNCHANGED <<numTasks, rev_edges>>
    BY <1>1 DEF graphVars
  <1>3. UNCHANGED <<runs, sink, result, fut, bornIn>>
    BY DEF execVars, StartLayer, SpawnDone, JoinDone
  <1> QED
    BY <1>1, <1>2, <1>3, RefineQuiet

\* What is common to all ways to leave run().
LEMMA RefineLeave ==
  ASSUME pc \in RunPcs, NEW newpc \in {"idle", "panicked"}, NEW kind, NEW tid, kind # "none",
         Leave(newpc, kind, tid), UNCHANGED graphVars, UNCHANGED bornIn,
         \A t \in TaskId : fut'[t] = "none" <=> fut[t] = "none"
  PROVE  /\ Phase = "running"
         /\ newpc = "idle" => Phase' = "idle"
         /\ newpc = "panicked" => Phase' = "dead"
         /\ UNCHANGED <<Committed, Deps, ThisRun, sink>>
         /\ Verdict' = [kind |-> VerdictOf(kind), task |-> tid]
  <1>1. Phase = "running"
    BY RunningPhase
  <1>2. /\ pc' = newpc /\ result' = [kind |-> kind, tid |-> tid] /\ UNCHANGED <<runs, sink>>
        /\ UNCHANGED <<numTasks, rev_edges>>
    BY DEF Leave, graphVars
  <1>3. newpc = "idle" => Phase' = "idle"
    BY <1>2 DEF Phase, RunPcs, LayerPcs
  <1>4. newpc = "panicked" => Phase' = "dead"
    BY <1>2 DEF Phase, RunPcs, LayerPcs
  <1>5. UNCHANGED <<Committed, Deps, ThisRun, sink>>
    <2>1. Committed' = Committed /\ Deps' = Deps
      BY <1>2 DEF Committed, Deps
    <2>2. ThisRun' = ThisRun
      BY <1>2 DEF ThisRun
    <2> QED
      BY <1>2, <2>1, <2>2
  <1>6. Verdict' = [kind |-> VerdictOf(kind), task |-> tid]
    <2>1. result'.kind = kind /\ result'.tid = tid
      BY <1>2
    <2> QED
      BY <2>1 DEF Verdict
  <1> QED
    BY <1>1, <1>3, <1>4, <1>5, <1>6

\* A panic that is passed on blames the task it came from; an input error
\* says that some task was refused.
LEMMA RefinePass ==
  ASSUME ExecInv, pc \in RunPcs, NEW t \in ThisRun, fut[t] \in InputErrors \cup {"panicked"},
         PassError(t), UNCHANGED graphVars, UNCHANGED <<fut, bornIn>>
  PROVE  Promise!Blame(t) \/ Promise!Complain
  <1>1. /\ Leave("idle", fut[t], Named(t)) /\ fut[t] # "none"
        /\ t \in TaskId /\ Named(t) \in TaskId
    BY BoundsAssumption DEF PassError, Return, InputErrors, Named, NoTask, ThisRun, TaskId
  <1>2. /\ Phase = "running" /\ Phase' = "idle" /\ UNCHANGED <<Committed, Deps, ThisRun, sink>>
        /\ Verdict' = [kind |-> VerdictOf(fut[t]), task |-> Named(t)]
    BY <1>1, RefineLeave
  <1>3. Status' = Status /\ Status[t] = StatusOf(fut[t])
    BY <1>1 DEF Status
  <1>4. CASE fut[t] = "panicked"
    <2>1. VerdictOf(fut[t]) = "failed" /\ Status[t] = "failed" /\ Named(t) = t
      BY <1>3, <1>4, VerdictValues, StatusValues DEF Named
    <2>2. Promise!EndRun("failed", t)
      BY <1>2, <2>1 DEF Promise!EndRun
    <2> QED
      BY <1>3, <2>1, <2>2 DEF Promise!Blame
  <1>5. CASE fut[t] \in InputErrors
    <2>1. VerdictOf(fut[t]) = "refused" /\ Status[t] = "refused"
      BY <1>3, <1>5, VerdictValues, StatusValues
    <2>2. Promise!EndRun("refused", Named(t))
      BY <1>2, <2>1 DEF Promise!EndRun
    <2> QED
      BY <1>1, <1>3, <2>1, <2>2 DEF Promise!Complain
  <1> QED
    BY <1>4, <1>5

\* Joining a handle: the output is kept, or the error ends the run.
LEMMA RefineJoin ==
  ASSUME ExecInv, Join
  PROVE  Promise!Next \/ UNCHANGED Promise!vars
  <1> DEFINE t == Head(handles)
  <1>1. pc = "join" /\ pc \in RunPcs /\ handles # <<>> /\ fut[t] \in Finished
        /\ UNCHANGED <<graphVars, fut, bornIn>>
    BY DEF Join, Joinable, RunPcs
  <1>2. t \in ThisRun /\ t \in TaskId
    <2>1. handles \in Seq(TaskId) /\ Range(handles) \subseteq ThisRun
      BY DEF ExecInv, ExecTypeOK, CohortInv
    <2>2. t \in Range(handles)
      BY <2>1, <1>1, HeadTailRange
    <2> QED
      BY <2>1, <2>2 DEF ThisRun
  <1>3. CASE fut[t] = "done"
    <2>1. UNCHANGED <<pc, runs, sink, result>>
      BY <1>3 DEF Join
    <2> QED
      BY <2>1, <1>1, RefineQuiet DEF graphVars
  <1>4. CASE fut[t] # "done"
    <2>1. PassError(t)
      BY <1>4 DEF Join
    <2>2. fut[t] \in InputErrors \cup {"panicked"}
      BY <1>1, <1>4 DEF Finished
    <2> HIDE DEF t
    <2>3. Promise!Blame(t) \/ Promise!Complain
      BY <1>1, <1>2, <2>1, <2>2, RefinePass
    <2> QED
      BY <1>2, <2>3 DEF Promise!Next
  <1> QED
    BY <1>3, <1>4

\* A future that goes on, or ends, outside the thread of run().
LEMMA RefineFutures ==
  ASSUME ExecInv, NEW t \in TaskId, Suspend(t) \/ Complete(t) \/ Panic(t)
  PROVE  Promise!Next \/ UNCHANGED Promise!vars
  <1>1. /\ UNCHANGED <<topoVars, runs, sink, result, bornIn>>
        /\ fut \in [TaskId -> FutureStates]
    BY DEF Suspend, Complete, Panic, EndFuture, ExecInv, ExecTypeOK
  <1>2. UNCHANGED <<pc, numTasks, rev_edges>>
    BY <1>1 DEF topoVars, graphVars
  <1>3. Phase' = Phase /\ Committed' = Committed /\ Deps' = Deps /\ Verdict' = Verdict
    BY <1>1, <1>2 DEF Phase, Committed, Deps, Verdict
  <1>4. CASE Suspend(t)
    <2>1. fut[t] = "ready" /\ fut' = [fut EXCEPT ![t] = "suspended"]
      BY <1>4 DEF Suspend
    <2>2. StatusOf("ready") = "running" /\ StatusOf("suspended") = "running"
      BY StatusValues DEF Alive
    <2>3. \A u \in TaskId : /\ StatusOf(fut'[u]) = StatusOf(fut[u])
                            /\ fut'[u] = "none" <=> fut[u] = "none"
      BY <1>1, <2>1, <2>2
    <2> QED
      BY <1>1, <1>2, <1>3, <2>3, AbstractStutter
  <1>5. ASSUME NEW state \in {"done", "panicked"}, EndFuture(t, state)
        PROVE  /\ Status[t] = "running" /\ Status' = [Status EXCEPT ![t] = StatusOf(state)]
               /\ ThisRun' = ThisRun
    <2>1. fut[t] \in Alive /\ fut' = [fut EXCEPT ![t] = state]
      BY <1>5 DEF EndFuture
    <2>2. Status[t] = "running"
      BY <2>1, StatusValues DEF Status
    <2>3. Status' = [Status EXCEPT ![t] = StatusOf(state)]
      BY <2>1, StatusAfter
    <2>4. ThisRun' = ThisRun
      BY <2>1, <1>1 DEF ThisRun, Alive
    <2> QED
      BY <2>2, <2>3, <2>4
  <1>6. CASE Complete(t)
    <2>1. EndFuture(t, "done")
      BY <1>6 DEF Complete
    <2>2. Promise!Finish(t)
      BY <2>1, <1>1, <1>3, <1>5, StatusValues DEF Promise!Finish, Promise!EndTask
    <2> QED
      BY <2>2 DEF Promise!Next
  <1>7. CASE Panic(t)
    <2>1. EndFuture(t, "panicked")
      BY <1>7 DEF Panic
    <2>2. Promise!Fail(t)
      BY <2>1, <1>1, <1>3, <1>5, StatusValues DEF Promise!Fail, Promise!EndTask
    <2> QED
      BY <2>2 DEF Promise!Next
  <1> QED
    BY <1>4, <1>6, <1>7

(***************************************************************************)
(* The task of a single layer, inside the caller's future.                 *)
(***************************************************************************)
LEMMA RefineInline ==
  ASSUME ExecInv, NEW t \in TaskId,
         CompleteInline(t) \/ PanicInline(t) \/ FailInline(t) \/ CancelInline(t)
  PROVE  Promise!Next
  <1>1. pc = "inline" /\ pc \in RunPcs /\ Inline(t) /\ UNCHANGED <<graphVars, bornIn>>
    BY DEF CompleteInline, PanicInline, FailInline, CancelInline, EndFuture, Inline, RunPcs
  <1>2. t \in ThisRun /\ fut \in [TaskId -> FutureStates]
    BY <1>1 DEF ExecInv, CohortInv, ExecTypeOK
  <1>3. UNCHANGED <<numTasks, rev_edges>>
    BY <1>1 DEF graphVars
  <1>4. ASSUME NEW state \in {"done", "panicked", "dropped"}, fut[t] \in Alive,
               fut' = [fut EXCEPT ![t] = state]
        PROVE  /\ Status[t] = "running" /\ Status' = [Status EXCEPT ![t] = StatusOf(state)]
               /\ \A u \in TaskId : fut'[u] = "none" <=> fut[u] = "none"
    <2>1. Status[t] = "running"
      BY <1>4, StatusValues DEF Status
    <2>2. Status' = [Status EXCEPT ![t] = StatusOf(state)]
      BY <1>4, StatusAfter
    <2>3. \A u \in TaskId : fut'[u] = "none" <=> fut[u] = "none"
      BY <1>2, <1>4 DEF Alive
    <2> QED
      BY <2>1, <2>2, <2>3
  <1>5. CASE CompleteInline(t)
    <2>1. /\ fut[t] \in Alive /\ fut' = [fut EXCEPT ![t] = "done"]
          /\ pc' = "layer" /\ UNCHANGED <<runs, sink, result>>
      BY <1>5 DEF CompleteInline, EndFuture
    <2>2. Status[t] = "running" /\ Status' = [Status EXCEPT ![t] = "done"]
          /\ \A u \in TaskId : fut'[u] = "none" <=> fut[u] = "none"
      BY <2>1, <1>4, StatusValues
    <2>3. Phase' = Phase
      <3>1. pc' \in RunPcs
        BY <2>1 DEF RunPcs
      <3> QED
        BY <3>1, <1>1, RunningPhase
    <2>4. UNCHANGED <<Committed, Deps, ThisRun, Verdict>>
      <3>1. Committed' = Committed /\ Deps' = Deps /\ Verdict' = Verdict
        BY <1>3, <2>1 DEF Committed, Deps, Verdict
      <3>2. ThisRun' = ThisRun
        BY <1>1, <2>1, <2>2 DEF ThisRun
      <3> QED
        BY <3>1, <3>2
    <2>5. Promise!Finish(t)
      BY <2>1, <2>2, <2>3, <2>4 DEF Promise!Finish, Promise!EndTask
    <2> QED
      BY <2>5 DEF Promise!Next
  <1>6. CASE PanicInline(t)
    <2>1. /\ fut[t] \in Alive /\ fut' = [fut EXCEPT ![t] = "panicked"]
          /\ Leave("panicked", "unwound", t)
      BY <1>6 DEF PanicInline, EndFuture, Unwind
    <2>2. Status[t] = "running" /\ Status' = [Status EXCEPT ![t] = "failed"]
          /\ \A u \in TaskId : fut'[u] = "none" <=> fut[u] = "none"
      BY <2>1, <1>4, StatusValues
    <2>3. /\ Phase = "running" /\ Phase' = "dead" /\ UNCHANGED <<Committed, Deps, ThisRun, sink>>
          /\ Verdict' = [kind |-> VerdictOf("unwound"), task |-> t]
      BY <1>1, <2>1, <2>2, RefineLeave
    <2>4. Promise!Die(t)
      BY <1>2, <2>2, <2>3, VerdictValues DEF Promise!Die, Promise!EndTask
    <2> QED
      BY <2>4 DEF Promise!Next
  <1>7. CASE FailInline(t)
    <2>1. fut[t] \in InputErrors /\ PassError(t) /\ UNCHANGED <<fut, bornIn>>
      BY <1>7 DEF FailInline
    <2>2. Promise!Blame(t) \/ Promise!Complain
      BY <1>1, <1>2, <2>1, RefinePass
    <2> QED
      BY <2>2 DEF Promise!Next
  <1>8. CASE CancelInline(t)
    <2>1. /\ fut[t] = "suspended" /\ fut[t] \in Alive /\ fut' = [fut EXCEPT ![t] = "dropped"]
          /\ Leave("idle", "cancelled", NoTask)
      BY <1>8 DEF CancelInline, Return, Alive
    <2>2. Status[t] = "running" /\ Status' = [Status EXCEPT ![t] = "dropped"]
          /\ \A u \in TaskId : fut'[u] = "none" <=> fut[u] = "none"
      BY <2>1, <1>4, StatusValues
    <2>3. /\ Phase = "running" /\ Phase' = "idle" /\ UNCHANGED <<Committed, Deps, ThisRun, sink>>
          /\ Verdict' = [kind |-> VerdictOf("cancelled"), task |-> NoTask]
      BY <1>1, <2>1, <2>2, RefineLeave
    <2>4. NoTask \in TaskId
      BY BoundsAssumption DEF NoTask, TaskId
    <2>5. Promise!Cancel
      BY <1>2, <2>2, <2>3, <2>4, VerdictValues
         DEF Promise!Cancel, Promise!EndRun, Promise!EndTask
    <2> QED
      BY <2>5 DEF Promise!Next
  <1> QED
    BY <1>5, <1>6, <1>7, <1>8

LEMMA RefineCancel ==
  ASSUME CancelJoin
  PROVE  Promise!Next
  <1>1. pc \in RunPcs /\ Leave("idle", "cancelled", NoTask) /\ UNCHANGED <<graphVars, fut, bornIn>>
    BY DEF CancelJoin, Return, RunPcs
  <1>2. /\ Phase = "running" /\ Phase' = "idle" /\ UNCHANGED <<Committed, Deps, ThisRun, sink>>
        /\ Verdict' = [kind |-> VerdictOf("cancelled"), task |-> NoTask]
    BY <1>1, RefineLeave
  <1>3. Status' = Status
    BY <1>1 DEF Status
  <1>4. NoTask \in TaskId
    BY BoundsAssumption DEF NoTask, TaskId
  <1>5. Promise!Cancel
    BY <1>2, <1>3, <1>4, VerdictValues DEF Promise!Cancel, Promise!EndRun
  <1> QED
    BY <1>5 DEF Promise!Next

\* A run that ends without an error.
LEMMA RefineDone ==
  ASSUME Misuses = {}, ExecInv, PromiseInv, ExecuteDone
  PROVE  Promise!Succeed
  <1>1. pc \in RunPcs /\ Leave("idle", Outcome, sink.id) /\ UNCHANGED <<graphVars, fut, bornIn>>
    BY DEF ExecuteDone, Return, RunPcs, LayerPcs
  <1>2. /\ \A t \in Committed : fut[t] # "none"
        /\ \A t \in ThisRun : fut[t] = "done"
        /\ Outcome \in IF sink.id \in ThisRun THEN {"ok", "output has multiple owners"}
                                              ELSE {"TaskNotFound"}
    BY RunComplete
  <1>3. Outcome # "none"
    BY <1>2
  <1>4. /\ Phase = "running" /\ Phase' = "idle" /\ UNCHANGED <<Committed, Deps, ThisRun, sink>>
        /\ Verdict' = [kind |-> VerdictOf(Outcome), task |-> sink.id]
    BY <1>1, <1>3, RefineLeave
  <1>5. VerdictOf(Outcome) \in IF sink.id \in ThisRun THEN {"ok", "shared"} ELSE {"missing"}
    BY <1>2, VerdictValues
  <1>6. \A t \in Committed : Status[t] # "fresh"
    <2>1. Committed \subseteq TaskId /\ fut \in [TaskId -> FutureStates]
      BY CommittedCount DEF ExecInv, ExecTypeOK
    <2> QED
      BY <2>1, <1>2, StatusValues DEF Status
  <1>7. Promise!Done(ThisRun)
    BY <1>2, StatusValues DEF Promise!Done, Status, ThisRun
  <1>8. Status' = Status
    BY <1>1 DEF Status
  <1>9. Promise!EndRun(VerdictOf(Outcome), sink.id)
    BY <1>4 DEF Promise!EndRun
  <1> QED
    BY <1>5, <1>6, <1>7, <1>8, <1>9 DEF Promise!Succeed

LEMMA RefineStep ==
  ASSUME Misuses = {}, ExecInv, PromiseInv, [ExecNext]_vars
  PROVE  Promise!Next \/ UNCHANGED Promise!vars
  <1>1. CASE BuildNext /\ UNCHANGED <<localVars, execVars>>
    BY <1>1, RefineBuild
  <1>2. CASE \E w \in Wrappers : run(w)
    <2>1. PICK w \in Wrappers : CallExecute([id |-> w.id, ty |-> w.ty, typed |-> TRUE])
      BY <1>2 DEF run
    <2>2. [id |-> w.id, ty |-> w.ty, typed |-> TRUE] \in [id : TaskId, ty : Types, typed : BOOLEAN]
      BY WrapperTypes DEF ExecInv, ExecTypeOK
    <2>3. Promise!BeginRun(w.id) /\ w.id \in TaskId
      BY <2>1, <2>2, RefineCall
    <2> QED
      BY <2>3 DEF Promise!Next
  <1>3. CASE \E t \in TaskId : run_with_sink_id(t)
    <2>1. PICK t \in TaskId : CallExecute([id |-> t, ty |-> sink.ty, typed |-> FALSE])
      BY <1>3 DEF run_with_sink_id
    <2>2. [id |-> t, ty |-> sink.ty, typed |-> FALSE] \in [id : TaskId, ty : Types, typed : BOOLEAN]
      BY DEF ExecInv, ExecTypeOK
    <2>3. Promise!BeginRun(t)
      BY <2>1, <2>2, RefineCall
    <2> QED
      BY <2>3 DEF Promise!Next
  <1>4. CASE RunStep
    <2>1. CASE (LayerStep /\ UNCHANGED execVars) \/ StartLayer \/ SpawnDone \/ JoinDone
      BY <2>1, RefineWalk
    <2>2. CASE ReportCycle
      BY <2>2, NoneLent, NeverCyclic DEF ReportCycle
    <2>3. CASE TakeSingle \/ SpawnNext
      BY <2>3, RefineTake
    <2>4. CASE \E t \in TaskId : CompleteInline(t) \/ PanicInline(t) \/ FailInline(t)
      BY <2>4, RefineInline
    <2>5. CASE Join
      BY <2>5, RefineJoin
    <2>6. CASE ExecuteDone
      BY <2>6, RefineDone DEF Promise!Next
    <2> QED
      BY <2>1, <2>2, <2>3, <2>4, <2>5, <2>6, <1>4 DEF RunStep
  <1>5. CASE \E t \in TaskId : Suspend(t) \/ Complete(t) \/ Panic(t) \/ CancelInline(t)
    BY <1>5, RefineFutures, RefineInline
  <1>6. CASE CancelJoin
    BY <1>6, RefineCancel
  <1>7. CASE UNCHANGED vars
    <2>1. UNCHANGED <<pc, numTasks, rev_edges, sink, result, runs, bornIn, fut>>
      BY <1>7 DEF vars, topoVars, graphVars, execVars
    <2>2. Phase' = Phase
      BY <2>1 DEF Phase
    <2> QED
      BY <2>1, <2>2, AbstractStutter
  <1> QED
    BY <1>1, <1>2, <1>3, <1>4, <1>5, <1>6, <1>7 DEF ExecNext

(***************************************************************************)
(* With the typed API, running flows implements the safety of DagPromise:  *)
(* every step starts a supplied task, refuses one that can no longer be    *)
(* supplied, ends a task, ends the run as its tasks say, or does not show. *)
(***************************************************************************)
THEOREM ImplementsPromise ==
  ASSUME Misuses = {}
  PROVE  ExecSpec => Promise!SafeSpec
  <1>1. ExecInit => Promise!Init
    BY AbstractInit
  <1>2. TypedInv /\ [ExecNext]_vars => [Promise!Next]_(Promise!vars)
    BY RefineStep DEF TypedInv
  <1> QED
    BY <1>1, <1>2, TypedInvariant, PTL DEF ExecSpec, Promise!SafeSpec

\* What is left of DagPromise is that every run ends, which takes fairness.
COROLLARY KeepsPromiseIfRunsEnd ==
  ASSUME Misuses = {}
  PROVE  ExecSpec /\ Promise!RunsEnd => KeepsPromise
  <1>1. ExecSpec => Promise!SafeSpec
    BY ImplementsPromise
  <1> QED
    BY <1>1, PTL DEF KeepsPromise, Promise!Spec

=============================================================================
