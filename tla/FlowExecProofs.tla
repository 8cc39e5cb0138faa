---------------------------- MODULE FlowExecProofs ----------------------------
(***************************************************************************)
(* What holds of running a flow (FlowExec) for every value of the          *)
(* constants: runs that do not mix with what earlier runs detached, the    *)
(* barrier between layers, who owns the sink's output, whom an error names *)
(* and, for the typed API, what a task starts with.                        *)
(***************************************************************************)
EXTENDS FlowExec, TopoLayersProofs

-----------------------------------------------------------------------------
(***************************************************************************)
(* The invariant, for every graph that the builder API can leave behind.   *)
(***************************************************************************)
WalkPcs == {"layer", "single", "inline", "spawn", "join"}

\* A slot is empty exactly when its task was invoked.
SlotsInv ==
  /\ loaded = {t \in Committed : fut[t] = "none"}
  /\ \A t \in TaskId \ Committed : fut[t] = "none"

\* What the locals of execute() hold where.
ExecShape ==
  /\ pc \notin WalkPcs => layer = <<>> /\ outputs = {}
  /\ pc \notin {"spawn", "join"} => handles = <<>>
  /\ pc \in {"layer", "join"} => layer = <<>>
  /\ pc \in {"single", "inline"} => Len(layer) = 1
  /\ pc \in RunPcs => result = NoResult /\ 1 <= runs
  /\ pc \in LayerPcs => ThisRun = {}

\* A task of this run has delivered its output, or somebody waits for it.
CohortInv ==
  /\ pc \in RunPcs =>
       \A t \in ThisRun : t \in outputs \/ t \in Range(handles) \/ Inline(t)
  /\ Range(handles) \subseteq ThisRun
  /\ \A t \in TaskId : Inline(t) => t \in ThisRun

\* Nobody was born in a run to come, or before the first one.
BornInv == \A t \in TaskId : bornIn[t] <= runs /\ (fut[t] # "none" => 1 <= bornIn[t])

OutputsInv == \A t \in outputs : fut[t] = "done" /\ bornIn[t] = runs

\* A future holds only outputs of its own run, and only while it is alive.
InputsInv ==
  \A t \in TaskId :
    /\ \A u \in Range(inputs[t]) : fut[u] = "done" /\ bornIn[u] = bornIn[t]
    /\ fut[t] \notin Alive => inputs[t] = <<>>

ResultInv ==
  /\ SoleOwner
  /\ BlameIsRight
  /\ result.kind = "unwound" => pc = "panicked"

ExecInv ==
  /\ LayerInv
  /\ ExecTypeOK
  /\ SlotsInv
  /\ ExecShape
  /\ CohortInv
  /\ BornInv
  /\ OutputsInv
  /\ InputsInv
  /\ ResultInv

-----------------------------------------------------------------------------
(***************************************************************************)
(* The outputs that a task is handed.                                      *)
(***************************************************************************)

\* A set of positions has a k-th smallest for every k up to its size.
LEMMA NthPosition ==
  ASSUME NEW n \in Nat, NEW P \in SUBSET (1 .. n), NEW k \in 1 .. Cardinality(P)
  PROVE  /\ Nth(P, k) \in P
         /\ Cardinality({j \in P : j <= Nth(P, k)}) = k
  <1> DEFINE Upto(m) == P \cap (1 .. m)
             K == {m \in Nat : k <= Cardinality(Upto(m))}
  <1>1. IsFiniteSet(P) /\ Cardinality(P) \in Nat
    <2>1. IsFiniteSet(1 .. n)
      BY FS_Interval
    <2> QED
      BY <2>1, FS_Subset, FS_CardinalityType
  <1>2. ASSUME NEW m \in Nat
        PROVE  IsFiniteSet(Upto(m)) /\ Cardinality(Upto(m)) \in Nat
    <2>1. Upto(m) \in SUBSET P
      OBVIOUS
    <2> QED
      BY <2>1, <1>1, FS_Subset, FS_CardinalityType
  <1>3. k \in Nat /\ 1 <= k /\ k <= Cardinality(P)
    BY <1>1
  <1>4. n \in K
    <2>1. Upto(n) = P
      OBVIOUS
    <2> QED
      BY <2>1, <1>3
  <1>5. PICK m \in K : \A j \in K : m <= j
    BY <1>4, LeastNatural
  <1>6. m \in Nat /\ k <= Cardinality(Upto(m))
    OBVIOUS
  <1>7. m # 0
    <2>1. Upto(0) = {}
      OBVIOUS
    <2>2. Cardinality(Upto(0)) = 0
      BY <2>1, FS_EmptySet
    <2> QED
      BY <2>2, <1>3, <1>6
  <1>8. m - 1 \in Nat /\ m - 1 \notin K
    <2>1. m - 1 \in Nat /\ ~(m <= m - 1)
      BY <1>6, <1>7
    <2> QED
      BY <2>1, <1>5
  <1>9. Cardinality(Upto(m - 1)) < k
    <2>1. ~(k <= Cardinality(Upto(m - 1)))
      BY <1>8
    <2>2. Cardinality(Upto(m - 1)) \in Nat
      BY <1>2, <1>8
    <2> HIDE DEF Upto
    <2> QED
      BY <2>1, <2>2, <1>3
  <1>10. 1 .. m = (1 .. m - 1) \cup {m} /\ m \notin 1 .. m - 1
    BY <1>6, <1>7
  <1>11. m \in P
    <2> SUFFICES ASSUME m \notin P
                 PROVE  FALSE
      OBVIOUS
    <2>1. Upto(m) = Upto(m - 1)
      BY <1>10
    <2> QED
      BY <2>1, <1>2, <1>3, <1>6, <1>8, <1>9
  <1>12. Upto(m) = Upto(m - 1) \cup {m} /\ m \notin Upto(m - 1)
    BY <1>10, <1>11
  <1>13. Cardinality(Upto(m)) = Cardinality(Upto(m - 1)) + 1
    <2> HIDE DEF Upto
    <2> QED
      BY <1>2, <1>8, <1>12, FS_AddElement
  <1>14. Cardinality(Upto(m)) = k
    <2> HIDE DEF Upto
    <2> QED
      BY <1>2, <1>3, <1>6, <1>8, <1>9, <1>13
  <1>15. {j \in P : j <= m} = Upto(m)
    <2>1. \A j \in P : j \in 1 .. m <=> j <= m
      BY <1>6
    <2> QED
      BY <2>1
  <1>16. Cardinality({j \in P : j <= m}) = k
    BY <1>14, <1>15
  <1> QED
    BY <1>11, <1>16 DEF Nth

\* Of all positions, the k-th smallest is k.
LEMMA NthOfAll ==
  ASSUME NEW n \in Nat, NEW k \in 1 .. n
  PROVE  Nth(1 .. n, k) = k
  <1>1. Cardinality(1 .. n) = n
    BY FS_Interval
  <1>2. PICK i \in 1 .. n : i = Nth(1 .. n, k) /\ Cardinality({j \in 1 .. n : j <= i}) = k
    BY <1>1, NthPosition
  <1>3. {j \in 1 .. n : j <= i} = 1 .. i
    OBVIOUS
  <1>4. Cardinality(1 .. i) = i
    BY FS_Interval
  <1> QED
    BY <1>2, <1>3, <1>4

(***************************************************************************)
(* A task is handed outputs of its dependencies only; it is handed as many *)
(* as it has dependencies only if all are there, and then in their order.  *)
(***************************************************************************)
LEMMA ArcsOf ==
  ASSUME GraphTypeOK, NEW t \in TaskId
  PROVE  /\ ArcsFor(t) \in Seq(TaskId)
         /\ Range(ArcsFor(t)) \subseteq outputs
         /\ (\A u \in Range(rev_edges[t]) : u \in outputs) => ArcsFor(t) = rev_edges[t]
         /\ Len(ArcsFor(t)) = Len(rev_edges[t]) =>
              \A u \in Range(rev_edges[t]) : u \in outputs
         /\ (\E u \in Range(rev_edges[t]) : u \notin outputs) =>
              Len(ArcsFor(t)) # Len(rev_edges[t])
  <1> DEFINE n == Len(rev_edges[t])
             P == Present(t)
             c == Cardinality(P)
  <1>1. rev_edges[t] \in Seq(TaskId) /\ n \in Nat /\ DOMAIN rev_edges[t] = 1 .. n
    BY DEF GraphTypeOK
  <1>2. P \in SUBSET (1 .. n)
    BY <1>1 DEF Present
  <1>3. IsFiniteSet(1 .. n) /\ Cardinality(1 .. n) = n
    BY <1>1, FS_Interval
  <1>4. c \in Nat /\ (c = n => P = 1 .. n)
    BY <1>2, <1>3, FS_Subset, FS_CardinalityType
  <1>5. \A k \in 1 .. c : Nth(P, k) \in P
    BY <1>1, <1>2, NthPosition
  <1>6. \A i \in P : rev_edges[t][i] \in TaskId /\ rev_edges[t][i] \in outputs
    BY <1>1 DEF Present
  <1>7. ArcsFor(t) = [k \in 1 .. c |-> rev_edges[t][Nth(P, k)]]
    BY DEF ArcsFor
  <1> HIDE DEF P, c
  <1>8. ArcsFor(t) \in [1 .. c -> TaskId]
    BY <1>5, <1>6, <1>7
  <1>9. ArcsFor(t) \in Seq(TaskId) /\ Len(ArcsFor(t)) = c
    BY <1>4, <1>8
  <1>10. Range(ArcsFor(t)) \subseteq outputs
    BY <1>5, <1>6, <1>7 DEF Range
  <1>11. ASSUME \A u \in Range(rev_edges[t]) : u \in outputs
         PROVE  ArcsFor(t) = rev_edges[t]
    <2>1. P = 1 .. n
      BY <1>1, <1>11 DEF P, Present, Range
    <2>2. c = n
      BY <2>1, <1>3 DEF c
    <2>3. \A k \in 1 .. n : Nth(P, k) = k
      BY <2>1, <1>1, NthOfAll
    <2>4. \A k \in 1 .. n : ArcsFor(t)[k] = rev_edges[t][k]
      BY <2>2, <2>3, <1>7
    <2> QED
      BY <2>2, <2>4, <1>1, <1>9, SeqEqual
  <1>12. ASSUME Len(ArcsFor(t)) = n
         PROVE  \A u \in Range(rev_edges[t]) : u \in outputs
    <2>1. P = 1 .. n
      BY <1>4, <1>9, <1>12
    <2> QED
      BY <2>1, <1>1, <1>6 DEF Range
  <1> QED
    BY <1>9, <1>10, <1>11, <1>12

-----------------------------------------------------------------------------
(***************************************************************************)
(* Parts that several actions share.                                       *)
(***************************************************************************)

\* Outside of the builder's and the layering's states LayerInv asks for no
\* more than types.
LEMMA WalkLocals ==
  ASSUME GraphInv', LocalTypes', pc' \in WalkPcs
  PROVE  LayerInv'
  <1>1. pc' \notin BuildPcs /\ pc' \notin LayerPcs /\ pc' \notin {"layered", "cyclic"}
    BY DEF WalkPcs, BuildPcs, LayerPcs
  <1> QED
    BY <1>1 DEF LayerInv, Shape, LayerPcs

\* Taking the invoked task out of its slot leaves the rest of the graph alone.
LEMMA TakeGraph ==
  ASSUME GraphInv, pc \in WalkPcs, pc' \in WalkPcs, loaded' \subseteq loaded,
         UNCHANGED <<numTasks, sig, edges, rev_edges, indegrees, wrapped, builder,
                   lent, bare>>
  PROVE  GraphInv'
  BY GraphFrameTake DEF WalkPcs

\* Leaving the run resets the locals of the layering.
LEMMA LeaveLocals ==
  ASSUME GraphInv, pc \in RunPcs, pc' \in {"idle", "panicked"}, ResetLocals,
         UNCHANGED graphVars
  PROVE  LayerInv' /\ pc' \in BuildPcs
  <1>1. pc \notin {"building", "wiring", "panicked"}
    BY DEF RunPcs, LayerPcs
  <1>2. GraphInv'
    BY <1>1, GraphFrame
  <1>3. LocalsReset'
    BY DEF ResetLocals, LocalsReset
  <1>4. LocalTypes'
    BY <1>3, MaxVisitsAssumption DEF LocalsReset, LocalTypes
  <1>5. Shape' /\ pc' \notin LayerPcs
    BY <1>3 DEF Shape, LayerPcs
  <1> QED
    BY <1>2, <1>4, <1>5 DEF LayerInv, BuildPcs

\* What is said of the futures stays true when one of them ends.
LEMMA FutureEnds ==
  ASSUME ExecInv, NEW t \in TaskId, fut[t] \in Alive,
         NEW state \in {"done", "panicked", "dropped"},
         fut' = [fut EXCEPT ![t] = state], inputs' = [inputs EXCEPT ![t] = <<>>],
         UNCHANGED <<bornIn, runs, numTasks, loaded>>
  PROVE  /\ SlotsInv' /\ BornInv' /\ InputsInv'
         /\ fut' \in [TaskId -> FutureStates]
         /\ inputs' \in [TaskId -> Seq(TaskId)]
         /\ ThisRun' = ThisRun
         /\ \A u \in TaskId : fut[u] = "done" => fut'[u] = "done"
         /\ fut'[t] = state
  <1>1. /\ fut \in [TaskId -> FutureStates] /\ inputs \in [TaskId -> Seq(TaskId)]
        /\ Committed' = Committed
        /\ Committed \subseteq TaskId
    BY CommittedCount DEF ExecInv, ExecTypeOK, Committed
  <1>2. fut'[t] = state /\ \A u \in TaskId : u # t => fut'[u] = fut[u]
    BY <1>1
  <1>3. inputs'[t] = <<>> /\ \A u \in TaskId : u # t => inputs'[u] = inputs[u]
    BY <1>1
  <1>4. fut[t] # "none" /\ fut[t] # "done" /\ state \notin {"none"} /\ state \notin Alive
    BY DEF Alive
  <1>5. \A u \in TaskId : fut'[u] = "none" <=> fut[u] = "none"
    BY <1>2, <1>4
  <1>6. SlotsInv'
    BY <1>1, <1>5 DEF ExecInv, SlotsInv
  <1>7. BornInv'
    BY <1>5 DEF ExecInv, BornInv
  <1>8. \A u \in TaskId : fut[u] = "done" => fut'[u] = "done"
    BY <1>2, <1>4
  <1>9. InputsInv'
    <2> SUFFICES ASSUME NEW u \in TaskId
                 PROVE  /\ \A w \in Range(inputs'[u]) : fut'[w] = "done" /\ bornIn[w] = bornIn[u]
                        /\ fut'[u] \notin Alive => inputs'[u] = <<>>
      BY DEF InputsInv
    <2>1. CASE u = t
      BY <2>1, <1>3 DEF Range
    <2>2. CASE u # t
      <3>1. inputs'[u] = inputs[u] /\ fut'[u] = fut[u] /\ Range(inputs[u]) \subseteq TaskId
        BY <2>2, <1>1, <1>2, <1>3 DEF Range
      <3> QED
        BY <3>1, <1>8 DEF ExecInv, InputsInv
    <2> QED
      BY <2>1, <2>2
  <1>10. ThisRun' = ThisRun
    BY <1>5 DEF ThisRun
  <1>11. fut' \in [TaskId -> FutureStates] /\ inputs' \in [TaskId -> Seq(TaskId)]
    BY <1>1 DEF FutureStates, Finished
  <1> QED
    BY <1>2, <1>6, <1>7, <1>8, <1>9, <1>10, <1>11

\* The run is over, whatever became of the futures.
LEMMA LeaveInv ==
  ASSUME ExecInv, pc \in RunPcs, NEW newpc \in {"idle", "panicked"},
         NEW kind \in ResultKinds, NEW tid \in TaskId, Leave(newpc, kind, tid),
         UNCHANGED graphVars, bornIn' = bornIn, kept' \subseteq TaskId,
         fut' \in [TaskId -> FutureStates], inputs' \in [TaskId -> Seq(TaskId)],
         SlotsInv', BornInv', InputsInv', ResultInv'
  PROVE  ExecInv'
  <1>1. LayerInv' /\ pc' \in BuildPcs
    BY LeaveLocals DEF Leave, ExecInv, LayerInv
  <1>2. /\ pc' \in {"idle", "panicked"} /\ layer' = <<>> /\ handles' = <<>> /\ outputs' = {}
        /\ result' = [kind |-> kind, tid |-> tid] /\ runs' = runs /\ sink' = sink
    BY DEF Leave
  <1>3. ExecTypeOK'
    <2>1. GraphTypeOK' /\ pc' \in BuildPcs \cup RunPcs
      BY <1>1 DEF LayerInv, GraphInv
    <2>2. result' \in [kind : ResultKinds, tid : TaskId]
      BY <1>2
    <2> QED
      BY <2>1, <2>2, <1>2 DEF ExecInv, ExecTypeOK
  <1>4. pc' \notin RunPcs /\ pc' \notin WalkPcs /\ pc' \notin LayerPcs
        /\ pc' \notin {"layer", "join"} /\ pc' \notin {"single", "inline"}
    BY <1>2 DEF RunPcs, WalkPcs, LayerPcs
  <1>5. ExecShape'
    BY <1>2, <1>4 DEF ExecShape
  <1>6. CohortInv'
    <2>1. \A t \in TaskId : ~Inline(t)'
      BY <1>4 DEF Inline
    <2>2. Range(handles') = {}
      BY <1>2 DEF Range
    <2> QED
      BY <2>1, <2>2, <1>4 DEF CohortInv
  <1>7. OutputsInv'
    BY <1>2 DEF OutputsInv
  <1> QED
    BY <1>1, <1>3, <1>5, <1>6, <1>7 DEF ExecInv

\* While a run goes on it has returned nothing yet.
LEMMA Quiet ==
  ASSUME result' = NoResult
  PROVE  ResultInv'
  <1>1. result'.kind = "none"
    BY DEF NoResult
  <1>2. "none" \notin InputErrors \cup {"panicked"}
    BY DEF InputErrors
  <1> QED
    BY <1>1, <1>2 DEF ResultInv, SoleOwner, BlameIsRight

-----------------------------------------------------------------------------
(***************************************************************************)
(* One lemma per action.                                                   *)
(***************************************************************************)
LEMMA ExecStart == ExecInit => ExecInv
  <1> SUFFICES ASSUME ExecInit
               PROVE  ExecInv
    OBVIOUS
  <1>1. LayerInv /\ pc \in BuildPcs \cup LayerPcs
    BY TopoInvStart DEF ExecInit, TopoInv
  <1>2. pc = "idle" /\ numTasks = 0 /\ loaded = {} /\ Committed = {}
    BY DEF ExecInit, TopoInit, GraphInit, Committed
  <1>3. 0 \in TaskId
    BY BoundsAssumption DEF TaskId
  <1>4. PICK ty \in Types : sink = NoSink(ty)
    BY DEF ExecInit
  <1>5. ExecTypeOK
    <2>1. GraphTypeOK
      BY <1>1 DEF LayerInv, GraphInv
    <2>2. sink \in [id : TaskId, ty : Types, typed : BOOLEAN]
      BY <1>3, <1>4 DEF NoSink
    <2>3. result \in [kind : ResultKinds, tid : TaskId]
      BY <1>3 DEF ExecInit, NoResult, NoTask, ResultKinds
    <2>4. pc \in BuildPcs \cup RunPcs
      BY <1>2 DEF BuildPcs
    <2>5. runs \in 0 .. MaxRuns /\ bornIn \in [TaskId -> 0 .. MaxRuns]
      BY MaxRunsAssumption DEF ExecInit
    <2>6. /\ layer \in Seq(TaskId) /\ handles \in Seq(TaskId) /\ outputs \subseteq TaskId
          /\ kept \subseteq TaskId /\ inputs \in [TaskId -> Seq(TaskId)]
          /\ fut \in [TaskId -> FutureStates]
      BY DEF ExecInit, FutureStates
    <2> QED
      BY <2>1, <2>2, <2>3, <2>4, <2>5, <2>6 DEF ExecTypeOK
  <1>6. SlotsInv /\ BornInv /\ InputsInv /\ OutputsInv
    BY <1>2 DEF ExecInit, SlotsInv, BornInv, InputsInv, OutputsInv, Range
  <1>7. pc \notin RunPcs /\ pc \notin LayerPcs
    BY <1>2 DEF RunPcs, LayerPcs
  <1>8. ExecShape
    BY <1>2, <1>7 DEF ExecInit, ExecShape
  <1>9. CohortInv
    BY <1>2, <1>7 DEF ExecInit, CohortInv, Inline, Range
  <1>10. ResultInv
    <2>1. result.kind = "none" /\ "none" \notin InputErrors \cup {"panicked"}
      BY DEF ExecInit, NoResult, InputErrors
    <2> QED
      BY <2>1 DEF ResultInv, SoleOwner, BlameIsRight
  <1> QED
    BY <1>1, <1>5, <1>6, <1>8, <1>9, <1>10 DEF ExecInv

\* Building adds a task that was never invoked, or adds none.
LEMMA BuildEffect ==
  ASSUME GraphTypeOK, BuildNext
  PROVE  /\ Committed \subseteq Committed'
         /\ loaded' = loaded \cup (Committed' \ Committed)
         /\ pc # "panicked"
  <1>1. CASE UNCHANGED <<numTasks, loaded>> /\ pc # "panicked"
    BY <1>1 DEF Committed
  <1>2. ASSUME NEW s \in Signatures, PushTask(s), pc = "idle"
        PROVE  /\ Committed \subseteq Committed'
               /\ loaded' = loaded \cup (Committed' \ Committed)
    <2>1. numTasks \in Nat /\ numTasks' = numTasks + 1 /\ loaded' = loaded \cup {numTasks}
      BY <1>2 DEF GraphTypeOK, PushTask
    <2>2. 0 .. numTasks + 1 - 1 = (0 .. numTasks - 1) \cup {numTasks} /\ numTasks \notin 0 .. numTasks - 1
      BY <2>1
    <2> QED
      BY <2>1, <2>2 DEF Committed
  <1>3. CASE \E s \in Signatures : commit_source_task(s) \/ commit_task(s)
    BY <1>2, <1>3 DEF commit_source_task, commit_task
  <1>4. CASE Bookkeeping \/ WireOne
    BY <1>1, <1>4, BookkeepingFrame DEF WireOne
  <1>5. CASE \E w \in Wrappers, t \in TaskId : register(w, t)
    BY <1>1, <1>5 DEF register
  <1> QED
    BY <1>3, <1>4, <1>5 DEF BuildNext, Bookkeeping

LEMMA ExecBuild ==
  ASSUME ExecInv, BuildNext, UNCHANGED <<localVars, execVars>>
  PROVE  ExecInv'
  <1>1. LayerInv' /\ pc \in BuildPcs /\ pc' \in BuildPcs
    BY BuildStepInv DEF ExecInv
  <1>2. UNCHANGED <<runs, sink, result, layer, handles, outputs, fut, inputs, bornIn, kept>>
    BY DEF execVars
  <1>3. GraphTypeOK /\ GraphTypeOK' /\ Committed' \subseteq TaskId
    <2>1. GraphTypeOK /\ GraphTypeOK'
      BY <1>1 DEF ExecInv, ExecTypeOK, LayerInv, GraphInv
    <2>2. numTasks' \in 0 .. MaxTasks
      BY <2>1 DEF GraphTypeOK
    <2>3. \A n \in 0 .. MaxTasks : 0 .. n - 1 \subseteq 0 .. MaxTasks - 1
      BY BoundsAssumption
    <2>4. Committed' \subseteq TaskId
      BY <2>2, <2>3 DEF Committed, TaskId
    <2> QED
      BY <2>1, <2>4
  <1>4. /\ Committed \subseteq Committed'
        /\ loaded' = loaded \cup (Committed' \ Committed)
        /\ pc # "panicked"
    BY <1>3, BuildEffect
  <1>5. ExecTypeOK'
    BY <1>1, <1>2, <1>3 DEF ExecInv, ExecTypeOK
  <1>6. SlotsInv'
    BY <1>2, <1>3, <1>4 DEF ExecInv, SlotsInv
  <1>7. pc \notin RunPcs /\ pc' \notin RunPcs /\ pc' \notin LayerPcs /\ pc' \notin WalkPcs
        /\ pc \notin WalkPcs /\ pc' \notin {"layer", "join", "spawn", "single", "inline"}
        /\ pc \notin {"layer", "join", "spawn", "single", "inline"}
    BY <1>1 DEF BuildPcs, RunPcs, LayerPcs, WalkPcs
  <1>8. ExecShape'
    BY <1>2, <1>7 DEF ExecInv, ExecShape
  <1>9. ThisRun' = ThisRun
    BY <1>2 DEF ThisRun
  <1>10. CohortInv'
    BY <1>2, <1>7, <1>9 DEF ExecInv, CohortInv, Inline
  <1>11. BornInv' /\ OutputsInv' /\ InputsInv'
    BY <1>2 DEF ExecInv, BornInv, OutputsInv, InputsInv
  <1>12. result.kind # "unwound"
    BY <1>4 DEF ExecInv, ResultInv
  <1>13. ResultInv'
    BY <1>2, <1>9, <1>12 DEF ExecInv, ResultInv, SoleOwner, BlameIsRight
  <1> QED
    BY <1>1, <1>5, <1>6, <1>8, <1>10, <1>11, <1>13 DEF ExecInv

\* A new run: nothing of it was started, and nothing of an earlier one is
\* taken for its own.
LEMMA ExecCall ==
  ASSUME ExecInv, NEW s \in [id : TaskId, ty : Types, typed : BOOLEAN], CallExecute(s)
  PROVE  ExecInv'
  <1>1. LayerInv'
    BY BeginLayersStep DEF ExecInv, CallExecute
  <1>2. pc = "idle" /\ pc' = "drain" /\ UNCHANGED graphVars
    BY DEF CallExecute, BeginLayers
  <1>3. /\ runs' = runs + 1 /\ runs < MaxRuns /\ sink' = s /\ result' = NoResult
        /\ UNCHANGED <<layer, handles, outputs, fut, inputs, bornIn, kept>>
    BY DEF CallExecute
  <1>4. /\ runs \in Nat /\ MaxRuns \in Nat /\ runs' \in 0 .. MaxRuns
    BY <1>3, MaxRunsAssumption DEF ExecInv, ExecTypeOK
  <1>5. ExecTypeOK'
    <2>1. GraphTypeOK' /\ pc' \in BuildPcs \cup RunPcs
      BY <1>1, <1>2 DEF LayerInv, GraphInv, RunPcs, LayerPcs
    <2>2. result' \in [kind : ResultKinds, tid : TaskId]
      BY <1>3, BoundsAssumption DEF NoResult, NoTask, ResultKinds, TaskId
    <2> QED
      BY <2>1, <2>2, <1>3, <1>4 DEF ExecInv, ExecTypeOK
  <1>6. SlotsInv'
    BY <1>2, <1>3 DEF ExecInv, SlotsInv, graphVars, Committed
  <1>7. \A t \in TaskId : bornIn[t] \in Nat /\ bornIn[t] <= runs
    BY DEF ExecInv, ExecTypeOK, BornInv
  <1>8. ThisRun' = {} /\ BornInv'
    BY <1>3, <1>4, <1>7 DEF ExecInv, BornInv, ThisRun
  <1>9. layer = <<>> /\ handles = <<>> /\ outputs = {}
    BY <1>2 DEF ExecInv, ExecShape, WalkPcs
  <1>10. ExecShape'
    <2>1. 1 <= runs'
      BY <1>3, <1>4
    <2> QED
      BY <1>2, <1>3, <1>8, <1>9, <2>1 DEF ExecShape
  <1>11. CohortInv'
    BY <1>2, <1>3, <1>8, <1>9 DEF CohortInv, Inline, Range
  <1>12. OutputsInv' /\ InputsInv'
    BY <1>3, <1>9 DEF ExecInv, OutputsInv, InputsInv
  <1>13. ResultInv'
    BY <1>3, Quiet
  <1> QED
    BY <1>1, <1>5, <1>6, <1>8, <1>10, <1>11, <1>12, <1>13 DEF ExecInv

LEMMA ExecLayer ==
  ASSUME ExecInv, LayerStep, UNCHANGED execVars
  PROVE  ExecInv'
  <1>1. LayerInv' /\ pc \in LayerPcs /\ pc' \in LayerPcs
    BY LayerStepInv DEF ExecInv
  <1>2. UNCHANGED <<runs, sink, result, layer, handles, outputs, fut, inputs, bornIn, kept>>
    BY DEF execVars
  <1>3. UNCHANGED graphVars
    BY DEF LayerStep, DrainQueue, VisitTask, RelaxSuccessor, PushLayer, FinishLayers
  <1>4. UNCHANGED <<numTasks, loaded>> /\ Committed' = Committed
    BY <1>3 DEF graphVars, Committed
  <1>5. /\ pc \in RunPcs /\ pc' \in RunPcs /\ pc \notin WalkPcs /\ pc' \notin WalkPcs
        /\ pc' \notin {"layer", "join", "spawn", "single", "inline"}
        /\ pc \notin {"layer", "join", "spawn", "single", "inline"}
    BY <1>1 DEF RunPcs, LayerPcs, WalkPcs
  <1>6. ExecTypeOK'
    <2>1. GraphTypeOK' /\ pc' \in BuildPcs \cup RunPcs
      BY <1>1, <1>5 DEF LayerInv, GraphInv
    <2> QED
      BY <2>1, <1>2 DEF ExecInv, ExecTypeOK
  <1>7. SlotsInv' /\ BornInv' /\ OutputsInv' /\ InputsInv'
    BY <1>2, <1>4 DEF ExecInv, SlotsInv, BornInv, OutputsInv, InputsInv
  <1>8. ThisRun' = ThisRun
    BY <1>2 DEF ThisRun
  <1>9. ExecShape'
    BY <1>1, <1>2, <1>5, <1>8 DEF ExecInv, ExecShape
  <1>10. CohortInv'
    BY <1>2, <1>5, <1>8 DEF ExecInv, CohortInv, Inline
  <1>11. ResultInv'
    BY <1>2, <1>5, Quiet DEF ExecInv, ExecShape
  <1> QED
    BY <1>1, <1>6, <1>7, <1>9, <1>10, <1>11 DEF ExecInv

LEMMA ExecCycle ==
  ASSUME ExecInv, ReportCycle
  PROVE  ExecInv'
  <1>1. /\ pc = "cyclic" /\ Leave("idle", "HasCycle", 0)
        /\ UNCHANGED <<graphVars, fut, inputs, bornIn, kept>>
    BY DEF ReportCycle, Return, NoTask
  <1>2. pc \in RunPcs /\ "HasCycle" \in ResultKinds /\ 0 \in TaskId
    BY <1>1, BoundsAssumption DEF RunPcs, LayerPcs, ResultKinds, TaskId
  <1>3. UNCHANGED <<runs, numTasks, loaded>> /\ result'.kind = "HasCycle"
    BY <1>1 DEF Leave, graphVars
  <1>4. ResultInv'
    BY <1>3 DEF ResultInv, SoleOwner, BlameIsRight, InputErrors
  <1>5. SlotsInv' /\ BornInv' /\ InputsInv'
    BY <1>1, <1>3 DEF ExecInv, SlotsInv, BornInv, InputsInv, Committed
  <1>6. /\ fut' \in [TaskId -> FutureStates] /\ inputs' \in [TaskId -> Seq(TaskId)]
        /\ kept' \subseteq TaskId
    BY <1>1 DEF ExecInv, ExecTypeOK
  <1> QED
    BY <1>1, <1>2, <1>4, <1>5, <1>6, LeaveInv

\* Leaving without ending any future: all that is left to show is that the
\* result is right.
LEMMA ReturnInv ==
  ASSUME ExecInv, pc \in RunPcs, NEW newpc \in {"idle", "panicked"},
         NEW kind \in ResultKinds, NEW tid \in TaskId, Leave(newpc, kind, tid),
         UNCHANGED <<graphVars, fut, inputs, bornIn, kept>>,
         /\ kind = "output has multiple owners" => tid \in kept
         /\ kind = "panicked" => tid \in ThisRun /\ fut[tid] = kind
         /\ kind \in InputErrors => \E t \in ThisRun : fut[t] = kind
         /\ kind = "unwound" => newpc = "panicked" /\ tid \notin Committed
  PROVE  ExecInv'
  <1>1. /\ UNCHANGED <<runs, numTasks, loaded, fut, inputs, bornIn, kept>>
        /\ pc' = newpc /\ result'.kind = kind /\ result'.tid = tid
    BY DEF Leave, graphVars
  <1>2. ThisRun' = ThisRun /\ Committed' = Committed
    BY <1>1 DEF ThisRun, Committed
  <1>3. ResultInv'
    BY <1>1, <1>2 DEF ResultInv, SoleOwner, BlameIsRight
  <1>4. SlotsInv' /\ BornInv' /\ InputsInv'
    <2>1. SlotsInv'
      BY <1>1, <1>2 DEF ExecInv, SlotsInv
    <2>2. BornInv'
      BY <1>1 DEF ExecInv, BornInv
    <2>3. inputs' = inputs /\ fut' = fut /\ bornIn' = bornIn
      BY <1>1
    <2>4. InputsInv
      BY DEF ExecInv
    <2>5. InputsInv'
      BY <2>3, <2>4 DEF InputsInv
    <2> QED
      BY <2>1, <2>2, <2>5
  <1>5. /\ fut' \in [TaskId -> FutureStates] /\ inputs' \in [TaskId -> Seq(TaskId)]
        /\ kept' \subseteq TaskId
    BY <1>1 DEF ExecInv, ExecTypeOK
  <1>6. UNCHANGED graphVars /\ bornIn' = bornIn
    OBVIOUS
  <1> QED
    BY <1>3, <1>4, <1>5, <1>6, LeaveInv

LEMMA ExecStartLayer ==
  ASSUME ExecInv, StartLayer
  PROVE  ExecInv'
  <1>1. /\ pc \in {"layered", "layer"} /\ layers # <<>>
        /\ pc' = IF Len(Head(layers)) = 1 THEN "single" ELSE "spawn"
        /\ layer' = Head(layers) /\ layers' = Tail(layers)
        /\ tmp_indegree' = <<>> /\ visited' = 0
        /\ UNCHANGED <<queue, cur_layer, cursor, next>>
        /\ UNCHANGED graphVars
        /\ UNCHANGED <<runs, sink, result, handles, outputs, fut, inputs, bornIn, kept>>
    BY DEF StartLayer
  <1>2. /\ pc \in RunPcs /\ pc' \in {"single", "spawn"} /\ pc' \in RunPcs /\ pc' \in WalkPcs
        /\ pc \notin {"spawn", "join", "single", "inline", "building", "wiring", "panicked"}
        /\ pc' \notin LayerPcs /\ pc' \notin {"building", "wiring"}
    BY <1>1 DEF RunPcs, LayerPcs, WalkPcs
  <1>3. layers \in Seq(Seq(TaskId)) /\ LocalTypes /\ GraphInv
    BY DEF ExecInv, LayerInv, LocalTypes
  <1>4. Head(layers) \in Seq(TaskId) /\ Tail(layers) \in Seq(Seq(TaskId))
    BY <1>1, <1>3
  <1>5. LocalTypes'
    <2>1. tmp_indegree' = <<>> /\ visited' \in 0 .. MaxVisits
      BY <1>1, MaxVisitsAssumption
    <2> QED
      BY <2>1, <1>1, <1>3, <1>4 DEF LocalTypes
  <1>6. GraphInv'
    BY <1>1, <1>2, <1>3, GraphFrame
  <1>7. LayerInv'
    BY <1>2, <1>5, <1>6, WalkLocals
  <1>8. UNCHANGED <<numTasks, loaded>> /\ Committed' = Committed /\ ThisRun' = ThisRun
    BY <1>1 DEF graphVars, Committed, ThisRun
  <1>9. ExecTypeOK'
    <2>1. GraphTypeOK' /\ pc' \in BuildPcs \cup RunPcs
      BY <1>2, <1>6 DEF GraphInv
    <2> QED
      BY <2>1, <1>1, <1>4 DEF ExecInv, ExecTypeOK
  <1>10. SlotsInv' /\ BornInv' /\ OutputsInv' /\ InputsInv'
    BY <1>1, <1>8 DEF ExecInv, SlotsInv, BornInv, OutputsInv, InputsInv
  <1>11. handles = <<>> /\ result = NoResult /\ 1 <= runs
    BY <1>2 DEF ExecInv, ExecShape
  <1>12. ExecShape'
    <2>1. pc' = "single" => Len(layer') = 1
      BY <1>1
    <2> QED
      BY <2>1, <1>1, <1>2, <1>11 DEF ExecShape
  <1>13. CohortInv'
    <2>1. \A t \in TaskId : ~Inline(t) /\ ~Inline(t)'
      BY <1>2 DEF Inline
    <2>2. ThisRun \subseteq TaskId
      BY DEF ThisRun
    <2>3. /\ \A t \in ThisRun : t \in outputs \/ t \in Range(handles)
          /\ Range(handles) \subseteq ThisRun
      BY <2>1, <2>2, <1>2 DEF ExecInv, CohortInv
    <2>4. outputs' = outputs /\ handles' = handles
      BY <1>1
    <2> QED
      BY <2>1, <2>3, <2>4, <1>8 DEF CohortInv
  <1>14. ResultInv'
    BY <1>1, <1>11, Quiet
  <1> QED
    BY <1>7, <1>9, <1>10, <1>12, <1>13, <1>14 DEF ExecInv

\* A task that was taken out of its slot has become a future, ready with all
\* it could get out of this run's outputs, or with an error.
LEMMA InvokeInv ==
  ASSUME ExecInv, pc \in {"single", "spawn"}, pc' \in WalkPcs,
         NEW t \in loaded, invoke(t),
         UNCHANGED <<localVars, runs, sink, result, outputs>>
  PROVE  /\ LayerInv' /\ SlotsInv' /\ BornInv' /\ OutputsInv' /\ InputsInv' /\ ResultInv'
         /\ GraphTypeOK'
         /\ fut' \in [TaskId -> FutureStates]
         /\ inputs' \in [TaskId -> Seq(TaskId)]
         /\ bornIn' \in [TaskId -> 0 .. MaxRuns]
         /\ kept' \subseteq TaskId
         /\ result' = NoResult
         /\ 1 <= runs
         /\ ThisRun' = ThisRun \cup {t}
         /\ t \in TaskId
         /\ pc' \in RunPcs
         /\ pc' \notin LayerPcs
  <1> DEFINE arcs == ArcsFor(t)
             state == from_any_iter(sig[t].ins, arcs)
  <1>1. /\ loaded' = loaded \ {t}
        /\ fut' = [fut EXCEPT ![t] = state]
        /\ inputs' = [inputs EXCEPT ![t] = IF state = "ready" THEN arcs ELSE <<>>]
        /\ bornIn' = [bornIn EXCEPT ![t] = runs]
        /\ UNCHANGED <<numTasks, sig, edges, rev_edges, indegrees, wrapped, builder,
                       lent, bare, kept>>
    BY DEF invoke, TakeSlot
  <1>2. /\ GraphTypeOK /\ fut \in [TaskId -> FutureStates] /\ inputs \in [TaskId -> Seq(TaskId)]
        /\ bornIn \in [TaskId -> 0 .. MaxRuns] /\ runs \in 0 .. MaxRuns /\ outputs \subseteq TaskId
        /\ kept \subseteq TaskId
    BY DEF ExecInv, ExecTypeOK
  <1>3. t \in Committed /\ t \in TaskId /\ fut[t] = "none" /\ Committed \subseteq TaskId
    BY <1>2, CommittedCount DEF ExecInv, SlotsInv
  <1>4. /\ pc \in WalkPcs /\ pc \in RunPcs /\ pc' \in RunPcs /\ pc' \notin LayerPcs
    BY DEF WalkPcs, RunPcs, LayerPcs
  <1>5. LayerInv' /\ GraphTypeOK'
    <2>1. GraphInv'
      BY <1>1, <1>4, TakeGraph DEF ExecInv, LayerInv
    <2>2. UNCHANGED <<tmp_indegree, queue, cur_layer, cursor, next, layers, visited>>
      BY DEF localVars
    <2>3. LocalTypes'
      BY <2>2 DEF ExecInv, LayerInv, LocalTypes
    <2> QED
      BY <2>1, <2>3, WalkLocals DEF GraphInv
  <1>6. /\ arcs \in Seq(TaskId) /\ Range(arcs) \subseteq outputs
    BY <1>2, <1>3, ArcsOf
  <1>7. state \in InputErrors \cup {"ready"}
    BY DEF from_any_iter, InputErrors
  <1>8. state \in FutureStates /\ state # "none" /\ state # "done"
    BY <1>7 DEF FutureStates, Finished, Alive, InputErrors
  <1> HIDE DEF arcs, state
  <1>9. /\ fut'[t] = state /\ bornIn'[t] = runs
        /\ inputs'[t] = IF state = "ready" THEN arcs ELSE <<>>
        /\ \A u \in TaskId \ {t} : fut'[u] = fut[u] /\ bornIn'[u] = bornIn[u] /\ inputs'[u] = inputs[u]
    BY <1>1, <1>2, <1>3
  <1>10. /\ fut' \in [TaskId -> FutureStates] /\ inputs' \in [TaskId -> Seq(TaskId)]
         /\ bornIn' \in [TaskId -> 0 .. MaxRuns] /\ kept' \subseteq TaskId
    <2>1. fut' \in [TaskId -> FutureStates]
      BY <1>1, <1>2, <1>8
    <2>2. (IF state = "ready" THEN arcs ELSE <<>>) \in Seq(TaskId)
      BY <1>6
    <2>3. inputs' \in [TaskId -> Seq(TaskId)]
      BY <1>1, <1>2, <2>2
    <2>4. bornIn' \in [TaskId -> 0 .. MaxRuns]
      BY <1>1, <1>2
    <2> QED
      BY <2>1, <2>3, <2>4, <1>1, <1>2
  <1>11. result = NoResult /\ 1 <= runs
    BY <1>4 DEF ExecInv, ExecShape
  <1>12. ThisRun' = ThisRun \cup {t}
    BY <1>3, <1>8, <1>9 DEF ThisRun
  <1>13. SlotsInv'
    <2>1. Committed' = Committed
      BY <1>1 DEF Committed
    <2>2. /\ loaded = {u \in Committed : fut[u] = "none"}
          /\ \A u \in TaskId \ Committed : fut[u] = "none"
      BY DEF ExecInv, SlotsInv
    <2>3. loaded' = {u \in Committed : fut'[u] = "none"}
      BY <2>2, <1>1, <1>3, <1>8, <1>9
    <2>4. \A u \in TaskId \ Committed : fut'[u] = "none"
      BY <2>2, <1>3, <1>9
    <2> QED
      BY <2>1, <2>3, <2>4 DEF SlotsInv
  <1>14. BornInv'
    <2>1. UNCHANGED runs /\ runs \in Nat
      BY <1>2
    <2>2. \A u \in TaskId : bornIn[u] <= runs /\ (fut[u] # "none" => 1 <= bornIn[u])
      BY DEF ExecInv, BornInv
    <2>3. \A u \in TaskId : bornIn'[u] <= runs /\ (fut'[u] # "none" => 1 <= bornIn'[u])
      BY <1>9, <1>11, <2>1, <2>2
    <2> QED
      BY <2>1, <2>3 DEF BornInv
  <1>15. ASSUME NEW u \in TaskId, fut[u] = "done"
         PROVE  fut'[u] = "done" /\ bornIn'[u] = bornIn[u]
    BY <1>3, <1>9, <1>15
  <1>16. OutputsInv'
    BY <1>2, <1>15 DEF ExecInv, OutputsInv
  <1>17. InputsInv'
    <2> SUFFICES ASSUME NEW v \in TaskId
                 PROVE  /\ \A u \in Range(inputs'[v]) : fut'[u] = "done" /\ bornIn'[u] = bornIn'[v]
                        /\ fut'[v] \notin Alive => inputs'[v] = <<>>
      BY DEF InputsInv
    <2>1. CASE v = t /\ state = "ready"
      <3>1. inputs'[v] = arcs /\ fut'[v] \in Alive
        BY <2>1, <1>9 DEF Alive
      <3>2. \A u \in outputs : fut'[u] = "done" /\ bornIn'[u] = runs
        BY <1>2, <1>15 DEF ExecInv, OutputsInv
      <3> QED
        BY <2>1, <3>1, <3>2, <1>6, <1>9
    <2>2. CASE v = t /\ state # "ready"
      BY <2>2, <1>9 DEF Range
    <2>3. CASE v # t
      <3>1. inputs'[v] = inputs[v] /\ fut'[v] = fut[v] /\ bornIn'[v] = bornIn[v]
        BY <2>3, <1>9
      <3>2. Range(inputs[v]) \subseteq TaskId
        BY <1>2 DEF Range
      <3>3. /\ \A u \in Range(inputs[v]) : fut[u] = "done" /\ bornIn[u] = bornIn[v]
            /\ fut[v] \notin Alive => inputs[v] = <<>>
        BY DEF ExecInv, InputsInv
      <3> QED
        BY <3>1, <3>2, <3>3, <1>15
    <2> QED
      BY <2>1, <2>2, <2>3
  <1>18. ResultInv'
    BY <1>11, Quiet
  <1> QED
    BY <1>3, <1>4, <1>5, <1>10, <1>11, <1>12, <1>13, <1>14, <1>16, <1>17, <1>18

\* Nothing but the place in execute() changes, and its handles and outputs.
LEMMA WalkOn ==
  ASSUME ExecInv, pc \in WalkPcs, pc' \in WalkPcs,
         UNCHANGED <<graphVars, localVars, runs, sink, result, fut, inputs, bornIn, kept>>,
         layer' \in Seq(TaskId), handles' \in Seq(TaskId), outputs' \subseteq TaskId,
         OutputsInv', CohortInv',
         /\ pc' \notin {"spawn", "join"} => handles' = <<>>
         /\ pc' \in {"layer", "join"} => layer' = <<>>
         /\ pc' \in {"single", "inline"} => Len(layer') = 1
  PROVE  ExecInv'
  <1>1. /\ UNCHANGED <<tmp_indegree, queue, cur_layer, cursor, next, layers, visited>>
        /\ UNCHANGED <<numTasks, loaded>>
        /\ UNCHANGED <<runs, sink, result, fut, inputs, bornIn, kept>>
        /\ UNCHANGED graphVars
    BY DEF localVars, graphVars
  <1>2. /\ pc \in RunPcs /\ pc' \in RunPcs /\ pc' \notin LayerPcs
        /\ pc \notin {"building", "wiring", "panicked"} /\ pc' \notin {"building", "wiring"}
    BY DEF WalkPcs, RunPcs, LayerPcs
  <1>3. GraphInv'
    BY <1>1, <1>2, GraphFrame DEF ExecInv, LayerInv
  <1>4. LocalTypes'
    BY <1>1 DEF ExecInv, LayerInv, LocalTypes
  <1>5. LayerInv'
    BY <1>3, <1>4, WalkLocals
  <1>6. Committed' = Committed /\ ThisRun' = ThisRun
    BY <1>1 DEF Committed, ThisRun
  <1>7. ExecTypeOK'
    <2>1. GraphTypeOK' /\ pc' \in BuildPcs \cup RunPcs
      BY <1>2, <1>3 DEF GraphInv
    <2> QED
      BY <2>1, <1>1 DEF ExecInv, ExecTypeOK
  <1>8. SlotsInv' /\ BornInv' /\ InputsInv'
    <2>1. SlotsInv'
      BY <1>1, <1>6 DEF ExecInv, SlotsInv
    <2>2. BornInv'
      BY <1>1 DEF ExecInv, BornInv
    <2>3. inputs' = inputs /\ fut' = fut /\ bornIn' = bornIn
      BY <1>1
    <2>4. InputsInv
      BY DEF ExecInv
    <2>5. InputsInv'
      BY <2>3, <2>4 DEF InputsInv
    <2> QED
      BY <2>1, <2>2, <2>5
  <1>9. result = NoResult /\ 1 <= runs
    BY <1>2 DEF ExecInv, ExecShape
  <1>10. ExecShape'
    BY <1>1, <1>2, <1>9 DEF ExecShape
  <1>11. ResultInv'
    BY <1>1, <1>9, Quiet
  <1> QED
    BY <1>5, <1>7, <1>8, <1>10, <1>11 DEF ExecInv

LEMMA ExecTakeSingle ==
  ASSUME ExecInv, TakeSingle
  PROVE  ExecInv'
  <1> DEFINE t == layer[1]
  <1>1. /\ pc = "single" /\ pc \in WalkPcs /\ pc \in RunPcs /\ pc \notin LayerPcs
        /\ pc \notin {"layer", "join", "spawn", "inline"}
    BY DEF TakeSingle, WalkPcs, RunPcs, LayerPcs
  <1>2. /\ layer \in Seq(TaskId) /\ Len(layer) = 1 /\ layer = <<t>> /\ t \in TaskId
        /\ handles = <<>> /\ result = NoResult /\ outputs \subseteq TaskId
    <2>1. layer \in Seq(TaskId) /\ outputs \subseteq TaskId
      BY DEF ExecInv, ExecTypeOK
    <2>2. Len(layer) = 1 /\ handles = <<>> /\ result = NoResult
      BY <1>1 DEF ExecInv, ExecShape
    <2>3. layer = <<t>> /\ t \in TaskId
      BY <2>1, <2>2
    <2> QED
      BY <2>1, <2>2, <2>3
  <1>3. /\ \A u \in ThisRun : u \in outputs \/ u \in Range(handles)
        /\ Range(handles) = {}
    <2>1. ThisRun \subseteq TaskId /\ \A u \in TaskId : ~Inline(u)
      BY <1>1 DEF ThisRun, Inline
    <2> QED
      BY <2>1, <1>1, <1>2 DEF ExecInv, CohortInv, Range
  <1>4. CASE t \in loaded /\ invoke(t) /\ pc' = "inline"
             /\ UNCHANGED <<localVars, runs, sink, result, layer, handles, outputs>>
    <2>1. pc' \in WalkPcs /\ UNCHANGED <<localVars, runs, sink, result, outputs>>
      BY <1>4 DEF WalkPcs
    <2>2. /\ LayerInv' /\ SlotsInv' /\ BornInv' /\ OutputsInv' /\ InputsInv' /\ ResultInv'
          /\ GraphTypeOK'
          /\ fut' \in [TaskId -> FutureStates]
          /\ inputs' \in [TaskId -> Seq(TaskId)]
          /\ bornIn' \in [TaskId -> 0 .. MaxRuns]
          /\ kept' \subseteq TaskId
          /\ result' = NoResult /\ 1 <= runs
          /\ ThisRun' = ThisRun \cup {t}
          /\ pc' \in RunPcs /\ pc' \notin LayerPcs
      BY <2>1, <1>1, <1>4, InvokeInv
    <2>3. UNCHANGED <<runs, sink, result, layer, handles, outputs>>
      BY <1>4
    <2>4. ExecTypeOK'
      BY <2>2, <2>3 DEF ExecInv, ExecTypeOK
    <2>5. ExecShape'
      BY <2>2, <2>3, <1>2, <1>4 DEF ExecShape, WalkPcs
    <2>6. Inline(t)' /\ \A u \in TaskId : Inline(u)' => u = t
      BY <2>3, <1>2, <1>4 DEF Inline
    <2>7. CohortInv'
      BY <2>2, <2>3, <2>6, <1>3 DEF CohortInv
    <2> QED
      BY <2>2, <2>4, <2>5, <2>7 DEF ExecInv
  <1>5. CASE pc' = "layer" /\ layer' = <<>>
             /\ UNCHANGED <<graphVars, localVars, runs, sink, result, handles, outputs,
                            fut, inputs, bornIn, kept>>
    <2>1. UNCHANGED <<runs, handles, outputs, fut, bornIn>>
      BY <1>5
    <2>2. ThisRun' = ThisRun
      BY <2>1 DEF ThisRun
    <2>3. OutputsInv'
      BY <2>1 DEF ExecInv, OutputsInv
    <2>4. \A u \in TaskId : ~Inline(u)'
      BY <1>5 DEF Inline
    <2>5. CohortInv'
      BY <2>1, <2>2, <2>4, <1>3 DEF CohortInv
    <2>6. /\ layer' \in Seq(TaskId) /\ handles' \in Seq(TaskId) /\ outputs' \subseteq TaskId
          /\ pc' \in WalkPcs /\ handles' = <<>>
      BY <2>1, <1>2, <1>5 DEF WalkPcs
    <2> QED
      BY <2>3, <2>5, <2>6, <1>1, <1>5, WalkOn
  <1>6. CASE t \notin Committed /\ Unwind(t) /\ UNCHANGED <<graphVars, fut, inputs, bornIn, kept>>
    <2>1. "unwound" \in ResultKinds /\ "unwound" \notin InputErrors \cup {"panicked"}
      BY DEF ResultKinds, InputErrors
    <2> QED
      BY <2>1, <1>1, <1>2, <1>6, ReturnInv DEF Unwind
  <1> QED
    BY <1>4, <1>5, <1>6 DEF TakeSingle

LEMMA ExecSpawnNext ==
  ASSUME ExecInv, SpawnNext
  PROVE  ExecInv'
  <1> DEFINE t == Head(layer)
  <1>1. /\ pc = "spawn" /\ pc \in WalkPcs /\ pc \in RunPcs /\ pc \notin LayerPcs
        /\ pc \notin {"layer", "join", "single", "inline"}
    BY DEF SpawnNext, WalkPcs, RunPcs, LayerPcs
  <1>2. /\ layer \in Seq(TaskId) /\ t \in TaskId /\ Tail(layer) \in Seq(TaskId)
        /\ handles \in Seq(TaskId) /\ outputs \subseteq TaskId
    <2>1. layer \in Seq(TaskId) /\ layer # <<>>
      BY DEF SpawnNext, ExecInv, ExecTypeOK
    <2> QED
      BY <2>1 DEF ExecInv, ExecTypeOK
  <1>3. /\ \A u \in ThisRun : u \in outputs \/ u \in Range(handles)
        /\ Range(handles) \subseteq ThisRun
    <2>1. ThisRun \subseteq TaskId /\ \A u \in TaskId : ~Inline(u)
      BY <1>1 DEF ThisRun, Inline
    <2> QED
      BY <2>1, <1>1 DEF ExecInv, CohortInv
  <1>4. CASE t \in loaded /\ invoke(t) /\ layer' = Tail(layer) /\ handles' = Append(handles, t)
             /\ UNCHANGED <<pc, localVars, runs, sink, result, outputs>>
    <2>1. pc' \in WalkPcs /\ UNCHANGED <<localVars, runs, sink, result, outputs>>
      BY <1>1, <1>4
    <2>2. /\ LayerInv' /\ SlotsInv' /\ BornInv' /\ OutputsInv' /\ InputsInv' /\ ResultInv'
          /\ GraphTypeOK'
          /\ fut' \in [TaskId -> FutureStates]
          /\ inputs' \in [TaskId -> Seq(TaskId)]
          /\ bornIn' \in [TaskId -> 0 .. MaxRuns]
          /\ kept' \subseteq TaskId
          /\ result' = NoResult /\ 1 <= runs
          /\ ThisRun' = ThisRun \cup {t}
          /\ pc' \in RunPcs /\ pc' \notin LayerPcs
      BY <2>1, <1>1, <1>4, InvokeInv
    <2>3. UNCHANGED <<pc, runs, sink, result, outputs>>
      BY <1>4
    <2>4. layer' \in Seq(TaskId) /\ handles' \in Seq(TaskId) /\ Range(handles') = Range(handles) \cup {t}
      BY <1>2, <1>4, AppendRange
    <2>5. ExecTypeOK'
      BY <2>2, <2>3, <2>4 DEF ExecInv, ExecTypeOK
    <2>6. ExecShape'
      BY <2>2, <2>3, <1>1, <1>4 DEF ExecShape
    <2>7. \A u \in TaskId : ~Inline(u)'
      BY <2>3, <1>1 DEF Inline
    <2>8. CohortInv'
      BY <2>2, <2>3, <2>4, <2>7, <1>3 DEF CohortInv
    <2> QED
      BY <2>2, <2>5, <2>6, <2>8 DEF ExecInv
  <1>5. CASE layer' = Tail(layer)
             /\ UNCHANGED <<pc, graphVars, localVars, runs, sink, result, handles, outputs,
                            fut, inputs, bornIn, kept>>
    <2>1. UNCHANGED <<pc, runs, handles, outputs, fut, bornIn>>
      BY <1>5
    <2>2. ThisRun' = ThisRun
      BY <2>1 DEF ThisRun
    <2>3. OutputsInv'
      BY <2>1 DEF ExecInv, OutputsInv
    <2>4. \A u \in TaskId : ~Inline(u)'
      BY <2>1, <1>1 DEF Inline
    <2>5. CohortInv'
      BY <2>1, <2>2, <2>4, <1>3 DEF CohortInv
    <2>6. /\ layer' \in Seq(TaskId) /\ handles' \in Seq(TaskId) /\ outputs' \subseteq TaskId
          /\ pc' = "spawn" /\ pc' \in WalkPcs
      BY <2>1, <1>1, <1>2, <1>5
    <2> QED
      BY <2>3, <2>5, <2>6, <1>1, <1>5, WalkOn
  <1>6. CASE t \notin Committed /\ Unwind(t) /\ UNCHANGED <<graphVars, fut, inputs, bornIn, kept>>
    <2>1. "unwound" \in ResultKinds /\ "unwound" \notin InputErrors \cup {"panicked"}
      BY DEF ResultKinds, InputErrors
    <2> QED
      BY <2>1, <1>1, <1>2, <1>6, ReturnInv DEF Unwind
  <1> QED
    BY <1>4, <1>5, <1>6 DEF SpawnNext

LEMMA ExecSpawnDone ==
  ASSUME ExecInv, SpawnDone
  PROVE  ExecInv'
  <1>1. /\ pc = "spawn" /\ pc' = "join" /\ layer = <<>>
        /\ UNCHANGED <<graphVars, localVars, runs, sink, result, layer, handles, outputs,
                       fut, inputs, bornIn, kept>>
    BY DEF SpawnDone, execVars
  <1>2. pc \in WalkPcs /\ pc' \in WalkPcs /\ pc \in RunPcs
    BY <1>1 DEF WalkPcs, RunPcs
  <1>3. UNCHANGED <<runs, layer, handles, outputs, fut, bornIn>>
    BY <1>1
  <1>4. /\ layer' \in Seq(TaskId) /\ handles' \in Seq(TaskId) /\ outputs' \subseteq TaskId
    BY <1>3 DEF ExecInv, ExecTypeOK
  <1>5. ThisRun' = ThisRun
    BY <1>3 DEF ThisRun
  <1>6. OutputsInv'
    BY <1>3 DEF ExecInv, OutputsInv
  <1>7. CohortInv'
    <2>1. \A t \in TaskId : ~Inline(t) /\ ~Inline(t)'
      BY <1>1 DEF Inline
    <2>2. ThisRun \subseteq TaskId
      BY DEF ThisRun
    <2> QED
      BY <2>1, <2>2, <1>2, <1>3, <1>5 DEF ExecInv, CohortInv
  <1> QED
    BY <1>1, <1>2, <1>3, <1>4, <1>6, <1>7, WalkOn

LEMMA ExecJoinDone ==
  ASSUME ExecInv, JoinDone
  PROVE  ExecInv'
  <1>1. /\ pc = "join" /\ pc' = "layer" /\ handles = <<>>
        /\ UNCHANGED <<graphVars, localVars, runs, sink, result, layer, handles, outputs,
                       fut, inputs, bornIn, kept>>
    BY DEF JoinDone, execVars
  <1>2. pc \in WalkPcs /\ pc' \in WalkPcs /\ pc \in RunPcs
    BY <1>1 DEF WalkPcs, RunPcs
  <1>3. UNCHANGED <<runs, layer, handles, outputs, fut, bornIn>>
    BY <1>1
  <1>4. /\ layer' \in Seq(TaskId) /\ handles' \in Seq(TaskId) /\ outputs' \subseteq TaskId
        /\ layer' = <<>>
    BY <1>1, <1>3 DEF ExecInv, ExecTypeOK, ExecShape
  <1>5. ThisRun' = ThisRun
    BY <1>3 DEF ThisRun
  <1>6. OutputsInv'
    BY <1>3 DEF ExecInv, OutputsInv
  <1>7. CohortInv'
    <2>1. \A t \in TaskId : ~Inline(t) /\ ~Inline(t)'
      BY <1>1 DEF Inline
    <2>2. ThisRun \subseteq TaskId
      BY DEF ThisRun
    <2> QED
      BY <2>1, <2>2, <1>2, <1>3, <1>5 DEF ExecInv, CohortInv
  <1> QED
    BY <1>1, <1>2, <1>3, <1>4, <1>6, <1>7, WalkOn

\* A handle is joined: its output is there from now on.
LEMMA ExecJoin ==
  ASSUME ExecInv, Join
  PROVE  ExecInv'
  <1> DEFINE t == Head(handles)
  <1>1. /\ pc = "join" /\ pc \in WalkPcs /\ pc \in RunPcs /\ handles # <<>> /\ Joinable(t)
        /\ UNCHANGED <<graphVars, fut, inputs, bornIn, kept>>
    BY DEF Join, WalkPcs, RunPcs
  <1>2. /\ handles \in Seq(TaskId) /\ outputs \subseteq TaskId /\ fut \in [TaskId -> FutureStates]
        /\ layer \in Seq(TaskId) /\ layer = <<>>
    BY <1>1 DEF ExecInv, ExecTypeOK, ExecShape
  <1>3. /\ t \in TaskId /\ Tail(handles) \in Seq(TaskId)
        /\ Range(handles) = {t} \cup Range(Tail(handles))
    BY <1>1, <1>2, HeadTailRange
  <1>4. /\ \A u \in ThisRun : u \in outputs \/ u \in Range(handles)
        /\ Range(handles) \subseteq ThisRun
    <2>1. ThisRun \subseteq TaskId /\ \A u \in TaskId : ~Inline(u)
      BY <1>1 DEF ThisRun, Inline
    <2> QED
      BY <2>1, <1>1 DEF ExecInv, CohortInv
  <1>5. CASE fut[t] = "done" /\ outputs' = outputs \cup {t} /\ handles' = Tail(handles)
             /\ UNCHANGED <<pc, localVars, runs, sink, result, layer>>
    <2>1. UNCHANGED <<runs, fut, bornIn, pc, layer>>
      BY <1>1, <1>5
    <2>2. ThisRun' = ThisRun
      BY <2>1 DEF ThisRun
    <2>3. OutputsInv'
      BY <2>1, <1>3, <1>4, <1>5 DEF ExecInv, OutputsInv, ThisRun
    <2>4. \A u \in TaskId : ~Inline(u)'
      BY <2>1, <1>1 DEF Inline
    <2>5. CohortInv'
      BY <2>1, <2>2, <2>4, <1>3, <1>4, <1>5 DEF CohortInv
    <2>6. /\ layer' \in Seq(TaskId) /\ handles' \in Seq(TaskId) /\ outputs' \subseteq TaskId
          /\ pc' = "join" /\ pc' \in WalkPcs /\ layer' = <<>>
      BY <2>1, <1>1, <1>2, <1>3, <1>5
    <2> QED
      BY <2>3, <2>5, <2>6, <1>1, <1>5, WalkOn
  <1>6. CASE fut[t] # "done" /\ PassError(t)
    <2>1. fut[t] \in InputErrors \cup {"panicked"}
      BY <1>1, <1>6 DEF Joinable, Finished
    <2>2. fut[t] \in ResultKinds /\ fut[t] # "output has multiple owners" /\ fut[t] # "unwound"
      BY <2>1 DEF ResultKinds, ExecutionErrors, InputErrors
    <2>3. t \in ThisRun
      BY <1>3, <1>4
    <2>4. Leave("idle", fut[t], Named(t)) /\ Named(t) \in TaskId
      BY <1>3, <1>6, BoundsAssumption DEF PassError, Return, Named, NoTask, TaskId
    <2>5. fut[t] = "panicked" => Named(t) = t
      BY DEF Named
    <2> QED
      BY <2>2, <2>3, <2>4, <2>5, <1>1, ReturnInv
  <1> QED
    BY <1>5, <1>6 DEF Join

LEMMA ExecFailInline ==
  ASSUME ExecInv, NEW t \in TaskId, FailInline(t)
  PROVE  ExecInv'
  <1>1. /\ pc = "inline" /\ pc \in RunPcs /\ fut[t] \in InputErrors /\ Inline(t)
        /\ Leave("idle", fut[t], Named(t)) /\ Named(t) \in TaskId
        /\ UNCHANGED <<graphVars, fut, inputs, bornIn, kept>>
    BY BoundsAssumption
    DEF FailInline, Inline, PassError, Return, RunPcs, Named, NoTask, TaskId
  <1>2. /\ fut[t] \in ResultKinds
        /\ fut[t] \notin {"output has multiple owners", "unwound", "panicked"}
    BY <1>1 DEF ResultKinds, ExecutionErrors, InputErrors
  <1>3. t \in ThisRun
    BY <1>1 DEF ExecInv, CohortInv
  <1> QED
    BY <1>1, <1>2, <1>3, ReturnInv

LEMMA ExecCancelJoin ==
  ASSUME ExecInv, CancelJoin
  PROVE  ExecInv'
  <1>1. /\ pc \in RunPcs /\ Leave("idle", "cancelled", 0)
        /\ UNCHANGED <<graphVars, fut, inputs, bornIn, kept>>
    BY DEF CancelJoin, Return, NoTask, RunPcs
  <1>2. "cancelled" \in ResultKinds /\ "cancelled" \notin InputErrors \cup {"panicked"} /\ 0 \in TaskId
    BY BoundsAssumption DEF ResultKinds, InputErrors, TaskId
  <1> QED
    BY <1>1, <1>2, ReturnInv

\* Between two layers nothing of this run is unfinished, so nobody but a task
\* that stored it away can hold an output.
LEMMA NobodyHolds ==
  ASSUME ExecInv, pc \in {"layered", "layer"}
  PROVE  /\ \A t \in ThisRun : t \in outputs /\ fut[t] = "done"
         /\ \A t \in outputs : Shared(t) => t \in kept
  <1>1. pc \in RunPcs /\ handles = <<>> /\ \A t \in TaskId : ~Inline(t)
    BY DEF ExecInv, ExecShape, RunPcs, LayerPcs, Inline
  <1>2. Range(handles) = {} /\ ThisRun \subseteq TaskId
    BY <1>1 DEF Range, ThisRun
  <1>3. \A t \in ThisRun : t \in outputs /\ fut[t] = "done"
    BY <1>1, <1>2 DEF ExecInv, CohortInv, OutputsInv
  <1>4. ASSUME NEW t \in outputs, NEW u \in TaskId, t \in Range(inputs[u])
        PROVE  FALSE
    <2>1. bornIn[t] = runs /\ bornIn[u] = bornIn[t] /\ fut[u] \in Alive
      BY <1>4 DEF ExecInv, OutputsInv, InputsInv, Range
    <2>2. u \in ThisRun
      BY <2>1 DEF ThisRun, Alive
    <2> QED
      BY <2>1, <2>2, <1>3 DEF Alive
  <1> QED
    BY <1>3, <1>4 DEF Shared

LEMMA ExecDone ==
  ASSUME ExecInv, ExecuteDone
  PROVE  ExecInv'
  <1>1. /\ pc \in {"layered", "layer"} /\ pc \in RunPcs /\ Leave("idle", Outcome, sink.id)
        /\ UNCHANGED <<graphVars, fut, inputs, bornIn, kept>>
    BY DEF ExecuteDone, Return, RunPcs, LayerPcs
  <1>2. Outcome \in {"TaskNotFound", "output type mismatch", "output has multiple owners", "ok"}
    BY DEF Outcome
  <1>3. Outcome \in ResultKinds /\ Outcome \notin InputErrors \cup {"panicked"} /\ Outcome # "unwound"
    BY <1>2 DEF ResultKinds, ExecutionErrors, InputErrors
  <1>4. Outcome = "output has multiple owners" => sink.id \in outputs /\ Shared(sink.id)
    BY DEF Outcome
  <1>5. sink.id \in TaskId
    BY DEF ExecInv, ExecTypeOK
  <1> QED
    BY <1>1, <1>3, <1>4, <1>5, NobodyHolds, ReturnInv

LEMMA ExecCompleteInline ==
  ASSUME ExecInv, NEW t \in TaskId, CompleteInline(t)
  PROVE  ExecInv'
  <1>1. /\ pc = "inline" /\ layer = <<t>> /\ pc' = "layer" /\ layer' = <<>>
        /\ outputs' = outputs \cup {t} /\ fut[t] \in Alive
        /\ fut' = [fut EXCEPT ![t] = "done"] /\ inputs' = [inputs EXCEPT ![t] = <<>>]
        /\ bornIn' = bornIn
        /\ UNCHANGED <<graphVars, localVars, runs, sink, result, handles>>
    BY DEF CompleteInline, Inline, EndFuture, DropInputs
  <1>2. /\ pc \in WalkPcs /\ pc' \in WalkPcs /\ pc \in RunPcs /\ pc' \in RunPcs
        /\ pc' \notin LayerPcs
        /\ pc \notin {"building", "wiring", "panicked"} /\ pc' \notin {"building", "wiring"}
    BY <1>1 DEF WalkPcs, RunPcs, LayerPcs
  <1>3. /\ UNCHANGED <<tmp_indegree, queue, cur_layer, cursor, next, layers, visited>>
        /\ UNCHANGED <<numTasks, loaded, runs, sink, result, handles>>
        /\ UNCHANGED graphVars
    BY <1>1 DEF localVars, graphVars
  <1>4. /\ SlotsInv' /\ BornInv' /\ InputsInv'
        /\ fut' \in [TaskId -> FutureStates]
        /\ inputs' \in [TaskId -> Seq(TaskId)]
        /\ ThisRun' = ThisRun
        /\ \A u \in TaskId : fut[u] = "done" => fut'[u] = "done"
        /\ fut'[t] = "done"
    BY <1>1, <1>3, FutureEnds
  <1>5. GraphInv' /\ LocalTypes'
    <2>1. GraphInv'
      BY <1>2, <1>3, GraphFrame DEF ExecInv, LayerInv
    <2>2. LocalTypes'
      BY <1>3 DEF ExecInv, LayerInv, LocalTypes
    <2> QED
      BY <2>1, <2>2
  <1>6. LayerInv'
    BY <1>2, <1>5, WalkLocals
  <1>7. /\ kept' \subseteq TaskId /\ outputs \subseteq TaskId
    BY DEF ExecInv, ExecTypeOK, CompleteInline, EndFuture, Range
  <1>8. ExecTypeOK'
    <2>1. GraphTypeOK' /\ pc' \in BuildPcs \cup RunPcs
      BY <1>2, <1>5 DEF GraphInv
    <2>2. layer' \in Seq(TaskId) /\ outputs' \subseteq TaskId
      BY <1>1, <1>7
    <2> QED
      BY <2>1, <2>2, <1>1, <1>3, <1>4, <1>7 DEF ExecInv, ExecTypeOK
  <1>9. handles = <<>> /\ result = NoResult /\ 1 <= runs /\ t \in ThisRun
    BY <1>1, <1>2 DEF ExecInv, ExecShape, CohortInv, Inline
  <1>10. ExecShape'
    BY <1>1, <1>2, <1>3, <1>9 DEF ExecShape
  <1>11. CohortInv'
    <2>1. \A u \in TaskId : (Inline(u) => u = t) /\ ~Inline(u)'
      BY <1>1 DEF Inline
    <2>2. Range(handles) = {} /\ ThisRun \subseteq TaskId
      BY <1>9 DEF Range, ThisRun
    <2>3. \A u \in ThisRun : u \in outputs \/ u = t
      BY <2>1, <2>2, <1>2 DEF ExecInv, CohortInv
    <2> QED
      BY <2>1, <2>2, <2>3, <1>1, <1>3, <1>4 DEF CohortInv
  <1>12. OutputsInv'
    <2>1. \A u \in outputs : fut'[u] = "done" /\ bornIn'[u] = runs'
      BY <1>1, <1>3, <1>4, <1>7 DEF ExecInv, OutputsInv
    <2>2. fut'[t] = "done" /\ bornIn'[t] = runs'
      BY <1>1, <1>3, <1>4, <1>9 DEF ThisRun
    <2> QED
      BY <2>1, <2>2, <1>1 DEF OutputsInv
  <1>13. ResultInv'
    BY <1>3, <1>9, Quiet
  <1> QED
    BY <1>4, <1>6, <1>8, <1>10, <1>11, <1>12, <1>13 DEF ExecInv

LEMMA ExecPanicInline ==
  ASSUME ExecInv, NEW t \in TaskId, PanicInline(t)
  PROVE  ExecInv'
  <1>1. /\ pc = "inline" /\ Inline(t) /\ fut[t] \in Alive
        /\ fut' = [fut EXCEPT ![t] = "panicked"] /\ inputs' = [inputs EXCEPT ![t] = <<>>]
        /\ bornIn' = bornIn /\ Leave("panicked", "unwound", t)
        /\ UNCHANGED graphVars
    BY DEF PanicInline, Inline, EndFuture, DropInputs, Unwind
  <1>2. /\ pc \in RunPcs /\ "unwound" \in ResultKinds
        /\ "unwound" \notin InputErrors \cup {"panicked"}
    BY <1>1 DEF RunPcs, ResultKinds, InputErrors
  <1>3. /\ UNCHANGED <<bornIn, runs, numTasks, loaded>>
        /\ result'.kind = "unwound" /\ result'.tid = t /\ pc' = "panicked"
    BY <1>1 DEF Leave, graphVars
  <1>4. /\ SlotsInv' /\ BornInv' /\ InputsInv'
        /\ fut' \in [TaskId -> FutureStates]
        /\ inputs' \in [TaskId -> Seq(TaskId)]
        /\ ThisRun' = ThisRun
        /\ fut'[t] = "panicked"
    BY <1>1, <1>3, FutureEnds
  <1>5. t \in ThisRun
    BY <1>1 DEF ExecInv, CohortInv
  <1>6. ResultInv'
    BY <1>2, <1>3, <1>4, <1>5 DEF ResultInv, SoleOwner, BlameIsRight
  <1>7. kept' \subseteq TaskId
    BY DEF ExecInv, ExecTypeOK, PanicInline, EndFuture, Range
  <1> QED
    BY <1>1, <1>2, <1>4, <1>6, <1>7, LeaveInv

LEMMA ExecCancelInline ==
  ASSUME ExecInv, NEW t \in TaskId, CancelInline(t)
  PROVE  ExecInv'
  <1>1. /\ pc = "inline" /\ fut[t] \in Alive
        /\ fut' = [fut EXCEPT ![t] = "dropped"] /\ inputs' = [inputs EXCEPT ![t] = <<>>]
        /\ bornIn' = bornIn /\ kept' = kept /\ Leave("idle", "cancelled", 0)
        /\ UNCHANGED graphVars
    BY DEF CancelInline, Inline, Return, NoTask, Alive
  <1>2. /\ pc \in RunPcs /\ "cancelled" \in ResultKinds /\ 0 \in TaskId
        /\ "cancelled" \notin InputErrors \cup {"panicked"}
    BY <1>1, BoundsAssumption DEF RunPcs, ResultKinds, InputErrors, TaskId
  <1>3. UNCHANGED <<bornIn, runs, numTasks, loaded>> /\ result'.kind = "cancelled"
    BY <1>1 DEF Leave, graphVars
  <1>4. /\ SlotsInv' /\ BornInv' /\ InputsInv'
        /\ fut' \in [TaskId -> FutureStates]
        /\ inputs' \in [TaskId -> Seq(TaskId)]
    BY <1>1, <1>3, FutureEnds
  <1>5. ResultInv'
    BY <1>2, <1>3 DEF ResultInv, SoleOwner, BlameIsRight
  <1>6. kept' \subseteq TaskId
    BY <1>1 DEF ExecInv, ExecTypeOK
  <1> QED
    BY <1>1, <1>2, <1>4, <1>5, <1>6, LeaveInv

\* A wrapper names a task and the type of an output.
LEMMA WrapperTypes ==
  ASSUME GraphTypeOK, NEW w \in Wrappers
  PROVE  w.id \in TaskId /\ w.ty \in Types
  <1>1. CASE w \in {[id |-> t, ty |-> sig[t].out] : t \in wrapped}
    <2>1. PICK t \in wrapped : w = [id |-> t, ty |-> sig[t].out]
      BY <1>1
    <2>2. t \in Committed /\ sig[t] \in Signature
      BY SignaturesAssumption DEF GraphTypeOK
    <2>3. sig[t].out \in Types
      BY <2>2 DEF Signature
    <2> QED
      BY <2>1, <2>3, WrapperIds
  <1>2. CASE w \in [id : TaskId, ty : Types]
    BY <1>2
  <1> QED
    BY <1>1, <1>2 DEF Wrappers

LEMMA ExecSuspend ==
  ASSUME ExecInv, NEW t \in TaskId, Suspend(t)
  PROVE  ExecInv'
  <1>1. /\ fut[t] = "ready" /\ fut' = [fut EXCEPT ![t] = "suspended"]
        /\ UNCHANGED topoVars
        /\ UNCHANGED <<runs, sink, result, layer, handles, outputs, inputs, bornIn, kept>>
    BY DEF Suspend
  <1>2. UNCHANGED <<pc, numTasks, loaded>>
    BY <1>1 DEF topoVars, graphVars
  <1>3. fut \in [TaskId -> FutureStates]
    BY DEF ExecInv, ExecTypeOK
  <1>4. /\ fut'[t] = "suspended" /\ \A u \in TaskId \ {t} : fut'[u] = fut[u]
        /\ fut' \in [TaskId -> FutureStates]
    BY <1>1, <1>3 DEF FutureStates, Alive
  <1>5. \A u \in TaskId : /\ fut'[u] = "none" <=> fut[u] = "none"
                          /\ fut'[u] \in Alive <=> fut[u] \in Alive
                          /\ fut[u] \in Finished => fut'[u] = fut[u]
    BY <1>1, <1>4 DEF Alive, Finished, InputErrors
  <1>6. LayerInv'
    BY <1>1, LayerSame DEF ExecInv
  <1>7. Committed' = Committed /\ ThisRun' = ThisRun
    BY <1>1, <1>2, <1>5 DEF Committed, ThisRun
  <1>8. ExecTypeOK'
    <2>1. GraphTypeOK'
      BY <1>6 DEF LayerInv, GraphInv
    <2> QED
      BY <2>1, <1>1, <1>2, <1>4 DEF ExecInv, ExecTypeOK
  <1>9. SlotsInv'
    <2>1. Committed \subseteq TaskId
      BY CommittedCount DEF ExecInv, ExecTypeOK
    <2> QED
      BY <2>1, <1>2, <1>5, <1>7 DEF ExecInv, SlotsInv
  <1>10. ExecShape'
    BY <1>1, <1>2, <1>7 DEF ExecInv, ExecShape
  <1>11. CohortInv'
    BY <1>1, <1>2, <1>7 DEF ExecInv, CohortInv, Inline
  <1>12. BornInv'
    BY <1>1, <1>5 DEF ExecInv, BornInv
  <1>13. OutputsInv'
    BY <1>1, <1>5 DEF ExecInv, ExecTypeOK, OutputsInv, Finished
  <1>14. InputsInv'
    <2>1. \A v \in TaskId : \A u \in Range(inputs[v]) : u \in TaskId
      BY DEF ExecInv, ExecTypeOK, Range
    <2>2. inputs' = inputs /\ bornIn' = bornIn
      BY <1>1
    <2>3. \A u \in TaskId : fut[u] = "done" => fut'[u] = "done"
      BY <1>5 DEF Finished
    <2>4. InputsInv
      BY DEF ExecInv
    <2> QED
      BY <2>1, <2>2, <2>3, <2>4, <1>5 DEF InputsInv
  <1>15. ResultInv'
    <2>1. \A u \in TaskId : fut[u] \in InputErrors \cup {"panicked"} => fut'[u] = fut[u]
      BY <1>5 DEF Finished
    <2>2. ResultInv /\ ThisRun \subseteq TaskId /\ "panicked" \in InputErrors \cup {"panicked"}
      BY DEF ExecInv, ThisRun
    <2> QED
      BY <2>1, <2>2, <1>1, <1>2, <1>7 DEF ResultInv, SoleOwner, BlameIsRight
  <1> QED
    BY <1>6, <1>8, <1>9, <1>10, <1>11, <1>12, <1>13, <1>14, <1>15 DEF ExecInv

\* A spawned task ends, of this run or of an earlier one.
LEMMA ExecEnd ==
  ASSUME ExecInv, NEW t \in TaskId, Complete(t) \/ Panic(t)
  PROVE  ExecInv'
  <1>1. /\ fut[t] \in Alive
        /\ UNCHANGED topoVars
        /\ UNCHANGED <<runs, sink, result, layer, handles, outputs, bornIn>>
        /\ inputs' = [inputs EXCEPT ![t] = <<>>]
        /\ kept \subseteq kept' /\ kept' \subseteq kept \cup Range(inputs[t])
    BY DEF Complete, Panic, EndFuture, DropInputs
  <1>2. PICK state \in {"done", "panicked", "dropped"} : fut' = [fut EXCEPT ![t] = state]
    BY DEF Complete, Panic, EndFuture
  <1>3. UNCHANGED <<pc, numTasks, loaded>>
    BY <1>1 DEF topoVars, graphVars
  <1>4. /\ SlotsInv' /\ BornInv' /\ InputsInv'
        /\ fut' \in [TaskId -> FutureStates]
        /\ inputs' \in [TaskId -> Seq(TaskId)]
        /\ ThisRun' = ThisRun
        /\ \A u \in TaskId : fut[u] = "done" => fut'[u] = "done"
    BY <1>1, <1>2, <1>3, FutureEnds
  <1>5. LayerInv'
    BY <1>1, LayerSame DEF ExecInv
  <1>6. ExecTypeOK'
    <2>1. GraphTypeOK'
      BY <1>5 DEF LayerInv, GraphInv
    <2>2. kept' \subseteq TaskId
      BY <1>1 DEF ExecInv, ExecTypeOK, Range
    <2> QED
      BY <2>1, <2>2, <1>1, <1>3, <1>4 DEF ExecInv, ExecTypeOK
  <1>7. ExecShape'
    BY <1>1, <1>3, <1>4 DEF ExecInv, ExecShape
  <1>8. CohortInv'
    BY <1>1, <1>3, <1>4 DEF ExecInv, CohortInv, Inline
  <1>9. OutputsInv'
    BY <1>1, <1>4 DEF ExecInv, ExecTypeOK, OutputsInv
  <1>10. ResultInv'
    <2>1. \A u \in TaskId : fut[u] \in InputErrors \cup {"panicked"} => fut'[u] = fut[u]
      <3>1. fut \in [TaskId -> FutureStates]
        BY DEF ExecInv, ExecTypeOK
      <3> QED
        BY <3>1, <1>1, <1>2 DEF Alive, InputErrors
    <2>2. ResultInv /\ ThisRun \subseteq TaskId /\ "panicked" \in InputErrors \cup {"panicked"}
      BY DEF ExecInv, ThisRun
    <2>3. Committed' = Committed
      BY <1>3 DEF Committed
    <2> QED
      BY <2>1, <2>2, <2>3, <1>1, <1>3, <1>4 DEF ResultInv, SoleOwner, BlameIsRight
  <1> QED
    BY <1>4, <1>5, <1>6, <1>7, <1>8, <1>9, <1>10 DEF ExecInv

LEMMA ExecSame ==
  ASSUME ExecInv, UNCHANGED vars
  PROVE  ExecInv'
  <1>1. /\ UNCHANGED topoVars
        /\ UNCHANGED <<runs, sink, result, layer, handles, outputs, fut, inputs, bornIn, kept>>
    BY DEF vars, execVars
  <1>2. UNCHANGED <<pc, numTasks, loaded>>
    BY <1>1 DEF topoVars, graphVars
  <1>3. LayerInv'
    BY <1>1, LayerSame DEF ExecInv
  <1>4. Committed' = Committed /\ ThisRun' = ThisRun
    BY <1>1, <1>2 DEF Committed, ThisRun
  <1>5. ExecTypeOK'
    <2>1. GraphTypeOK'
      BY <1>3 DEF LayerInv, GraphInv
    <2> QED
      BY <2>1, <1>1, <1>2 DEF ExecInv, ExecTypeOK
  <1>6. SlotsInv' /\ ExecShape'
    BY <1>1, <1>2, <1>4 DEF ExecInv, SlotsInv, ExecShape
  <1>7. CohortInv' /\ BornInv' /\ OutputsInv'
    BY <1>1, <1>2, <1>4 DEF ExecInv, CohortInv, Inline, BornInv, OutputsInv
  <1>8. InputsInv'
    BY <1>1 DEF ExecInv, InputsInv
  <1>9. ResultInv'
    BY <1>1, <1>2, <1>4 DEF ExecInv, ResultInv, SoleOwner, BlameIsRight
  <1> QED
    BY <1>3, <1>5, <1>6, <1>7, <1>8, <1>9 DEF ExecInv

LEMMA ExecStep ==
  ASSUME ExecInv, [ExecNext]_vars
  PROVE  ExecInv'
  <1>1. CASE BuildNext /\ UNCHANGED <<localVars, execVars>>
    BY <1>1, ExecBuild
  <1>2. CASE \E w \in Wrappers : run(w)
    <2>1. PICK w \in Wrappers : run(w)
      BY <1>2
    <2>2. w.id \in TaskId /\ w.ty \in Types
      BY WrapperTypes DEF ExecInv, ExecTypeOK
    <2>3. [id |-> w.id, ty |-> w.ty, typed |-> TRUE] \in [id : TaskId, ty : Types, typed : BOOLEAN]
      BY <2>2
    <2> QED
      BY <2>1, <2>3, ExecCall DEF run
  <1>3. CASE \E t \in TaskId : run_with_sink_id(t)
    <2>1. PICK t \in TaskId : run_with_sink_id(t)
      BY <1>3
    <2>2. [id |-> t, ty |-> sink.ty, typed |-> FALSE] \in [id : TaskId, ty : Types, typed : BOOLEAN]
      BY DEF ExecInv, ExecTypeOK
    <2> QED
      BY <2>1, <2>2, ExecCall DEF run_with_sink_id
  <1>4. CASE RunStep
    <2>1. CASE LayerStep /\ UNCHANGED execVars
      BY <2>1, ExecLayer
    <2>2. CASE ReportCycle \/ StartLayer \/ ExecuteDone
      BY <2>2, ExecCycle, ExecStartLayer, ExecDone
    <2>3. CASE TakeSingle \/ SpawnNext \/ SpawnDone
      BY <2>3, ExecTakeSingle, ExecSpawnNext, ExecSpawnDone
    <2>4. CASE Join \/ JoinDone
      BY <2>4, ExecJoin, ExecJoinDone
    <2>5. CASE \E t \in TaskId : CompleteInline(t) \/ PanicInline(t) \/ FailInline(t)
      BY <2>5, ExecCompleteInline, ExecPanicInline, ExecFailInline
    <2> QED
      BY <2>1, <2>2, <2>3, <2>4, <2>5, <1>4 DEF RunStep
  <1>5. CASE \E t \in TaskId : Suspend(t) \/ Complete(t) \/ Panic(t) \/ CancelInline(t)
    BY <1>5, ExecSuspend, ExecEnd, ExecCancelInline
  <1>6. CASE CancelJoin
    BY <1>6, ExecCancelJoin
  <1>7. CASE UNCHANGED vars
    BY <1>7, ExecSame
  <1> QED
    BY <1>1, <1>2, <1>3, <1>4, <1>5, <1>6, <1>7 DEF ExecNext

-----------------------------------------------------------------------------
(***************************************************************************)
(* A task is started by invoke() and by nothing else; with the typed API   *)
(* its future is ready to run exactly when all its inputs are there.       *)
(***************************************************************************)
LEMMA InvokedOnly ==
  ASSUME ExecInv, [ExecNext]_vars, NEW t \in TaskId, fut[t] = "none", fut'[t] # "none"
  PROVE  /\ t \in loaded /\ invoke(t)
         /\ \/ TakeSingle /\ pc = "single" /\ pc' = "inline"
            \/ SpawnNext /\ pc = "spawn" /\ pc' = "spawn"
         /\ UNCHANGED <<localVars, runs, sink, result, outputs>>
         /\ pc = "single" => t = layer[1] /\ UNCHANGED <<layer, handles>>
         /\ pc = "spawn" => /\ layer # <<>> /\ t = Head(layer)
                            /\ layer' = Tail(layer) /\ handles' = Append(handles, t)
  <1>1. fut \in [TaskId -> FutureStates]
    BY DEF ExecInv, ExecTypeOK
  <1>2. fut' # fut
    OBVIOUS
  <1>3. ASSUME NEW u \in TaskId, NEW state, fut[u] # "none", fut' = [fut EXCEPT ![u] = state]
        PROVE  FALSE
    BY <1>1, <1>3
  <1>4. CASE TakeSingle
    <2>1. PICK u : /\ u = layer[1] /\ u \in loaded /\ invoke(u) /\ pc = "single" /\ pc' = "inline"
                   /\ UNCHANGED <<localVars, runs, sink, result, layer, handles, outputs>>
      BY <1>2, <1>4 DEF TakeSingle
    <2>2. u = t
      BY <2>1, <1>1 DEF invoke
    <2> QED
      BY <2>1, <2>2, <1>4
  <1>5. CASE SpawnNext
    <2>1. PICK u : /\ u = Head(layer) /\ u \in loaded /\ invoke(u) /\ pc = "spawn" /\ layer # <<>>
                   /\ layer' = Tail(layer) /\ handles' = Append(handles, u)
                   /\ UNCHANGED <<pc, localVars, runs, sink, result, outputs>>
      BY <1>2, <1>5 DEF SpawnNext
    <2>2. u = t
      BY <2>1, <1>1 DEF invoke
    <2> QED
      BY <2>1, <2>2, <1>5
  <1>6. CASE UNCHANGED fut
    BY <1>2, <1>6
  <1>7. CASE \E u \in TaskId : CompleteInline(u) \/ PanicInline(u) \/ Suspend(u) \/ Complete(u)
                                 \/ Panic(u) \/ CancelInline(u)
    <2>1. PICK u \in TaskId : CompleteInline(u) \/ PanicInline(u) \/ Suspend(u) \/ Complete(u)
                                 \/ Panic(u) \/ CancelInline(u)
      BY <1>7
    <2>2. \E state : fut' = [fut EXCEPT ![u] = state]
      BY <2>1 DEF CompleteInline, PanicInline, Suspend, Complete, Panic, CancelInline, EndFuture
    <2>3. fut[u] # "none"
      BY <2>1 DEF CompleteInline, PanicInline, Suspend, Complete, Panic, CancelInline, EndFuture, Alive
    <2> QED
      BY <2>2, <2>3, <1>3
  <1>8. BuildNext /\ UNCHANGED <<localVars, execVars>> => UNCHANGED fut
    BY DEF execVars
  <1>9. (\E w \in Wrappers : run(w)) \/ (\E u \in TaskId : run_with_sink_id(u)) => UNCHANGED fut
    BY DEF run, run_with_sink_id, CallExecute
  <1>10. (LayerStep /\ UNCHANGED execVars) \/ UNCHANGED vars => UNCHANGED fut
    BY DEF execVars, vars
  <1>11. ReportCycle \/ StartLayer \/ SpawnDone \/ Join \/ JoinDone \/ ExecuteDone \/ CancelJoin
           \/ (\E u \in TaskId : FailInline(u)) => UNCHANGED fut
    BY DEF ReportCycle, StartLayer, SpawnDone, Join, JoinDone, ExecuteDone, CancelJoin, FailInline,
           execVars
  <1> QED
    BY <1>4, <1>5, <1>6, <1>7, <1>8, <1>9, <1>10, <1>11 DEF ExecNext, RunStep

\* What WellWired says of a task that is not being wired.
LEMMA Wired ==
  ASSUME TypedApi, ExecInv, pc \in RunPcs \cup {"idle"}, NEW t \in Committed \ lent
  PROVE  /\ t \in TaskId
         /\ sig[t].ins \in Seq(Types)
         /\ rev_edges[t] \in Seq(TaskId)
         /\ Len(rev_edges[t]) = Len(sig[t].ins)
         /\ \A i \in 1 .. Len(rev_edges[t]) : /\ rev_edges[t][i] \in wrapped
                                              /\ sig[rev_edges[t][i]].out = sig[t].ins[i]
  <1>1. GraphTypeOK /\ WireInv
    BY DEF ExecInv, LayerInv, GraphInv
  <1>2. ~BeingWired(t)
    BY DEF BeingWired, RunPcs, LayerPcs
  <1>3. WiredTask(t)
    BY <1>1, <1>2 DEF WireInv, OthersWired
  <1>4. t \in TaskId /\ sig[t] \in Signature
    BY <1>1, CommittedCount, SignaturesAssumption DEF GraphTypeOK
  <1>5. rev_edges[t] \in Seq(TaskId) /\ DOMAIN rev_edges[t] = 1 .. Len(rev_edges[t])
    BY <1>1, <1>4 DEF GraphTypeOK
  <1> QED
    BY <1>3, <1>4, <1>5 DEF WiredTask, Fits, Signature

LEMMA ReadyExactly ==
  ASSUME TypedApi, ExecInv, pc \in {"single", "spawn"}, NEW t \in loaded, t \notin lent
  PROVE  /\ from_any_iter(sig[t].ins, ArcsFor(t)) \in InputErrors \cup {"ready"}
         /\ from_any_iter(sig[t].ins, ArcsFor(t)) = "ready" <=>
              \A u \in Range(rev_edges[t]) : u \in outputs
         /\ from_any_iter(sig[t].ins, ArcsFor(t)) = "ready" => ArcsFor(t) = rev_edges[t]
  <1> DEFINE arcs == ArcsFor(t)
             ins == sig[t].ins
             state == from_any_iter(ins, arcs)
             all == \A u \in Range(rev_edges[t]) : u \in outputs
  <1>1. pc \in RunPcs /\ t \in Committed
    BY DEF ExecInv, SlotsInv, RunPcs
  <1>2. /\ t \in TaskId /\ ins \in Seq(Types) /\ rev_edges[t] \in Seq(TaskId)
        /\ Len(rev_edges[t]) = Len(ins)
        /\ \A i \in 1 .. Len(rev_edges[t]) : sig[rev_edges[t][i]].out = ins[i]
    BY <1>1, Wired
  <1>3. /\ arcs \in Seq(TaskId)
        /\ all => arcs = rev_edges[t]
        /\ Len(arcs) = Len(rev_edges[t]) => all
    BY <1>2, ArcsOf DEF ExecInv, ExecTypeOK
  <1>4. state \in InputErrors \cup {"ready"}
    BY DEF from_any_iter, InputErrors
  <1> HIDE DEF arcs, ins, all
  <1>5. ASSUME state = "ready"
        PROVE  Len(arcs) = Len(ins)
    <2>1. CASE ins = <<>>
      BY <2>1, <1>5 DEF from_any_iter
    <2>2. CASE ins # <<>>
      BY <2>2, <1>5 DEF from_any_iter
    <2> QED
      BY <2>1, <2>2
  <1>6. ASSUME all
        PROVE  state = "ready"
    <2>1. Len(arcs) = Len(ins) /\ \A i \in 1 .. Len(ins) : sig[arcs[i]].out = ins[i]
      BY <1>2, <1>3, <1>6
    <2>2. DOMAIN ins = 1 .. Len(ins) /\ DOMAIN arcs = 1 .. Len(arcs)
      BY <1>2, <1>3
    <2>3. CASE ins = <<>>
      <3>1. arcs = <<>>
        BY <2>1, <2>3, <1>3, EmptySeq
      <3> QED
        BY <2>3, <3>1 DEF from_any_iter
    <2>4. CASE ins # <<>>
      <3>1. ~ \E i \in DOMAIN ins \cap DOMAIN arcs : sig[arcs[i]].out # ins[i]
        BY <2>1, <2>2
      <3> QED
        BY <2>1, <2>4, <3>1 DEF from_any_iter
    <2> QED
      BY <2>3, <2>4
  <1> QED
    BY <1>2, <1>3, <1>4, <1>5, <1>6 DEF arcs, ins, all

LEMMA StartsStep ==
  ASSUME TypedApi, ExecInv, [ExecNext]_vars, NEW t \in TaskId,
         fut[t] = "none", fut'[t] = "ready"
  PROVE  /\ inputs'[t] = rev_edges[t]
         /\ \A u \in Range(rev_edges[t]) : fut[u] = "done"
  <1> DEFINE state == from_any_iter(sig[t].ins, ArcsFor(t))
  <1>1. t \in loaded /\ invoke(t) /\ pc \in {"single", "spawn"}
    BY InvokedOnly
  <1>2. /\ fut' = [fut EXCEPT ![t] = state]
        /\ inputs' = [inputs EXCEPT ![t] = IF state = "ready" THEN ArcsFor(t) ELSE <<>>]
    BY <1>1 DEF invoke
  <1>3. /\ fut \in [TaskId -> FutureStates] /\ inputs \in [TaskId -> Seq(TaskId)]
    BY DEF ExecInv, ExecTypeOK
  <1>4. state = "ready" /\ inputs'[t] = ArcsFor(t)
    BY <1>2, <1>3
  <1>5. ArcsFor(t) = rev_edges[t] /\ \A u \in Range(rev_edges[t]) : u \in outputs
    <2>1. CASE t \notin lent
      BY <2>1, <1>1, <1>4, ReadyExactly
    <2>2. CASE t \in lent
      <3>1. rev_edges[t] = <<>> /\ Range(rev_edges[t]) = {}
        BY <2>2 DEF ExecInv, LayerInv, GraphInv, WireInv, Waiting, Range
      <3>2. ArcsFor(t) = rev_edges[t]
        BY <3>1, ArcsOf DEF ExecInv, ExecTypeOK
      <3> QED
        BY <3>1, <3>2
    <2> QED
      BY <2>1, <2>2
  <1> QED
    BY <1>4, <1>5 DEF ExecInv, OutputsInv

-----------------------------------------------------------------------------
THEOREM ExecInvariant == ExecSpec => []ExecInv
  <1>1. ExecInv /\ [ExecNext]_vars => ExecInv'
    BY ExecStep
  <1> QED
    BY ExecStart, <1>1, PTL DEF ExecSpec

(***************************************************************************)
(* No variable leaves its type, whatever the user builds, panics, cancels, *)
(* keeps or runs again.                                                    *)
(***************************************************************************)
THEOREM ExecTypes == ExecSpec => []ExecTypeOK
  <1>1. ExecInv => ExecTypeOK
    BY DEF ExecInv
  <1> QED
    BY <1>1, ExecInvariant, PTL

(***************************************************************************)
(* What a run computes with was computed in that run, however many tasks   *)
(* of earlier runs are still going on beside it.                           *)
(***************************************************************************)
THEOREM RunsAlwaysIsolated == ExecSpec => []RunsAreIsolated
  <1>1. ASSUME ExecInv
        PROVE  RunsAreIsolated
    <2>1. \A t \in outputs : fut[t] = "done" /\ bornIn[t] = runs
      BY <1>1 DEF ExecInv, OutputsInv
    <2>2. \A t \in ThisRun : t \in TaskId /\ bornIn[t] = runs
      BY DEF ThisRun
    <2>3. \A t \in ThisRun : \A u \in Range(inputs[t]) : bornIn[u] = runs
      BY <1>1, <2>2 DEF ExecInv, InputsInv
    <2> QED
      BY <2>1, <2>3 DEF RunsAreIsolated
  <1> QED
    BY <1>1, ExecInvariant, PTL

(***************************************************************************)
(* Between two layers no task of the run is unfinished.                    *)
(***************************************************************************)
THEOREM LayersAreBarriers == ExecSpec => []LayerBarrier
  <1>1. ASSUME ExecInv
        PROVE  LayerBarrier
    BY <1>1, NobodyHolds DEF LayerBarrier
  <1> QED
    BY <1>1, ExecInvariant, PTL

(***************************************************************************)
(* run() finds more than one owner of the sink's output only when a task   *)
(* stored it away: not because the sink has consumers, and not because of  *)
(* what earlier runs left behind.                                          *)
(***************************************************************************)
THEOREM SoleOwnerAlways == ExecSpec => []SoleOwner
  <1>1. ExecInv => SoleOwner
    BY DEF ExecInv, ResultInv
  <1> QED
    BY <1>1, ExecInvariant, PTL

(***************************************************************************)
(* What a run reports happened in that very run, whatever earlier runs     *)
(* left going: the panic it reports is that of the task it names, an input *)
(* error that of a task it invoked, and a panic leaves run() only for a    *)
(* task that ran inside it or for an id that was never committed.          *)
(***************************************************************************)
THEOREM BlameAlwaysRight == ExecSpec => []BlameIsRight
  <1>1. ExecInv => BlameIsRight
    BY DEF ExecInv, ResultInv
  <1> QED
    BY <1>1, ExecInvariant, PTL

(***************************************************************************)
(* With the typed API, a task starts with the outputs of exactly its       *)
(* dependencies, in their order, also when the run was called through a    *)
(* builder that lives.                                                     *)
(***************************************************************************)
THEOREM AlwaysStartsWithItsInputs == ExecSpec => StartsWithItsInputs
  <1> DEFINE A == TypedApi =>
                    \A t \in TaskId :
                      fut[t] = "none" /\ fut'[t] = "ready" =>
                        /\ inputs'[t] = rev_edges[t]
                        /\ \A u \in Range(rev_edges[t]) : fut[u] = "done"
  <1>1. ExecInv /\ [ExecNext]_vars => A
    BY StartsStep
  <1>2. ExecInv /\ [ExecNext]_vars => [A]_vars
    BY <1>1
  <1>3. []ExecInv /\ [][ExecNext]_vars => [][A]_vars
    <2> HIDE DEF A
    <2> QED
      BY <1>2, PTL
  <1> QED
    BY <1>3, ExecInvariant, PTL DEF ExecSpec, StartsWithItsInputs

=============================================================================
