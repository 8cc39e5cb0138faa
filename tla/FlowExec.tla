------------------------------- MODULE FlowExec -------------------------------
(***************************************************************************)
(* Running a Flow: Flow::run, Flow::run_with_sink_id and Flow::execute     *)
(* (src/tf/flow.rs) with TaskAdapter::invoke and FromAnyIter               *)
(* (src/tf/task.rs), on whatever graph the user built, and again on what   *)
(* an earlier run left of it.                                              *)
(*                                                                         *)
(* A layer of one task runs inside the caller's future; the tasks of a     *)
(* larger layer are spawned on the tokio runtime and joined in order.  An  *)
(* early return drops the JoinHandles that are left: their tasks go on,    *)
(* detached, while the user does anything else with the flow.              *)
(*                                                                         *)
(* What the user's tasks and the caller may do is switched on by Faults:   *)
(*   "panic"   a task panics                                               *)
(*   "cancel"  the caller drops the future of run() while it is suspended  *)
(*   "keep"    a task stores an Arc of one of its inputs away              *)
(***************************************************************************)
EXTENDS TopoLayers

CONSTANTS
  MaxRuns,    \* bound: calls of run and run_with_sink_id
  Faults      \* see above

AllFaults == {"panic", "cancel", "keep"}

ASSUME MaxRunsAssumption == MaxRuns \in Nat
ASSUME FaultsAssumption == Faults \subseteq AllFaults

VARIABLES
  runs,      \* runs begun
  sink,      \* what the current run was asked for
  result,    \* what the last run returned
  layer,     \* the layer being executed: the tasks still to be taken
  handles,   \* the tasks whose JoinHandle execute() still holds
  outputs,   \* the keys of the local map `outputs`
  fut,       \* the future of each task, see below
  inputs,    \* whose output Arcs the future of a task holds
  bornIn,    \* the run that invoked a task
  kept       \* the tasks whose output Arc some task stored away

execVars == <<runs, sink, result, layer, handles, outputs, fut, inputs,
              bornIn, kept>>

vars == <<topoVars, execVars>>

\* What invoke() turns into a future that is ready with an error.
InputErrors ==
  {"SourceTaskHasNoInput", "TaskInputsNumError", "TaskInputTypeDowncastError"}

Alive == {"ready", "suspended"}
Finished == {"done", "panicked"} \cup InputErrors

\* "none": not invoked; "dropped": dropped by its owner before it finished.
FutureStates == {"none", "dropped"} \cup Alive \cup Finished

\* Three ways to get a FlowError::TaskExecutionError.
ExecutionErrors == {"panicked", "output type mismatch", "output has multiple owners"}

ResultKinds ==
  {"none", "ok", "cancelled", "unwound", "HasCycle", "TaskNotFound"}
    \cup ExecutionErrors \cup InputErrors

\* What stands in `tid` where the result names no task.
NoTask == 0

NoResult == [kind |-> "none", tid |-> NoTask]
NoSink(ty) == [id |-> 0, ty |-> ty, typed |-> FALSE]

ExecInit ==
  /\ TopoInit
  /\ runs = 0
  /\ \E ty \in Types : sink = NoSink(ty)
  /\ result = NoResult
  /\ layer = <<>>
  /\ handles = <<>>
  /\ outputs = {}
  /\ fut = [t \in TaskId |-> "none"]
  /\ inputs = [t \in TaskId |-> <<>>]
  /\ bornIn = [t \in TaskId |-> 0]
  /\ kept = {}

-----------------------------------------------------------------------------
(***************************************************************************)
(* The two entry points.  The id of run_with_sink_id is any number.        *)
(***************************************************************************)
CallExecute(s) ==
  /\ runs < MaxRuns
  /\ BeginLayers
  /\ runs' = runs + 1
  /\ sink' = s
  /\ result' = NoResult
  /\ UNCHANGED <<layer, handles, outputs, fut, inputs, bornIn, kept>>

run(w) == CallExecute([id |-> w.id, ty |-> w.ty, typed |-> TRUE])

run_with_sink_id(t) == CallExecute([id |-> t, ty |-> sink.ty, typed |-> FALSE])

(***************************************************************************)
(* Leaving the future of run(), by a return, a panic or because it was     *)
(* dropped: the locals of execute() are dropped, and so are the handles.   *)
(***************************************************************************)
\* Mutant: the outputs outlive the run.
Leave_KeepsOutputs(newpc, kind, tid) ==
  /\ pc' = newpc
  /\ result' = [kind |-> kind, tid |-> tid]
  /\ ResetLocals
  /\ layer' = <<>>
  /\ handles' = <<>>
  /\ UNCHANGED <<runs, sink, outputs>>

Leave(newpc, kind, tid) ==
  /\ pc' = newpc
  /\ result' = [kind |-> kind, tid |-> tid]
  /\ ResetLocals
  /\ layer' = <<>>
  /\ handles' = <<>>
  /\ outputs' = {}
  /\ UNCHANGED <<runs, sink>>

Return(kind, tid) == Leave("idle", kind, tid)

Unwind(tid) == Leave("panicked", "unwound", tid)

ReportCycle ==
  /\ pc = "cyclic"
  /\ Return("HasCycle", NoTask)
  /\ UNCHANGED <<graphVars, fut, inputs, bornIn, kept>>

(***************************************************************************)
(* `for layer in layers`; the locals of get_topological_layers are gone.   *)
(***************************************************************************)
StartLayer ==
  /\ pc \in {"layered", "layer"}
  /\ layers # <<>>
  /\ pc' = IF Len(Head(layers)) = 1 THEN "single" ELSE "spawn"
  /\ layer' = Head(layers)
  /\ layers' = Tail(layers)
  /\ tmp_indegree' = <<>>
  /\ visited' = 0
  /\ UNCHANGED <<graphVars, queue, cur_layer, cursor, next, runs, sink, result,
                 handles, outputs, fut, inputs, bornIn, kept>>

(***************************************************************************)
(* FromAnyIter: the inputs are taken in order, so an input of the wrong    *)
(* type is met before one that is missing or superfluous.                  *)
(***************************************************************************)
from_any_iter(ins, arcs) ==
  IF ins = <<>> THEN IF arcs = <<>> THEN "ready" ELSE "SourceTaskHasNoInput"
  ELSE IF \E i \in DOMAIN ins \cap DOMAIN arcs : sig[arcs[i]].out # ins[i]
    THEN "TaskInputTypeDowncastError"
  ELSE IF Len(arcs) # Len(ins) THEN "TaskInputsNumError"
  ELSE "ready"

(***************************************************************************)
(* The outputs that are there for a task, in the order of its dependencies *)
(* (a dependency without an output is skipped).                            *)
(***************************************************************************)
Present(t) == {i \in DOMAIN rev_edges[t] : rev_edges[t][i] \in outputs}

\* The k-th smallest of a set of positions.
Nth(P, k) == CHOOSE i \in P : Cardinality({j \in P : j <= i}) = k

\* Mutant: the inputs are handed over from the last one.
ArcsFor_Backwards(t) ==
  LET n == Cardinality(Present(t)) IN
  [k \in 1 .. n |-> rev_edges[t][Nth(Present(t), n + 1 - k)]]

ArcsFor(t) ==
  [k \in 1 .. Cardinality(Present(t)) |-> rev_edges[t][Nth(Present(t), k)]]

(***************************************************************************)
(* Taking the task out of its slot and invoking it.  A future that is      *)
(* ready with an error holds no inputs.                                    *)
(***************************************************************************)
\* Mutant: the task is copied out of its slot and not taken.
TakeSlot_Copies(t) == loaded' = loaded

TakeSlot(t) == loaded' = loaded \ {t}

invoke(t) ==
  LET arcs == ArcsFor(t)
      state == from_any_iter(sig[t].ins, arcs)
  IN /\ TakeSlot(t)
     /\ fut' = [fut EXCEPT ![t] = state]
     /\ inputs' = [inputs EXCEPT ![t] = IF state = "ready" THEN arcs ELSE <<>>]
     /\ bornIn' = [bornIn EXCEPT ![t] = runs]
     /\ UNCHANGED <<numTasks, sig, edges, rev_edges, indegrees, wrapped, builder,
                    lent, bare, kept>>

(***************************************************************************)
(* A layer of one task.  An empty slot is passed over; an id that was      *)
(* never committed is out of the bounds of `tasks`.                        *)
(***************************************************************************)
TakeSingle ==
  /\ pc = "single"
  /\ LET t == layer[1] IN
     \/ /\ t \in loaded
        /\ invoke(t)
        /\ pc' = "inline"
        /\ UNCHANGED <<localVars, runs, sink, result, layer, handles, outputs>>
     \/ /\ t \in Committed \ loaded
        /\ pc' = "layer"
        /\ layer' = <<>>
        /\ UNCHANGED <<graphVars, localVars, runs, sink, result, handles, outputs,
                       fut, inputs, bornIn, kept>>
     \/ /\ t \notin Committed
        /\ Unwind(t)
        /\ UNCHANGED <<graphVars, fut, inputs, bornIn, kept>>

(***************************************************************************)
(* A larger layer: every task is taken, invoked and spawned.               *)
(***************************************************************************)
SpawnNext ==
  /\ pc = "spawn"
  /\ layer # <<>>
  /\ LET t == Head(layer) IN
     \/ /\ t \in loaded
        /\ invoke(t)
        /\ layer' = Tail(layer)
        /\ handles' = Append(handles, t)
        /\ UNCHANGED <<pc, localVars, runs, sink, result, outputs>>
     \/ /\ t \in Committed \ loaded
        /\ layer' = Tail(layer)
        /\ UNCHANGED <<pc, graphVars, localVars, runs, sink, result, handles,
                       outputs, fut, inputs, bornIn, kept>>
     \/ /\ t \notin Committed
        /\ Unwind(t)
        /\ UNCHANGED <<graphVars, fut, inputs, bornIn, kept>>

SpawnDone ==
  /\ pc = "spawn"
  /\ layer = <<>>
  /\ pc' = "join"
  /\ UNCHANGED <<graphVars, localVars, execVars>>

-----------------------------------------------------------------------------
(***************************************************************************)
(* The tasks.  A sync task finishes in one poll; an async task may be      *)
(* suspended on the way.  A future that finishes drops its inputs, unless  *)
(* the task stored their Arcs away.                                        *)
(***************************************************************************)
Inline(t) == pc = "inline" /\ layer = <<t>>

Suspend(t) ==
  /\ fut[t] = "ready"
  /\ ~sig[t].sync
  /\ fut' = [fut EXCEPT ![t] = "suspended"]
  /\ UNCHANGED <<topoVars, runs, sink, result, layer, handles, outputs, inputs,
                 bornIn, kept>>

\* Mutant: a finished future keeps the Arcs of its inputs alive.
DropInputs_Never(t) == inputs' = inputs

DropInputs(t) == inputs' = [inputs EXCEPT ![t] = <<>>]

EndFuture(t, state) ==
  /\ fut[t] \in Alive
  /\ fut' = [fut EXCEPT ![t] = state]
  /\ DropInputs(t)
  /\ \/ kept' = kept
     \/ "keep" \in Faults /\ kept' = kept \cup Range(inputs[t])
  /\ UNCHANGED bornIn

Complete(t) ==
  /\ ~Inline(t)
  /\ EndFuture(t, "done")
  /\ UNCHANGED <<topoVars, runs, sink, result, layer, handles, outputs>>

\* tokio catches the panic of a spawned task.
Panic(t) ==
  /\ "panic" \in Faults
  /\ ~Inline(t)
  /\ EndFuture(t, "panicked")
  /\ UNCHANGED <<topoVars, runs, sink, result, layer, handles, outputs>>

(***************************************************************************)
(* The same inside the caller's future.                                    *)
(***************************************************************************)
CompleteInline(t) ==
  /\ Inline(t)
  /\ EndFuture(t, "done")
  /\ pc' = "layer"
  /\ outputs' = outputs \cup {t}
  /\ layer' = <<>>
  /\ UNCHANGED <<graphVars, localVars, runs, sink, result, handles>>

PanicInline(t) ==
  /\ "panic" \in Faults
  /\ Inline(t)
  /\ EndFuture(t, "panicked")
  /\ Unwind(t)
  /\ UNCHANGED graphVars

(***************************************************************************)
(* The error of a task, and the panic of a spawned one, end the run.  The  *)
(* JoinError of a panic is wrapped with the id of its handle; an input     *)
(* error is passed on as it is and names no task.                          *)
(***************************************************************************)
Named(t) == IF fut[t] = "panicked" THEN t ELSE NoTask

\* Mutant: the error names the sink.
PassError_BlamesSink(t) == Return(fut[t], sink.id)

PassError(t) == Return(fut[t], Named(t))

FailInline(t) ==
  /\ Inline(t)
  /\ fut[t] \in InputErrors
  /\ PassError(t)
  /\ UNCHANGED <<graphVars, fut, inputs, bornIn, kept>>

(***************************************************************************)
(* `handle.await` for each handle in turn.                                 *)
(***************************************************************************)
\* Mutant: a handle that is not done counts as failed.
Joinable_Hasty(t) == TRUE

\* Mutant: a task that failed is waited for.
Joinable_OnlyDone(t) == fut[t] = "done"

Joinable(t) == fut[t] \in Finished

Join ==
  /\ pc = "join"
  /\ handles # <<>>
  /\ LET t == Head(handles) IN
     /\ Joinable(t)
     /\ \/ /\ fut[t] = "done"
           /\ outputs' = outputs \cup {t}
           /\ handles' = Tail(handles)
           /\ UNCHANGED <<pc, localVars, runs, sink, result, layer>>
        \/ /\ fut[t] # "done"
           /\ PassError(t)
  /\ UNCHANGED <<graphVars, fut, inputs, bornIn, kept>>

\* Mutant: the next layer starts before all handles were joined.
JoinDone_Early ==
  /\ pc = "join"
  /\ pc' = "layer"
  /\ UNCHANGED <<graphVars, localVars, execVars>>

JoinDone ==
  /\ pc = "join"
  /\ handles = <<>>
  /\ pc' = "layer"
  /\ UNCHANGED <<graphVars, localVars, execVars>>

(***************************************************************************)
(* execute() returned Ok; run() takes the sink out of the map, downcasts   *)
(* its Arc and unwraps it, run_with_sink_id() returns the Arc.             *)
(***************************************************************************)
Shared(t) == t \in kept \/ \E u \in TaskId : t \in Range(inputs[u])

Outcome ==
  IF sink.id \notin outputs THEN "TaskNotFound"
  ELSE IF sink.typed /\ sig[sink.id].out # sink.ty THEN "output type mismatch"
  ELSE IF sink.typed /\ Shared(sink.id) THEN "output has multiple owners"
  ELSE "ok"

ExecuteDone ==
  /\ pc \in {"layered", "layer"}
  /\ layers = <<>>
  /\ Return(Outcome, sink.id)
  /\ UNCHANGED <<graphVars, fut, inputs, bornIn, kept>>

(***************************************************************************)
(* The caller drops the future of run() at an await: spawned tasks are     *)
(* detached, the task of a single layer is dropped with the caller.        *)
(***************************************************************************)
CancelJoin ==
  /\ "cancel" \in Faults
  /\ pc = "join"
  /\ handles # <<>>
  /\ Return("cancelled", NoTask)
  /\ UNCHANGED <<graphVars, fut, inputs, bornIn, kept>>

CancelInline(t) ==
  /\ "cancel" \in Faults
  /\ Inline(t)
  /\ fut[t] = "suspended"
  /\ Return("cancelled", NoTask)
  /\ fut' = [fut EXCEPT ![t] = "dropped"]
  /\ inputs' = [inputs EXCEPT ![t] = <<>>]
  /\ UNCHANGED <<graphVars, bornIn, kept>>

\* What the thread in run() does by itself.
RunStep ==
  \/ LayerStep /\ UNCHANGED execVars
  \/ ReportCycle
  \/ StartLayer
  \/ TakeSingle
  \/ SpawnNext
  \/ SpawnDone
  \/ \E t \in TaskId : CompleteInline(t) \/ PanicInline(t) \/ FailInline(t)
  \/ Join
  \/ JoinDone
  \/ ExecuteDone

ExecNext ==
  \/ BuildNext /\ UNCHANGED <<localVars, execVars>>
  \/ \E w \in Wrappers : run(w)
  \/ \E t \in TaskId : run_with_sink_id(t)
  \/ RunStep
  \/ \E t \in TaskId : Suspend(t) \/ Complete(t) \/ Panic(t) \/ CancelInline(t)
  \/ CancelJoin

ExecSpec == ExecInit /\ [][ExecNext]_vars

(***************************************************************************)
(* The caller polls run() until it is ready, the runtime polls the spawned *)
(* tasks, and every task ends.                                             *)
(***************************************************************************)
FairExecSpec ==
  /\ ExecSpec
  /\ WF_vars(RunStep)
  /\ \A t \in TaskId : WF_vars(Complete(t) \/ Panic(t))

-----------------------------------------------------------------------------
RunPcs == LayerPcs \cup {"layer", "single", "inline", "spawn", "join"}

ThisRun == {t \in TaskId : fut[t] # "none" /\ bornIn[t] = runs}

(***************************************************************************)
(* The types of the variables.                                             *)
(***************************************************************************)
ExecTypeOK ==
  /\ GraphTypeOK
  /\ pc \in BuildPcs \cup RunPcs
  /\ runs \in 0 .. MaxRuns
  /\ sink \in [id : TaskId, ty : Types, typed : BOOLEAN]
  /\ result \in [kind : ResultKinds, tid : TaskId]
  /\ layer \in Seq(TaskId)
  /\ handles \in Seq(TaskId)
  /\ outputs \subseteq TaskId
  /\ fut \in [TaskId -> FutureStates]
  /\ inputs \in [TaskId -> Seq(TaskId)]
  /\ bornIn \in [TaskId -> 0 .. MaxRuns]
  /\ kept \subseteq TaskId

(***************************************************************************)
(* A task that starts has the outputs of all its dependencies, in the      *)
(* order its run() declares them, and no others: also in a later run, on   *)
(* a flow of which an earlier run executed a part, and in a run that is    *)
(* made while builders wait, whose tasks have no dependencies yet.         *)
(***************************************************************************)
StartsWithItsInputs ==
  [][TypedApi =>
       \A t \in TaskId :
         fut[t] = "none" /\ fut'[t] = "ready" =>
           /\ inputs'[t] = rev_edges[t]
           /\ \A u \in Range(rev_edges[t]) : fut[u] = "done"]_vars

(***************************************************************************)
(* What a run computes with was computed in that run: the result of a task *)
(* that an earlier, failed or cancelled run detached is never picked up.   *)
(***************************************************************************)
RunsAreIsolated ==
  /\ \A t \in outputs : fut[t] = "done" /\ bornIn[t] = runs
  /\ \A t \in ThisRun : \A u \in Range(inputs[t]) : bornIn[u] = runs

(***************************************************************************)
(* Layer by layer: between two layers no task of this run is unfinished.   *)
(***************************************************************************)
LayerBarrier ==
  pc = "layer" => \A t \in ThisRun : fut[t] = "done"

(***************************************************************************)
(* The sink's Arc can be unwrapped unless a task stored it away, although  *)
(* the sink may have consumers and earlier runs may have left tasks that   *)
(* still hold Arcs.                                                        *)
(***************************************************************************)
SoleOwner ==
  result.kind = "output has multiple owners" => result.tid \in kept

(***************************************************************************)
(* What a run reports happened in that very run: the panic it reports is   *)
(* that of the task it names, and the input error, which names none, that  *)
(* of a task it invoked, never of one that an earlier run left behind.     *)
(* run() itself panics only when a task that runs inside it does or when a *)
(* layer holds an id that was never committed.                             *)
(***************************************************************************)
BlameIsRight ==
  /\ result.kind = "panicked" =>
       result.tid \in ThisRun /\ fut[result.tid] = "panicked"
  /\ result.kind \in InputErrors => \E t \in ThisRun : fut[t] = result.kind
  /\ result.kind = "unwound" =>
       \/ result.tid \notin Committed
       \/ result.tid \in ThisRun /\ fut[result.tid] = "panicked"

(***************************************************************************)
(* A flow built with the typed API is acyclic whatever calls were made     *)
(* through living builders, and no run says otherwise.                     *)
(***************************************************************************)
NoCycleReported == TypedApi => result.kind # "HasCycle"

(***************************************************************************)
(* The first run of a flow built with the typed API, every builder used    *)
(* before the next call, succeeds whichever of its outputs is the sink, if *)
(* no task panicked or stored an Arc away and the caller did not cancel    *)
(* the run.                                                                *)
(***************************************************************************)
FirstRunSucceeds ==
  /\ Misuses = {} /\ sink.typed /\ kept = {}
  /\ runs = 1 /\ result.kind \notin {"none", "cancelled"}
  /\ \A t \in TaskId : fut[t] # "panicked"
  => result.kind = "ok"

(***************************************************************************)
(* What a user of the typed API sees of all this: DagPromise.              *)
(***************************************************************************)
StatusOf(state) ==
  CASE state = "none" -> "fresh"
    [] state \in Alive -> "running"
    [] state \in InputErrors -> "refused"
    [] state = "panicked" -> "failed"
    [] OTHER -> state

VerdictOf(kind) ==
  CASE kind \in InputErrors -> "refused"
    [] kind = "panicked" -> "failed"
    [] kind = "unwound" -> "died"
    [] kind = "TaskNotFound" -> "missing"
    [] kind = "output has multiple owners" -> "shared"
    [] OTHER -> kind

Phase ==
  CASE pc \in RunPcs -> "running" [] pc = "panicked" -> "dead" [] OTHER -> "idle"

Deps == [t \in TaskId |-> Range(rev_edges[t])]

Status == [t \in TaskId |-> StatusOf(fut[t])]

Verdict == [kind |-> VerdictOf(result.kind),
            task |-> IF result.kind = "none" THEN sink.id ELSE result.tid]

Promise == INSTANCE DagPromise WITH
  Task <- TaskId, phase <- Phase, tasks <- Committed, deps <- Deps,
  status <- Status, cohort <- ThisRun, goal <- sink.id, verdict <- Verdict

(***************************************************************************)
(* The typed API, every builder used before the next call, implements      *)
(* DagPromise: between any two steps of layers, spawns and joins, a task   *)
(* runs at most once and only when this very run computed its inputs, a    *)
(* run that reports no error ran every task that was left, a panic that is *)
(* reported names a task that panicked in this run, an input error is      *)
(* reported only if this run refused a task, tasks that an earlier run     *)
(* detached disturb nothing, and every run ends.                           *)
(***************************************************************************)
KeepsPromise == Promise!Spec

(***************************************************************************)
(* src/tf/flow.rs:208-210: TaskExecutionError is returned "if any task     *)
(* panicked": the panic of a task does not leave run() as a panic.         *)
(***************************************************************************)
PanicsAreReported == result.kind # "unwound"

=============================================================================
