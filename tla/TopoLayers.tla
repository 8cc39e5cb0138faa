------------------------------ MODULE TopoLayers ------------------------------
(***************************************************************************)
(* Flow::get_topological_layers (src/tf/flow.rs): Kahn's algorithm, one    *)
(* action per step of its loops, run on whatever graph the user built.     *)
(*                                                                         *)
(* The local variables of the function are reset when it returns, so that  *)
(* a later call starts from the same state.                                *)
(***************************************************************************)
EXTENDS FlowGraph

CONSTANT MaxVisits   \* bound: the counter `visited` (it exceeds the number
                     \* of tasks only after a u8 in-degree has wrapped)

ASSUME MaxVisitsAssumption == MaxVisits \in Nat /\ MaxVisits >= MaxTasks

VARIABLES
  tmp_indegree,  \* the clone of indegrees that is counted down
  queue,         \* tasks whose count reached zero, for the next layer
  cur_layer,     \* the layer being visited
  cursor,        \* how many tasks of cur_layer were visited
  next,          \* the successor of cur_layer[cursor] to look at next
  layers,        \* the layers pushed so far
  visited        \* the number of tasks visited

localVars == <<tmp_indegree, queue, cur_layer, cursor, next, layers, visited>>

topoVars == <<pc, graphVars, localVars>>

LocalsReset ==
  /\ tmp_indegree = <<>>
  /\ queue = <<>>
  /\ cur_layer = <<>>
  /\ cursor = 0
  /\ next = 1
  /\ layers = <<>>
  /\ visited = 0

TopoInit == GraphInit /\ LocalsReset

-----------------------------------------------------------------------------

(***************************************************************************)
(* The first queue is collected from a HashMap, whose iteration order is   *)
(* randomised per map: any order of the tasks without dependencies.        *)
(***************************************************************************)
\* Mutant: the filter on the in-degree is lost.
Sources_All == DOMAIN indegrees

Sources == {t \in DOMAIN indegrees : indegrees[t] = 0}

BeginLayers ==
  /\ pc = "idle"
  /\ pc' = "drain"
  /\ tmp_indegree' = indegrees
  /\ queue' \in Bijection(1 .. Cardinality(Sources), Sources)
  /\ UNCHANGED <<graphVars, cur_layer, cursor, next, layers, visited>>

(***************************************************************************)
(* `queue.drain(..).collect()`: the next layer is the whole queue.         *)
(***************************************************************************)
\* Mutant: one task at a time is taken from the queue.
TakeQueue_One == cur_layer' = <<Head(queue)>> /\ queue' = Tail(queue)

\* Mutant: the queue is copied and not drained.
TakeQueue_Copy == cur_layer' = queue /\ queue' = queue

TakeQueue == cur_layer' = queue /\ queue' = <<>>

DrainQueue ==
  /\ pc = "drain"
  /\ queue # <<>>
  /\ pc' = "visit"
  /\ TakeQueue
  /\ UNCHANGED <<graphVars, tmp_indegree, cursor, next, layers, visited>>

\* The successors of the current task have all been looked at.
SuccessorsDone == cursor > 0 => next > Len(edges[cur_layer[cursor]])

\* Mutant: one task too many.
MoreTasks_OffByOne == cursor <= Len(cur_layer)

MoreTasks == cursor < Len(cur_layer)

VisitTask ==
  /\ pc = "visit"
  /\ SuccessorsDone
  /\ MoreTasks
  /\ visited < MaxVisits
  /\ cursor' = cursor + 1
  /\ next' = 1
  /\ visited' = visited + 1
  /\ UNCHANGED <<pc, graphVars, tmp_indegree, queue, cur_layer, layers>>

(***************************************************************************)
(* `deg.0 -= 1` on a u8: at zero it panics or wraps, like the addition.    *)
(***************************************************************************)
RelaxPanics(v) ==
  v \notin DOMAIN tmp_indegree \/ (OverflowChecks /\ tmp_indegree[v] = 0)

\* Mutant: a task is queued when one of its edges is still to come.
CountedDown_Early(deg) == deg <= 1

CountedDown(deg) == deg = 0

RelaxSuccessor ==
  /\ pc = "visit"
  /\ ~SuccessorsDone
  /\ LET v == edges[cur_layer[cursor]][next] IN
     IF RelaxPanics(v)
     THEN pc' = "panicked" /\ UNCHANGED <<tmp_indegree, queue, next>>
     ELSE LET deg == (tmp_indegree[v] + DegMod - 1) % DegMod IN
          /\ tmp_indegree' = [tmp_indegree EXCEPT ![v] = deg]
          /\ queue' = IF CountedDown(deg) THEN Append(queue, v) ELSE queue
          /\ next' = next + 1
          /\ UNCHANGED pc
  /\ UNCHANGED <<graphVars, cur_layer, cursor, layers, visited>>

PushLayer ==
  /\ pc = "visit"
  /\ SuccessorsDone
  /\ cursor = Len(cur_layer)
  /\ pc' = "drain"
  /\ layers' = Append(layers, cur_layer)
  /\ cur_layer' = <<>>
  /\ cursor' = 0
  /\ next' = 1
  /\ UNCHANGED <<graphVars, tmp_indegree, queue, visited>>

(***************************************************************************)
(* The loop ends; Err(HasCycle) unless as many tasks were visited as the   *)
(* flow has.                                                               *)
(***************************************************************************)
\* Mutant: only a graph without any source counts as cyclic.
AllVisited_NoSource == layers # <<>> \/ numTasks = 0

AllVisited == visited = numTasks

FinishLayers ==
  /\ pc = "drain"
  /\ queue = <<>>
  /\ pc' = IF AllVisited THEN "layered" ELSE "cyclic"
  /\ UNCHANGED <<graphVars, localVars>>

LayerStep ==
  DrainQueue \/ VisitTask \/ RelaxSuccessor \/ PushLayer \/ FinishLayers

(***************************************************************************)
(* The caller takes the result; the local variables are gone.              *)
(***************************************************************************)
ResetLocals ==
  /\ tmp_indegree' = <<>>
  /\ queue' = <<>>
  /\ cur_layer' = <<>>
  /\ cursor' = 0
  /\ next' = 1
  /\ layers' = <<>>
  /\ visited' = 0

TakeResult ==
  /\ pc \in {"layered", "cyclic"}
  /\ pc' = "idle"
  /\ ResetLocals
  /\ UNCHANGED graphVars

TopoNext ==
  \/ BuildNext /\ UNCHANGED localVars
  \/ BeginLayers
  \/ LayerStep
  \/ TakeResult

TopoSpec == TopoInit /\ [][TopoNext]_topoVars

(***************************************************************************)
(* The function is synchronous: once called, the thread runs it on.        *)
(***************************************************************************)
FairTopoSpec == TopoSpec /\ WF_topoVars(LayerStep)

-----------------------------------------------------------------------------
\* No in-degree has wrapped.
NoWrap == \A v \in TaskId : Cardinality(InEdges(v)) < DegMod

\* All edges join committed tasks.
EdgesCommitted ==
  \A u, v \in TaskId : HasEdge(u, v) => {u, v} \subseteq Committed

LayerTasks(k) == {layers[k][i] : i \in DOMAIN layers[k]}

AllLayered == UNION {LayerTasks(k) : k \in DOMAIN layers}

(***************************************************************************)
(* The types of the local variables.                                       *)
(***************************************************************************)
BuildPcs == {"idle", "building", "wiring", "panicked"}
LayerPcs == {"drain", "visit", "layered", "cyclic"}

TopoTypeOK ==
  /\ GraphTypeOK
  /\ pc \in BuildPcs \cup LayerPcs
  /\ DOMAIN tmp_indegree \subseteq TaskId
  /\ \A v \in DOMAIN tmp_indegree : tmp_indegree[v] \in 0 .. DegMod - 1
  /\ queue \in Seq(TaskId)
  /\ cur_layer \in Seq(TaskId)
  /\ cursor \in 0 .. Len(cur_layer)
  /\ next \in Nat \ {0}
  /\ layers \in Seq(Seq(TaskId))
  /\ visited \in 0 .. MaxVisits

(***************************************************************************)
(* A layer can be run as a whole: every dependency of a task in it lies in *)
(* an earlier layer.  execute() relies on this to find the outputs of all  *)
(* dependencies when it invokes a task.                                    *)
(***************************************************************************)
LayersRespectEdges ==
  NoWrap =>
    \A k \in DOMAIN layers : \A v \in LayerTasks(k), u \in TaskId :
      HasEdge(u, v) => \E j \in 1 .. k - 1 : u \in LayerTasks(j)

(***************************************************************************)
(* No task is scheduled twice, in one layer or in two, although it can be  *)
(* reached along many (and parallel) edges.                                *)
(***************************************************************************)
LayersDisjoint ==
  NoWrap =>
    \A k, l \in DOMAIN layers : \A i \in DOMAIN layers[k], j \in DOMAIN layers[l] :
      layers[k][i] = layers[l][j] => k = l /\ i = j

(***************************************************************************)
(* "Tasks at the same layer run in parallel": no task waits for a layer it *)
(* does not need; it comes right after the last of its dependencies.       *)
(***************************************************************************)
LayersEarliest ==
  pc = "layered" /\ NoWrap =>
    \A k \in DOMAIN layers \ {1} : \A v \in LayerTasks(k) :
      \E u \in LayerTasks(k - 1) : HasEdge(u, v)

(***************************************************************************)
(* The verdict is right for every graph whose edges join committed tasks,  *)
(* also for the cyclic ones that a bare register() can build.              *)
(***************************************************************************)
VerdictExact ==
  NoWrap /\ EdgesCommitted =>
    /\ pc = "cyclic" => Cyclic
    /\ pc = "layered" => ~Cyclic /\ AllLayered = Committed

(***************************************************************************)
(* Counting down never panics: the counts agree with the edges, so none is *)
(* decremented below zero and none is missing.                             *)
(***************************************************************************)
CountdownSafe == pc = "panicked" => cursor = 0

(***************************************************************************)
(* The function returns: the queue runs dry.                               *)
(***************************************************************************)
LayeringReturns == (pc = "drain") ~> (pc \in {"layered", "cyclic"})

=============================================================================
