------------------------------ MODULE DagPromise ------------------------------
(***************************************************************************)
(* What the typed API of a Flow promises its user, without layers, queues, *)
(* handles or counts: a set of tasks that grows between runs, runs that    *)
(* start a task when its dependencies are done, and how a run may end.     *)
(* FlowExec is shown to implement it.                                      *)
(***************************************************************************)
CONSTANT Task

VARIABLES
  phase,    \* "idle", "running", or "dead": a panic left run()
  tasks,    \* the tasks committed so far
  deps,     \* deps[t]: the tasks whose outputs t takes
  status,   \* status[t]: "fresh", "running", or how t ended
  cohort,   \* the tasks the current (or last) run started
  goal,     \* the task whose output that run was asked for
  verdict   \* how that run ended, and the task it names if it names one

vars == <<phase, tasks, deps, status, cohort, goal, verdict>>

NoVerdict == [kind |-> "none", task |-> goal]

Done(S) == \A t \in S : status[t] = "done"

\* t can be run: this very run computed all it needs.
Supplied(t) == deps[t] \subseteq cohort /\ Done(deps[t])

Init ==
  /\ phase = "idle"
  /\ tasks = {}
  /\ deps = [t \in Task |-> {}]
  /\ status = [t \in Task |-> "fresh"]
  /\ cohort = {}
  /\ goal \in Task
  /\ verdict = NoVerdict

-----------------------------------------------------------------------------
(***************************************************************************)
(* The user extends the graph between two runs.  A task that was started   *)
(* gets no further dependency.                                             *)
(***************************************************************************)
AddTask(t) ==
  /\ phase = "idle"
  /\ t \notin tasks
  /\ tasks' = tasks \cup {t}
  /\ UNCHANGED <<phase, deps, status, cohort, goal, verdict>>

AddDependency(t, u) ==
  /\ phase = "idle"
  /\ {t, u} \subseteq tasks
  /\ status[t] = "fresh"
  /\ deps' = [deps EXCEPT ![t] = @ \cup {u}]
  /\ UNCHANGED <<phase, tasks, status, cohort, goal, verdict>>

BeginRun(t) ==
  /\ phase = "idle"
  /\ phase' = "running"
  /\ cohort' = {}
  /\ goal' = t
  /\ verdict' = [kind |-> "none", task |-> t]
  /\ UNCHANGED <<tasks, deps, status>>

(***************************************************************************)
(* Starting a task that is supplied; a task that cannot be supplied any    *)
(* more, because an earlier run consumed what it needs, is refused.        *)
(***************************************************************************)
Launch(t, state) ==
  /\ phase = "running"
  /\ t \in tasks
  /\ status[t] = "fresh"
  /\ status' = [status EXCEPT ![t] = state]
  /\ cohort' = cohort \cup {t}
  /\ UNCHANGED <<phase, tasks, deps, goal, verdict>>

Start(t) == Supplied(t) /\ Launch(t, "running")

Refuse(t) ==
  /\ \E u \in deps[t] \ cohort : status[u] # "fresh"
  /\ Launch(t, "refused")

(***************************************************************************)
(* A task ends whatever the run does: it may have outlived its own run.    *)
(***************************************************************************)
EndTask(t, state) ==
  /\ status[t] = "running"
  /\ status' = [status EXCEPT ![t] = state]

Finish(t) ==
  /\ EndTask(t, "done")
  /\ UNCHANGED <<phase, tasks, deps, cohort, goal, verdict>>

Fail(t) ==
  /\ EndTask(t, "failed")
  /\ UNCHANGED <<phase, tasks, deps, cohort, goal, verdict>>

-----------------------------------------------------------------------------
EndRun(kind, t) ==
  /\ phase = "running"
  /\ phase' = "idle"
  /\ verdict' = [kind |-> kind, task |-> t]
  /\ UNCHANGED <<tasks, deps, cohort, goal>>

(***************************************************************************)
(* A run without an error left no task unrun and none unfinished.  It has  *)
(* the goal's output, unless an earlier run computed it or the goal was    *)
(* never committed; the output may also be shared with a task.             *)
(***************************************************************************)
Succeed ==
  /\ \A t \in tasks : status[t] # "fresh"
  /\ Done(cohort)
  /\ \E kind \in (IF goal \in cohort THEN {"ok", "shared"} ELSE {"missing"}) :
       EndRun(kind, goal)
  /\ UNCHANGED status

\* The panic of a task that this run started is reported with its name.
Blame(t) ==
  /\ t \in cohort
  /\ status[t] = "failed"
  /\ EndRun("failed", t)
  /\ UNCHANGED status

\* So is a task that was refused, but nobody is told which one it was.
Complain ==
  /\ \E t \in cohort : status[t] = "refused"
  /\ \E t \in Task : EndRun("refused", t)
  /\ UNCHANGED status

\* The caller drops the run, and at most one of its tasks with it; the
\* verdict blames nobody.
Cancel ==
  /\ \E t \in Task : EndRun("cancelled", t)
  /\ \/ UNCHANGED status
     \/ \E t \in cohort : EndTask(t, "dropped")

\* A task panics inside the run.
Die(t) ==
  /\ phase = "running"
  /\ t \in cohort
  /\ EndTask(t, "failed")
  /\ phase' = "dead"
  /\ verdict' = [kind |-> "died", task |-> t]
  /\ UNCHANGED <<tasks, deps, cohort, goal>>

Next ==
  \/ \E t \in Task : AddTask(t) \/ BeginRun(t)
  \/ \E t, u \in Task : AddDependency(t, u)
  \/ \E t \in Task : Start(t) \/ Refuse(t) \/ Finish(t) \/ Fail(t)
  \/ Succeed
  \/ Complain
  \/ \E t \in Task : Blame(t) \/ Die(t)
  \/ Cancel

\* Every run ends.
RunsEnd == (phase = "running") ~> (phase # "running")

SafeSpec == Init /\ [][Next]_vars

Spec == SafeSpec /\ RunsEnd

=============================================================================
