----------------------------- MODULE GeneratedFlow -----------------------------
(***************************************************************************)
(* The code that the generator wrote, run: build_flow_by_path(entry) and   *)
(* run_flow_by_path(entry) look the entry up in their match arms and call  *)
(* a rendered function, whose statements are calls of the typed builder    *)
(* API.  The composition of FlowCodegen and FlowGraph.                     *)
(***************************************************************************)
EXTENDS FlowGraph, FlowCodegen

CONSTANTS
  Entries,               \* GENERATED_FLOW_PATHS and other strings
  normalize_for_concat   \* a path without the package's directory: a path
                         \* inside it and one outside may get one entry

ASSUME EntriesAssumption == normalize_for_concat \in [Paths -> Entries]

VARIABLES
  asked,   \* the entry asked for, <<>> before
  code,    \* the statements still to be run
  env,     \* the id in the OutputWrapper each variable holds
  made,    \* made[t + 1]: the node whose builder expression made task t
  sink_id  \* the id returned or passed to run(), <<>> before

flowVars == <<pc, graphVars, asked, code, env, made, sink_id>>

genVars == <<vars, flowVars>>

GenInit ==
  /\ Init
  /\ GraphInit
  /\ asked = <<>> /\ code = <<>> /\ env = <<>> /\ made = <<>> /\ sink_id = <<>>

Arms(entry) == {i \in DOMAIN paths : normalize_for_concat[paths[i]] = entry}

FirstArm(entry) == CHOOSE i \in Arms(entry) : \A j \in Arms(entry) : i <= j

(***************************************************************************)
(* rustc compiled the file, so it moves no variable twice.  An entry that  *)
(* no arm has gives None or an Err.                                        *)
(***************************************************************************)
CallByPath(f, entry) ==
  /\ step = "done"
  /\ GeneratedCodeCompiles
  /\ asked = <<>>
  /\ asked' = <<entry>>
  /\ code' = IF Arms(entry) = {} THEN <<>> ELSE rendered[f][FirstArm(entry)]
  /\ UNCHANGED <<vars, pc, graphVars, env, made, sink_id>>

\* A task with n inputs; one type, so that the compiler cannot tell them apart.
TaskOf(n) == [ins |-> [k \in 1 .. n |-> CHOOSE ty \in Types : TRUE],
              out |-> CHOOSE ty \in Types : TRUE, sync |-> TRUE]

BindTo(id) ==
  /\ env' = [v \in DOMAIN env \cup {Head(code).binds} |->
               IF v = Head(code).binds THEN id ELSE env[v]]
  /\ code' = Tail(code)

\* let x = flow.commit_source_task(..);
RunSource ==
  /\ Len(code) > 1
  /\ Head(code).moves = <<>>
  /\ commit_source_task(TaskOf(0))
  /\ made' = Append(made, Head(code).node)
  /\ BindTo(numTasks)
  /\ UNCHANGED <<vars, asked, sink_id>>

\* let x = flow.commit_task(..).with_dependencies((y, z));
RunCommit ==
  /\ Len(code) > 1
  /\ Head(code).moves # <<>>
  /\ commit_task(TaskOf(Len(Head(code).moves)))
  /\ made' = Append(made, Head(code).node)
  /\ UNCHANGED <<vars, asked, code, env, sink_id>>

RunDependencies ==
  /\ with_dependencies
  /\ builder'.todo = [k \in DOMAIN Head(code).moves |-> env[Head(code).moves[k]]]
  /\ UNCHANGED <<vars, asked, code, env, made, sink_id>>

RunRegister ==
  /\ WireOne
  /\ UNCHANGED <<vars, asked, code, env, made, sink_id>>

RunBind ==
  /\ WiringDone
  /\ BindTo(builder.id)
  /\ UNCHANGED <<vars, asked, made, sink_id>>

\* (flow, x.id.clone()), or flow.run(x).
RunTail ==
  /\ pc = "idle"
  /\ Len(code) = 1
  /\ sink_id' = <<env[Head(code).moves[1]]>>
  /\ code' = <<>>
  /\ UNCHANGED <<vars, pc, graphVars, asked, env, made>>

GenNext ==
  \/ Next /\ UNCHANGED flowVars
  \/ \E f \in Funcs, entry \in Entries : CallByPath(f, entry)
  \/ RunSource \/ RunCommit \/ RunDependencies \/ RunRegister \/ RunBind \/ RunTail

\* generate() is a single thread that nothing blocks.
GenSpec == GenInit /\ [][GenNext]_genVars /\ WF_genVars(Next /\ UNCHANGED flowVars)

-----------------------------------------------------------------------------
(***************************************************************************)
(* What a generated function builds is what the flow file says, for the    *)
(* first path of the index that has the entry asked for: one task for each *)
(* node and no other, each wired to the tasks of the outputs its node      *)
(* names, in that order, and the sink's task is the one to be run.         *)
(***************************************************************************)
BuildsTheFile ==
  sink_id # <<>> =>
    \E i \in Arms(asked[1]) :
      LET file == disk[paths[i]]
          NodeOf(t) == file[made[t + 1]]
      IN /\ \A j \in 1 .. i - 1 : j \notin Arms(asked[1])
         /\ made \in Bijection(1 .. numTasks, DOMAIN file)
         /\ \A t \in Committed :
              [k \in DOMAIN rev_edges[t] |-> NodeOf(rev_edges[t][k]).output]
                = NodeOf(t).dependencies
         /\ NodeOf(sink_id[1]).sink

=============================================================================
