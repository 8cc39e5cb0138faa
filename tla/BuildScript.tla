------------------------------ MODULE BuildScript ------------------------------
(***************************************************************************)
(* The build script that build_main! makes of a package's build.rs, run by *)
(* cargo while the user edits: run_with_default and run_with_env           *)
(* (taskflow-build/src/lib.rs) print what cargo has to watch and call      *)
(* generate(), one action here per file it reads or writes.                *)
(*                                                                         *)
(* Cargo is external: it runs the script again when the last run did not   *)
(* succeed, when a watched file was edited after that run began or is gone,*)
(* and when a watched variable has another value; then it compiles.        *)
(***************************************************************************)
EXTENDS Integers, Sequences, Functions

CONSTANTS
  IndexPaths,    \* where an index may be; configs/flows.toml is one of them
  FlowPaths,     \* where flow files may be
  Listings,      \* what an index file may list: sequences of flow paths
  Versions,      \* what is rendered from valid flow files: sequences
  DefaultIndex,  \* CARGO_MANIFEST_DIR/configs/flows.toml
  EnvKey,        \* the argument of run_with_env
  MaxEdits       \* bound: edits of files and of the environment

\* A file; `holds` is what an index lists, or what is rendered from a flow file.
Whole(content) == [kind |-> "whole", holds |-> content]
Missing == [kind |-> "missing", holds |-> <<>>]
Rejected == [kind |-> "rejected", holds |-> <<>>]  \* not TOML, or not a valid flow
Torn == [kind |-> "torn", holds |-> <<>>]          \* a write was interrupted

Indexes == {Whole(l) : l \in Listings}
Flows == {Whole(v) : v \in Versions}

WatchedKey == "TASKFLOW_FLOW_INDEX_PATH"
EnvKeys == {WatchedKey, EnvKey}

\* "unset" stands for a variable without a value; a file is an index or a
\* flow file, not both at once.
ASSUME PathsAssumption ==
  /\ DefaultIndex \in IndexPaths
  /\ "unset" \notin IndexPaths
  /\ IndexPaths \cap FlowPaths = {}
ASSUME ListingsAssumption == \A l \in Listings : l \in Seq(FlowPaths)
ASSUME EditsAssumption == MaxEdits \in Nat

VARIABLES
  main,      \* which of the two functions build.rs calls
  env,       \* the environment of cargo
  disk,      \* the files: indexes and flow files
  edits,     \* edits made so far
  calm,      \* no edit since the current or last `cargo build` began
  at,        \* where the script is, "rest": not running
  index,     \* its index_path
  listed,    \* index.flow_path.paths
  got,       \* the flow files rendered so far: path and version
  watch,     \* what the script's last run told cargo to watch
  out_file,  \* generated_typed_flows.rs
  fresh,     \* cargo holds the result of a run that succeeded
  since,     \* the files edited since the script was last started
  env_seen,  \* the value of WatchedKey at that time
  outcome,   \* how the last `cargo build` ended
  compiled   \* the out_file that the package was last compiled with

userVars == <<main, env, disk, edits, calm>>
scriptVars == <<at, index, listed, got, watch, out_file>>
cargoVars == <<fresh, since, env_seen, outcome, compiled>>
vars == <<userVars, scriptVars, cargoVars>>

Init ==
  /\ main \in {"run_with_default", "run_with_env"}
  /\ env \in [EnvKeys -> {"unset", DefaultIndex}]
  /\ disk \in {d \in [IndexPaths \cup FlowPaths -> Indexes \cup Flows] :
                 /\ \A i \in IndexPaths : d[i] \in Indexes
                 /\ \A f \in FlowPaths : d[f] \in Flows}
  /\ edits = 0 /\ calm = TRUE
  /\ at = "rest" /\ index = DefaultIndex /\ listed = <<>> /\ got = <<>>
  /\ watch = {} /\ out_file = Missing
  /\ fresh = FALSE /\ since = {} /\ env_seen = "unset" /\ outcome = "none"
  /\ compiled = Missing

-----------------------------------------------------------------------------
(***************************************************************************)
(* The user edits files at any time, also under the running script, and    *)
(* sets variables between two builds.                                      *)
(***************************************************************************)
Edit(path, content) ==
  /\ edits < MaxEdits
  /\ disk[path] # content
  /\ disk' = [disk EXCEPT ![path] = content]
  /\ edits' = edits + 1
  /\ calm' = FALSE
  /\ since' = since \cup {path}
  /\ UNCHANGED <<main, env, scriptVars, fresh, env_seen, outcome, compiled>>

SetEnv(key, value) ==
  /\ at = "rest"
  /\ edits < MaxEdits
  /\ env' = [env EXCEPT ![key] = value]
  /\ edits' = edits + 1
  /\ calm' = FALSE
  /\ UNCHANGED <<main, disk, scriptVars, cargoVars>>

(***************************************************************************)
(* `cargo build`.                                                          *)
(***************************************************************************)
Stale ==
  \/ ~fresh
  \/ env[WatchedKey] # env_seen
  \/ \E path \in watch : path \in since \/ disk[path] = Missing

CargoBuild ==
  /\ at = "rest"
  /\ calm' = TRUE
  /\ IF Stale
     THEN /\ at' = "main" /\ watch' = {}
          /\ fresh' = FALSE /\ since' = {} /\ env_seen' = env[WatchedKey]
          /\ outcome' = "none"
     ELSE /\ outcome' = "ok"
          /\ UNCHANGED <<at, watch, fresh, since, env_seen>>
  /\ UNCHANGED <<main, env, disk, edits, index, listed, got, out_file, compiled>>

\* The script dies, by a panic, by expect() or because it is killed.
Panic ==
  /\ at' = "rest"
  /\ outcome' = "failed"
  /\ UNCHANGED <<fresh, since, env_seen, compiled>>

\* The script ends well: cargo keeps what it printed, and compiles.
Exit ==
  /\ at = "exit"
  /\ at' = "rest"
  /\ fresh' = TRUE
  /\ outcome' = "ok"
  /\ compiled' = out_file
  /\ UNCHANGED <<userVars, index, listed, got, watch, out_file, since, env_seen>>

-----------------------------------------------------------------------------
(***************************************************************************)
(* generate() returned Err.                                                *)
(***************************************************************************)
\* Mutant: the Err is dropped.
GenerateFails_Silently == at' = "exit" /\ UNCHANGED cargoVars

GenerateFails == Panic

FindIndex ==
  /\ at = "main"
  /\ LET path == IF main = "run_with_default" THEN DefaultIndex ELSE env[EnvKey] IN
     IF path = "unset"
     THEN Panic /\ UNCHANGED <<index, watch>>
     ELSE /\ index' = path
          /\ watch' = {path}
          /\ at' = "index"
          /\ UNCHANGED cargoVars
  /\ got' = <<>>
  /\ UNCHANGED <<userVars, listed, out_file>>

ReadIndex ==
  /\ at = "index"
  /\ IF disk[index] \in {Missing, Rejected}
     THEN GenerateFails /\ UNCHANGED listed
     ELSE listed' = disk[index].holds /\ at' = "flows" /\ UNCHANGED cargoVars
  /\ UNCHANGED <<userVars, index, got, watch, out_file>>

\* Mutant: only the index is watched.
WatchFlow_Not(path) == UNCHANGED watch

\* Mutant: the path is printed as the index spells it, not resolved against
\* the index's directory.
WatchFlow_Unresolved(path) == watch' = watch \cup {"./flow"}

WatchFlow(path) == watch' = watch \cup {path}

ReadFlow ==
  /\ at = "flows"
  /\ Len(got) < Len(listed)
  /\ LET path == listed[Len(got) + 1] IN
     /\ WatchFlow(path)
     /\ IF disk[path] \in {Missing, Rejected}
        THEN GenerateFails /\ UNCHANGED got
        ELSE got' = Append(got, <<path, disk[path].holds>>) /\ UNCHANGED <<at, cargoVars>>
  /\ UNCHANGED <<userVars, index, listed, out_file>>

WriteFile ==
  /\ at = "flows"
  /\ Len(got) = Len(listed)
  /\ \/ out_file' = Whole(got) /\ at' = "exit" /\ UNCHANGED cargoVars
     \/ out_file' \in {out_file, Torn} /\ GenerateFails
  /\ UNCHANGED <<userVars, index, listed, got, watch>>

\* Ctrl-C; fs::write may have begun.
Kill ==
  /\ at # "rest"
  /\ Panic
  /\ out_file' \in {out_file} \cup IF at = "flows" /\ Len(got) = Len(listed)
                                   THEN {Torn} ELSE {}
  /\ UNCHANGED <<userVars, index, listed, got, watch>>

Next ==
  \/ \E path \in IndexPaths, l \in Indexes \cup {Missing, Rejected} : Edit(path, l)
  \/ \E path \in FlowPaths, v \in Flows \cup {Missing, Rejected} : Edit(path, v)
  \/ \E key \in EnvKeys, value \in IndexPaths \cup {"unset"} : SetEnv(key, value)
  \/ CargoBuild \/ FindIndex \/ ReadIndex \/ ReadFlow \/ WriteFile \/ Exit \/ Kill

Spec == Init /\ [][Next]_vars

-----------------------------------------------------------------------------
Rendered == Seq(FlowPaths \X Versions)

(***************************************************************************)
(* The types of the variables.                                             *)
(***************************************************************************)
BuildTypeOK ==
  /\ env \in [EnvKeys -> IndexPaths \cup {"unset"}]
  /\ edits \in 0 .. MaxEdits /\ calm \in BOOLEAN /\ fresh \in BOOLEAN
  /\ at \in {"rest", "main", "index", "flows", "exit"}
  /\ index \in IndexPaths
  /\ listed \in Listings \cup {<<>>}
  /\ got \in Rendered
  /\ watch \cup since \subseteq IndexPaths \cup FlowPaths
  /\ \A f \in {out_file, compiled} : f \in {Missing, Torn} \/ f.holds \in Rendered
  /\ env_seen \in IndexPaths \cup {"unset"}
  /\ outcome \in {"none", "ok", "failed"}

(***************************************************************************)
(* "Auto-run before compilation" (tf-examples/build.rs:3): a build that    *)
(* succeeded and during and after which nothing was edited has compiled    *)
(* what the index in force and the flow files it lists now hold.  Edits    *)
(* under the running script, failed and killed runs, files that come and   *)
(* go and a changed index path are all noticed by the next build.          *)
(***************************************************************************)
IndexInForce == IF main = "run_with_default" THEN DefaultIndex ELSE env[EnvKey]

UpToDate ==
  at = "rest" /\ outcome = "ok" /\ calm =>
    /\ IndexInForce \in IndexPaths
    /\ LET paths == disk[IndexInForce].holds IN
       compiled = Whole([i \in DOMAIN paths |-> <<paths[i], disk[paths[i]].holds>>])

(***************************************************************************)
(* A file that a failed or killed run left torn is never compiled, also    *)
(* not by a later build that finds nothing to do.                          *)
(***************************************************************************)
OnlyWholeFilesCompiled ==
  outcome = "ok" => compiled \notin {Missing, Torn} /\ out_file = compiled

=============================================================================
