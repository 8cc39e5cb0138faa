# rusty-taskflow in TLA+

A verification project for rusty-taskflow: a Rust library that runs a graph of
tasks layer by layer on tokio, the component registry it hands to the tasks,
the attribute macros that turn an inherent `run` into a task, and the build
script that turns TOML flow files into Rust. Paths below
and in the modules' comments are relative to the root of the repository.

Contents: [inventory](#inventory) · [modules](#modules) · [state and actions](#state-and-actions) ·
[runs and bounds](#runs-and-bounds) · [fairness](#fairness) · [proofs](#proofs) ·
[disagreements found](#disagreements-found) · [not modelled](#not-modelled) · [plan](#plan)

## Inventory

| component | state it keeps | operations | correct when |
|---|---|---|---|
| Flow builder (`src/tf/flow.rs`, `dependency.rs`, `traits.rs`) | the task vector with its slots, `edges`, `rev_edges`, the u8 `indegrees` | `commit_task`, `commit_source_task`, `with_dependencies`, `register`, `add_edges`, dropping a builder, calls through its public field `flow` | the three maps describe one multigraph; with the typed API a task has the inputs its type names, in order, and there is no cycle |
| Layering (`Flow::get_topological_layers`) | locals only: a copy of the counts, a queue, the layers | the loop of Kahn's algorithm | layers respect edges, cover every task once, are as early as possible; the cycle verdict is right; it cannot panic; it ends |
| Execution (`Flow::run`, `run_with_sink_id`, `execute`) | the slots of `tasks` across runs; per run the outputs and the JoinHandles | take, invoke, spawn, join, return, panic, be dropped | a task starts with exactly its inputs, at most once; runs do not mix; Ok means all done; an error has its cause in this run; a run ends |
| Task adapter (`src/tf/task.rs`) | a future per task, with the Arcs of its inputs | `invoke`, `from_any_iter` | a missing, superfluous or wrongly typed input is an error, not a panic |
| Component registry (`src/tf/component_registry.rs`) | a map from names to singletons and factories | `new`, `insert_*`, `init_components`, `get_singleton_component`, `create_component` | typed answers, one singleton per context, duplicates noticed |
| Flow code generator (`taskflow-build/src/lib.rs`) | per flow the nodes and the order; the output file | `generate`, the two renderers, `topo_sort` | rejects exactly the invalid files, defines before use, writes all or nothing, ends |
| Build script entry points (`run_with_default`, `run_with_env`, `build_main!`) | the output file; what cargo was told to watch | choose the index, print `rerun-if-*`, generate or die | a build that succeeds has compiled what the index and the flow files say; a torn file is never compiled |
| Task macros (`taskflow-macros/src/lib.rs`) | locals of `expand_task` | `#[sync_task]`, `#[async_task]` | accepts what is documented and refuses what is documented not to be accepted; the generated call gives every parameter its own input |
| Examples (`tf-examples`) | none | two sample flows | - |

**Interaction.** Cargo runs the build script, which runs the generator, which
emits code that calls the builder. The macros give every task an input tuple; `FromAnyIter` and `IntoDependencies` tie that
tuple to the wrappers given to `with_dependencies`. `execute` reads the graph
the builder left, calls the layering, hands each task an `Arc<FlowContext>`
and the outputs of its dependencies, and leaves empty slots behind. Spawned
tasks run on tokio's threads and share outputs with each other and with
`run`, which wants to be the sink's last owner.

**What is hard here.** Spawned tasks of a layer interleave; an error, a panic
or a dropped future leaves detached tasks that still run while the flow is used
again; a second run meets a half-consumed flow; the u8 counts can wrap; the
builder has public ways around its types; the first layer's order is random. Files
and variables change under the build script, which may die half way through its
output; rendered statements and expanded macros bind names that users chose.
`PROJECT.json` lists each hazard at its line with the properties that cover it.

## Modules

    FlowGraph  <--EXTENDS--  TopoLayers  <--EXTENDS--  FlowExec  --implements-->  DagPromise
        ^
        '--EXTENDS--  GeneratedFlow  --EXTENDS-->  FlowCodegen

    ComponentRegistry          BuildScript          TaskMacro

The theorems are in modules beside these; each extends the model it is about and
the proofs it rests on:

    FlowGraphProofs  <--  TopoLayersProofs  <--  FlowExecProofs  <--  FlowPromiseProofs
        ^
        '--  FlowCodegenProofs (FlowCodegen and GeneratedFlow)

    ComponentRegistryProofs    BuildScriptProofs    TaskMacroProofs

`MC_TopoLayers`, `MC_FlowExec`, `MC_ComponentRegistry`, `MC_FlowCodegen`,
`MC_BuildScript` and `MC_TaskMacro` hold the sets the configurations need.
`FlowGraph` is checked through the modules that extend it, whose behaviours
contain its own. There are two compositions: in `FlowExec` the users build, run,
extend and run again the same flow; in `GeneratedFlow` the code that the
generator wrote is the user of the builder.

| module | models |
|---|---|
| `FlowGraph` | building a flow; the constant `Misuses` switches on the ways around the typed API that compile: a generic `commit_source_task`, a dropped builder, a wrapper of another flow, a bare `register()`, calls through the field `flow` of a living builder |
| `TopoLayers` | `get_topological_layers`, one action per step of its loops, on whatever graph there is |
| `FlowExec` | `run`, `run_with_sink_id`, `execute`, `invoke`, `from_any_iter`, the futures of the tasks; `Faults` switches on panics, cancellation and tasks that keep an input's Arc |
| `DagPromise` | abstract: what a user may rely on, with neither layers nor handles nor counts |
| `ComponentRegistry` | contexts filled by hand or from the inventory and looked up by threads; the panic of a duplicate insertion is survived or not |
| `FlowCodegen` | `generate()` over an index of flow files, with I/O errors |
| `GeneratedFlow` | `build_flow_by_path` and `run_flow_by_path` of the generated file, executed statement by statement on the builder |
| `BuildScript` | `run_with_default` and `run_with_env` as cargo runs them, under edits of files and variables, failures and kills |
| `TaskMacro` | `expand_task`: which impl blocks are accepted, and what the names in the generated `run` stand for |
| `FlowGraphProofs` | theorems about building, and the lemmas about numbers and sequences that other proofs use |
| `TopoLayersProofs` | theorems about the layering of any graph |
| `FlowExecProofs` | theorems about running any flow |
| `FlowPromiseProofs` | theorems about typed flows: the first run, and the refinement of `DagPromise` |
| `ComponentRegistryProofs` | theorems about the registry |
| `FlowCodegenProofs` | theorems about the generator, and about running what it generated |
| `BuildScriptProofs` | theorems about builds |
| `TaskMacroProofs` | theorems about the macros |

## State and actions

Variables have the names of the fields and locals they stand for; the
operators have the names of the functions. What is different:

- `FlowGraph`: ids are `0 .. MaxTasks - 1` as in `TaskId(tasks.len())`. `tasks`
  is `numTasks`, `sig` (the signature the task was compiled with) and `loaded`
  (the slots that hold `Some`). A missing key of `edges` or `rev_edges` is the
  empty sequence, as the code treats it; `indegrees` keeps its domain because
  `get_mut(..).unwrap()` depends on it. `DegMod` stands for 2^8 and
  `OverflowChecks` for the profile: in dev the addition panics, after both
  lists were extended, in release it wraps. `wrapped` says of which tasks a
  wrapper exists; `dup()` makes them reusable. `pc` is the thread that owns the
  flow: `&mut self` lets one call at a time use it. A `DependencyBuilder` borrows
  the flow, but its field `flow` is public (`dependency.rs:49`): `LendFlow` begins
  calls through it, which may be any, a commit or a run among them, and
  `TakeFlowBack` returns to the builder. `lent` holds the builders that wait
  meanwhile; they nest, so the youngest is the next to be used.
- `TopoLayers`: `cursor` and `next` are the positions of the two `for` loops.
  The first queue is any permutation of the sources (the iteration order of a
  `HashMap`).
- `FlowExec`: `fut[t]` is the future of a task, `inputs[t]` whose Arcs it holds.
  `bornIn`, `runs`, `result` and `kept` are history the code does not keep. A
  layer of one is polled in `run` (`CompleteInline`, `PanicInline`,
  `FailInline`); a larger one is spawned whole, then joined in order. `Leave`
  drops the locals of `execute`: detached tasks stay in `fut`. `result.tid` is the id that an
  error carries: `TaskExecutionError` of a spawned panic has the task's, the input
  errors of `invoke` have none (`errors.rs:8-15`, `NoTask`). `Outcome` is what
  `run` does with the map that `execute` returned.
- `ComponentRegistry`: instances are numbered as they are built; `made` records
  what each is and who built it. That a product of a factory is new is Rust's
  doing (it is returned by value), and no property. `got`, `created` and `survived` (duplicate insertions whose panic
  was caught) are history. `inventory` is what was linked in. `InitEntry` is one turn of
  the loop of `init_components`, in any order (the inventory's is the linker's).
- `DagPromise`: `phase`, the committed `tasks` and their `deps`, a `status` per
  task, the `cohort` the current run started, its `goal` and `verdict`. `FlowExec`
  implements it under the mapping `Promise`: `status` is the state of the task's
  future (`StatusOf`), `"fresh"` when it has none; `cohort` is the tasks born in
  this run; `deps` forgets the order of `rev_edges`. A task that gets the wrong
  inputs is `"refused"`, and `Complain` ends a run with such an error, which says of no task;
  a panic ends it with `Blame`, which does. The layering, the queue, the joins and
  `Leave` are stutters.
  `RunsEnd`, its liveness, is a leads-to on `phase`, so the mapping carries it.
- `FlowCodegen`: a TOML file is a sequence of nodes, sink last; a rendered
  function is a sequence of statements, each with the variable it binds and the
  variables it moves. `Ident` is `sanitize_ident` as any function from outputs to
  variables, so that collisions can be switched on. `FlowFiles[p]` is what path
  `p` may hold; a path may be listed more than once.
- `GeneratedFlow`: `code` is what is left of the function that the first matching
  arm calls. A statement is a source's `commit_source_task`, or `commit_task` and
  then `with_dependencies`, whose `register` calls are the steps of `FlowGraph`.
  All tasks have the same type, so nothing but the statements' order and
  names can wire them rightly. It runs only when rustc has accepted the file.
- `BuildScript`: one action per file the script reads or writes, so that an edit
  can fall between any two. Versions of a file stand for its contents; what
  `FlowCodegen` says of generation is one value per version here. Cargo is
  external and modelled by its rule: run the script when the last run failed, when a
  watched file was edited since the script started or is missing, or when a
  watched variable differs from what it was then.
- `TaskMacro`: one step per pass over the impl block and per parameter. The expansion
  is a scope (`Scope`: the trait's parameters, then the destructured inputs, then
  `__task`, the later shadows) and a call (`CallArgs`). rustc is external: it
  accepts the call when each argument has the type of its parameter. A type is
  its last path segment, which the macro sees, and what it resolves to.

## Runs and bounds

All runs use two workers and end within the five minutes allowed; sizes are
distinct states.

| run | shows | bounds | size |
|---|---|---|---|
| `topo_raw` | on every multigraph a misuse can build: the maps agree and have their entries, layers are disjoint, sound and earliest, the verdict is exact, nothing panics but an overflow in `add_edges`, the layering returns | 3 tasks, 2 bare registers, overflow at 3 | 289 thousand |
| `exec_api` | the typed API, calls through living builders included, with panics and cancellation: tasks wired and run in any order of their ids have their inputs, no cycle is built or reported, runs do not mix | 3 tasks, 2 types, tuples of two equal and of two different types, 2 runs | 989 thousand |
| `exec_raw` | the same under every misuse and fault, with counts that wrap at 2 and tasks that keep Arcs | 2 tasks, 2 types, 1 bare register, 2 runs | 420 thousand |
| `exec_live` | the first run succeeds; `FlowExec` implements `DagPromise`, its liveness included | 3 tasks, 2 types, arity 2, 2 runs, all faults | 70 thousand |
| `registry_lookups` | lookups in two contexts; an inventory with and one without a duplicate | 2 names, 2 types, 2 instances | 2.0 million |
| `codegen_flows` | flow files and indexes: what is accepted, rendered and written, and what the rendered code builds when it is run; termination | all files of 1-2 nodes; source + any node + sink; 4 outputs, 2 of which collide; 2 dependencies each; the two shapes of `tf-examples/configs/flows`; indexes of up to 3 paths, with repetitions and with two paths of one entry | 663 thousand |
| `build_edits` | a successful build is up to date and never compiles a torn file | 2 indexes, 2 flow files, 2 versions, 3 edits | 3.5 million |
| `macro_impls` | the macros accept all that is documented and nothing that is excluded; the expanded call delivers | up to 3 parameters, 4 names of which 3 are the expansion's own, 4 types | 245 thousand |

The other four runs are the [disagreements](#disagreements-found).
`topo_raw` runs the dev profile (`OverflowChecks`), `exec_raw` the release profile.

Why these are enough: three tasks give chains, fan-out, two producers in one layer
with a common consumer, parallel edges and cycles of two with a task outside. A flow that is
extended between two runs has a task of the first run, detached by an error, still going
while one of the second runs, which is what isolation is about. Two runs give the
retry; a third would start from a flow of the same kind as the second. `DegMod`
is as small as it can be for the arity, so that wrapping happens where 256 edges
would be needed. Two contexts tell "per process" from "per context", and every
property of the registry is about two instances at a time. Three nodes and four
outputs give unknown, repeated, mutual and shared dependencies. Three edits are
enough to break a file, mend it and change another, each at any step of the
script; a fourth only repeats one of these. Three parameters are enough for a
context, an input that takes a reserved name and one it could be confused with.

Bounds: `MaxTasks`, `MaxEdges` (bare `register` calls), `MaxVisits` (the counter
`visited` after a count has wrapped), `MaxRuns`, `MaxInstances`, `MaxDeps`
(dependencies of a node), `MaxEdits`; `Indexes`, `FlowFiles`, `Listings` and `Impls`
are finite sets given by the MC modules. Runs set `CHECK_DEADLOCK FALSE` because
the systems stop: a program may do nothing more with a flow, a panic ends its
thread, `generate` and `expand_task` return, the user stops editing.
`SYMMETRY Alike` is used for the contexts of the registry, in safety runs only.

## Fairness

- `FairTopoSpec`: weak fairness of the layering's steps: it is a synchronous
  function, the thread that called it runs it on.
- `FairExecSpec`: weak fairness of `RunStep` (the caller polls `run`'s future until
  it is ready; a caller that drops it takes `CancelJoin` or `CancelInline`, which
  are not fair) and of the end of every task (tokio polls what is spawned, and
  the user's tasks end). No fairness for building or for starting a run.
- `GenSpec`: weak fairness of the generator, a single thread that nothing blocks;
  none of the program that later runs the generated code.
- `BuildScript` and `TaskMacro` state no liveness: nothing makes a user build
  again, and the macro's loop is over a finite list.

## Proofs

Every safety property that a passing run checks is also a theorem, checked by
TLAPS for every value of the constants: any number of tasks, edges, runs,
contexts, nodes, files and edits, any counter width and arity, any set of types,
names, signatures, misuses and faults that the assumptions allow. A theorem of a
model is proved in the module named after it, which extends the model.

| module | theorem | property it states |
|---|---|---|
| `FlowGraphProofs` | `GraphTypeCorrect` | `GraphTypeOK`, a conjunct of `TopoTypeOK` and `ExecTypeOK` |
| | `EntriesAlwaysPresent`, `DegreesAlwaysExact`, `AlwaysTransposed` | `EntriesPresent`, `DegreesExact`, `Transposed` |
| | `TypedApiWiresWell` | `WellWired` (typed API), while the flow is only built |
| `TopoLayersProofs` | `TopoTypes` | `TopoTypeOK` |
| | `LayersAlwaysDisjoint`, `LayersAlwaysRespectEdges`, `LayersAlwaysEarliest` | `LayersDisjoint`, `LayersRespectEdges`, `LayersEarliest` |
| | `VerdictAlwaysExact`, `CountdownAlwaysSafe` | `VerdictExact`, `CountdownSafe` |
| | `BoundNeverBites` | where no count has wrapped, the bound `MaxVisits` cuts no behaviour off |
| `FlowExecProofs` | `ExecTypes` | `ExecTypeOK` |
| | `RunsAlwaysIsolated`, `LayersAreBarriers`, `SoleOwnerAlways`, `BlameAlwaysRight` | `RunsAreIsolated`, `LayerBarrier`, `SoleOwner`, `BlameIsRight` |
| | `AlwaysStartsWithItsInputs` | `StartsWithItsInputs` (typed API) |
| `FlowPromiseProofs` | `FirstRunAlwaysSucceeds` | `FirstRunSucceeds` (typed API) |
| | `TypedRunsWellWired` | `WellWired` (typed API), while the flow is built, run, extended and run again |
| | `NeverReportsACycle` | `NoCycleReported` (typed API) |
| | `ImplementsPromise` | `FlowExec` refines the safety of `DagPromise` (typed API) |
| | `KeepsPromiseIfRunsEnd` | the whole of `KeepsPromise`, given that runs end |
| `ComponentRegistryProofs` | `RegistryTypes`, `AnswersAlwaysTyped`, `SingletonsAreSingle`, `InitAlwaysComplete` | `RegistryTypeOK`, `AnswersTyped`, `SameInstance`, `InitIsComplete` |
| | `CreatedStaysAlone` | the registry keeps no hold of what a factory made: no entry is it, no later answer returns it |
| `FlowCodegenProofs` | `CodegenTypes`, `RejectsOnlyTheInvalid`, `FirstChecksAlwaysSuffice`, `AlwaysDefinedBeforeUse`, `AlwaysAllOrNothing` | `CodegenTypeOK`, `RejectsExactlyTheInvalid`, `FirstChecksSuffice`, `DefinedBeforeUse`, `AllOrNothing` |
| | `AlwaysBuildsTheFile` | `BuildsTheFile`, of the generator and the generated code together |
| `BuildScriptProofs` | `BuildTypes`, `WholeFilesAlways`, `BuildsAreUpToDate` | `BuildTypeOK`, `OnlyWholeFilesCompiled`, `UpToDate` |
| `TaskMacroProofs` | `MacroTypes`, `AlwaysKeepsTheDocumentation`, `CallsAlwaysDeliver` | `MacroTypeOK`, `KeepsTheDocumentation`, `CallDelivers` |

### What they assume

The named assumptions of the models, which TLC evaluates in every run:
bounds are naturals and arity is below the counter's modulus (`FlowGraph`);
a flow file ends with its one sink, because `[flow.sink]` is one table that is
read last, and no variable is called like a function, because a variable begins with `out_`
(`FlowCodegen`); a path is not an index and a flow file at once (`BuildScript`).
Three kinds of theorem have a hypothesis beyond these:

- "Typed API" is the hypothesis `TypedApi` of `WellWired`, `NoCycleReported` and
  `StartsWithItsInputs`: no misuse but calls through living builders. It is
  `Misuses = {}` for `FirstRunSucceeds` (a run made through a living builder finds that
  builder's task without inputs) and for `ImplementsPromise`, where it is an `ASSUME`: `DagPromise`
  knows no task that is committed but not yet wired when a run starts.
- What is said of the layers holds where no count has wrapped (`NoWrap`), and `VerdictExact` also
  needs edges to join committed tasks; both are in the definitions. Typed flows satisfy both
  (`TypedGraph`, a lemma of `FlowPromiseProofs`).
- `BuildsAreUpToDate` is about builds in which the variable that is read is the one that
  is watched, or none is read. `build_env` shows what happens otherwise.

### The arguments

**Graph.** `TypeInv` strengthens `GraphTypeOK` with what `pc` says of the builder.
`CountInv` adds that a count is the number of places in `edges` that name the
task, up to the modulus: `add_edges` adds one place (`NewPlace`, `CountEdge`),
and `EnterDegree` does not touch an existing entry. `WellWired` is not inductive: while a
builder is wiring, its task has only a prefix of its dependencies, so `WireInv` says
that the dependencies registered so far followed by `builder.todo` are the wrappers that
were chosen, of the right types. Ids need not ascend: a builder may live while later tasks are
committed and wired, and depend on them. What excludes cycles is that a wrapper exists only
when its task is wired: nobody can name a task that is not (`Unnamed`), so it has no
out-edge (`SourcesWrapped`), and an edge into a task without out-edges closes no cycle (`StaysAcyclic`).

**Layering.** `TopoInv` is `GraphInv` with `EarliestInv` and, where no count has
wrapped, `KahnInv`: a count is the number of edges still to come (`CountsPending`), the tasks
with none are those in the layers or on their way there (`ZeroScheduled`), and no task is in two
places (`ScheduledOnce`). It has to hold in the middle of the inner loop too, so an edge has come
as soon as the loop has passed it (`Relaxed`). `VerdictExact` needs both directions:
tasks that were never layered hold each other back, which is a cycle (`CyclicRight`);
and no layer can be the earliest that holds a task of a cycle (`LayeredRight`).
`CountdownSafe` has no hypothesis: in the dev profile a count that would wrap has
panicked before (`CheckedNoWrap`), and in release subtraction wraps in silence.

**Execution.** `ExecInv` says where the locals of `execute` have which shape, that a slot
is empty exactly if its task was invoked, and that a task of this run has
delivered its output or is waited for (`CohortInv`). That is what makes the barrier: a
layer is left only when nobody is waited for. Runs are kept apart by `InputsInv`: the outputs that a future
holds are of the run it was born in, whoever detached it. `SoleOwner` follows:
when `run` unwraps the sink's Arc, no future born in this run is still alive.

**Promise.** With the typed API the graph has no cycle, and a task has no more dependencies
than the arity allows, hence no count wraps (`TypedGraph`); so the verdict, which is exact, is never a
cycle (`CycleStep`). With every builder used before the next call, `PromiseInv` adds that a layer yet
to be taken depends on none after it (`WalkInv`). Then `invoke` finds all the inputs, and the first run
ends in Ok unless a task panicked, an Arc was kept or the caller dropped it.
`ImplementsPromise` has one lemma per group of actions, each ending in an action
of `DagPromise` or a stutter (`RefineBuild`, ...).

**Registry.** Before a context is shared, its map holds what was visited of the inventory
(`FillInv`); afterwards the entry that answered a lookup stays (`LookupInv`), unless a duplicate
insertion was survived; an instance made by a factory is in no map (`OwnedAlone`).

**Generator.** `CodegenInv` follows `generate()` stage by stage: what each check has
established of the file, how many functions are finished, `topo_sort`'s counts
(`SortInv`) and that each rendered body resolves so far (`BodyInv`). The verdict on cycles
is exact by counting: as many nodes in order as there are means all of
them (`AllInOrder`), so the order ranks them (`SortedIsValid`), and a rank refutes a stuck
queue at its lowest node (`StuckIsInvalid`). `BuildsTheFile` relates three programs. `FilesInv`: a
finished function spells out the file that was read for it (`Renders`).
`Running(b)`: of the function `b` that was called, the statements run so far have made the tasks
with the ids 0, 1, ..., the variables they bind hold these ids, each is wired to the tasks
of the variables it moves, and the builder has the rest of the current
statement's to do. That variables are distinct (`VarsCollide` was refused) and bound before use turns
wiring by variables into wiring by outputs. `GeneratorUndisturbed` carries what is proved of
`Spec` over to `GenSpec`.

**Build script.** What the script knows of a file is true unless the file was edited
since it began (`IndexRead`, `FlowsRead`), it watches all it has read (`Watched`), and cargo runs it again if a
watched file is among those edited since. A calm build that is fresh therefore has what is on disk.

**Macros.** What each pass has let through is nothing the documentation excludes (`FoundInv`, `SeenInv`),
and a failure means that something is not as it lists (`EndInv`). Delivery is a statement about scopes:
the last binding of a name is the parameter's own, unless the name is reserved.

### What stays with TLC

Liveness is outside the prover's reach, as is ENABLED: `LayeringReturns`, `GenerateReturns`, and
`RunsEnd`, the liveness part of `KeepsPromise`. `KeepsPromiseIfRunsEnd` proves that nothing else
of `KeepsPromise` is left to TLC. No recursive operator is used. The properties of the four runs
that find a violation are false, so there is nothing to prove.

## Disagreements found

Each is a run that TLC must find violated.

| run | what the documentation says | what the code does |
|---|---|---|
| `exec_panic` | `src/tf/flow.rs:208-210`: TaskExecutionError if any task panicked | in a layer of one task the panic unwinds out of `run` |
| `registry_process` | `src/tf/component_registry.rs:13-14`: one instance per process | one per `init_components()`, hence per `Flow::new()` |
| `codegen_fanout` | `README.md:19`: TOML generates type-safe code | an output with two consumers is moved twice: rustc rejects the generated code |
| `build_env` | `tf-examples/build.rs:3-4`: the code is generated from the config files before compilation; line 9 suggests `env = "TASKFLOW_FLOWS_INDEX_PATH"` | `taskflow-build/src/lib.rs:401` has cargo watch `TASKFLOW_FLOW_INDEX_PATH` whatever the argument: a new index path leaves the old code compiled |

`KeepsTheDocumentation` leaves a gap between what `taskflow-macros/src/lib.rs:21-37` lists and what it
excludes. The code accepts what falls into it: the receivers `&self` and `&mut self`, no receiver, and `path`
given twice. It also accepts a FlowContext that is not the first parameter, although lines 30-31 say it "MUST be", and
a leading one imported under another name, which lines 268-270 leave the user free to do; both become DAG inputs
of type FlowContext without an error.

The properties above also state, in their hypotheses, where the code stops being
right. `VerdictExact` assumes that edges join committed tasks: a wrapper of
another flow can name a task that is never committed, and then an acyclic flow
is reported as cyclic, or, with bare `register` calls, a phantom target makes up in
`visited` for a task on a cycle. `NoWrap` assumes that no count has wrapped.
`StartsWithItsInputs` speaks of tasks that start: after a failed run, a retry
invokes what is left with fewer inputs and returns `TaskInputsNumError` as it is.
In `DagPromise` that is `Refuse`, and a run that finds its goal consumed by an earlier
one ends `"missing"`: the `TaskNotFound` that `src/tf/flow.rs:206-207` calls
impossible for a correctly wired graph. `CallDelivers` names the two ways in which
an accepted `run` does not compile: a parameter called `__tf_ctx` or `__task`, and a
type that only looks like the context. `BuildsTheFile`
is about the first path of an entry: two paths may be normalized to one,
and then the flow of the second cannot be reached.

`LayeringReturns` holds in the dev profile. In release 256 edges from a task to itself
wrap its count to 0, and each visit of the task counts it round to 0 again, so the
loop at `src/tf/flow.rs:263` never ends. Nothing in the repository speaks of
that case, and the run's counter `visited` would not be finite; the hazard is
listed without a property.

## Not modelled

- In the generator, the text of the rendered code (layout, builder expressions,
  doc comments).
- In the macros, the items that are not impl blocks (refused by the parser),
  generics, which are copied, and the spelling of the crate's root path.
- Cargo compares modification times; edits that fall into one tick of the file
  system's clock are left out.
- A task with more than seven inputs: `FromAnyIter` and `IntoDependencies` stop
  there, so it does not compile. `MaxArity` stands for the limit.
- A component whose constructor or creator panics: it is user code.
- `task_metas`: written and never read. `Flow::ctx()` and the `Arc<FlowContext>`
  given to `invoke`: immutable once shared, which `ComponentRegistry` shows.
- tokio itself: spawned tasks run at any time, a panic is caught, a dropped
  JoinHandle detaches. The shutdown of the runtime is left out.
- A caller that catches the panic of `run` or `add_edges` and goes on using the flow, and one
  that swaps two flows (`mem::swap`) under a living builder.
- Examples and benchmarks: sample tasks and a `main`, without logic of their own.
  The shapes of their two flow files are among the files of `codegen_flows`.

## Plan

Every component but the examples is modelled, and every safety property that a passing run
checks is proved. What is left:

1. What stays with TLC: the liveness properties, on larger instances where TLC can afford them.
2. `GenSpec` as an instance of the typed API: each statement of the generated code is a
   `BuildNext` of `FlowGraph` where its signature is one of `Signatures`, so that the theorems
   of `FlowGraphProofs` hold of the flow it builds, and then a run of that flow.
3. In `FlowExec`, for raw flows: which part of `DagPromise` survives each misuse taken by itself.
