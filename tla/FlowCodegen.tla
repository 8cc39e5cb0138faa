------------------------------ MODULE FlowCodegen ------------------------------
(***************************************************************************)
(* The build-time generator (taskflow-build/src/lib.rs): generate() reads  *)
(* an index of TOML flow files, renders a builder and a runner function    *)
(* for each, and writes one Rust file.  It is sequential; a step below is  *)
(* one pass over a loop of the code, and "failed" is an Err that           *)
(* run_with_default or run_with_env turns into the panic of the build      *)
(* script.                                                                 *)
(***************************************************************************)
EXTENDS Integers, Sequences, FiniteSets, Functions

CONSTANTS
  Outputs,    \* the output names written in flow files
  Vars,       \* the identifiers they are turned into
  Ident,      \* sanitize_ident: case folding and '_' make outputs collide
  Paths,      \* the paths that an index may list
  Indexes,    \* the index files: sequences of paths
  FlowFiles   \* FlowFiles[p]: what the file at p may hold, sequences of nodes

Node == [output : Outputs, dependencies : Seq(Outputs), source : BOOLEAN,
         sink : BOOLEAN, blank : BOOLEAN]

Funcs == {"builder", "runner"}

ASSUME IdentAssumption ==       \* a variable begins with "out_"
  Ident \in [Outputs -> Vars] /\ Vars \cap Funcs = {}
ASSUME IndexesAssumption == \A x \in Indexes : x \in Seq(Paths)
ASSUME FlowFilesAssumption ==   \* [flow.sink] is one table, and is read last
  /\ DOMAIN FlowFiles = Paths
  /\ \A p \in Paths : \A f \in FlowFiles[p] :
       /\ f \in Seq(Node) /\ f # <<>>
       /\ \A i \in DOMAIN f : /\ f[i].sink <=> i = Len(f)
                              /\ f[i].sink => ~f[i].source

VARIABLES
  step,      \* where generate() is
  error,     \* the Err returned, "none" before
  paths,     \* the flow paths the index lists
  disk,      \* what was found at each path read so far
  nodes,     \* the nodes of the flow being rendered
  func,      \* which of the two functions is being rendered
  indegree,  \* topo_sort's indegree,
  queue,     \* its queue
  order,     \* and its result so far
  body,      \* the let statements rendered so far for this function
  rendered,  \* rendered[f]: the finished bodies of each kind, in index order
  out_file   \* generated_typed_flows.rs as the compiler will find it

vars == <<step, error, paths, disk, nodes, func, indegree, queue, order, body,
          rendered, out_file>>

\* A set of node indices as a sequence, in the order of the file.
InFileOrder(S) ==
  CHOOSE s \in [1 .. Cardinality(S) -> S] : \A k, l \in DOMAIN s : k < l => s[k] < s[l]

Init ==
  /\ step = "index" /\ error = "none" /\ paths = <<>>
  /\ disk = <<>> /\ nodes = <<>> /\ func = "builder"
  /\ indegree = <<>> /\ queue = <<>> /\ order = <<>> /\ body = <<>>
  /\ rendered = [f \in Funcs |-> <<>>]
  /\ out_file = "old"

Fail(why) ==
  /\ step' = "failed"
  /\ error' = why

Goto(s) ==
  /\ step' = s
  /\ UNCHANGED error

\* The part of the state that only rendering touches.
renderVars == <<func, indegree, queue, order, body>>

-----------------------------------------------------------------------------

\* The index file is read and parsed.
ReadIndex ==
  /\ step = "index"
  /\ \/ Fail("io") /\ UNCHANGED paths
     \/ Goto("flow") /\ paths' \in Indexes
  /\ UNCHANGED <<disk, nodes, renderVars, rendered, out_file>>

\* The next path of the index is read and parsed; a path may be listed twice.
ReadFlow ==
  /\ step = "flow"
  /\ Len(rendered["runner"]) < Len(paths)
  /\ LET path == paths[Len(rendered["runner"]) + 1] IN
     \/ Fail("io") /\ UNCHANGED <<disk, nodes>>
     \/ /\ Goto("check")
        /\ nodes' \in IF path \in DOMAIN disk THEN {disk[path]} ELSE FlowFiles[path]
        /\ disk' = [q \in DOMAIN disk \cup {path} |-> IF q = path THEN nodes' ELSE disk[q]]
  /\ func' = "builder"
  /\ UNCHANGED <<paths, indegree, queue, order, body, rendered, out_file>>

Complaint(n) ==
  CASE n.blank -> "empty_builder"
    [] ~n.blank /\ n.source /\ n.dependencies # <<>> -> "source_with_dependencies"
    [] ~n.blank /\ ~n.source /\ n.dependencies = <<>> -> "missing_dependencies"
    [] OTHER -> "none"

\* render_flow_builder's first loop stops at the first node it rejects.
CheckNodes ==
  /\ step = "check"
  /\ LET bad == {i \in DOMAIN nodes : Complaint(nodes[i]) # "none"} IN
     IF bad = {} THEN Goto("name")
     ELSE Fail(Complaint(nodes[CHOOSE i \in bad : \A j \in bad : i <= j]))
  /\ UNCHANGED <<paths, disk, nodes, renderVars, rendered, out_file>>

\* Mutant: the raw outputs are compared, and a repeated one is let through.
VarsCollide_Raw ==
  \E i, j \in DOMAIN nodes : /\ nodes[i].output # nodes[j].output
                             /\ Ident[nodes[i].output] = Ident[nodes[j].output]

VarsCollide ==
  \E i, j \in DOMAIN nodes : /\ i # j
                             /\ Ident[nodes[i].output] = Ident[nodes[j].output]

\* render_flow_builder's second loop: one variable per output.
NameOutputs ==
  /\ step = "name"
  /\ IF VarsCollide THEN Fail("same_variable") ELSE Goto("connect")
  /\ UNCHANGED <<paths, disk, nodes, renderVars, rendered, out_file>>

DuplicateOutput ==
  \E i, j \in DOMAIN nodes : i # j /\ nodes[i].output = nodes[j].output

Produced == {nodes[i].output : i \in DOMAIN nodes}

UnknownDependency ==
  \E i \in DOMAIN nodes : \E k \in DOMAIN nodes[i].dependencies :
    nodes[i].dependencies[k] \notin Produced

\* Mutant: a dependency named twice is one edge of the graph.
Listed_Once(cur, i) ==
  IF nodes[cur].output \in Range(nodes[i].dependencies) THEN 1 ELSE 0

\* How often i is listed in graph[cur]: once for each mention.
Listed(cur, i) ==
  Cardinality({k \in DOMAIN nodes[i].dependencies :
                 nodes[i].dependencies[k] = nodes[cur].output})

(***************************************************************************)
(* topo_sort up to its loop.  Both renderers come here.                    *)
(***************************************************************************)
Connect ==
  /\ step = "connect"
  /\ IF DuplicateOutput THEN Fail("duplicate_output")
     ELSE IF UnknownDependency THEN Fail("unknown_dependency")
     ELSE Goto("sort")
  /\ indegree' = [i \in DOMAIN nodes |-> Len(nodes[i].dependencies)]
  /\ queue' = InFileOrder({i \in DOMAIN nodes : nodes[i].dependencies = <<>>})
  /\ order' = <<>>
  /\ body' = <<>>
  /\ UNCHANGED <<paths, disk, nodes, func, rendered, out_file>>

\* Mutant: a successor is pushed at its first edge.
Released_Early(cur) ==
  InFileOrder({i \in DOMAIN nodes : /\ Listed(cur, i) > 0
                                    /\ i \notin Range(order) \cup Range(queue)})

\* The successors whose count this node brings to zero.
Released(cur) ==
  InFileOrder({i \in DOMAIN nodes : Listed(cur, i) > 0 /\ indegree[i] = Listed(cur, i)})

\* Mutant: the front of the queue is looked at and left there.
PopFront_Peek == queue

PopFront == Tail(queue)

SortStep ==
  /\ step = "sort"
  /\ queue # <<>>
  /\ LET cur == Head(queue) IN
     /\ order' = Append(order, cur)
     /\ indegree' = [i \in DOMAIN indegree |-> indegree[i] - Listed(cur, i)]
     /\ queue' = PopFront \o Released(cur)
  /\ UNCHANGED <<step, error, paths, disk, nodes, func, body, rendered, out_file>>

\* Mutant: the loop runs until every node is in order.
SortDone_UntilAll ==
  /\ step = "sort"
  /\ queue = <<>>
  /\ Len(order) = Len(nodes)
  /\ Goto("emit")
  /\ UNCHANGED <<paths, disk, nodes, renderVars, rendered, out_file>>

SortDone ==
  /\ step = "sort"
  /\ queue = <<>>
  /\ IF Len(order) # Len(nodes) THEN Fail("cycle") ELSE Goto("emit")
  /\ UNCHANGED <<paths, disk, nodes, renderVars, rendered, out_file>>

\* Mutant: the dependencies are rendered from the last one.
Let_Reordered(i) ==
  LET n == nodes[i]
      deps == n.dependencies
  IN [binds |-> Ident[n.output], node |-> i,
      moves |-> [k \in DOMAIN deps |-> Ident[deps[Len(deps) + 1 - k]]]]

\* One `let` of the generated function: what it binds, whose builder expression
\* it commits and which variables it mentions.
Let(i) ==
  LET n == nodes[i] IN
  [binds |-> Ident[n.output],
   node |-> i,
   moves |-> IF n.source THEN <<>>
             ELSE [k \in DOMAIN n.dependencies |-> Ident[n.dependencies[k]]]]

EmitNode ==
  /\ step = "emit"
  /\ Len(body) < Len(order)
  /\ body' = Append(body, Let(order[Len(body) + 1]))
  /\ UNCHANGED <<step, error, paths, disk, nodes, func, indegree, queue, order,
                 rendered, out_file>>

\* sink_var_name is set where the sink's `let` was rendered.
SinkRendered == \E i \in Range(order) : nodes[i].sink /\ ~nodes[i].source

\* The tail of both renderers: the sink's id is read, or the sink is run.
Tail_(f) ==
  LET s == CHOOSE i \in DOMAIN nodes : nodes[i].sink IN
  [binds |-> f, node |-> s, moves |-> <<Ident[nodes[s].output]>>]

EmitEnd ==
  /\ step = "emit"
  /\ Len(body) = Len(order)
  /\ IF SinkRendered
     THEN /\ rendered' = [rendered EXCEPT ![func] = Append(@, Append(body, Tail_(func)))]
          /\ Goto(IF func = "builder" THEN "connect" ELSE "flow")
     ELSE /\ Fail("sink_not_found")
          /\ UNCHANGED rendered
  /\ func' = "runner"
  /\ UNCHANGED <<paths, disk, nodes, indegree, queue, order, body, out_file>>

\* Mutant: the file is written after each flow.
AllRendered_Any == TRUE

AllRendered == Len(rendered["runner"]) = Len(paths)

\* fs::write truncates the file before it fills it.
WriteFile ==
  /\ step = "flow"
  /\ AllRendered
  /\ \/ Goto("done") /\ out_file' = "new"
     \/ Fail("io") /\ out_file' \in {"old", "torn"}
  /\ UNCHANGED <<paths, disk, nodes, renderVars, rendered>>

Next ==
  \/ ReadIndex \/ ReadFlow \/ CheckNodes \/ NameOutputs \/ Connect
  \/ SortStep \/ SortDone \/ EmitNode \/ EmitEnd \/ WriteFile

Spec == Init /\ [][Next]_vars

-----------------------------------------------------------------------------
Statement == [binds : Vars \cup Funcs, node : Nat, moves : Seq(Vars)]

(***************************************************************************)
(* The types of the variables; an in-degree is a usize and never wraps.    *)
(***************************************************************************)
CodegenTypeOK ==
  /\ step \in {"index", "flow", "check", "name", "connect", "sort", "emit",
               "done", "failed"}
  /\ error = "none" <=> step # "failed"
  /\ paths \in Indexes \cup {<<>>}
  /\ DOMAIN disk \subseteq Range(paths)
  /\ nodes \in Seq(Node)
  /\ func \in Funcs
  /\ indegree \in Seq(Nat)
  /\ queue \in Seq(Nat) /\ order \in Seq(Nat)
  /\ body \in Seq(Statement)
  /\ rendered \in [Funcs -> Seq(Seq(Statement))]
  /\ out_file \in {"old", "new", "torn"}

(***************************************************************************)
(* A flow file one can generate from, without the algorithm: every node    *)
(* has a builder, exactly the sources have no dependencies, variables are  *)
(* distinct, dependencies are produced, and the nodes can be ranked.       *)
(***************************************************************************)
Feeds(i, j) == nodes[i].output \in Range(nodes[j].dependencies)

Valid ==
  /\ \A i \in DOMAIN nodes :
       /\ ~nodes[i].blank
       /\ nodes[i].source <=> nodes[i].dependencies = <<>>
       /\ Range(nodes[i].dependencies) \subseteq Produced
  /\ \A i, j \in DOMAIN nodes : Ident[nodes[i].output] = Ident[nodes[j].output] => i = j
  /\ \E rank \in [DOMAIN nodes -> DOMAIN nodes] :
       \A i, j \in DOMAIN nodes : Feeds(i, j) => rank[i] < rank[j]

(***************************************************************************)
(* A flow file is rejected only if something is wrong with it, and no      *)
(* function is finished for one that has something wrong.                  *)
(***************************************************************************)
RejectsExactlyTheInvalid ==
  /\ step = "failed" /\ error # "io" => ~Valid
  /\ step = "emit" => Valid

(***************************************************************************)
(* In every function rendered, a variable is bound once, and before any    *)
(* statement that mentions it: the generated code resolves.                *)
(***************************************************************************)
Bodies == {body} \cup UNION {Range(rendered[f]) : f \in Funcs}

DefinedBeforeUse ==
  \A b \in Bodies : \A j \in DOMAIN b :
    /\ \A v \in Range(b[j].moves) : \E i \in 1 .. j - 1 : b[i].binds = v
    /\ \A i \in 1 .. j - 1 : b[i].binds # b[j].binds

(***************************************************************************)
(* The second line of defence never speaks: topo_sort finds no duplicate   *)
(* output that render_flow_builder let through, and the sink is rendered.  *)
(* So the runner of a flow is rendered whenever its builder was.           *)
(***************************************************************************)
FirstChecksSuffice ==
  /\ error \notin {"duplicate_output", "sink_not_found"}
  /\ step = "failed" /\ error # "io" => func = "builder"

(***************************************************************************)
(* The file is all or nothing: a new one holds both functions of every     *)
(* path in the index, and a rejected flow leaves the old one in place.     *)
(***************************************************************************)
AllOrNothing ==
  /\ out_file = "new" => \A f \in Funcs : Len(rendered[f]) = Len(paths)
  /\ out_file = "torn" => error = "io"
  /\ step = "failed" /\ error # "io" => out_file = "old"

(***************************************************************************)
(* generate() returns, whatever the flow files hold.                       *)
(***************************************************************************)
GenerateReturns == <>(step \in {"done", "failed"})

(***************************************************************************)
(* README.md:19: flows in TOML "generate type-safe code at compile time".  *)
(* An OutputWrapper is neither Copy nor dup()ed by the generated code, so  *)
(* code that type-checks mentions each variable once.                      *)
(***************************************************************************)
GeneratedCodeCompiles ==
  step = "done" =>
    \A b \in Bodies : \A i, j \in DOMAIN b :
      \A k \in DOMAIN b[i].moves, l \in DOMAIN b[j].moves :
        b[i].moves[k] = b[j].moves[l] => <<i, k>> = <<j, l>>

=============================================================================
