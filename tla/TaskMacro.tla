------------------------------- MODULE TaskMacro -------------------------------
(***************************************************************************)
(* #[sync_task] and #[async_task] (taskflow-macros/src/lib.rs): from the   *)
(* signature of a user's inherent `run` to the trait impl that the task    *)
(* adapter calls.  A step is one pass of expand_task over the impl block,  *)
(* or one turn of parse_signature's loop.  The types of the parameters are *)
(* also seen by rustc, which checks the expansion.                         *)
(***************************************************************************)
EXTENDS Integers, Sequences, FiniteSets, Functions

CONSTANTS
  Idents,       \* the names of parameters
  ParamTypes,   \* what stands after the `&`: [segment, type]
  Impls         \* the impl blocks: sequences of functions

\* A parameter: its pattern is an identifier or something else; its type is
\* `&T`, `&mut T` or `T`.
Param == [simple : BOOLEAN, ident : Idents, mode : {"shared", "mut", "owned"},
          ty : ParamTypes]

Receivers == {"None", "Value", "Ref", "RefMut"}

Fn == [name : {"run", "new"}, async : BOOLEAN, receiver : Receivers,
       params : Seq(Param), returns : BOOLEAN]

\* In Rust the parameters of one function have distinct names.
ASSUME ImplsAssumption ==
  \A item \in Impls :
    /\ item \in Seq(Fn)
    /\ \A f \in DOMAIN item : \A i, j \in DOMAIN item[f].params :
         item[f].params[i].ident = item[f].params[j].ident => i = j

VARIABLES
  at,               \* where expand_task is; "expanded" and "failed" are ends
  input_impl,       \* the annotated impl block
  attr,             \* the attribute's arguments
  expect_async,     \* which of the two attributes it is
  run_fn,           \* the function called run
  typed_arg_index,  \* parameters looked at by parse_signature
  has_ctx,          \* the first of them is the context
  args              \* the parameters that are DAG inputs

vars == <<at, input_impl, attr, expect_async, run_fn, typed_arg_index, has_ctx, args>>

NoFn == [name |-> "new", async |-> FALSE, receiver |-> "None", params |-> <<>>,
         returns |-> FALSE]

Init ==
  /\ at = "attr"
  /\ input_impl \in Impls
  /\ attr \in {"empty", "path", "path twice", "unsupported", "not a path"}
  /\ expect_async \in BOOLEAN
  /\ run_fn = NoFn /\ typed_arg_index = 0 /\ has_ctx = FALSE /\ args = <<>>

-----------------------------------------------------------------------------
\* `path = ".."` may be repeated: the last one counts.
parse_root_path ==
  /\ at = "attr"
  /\ at' = IF attr \in {"empty", "path", "path twice"} THEN "find" ELSE "failed"
  /\ UNCHANGED <<input_impl, attr, expect_async, run_fn, typed_arg_index, has_ctx, args>>

Runs == {i \in DOMAIN input_impl : input_impl[i].name = "run"}

OnlyRun == Cardinality(Runs) = 1

\* find_run_fn, and the check of its asyncness.
find_run_fn ==
  /\ at = "find"
  /\ IF ~OnlyRun
     THEN at' = "failed" /\ UNCHANGED run_fn
     ELSE LET f == input_impl[CHOOSE i \in Runs : \A j \in Runs : i <= j] IN
          /\ run_fn' = f
          /\ at' = IF f.async = expect_async THEN "params" ELSE "failed"
  /\ UNCHANGED <<input_impl, attr, expect_async, typed_arg_index, has_ctx, args>>

Parameter == run_fn.params[typed_arg_index + 1]

is_flow_context_path(ty) == ty.segment = "FlowContext"

\* Mutant: the context may stand anywhere.
TakesContext_Anywhere(p) == p.mode = "shared" /\ is_flow_context_path(p.ty)

\* Mutant: `&mut FlowContext` is taken for the context too.
TakesContext_AnyMode(p) == typed_arg_index = 0 /\ is_flow_context_path(p.ty)

TakesContext(p) ==
  typed_arg_index = 0 /\ p.mode = "shared" /\ is_flow_context_path(p.ty)

parse_signature ==
  /\ at = "params"
  /\ typed_arg_index < Len(run_fn.params)
  /\ \/ /\ Parameter.simple /\ TakesContext(Parameter)
        /\ has_ctx' = TRUE
        /\ UNCHANGED <<at, args>>
     \/ /\ Parameter.simple /\ ~TakesContext(Parameter)
        /\ Parameter.mode = "shared"
        /\ args' = Append(args, Parameter)
        /\ UNCHANGED <<at, has_ctx>>
     \/ /\ ~Parameter.simple \/ Parameter.mode # "shared"
        /\ at' = "failed"
        /\ UNCHANGED <<has_ctx, args>>
  /\ typed_arg_index' = typed_arg_index + 1
  /\ UNCHANGED <<input_impl, attr, expect_async, run_fn>>

\* The return type must be explicit; then everything is put together.
build_task_impl ==
  /\ at = "params"
  /\ typed_arg_index = Len(run_fn.params)
  /\ at' = IF run_fn.returns THEN "expanded" ELSE "failed"
  /\ UNCHANGED <<input_impl, attr, expect_async, run_fn, typed_arg_index, has_ctx, args>>

Next == parse_root_path \/ find_run_fn \/ parse_signature \/ build_task_impl

Spec == Init /\ [][Next]_vars

-----------------------------------------------------------------------------
(***************************************************************************)
(* The expansion.  type Input is the tuple of the Arcs of `args`.          *)
(***************************************************************************)
Input == [k \in DOMAIN args |-> args[k].ty.type]

(***************************************************************************)
(* What the names of the generated run() stand for where it calls the      *)
(* user's: the parameters of the trait's method, then the bindings of      *)
(* `let (..) = input.0`, then `let mut __task = self`; the later shadows.  *)
(***************************************************************************)
Task == [what |-> "task", place |-> 0]
Context == [what |-> "context", place |-> 0]
Tuple == [what |-> "tuple", place |-> 0]
InputAt(k) == [what |-> "arc", place |-> k]

Parameters == [n \in {"__tf_ctx", "input"} |-> IF n = "input" THEN Tuple ELSE Context]

build_destructure ==
  [n \in {args[k].ident : k \in DOMAIN args} |->
     InputAt(CHOOSE k \in DOMAIN args : args[k].ident = n)]

ReceiverSetup == [n \in IF run_fn.receiver = "RefMut" THEN {"__task"} ELSE {} |-> Task]

Scope(n) ==
  CASE n \in DOMAIN ReceiverSetup -> ReceiverSetup[n]
    [] n \in DOMAIN build_destructure /\ n \notin DOMAIN ReceiverSetup
         -> build_destructure[n]
    [] OTHER -> Parameters[n]

\* Mutant: the context is passed last.
CallArgs_ContextLast ==
  [k \in DOMAIN args |-> [deref |-> TRUE, of |-> Scope(args[k].ident)]]
    \o IF has_ctx THEN <<[deref |-> FALSE, of |-> Scope("__tf_ctx")]>> ELSE <<>>

\* <Self>::run(self, __tf_ctx, &*a, &*b)
CallArgs ==
  (IF has_ctx THEN <<[deref |-> FALSE, of |-> Scope("__tf_ctx")]>> ELSE <<>>)
    \o [k \in DOMAIN args |-> [deref |-> TRUE, of |-> Scope(args[k].ident)]]

build_inherent_call ==
  [receiver |-> IF run_fn.receiver = "RefMut" THEN Scope("__task") ELSE Task,
   args |-> CallArgs]

(***************************************************************************)
(* External: rustc checks the call against the user's signature.  `x` is a *)
(* &FlowContext when it names the context, and `&*x` is a &T when x names  *)
(* an Arc<T>; nothing else fits a parameter.                               *)
(***************************************************************************)
Fits(arg, param) ==
  \/ ~arg.deref /\ arg.of = Context /\ param.ty.type = "FlowContext"
  \/ arg.deref /\ arg.of.what = "arc" /\ param.ty.type = Input[arg.of.place]

Compiles ==
  LET call == build_inherent_call IN
  /\ Len(call.args) = Len(run_fn.params)
  /\ \A i \in DOMAIN call.args : Fits(call.args[i], run_fn.params[i])
  /\ run_fn.receiver # "None" => call.receiver = Task

-----------------------------------------------------------------------------
(***************************************************************************)
(* The types of the variables.                                             *)
(***************************************************************************)
MacroTypeOK ==
  /\ at \in {"attr", "find", "params", "expanded", "failed"}
  /\ run_fn \in Fn
  /\ at \in {"params", "expanded"} => run_fn.name = "run"
  /\ typed_arg_index \in 0 .. Len(run_fn.params)
  /\ has_ctx \in BOOLEAN
  /\ args \in Seq(Param)
  /\ at \in {"params", "expanded"} =>
       Len(args) + (IF has_ctx THEN 1 ELSE 0) = typed_arg_index

(***************************************************************************)
(* The three forms of src/taskflow-macros/src/lib.rs:21-34: one `run` with *)
(* the receiver `self`, the attribute's asyncness and a return type, whose *)
(* parameters are all `name: &T`, a FlowContext only first.                *)
(***************************************************************************)
Documented ==
  /\ attr \in {"empty", "path"}
  /\ \E i \in Runs :
       LET f == input_impl[i] IN
       /\ Runs = {i}
       /\ f.async = expect_async
       /\ f.receiver = "Value"
       /\ f.returns
       /\ \A k \in DOMAIN f.params :
            /\ f.params[k].simple /\ f.params[k].mode = "shared"
            /\ k > 1 => f.params[k].ty.segment # "FlowContext"

(***************************************************************************)
(* What lib.rs:36-37 and 55-57 say is not a task: "Owned and `&mut`        *)
(* parameters are rejected", "the `run` method must be `async fn`".        *)
(***************************************************************************)
Excluded ==
  \A i \in Runs :
    \/ input_impl[i].async # expect_async
    \/ \E k \in DOMAIN input_impl[i].params : input_impl[i].params[k].mode # "shared"

(***************************************************************************)
(* Every documented signature is accepted, whatever its names and types,   *)
(* and nothing is that the documentation excludes.  Between the two lies   *)
(* what the code accepts without being asked to: the receivers `&self` and *)
(* `&mut self`, none, `path = ..` given twice, and, though the context     *)
(* "MUST be the first" parameter, a FlowContext that is not.               *)
(***************************************************************************)
KeepsTheDocumentation ==
  /\ at = "failed" => ~Documented
  /\ at = "expanded" => ~Excluded

(***************************************************************************)
(* An expansion that rustc accepts calls the user's run on the task, with  *)
(* the runtime's context where it asks for it first, and with each DAG     *)
(* input, in order, at its own parameter: no name that a user chooses gets *)
(* one value in the place of another.  And rustc accepts it unless a       *)
(* parameter has one of the expansion's own names (a context declared      *)
(* beside an input called __tf_ctx, `&mut self` beside one called __task)  *)
(* or the first one's type only looks like the context.                    *)
(***************************************************************************)
NameClash ==
  \E k \in DOMAIN args : \/ has_ctx /\ args[k].ident = "__tf_ctx"
                         \/ run_fn.receiver = "RefMut" /\ args[k].ident = "__task"

LooksLikeContext ==
  has_ctx /\ run_fn.params[1].ty.type # "FlowContext"

CallDelivers ==
  at = "expanded" =>
    /\ Compiles <=> ~NameClash /\ ~LooksLikeContext
    /\ Compiles =>
         LET ctx == IF has_ctx THEN 1 ELSE 0 IN
         /\ build_inherent_call.receiver = Task
         /\ has_ctx => build_inherent_call.args[1].of = Context
         /\ \A k \in DOMAIN Input :
              /\ build_inherent_call.args[ctx + k].of = InputAt(k)
              /\ run_fn.params[ctx + k].ty.type = Input[k]

=============================================================================
