--------------------------- MODULE TaskMacroProofs ---------------------------
(***************************************************************************)
(* What holds of #[sync_task] and #[async_task] for every impl block: any  *)
(* number of functions and of parameters, whatever their names and types.  *)
(***************************************************************************)
EXTENDS TaskMacro, FiniteSetTheorems, SequenceTheorems, TLAPS

-----------------------------------------------------------------------------
(***************************************************************************)
(* The invariant.                                                          *)
(***************************************************************************)
GoodAttr == {"empty", "path", "path twice"}

\* Nothing was looked at before the loop over the parameters.
StartInv ==
  at \in {"attr", "find"} => typed_arg_index = 0 /\ has_ctx = FALSE /\ args = <<>>

\* What was checked before the loop was found to be as documented.
FoundInv ==
  /\ at \in {"find", "params", "expanded"} => attr \in GoodAttr
  /\ at \in {"params", "expanded"} =>
       \E i \in Runs : /\ Runs = {i} /\ run_fn = input_impl[i]
                       /\ run_fn.async = expect_async

Plainly(p) == p.simple /\ p.mode = "shared"

Offset == IF has_ctx THEN 1 ELSE 0

\* The parameters seen so far are the context, if it comes first, and the
\* inputs, in order.
SeenInv ==
  at \in {"params", "expanded"} =>
    /\ \A k \in 1 .. typed_arg_index : Plainly(run_fn.params[k])
    /\ has_ctx <=> typed_arg_index # 0 /\ is_flow_context_path(run_fn.params[1].ty)
    /\ \A k \in DOMAIN args : args[k] = run_fn.params[Offset + k]

EndInv ==
  /\ at = "expanded" => typed_arg_index = Len(run_fn.params) /\ run_fn.returns
  /\ at = "failed" => ~Documented

MacroInv ==
  /\ MacroTypeOK
  /\ input_impl \in Impls
  /\ StartInv
  /\ FoundInv
  /\ SeenInv
  /\ EndInv

-----------------------------------------------------------------------------
(***************************************************************************)
(* The impl block.                                                         *)
(***************************************************************************)
LEMMA FnFields ==
  ASSUME NEW f \in Fn
  PROVE  /\ f.params \in Seq(Param) /\ f.async \in BOOLEAN /\ f.returns \in BOOLEAN
         /\ f.receiver \in Receivers
         /\ Len(f.params) \in Nat /\ DOMAIN f.params = 1 .. Len(f.params)
         /\ \A k \in 1 .. Len(f.params) : f.params[k] \in Param
  <1>1. /\ f.params \in Seq(Param) /\ f.async \in BOOLEAN /\ f.returns \in BOOLEAN
        /\ f.receiver \in Receivers
    BY DEF Fn
  <1>2. Len(f.params) \in Nat /\ DOMAIN f.params = 1 .. Len(f.params)
    BY <1>1
  <1>3. \A k \in 1 .. Len(f.params) : f.params[k] \in Param
    BY <1>1, ElementOfSeq
  <1> QED
    BY <1>1, <1>2, <1>3

LEMMA ImplFns ==
  ASSUME input_impl \in Impls
  PROVE  /\ \A i \in DOMAIN input_impl : input_impl[i] \in Fn
         /\ \A f \in DOMAIN input_impl : \A i, j \in DOMAIN input_impl[f].params :
              input_impl[f].params[i].ident = input_impl[f].params[j].ident => i = j
         /\ OnlyRun <=> \E i \in Runs : Runs = {i}
  <1>1. input_impl \in Seq(Fn)
    BY ImplsAssumption
  <1>2. Len(input_impl) \in Nat /\ DOMAIN input_impl = 1 .. Len(input_impl)
    BY <1>1
  <1>3. \A i \in DOMAIN input_impl : input_impl[i] \in Fn
    BY <1>1, <1>2, ElementOfSeq
  <1>4. IsFiniteSet(Runs)
    <2>1. \A n \in Nat : IsFiniteSet(1 .. n)
      BY FS_Interval
    <2>2. Runs \in SUBSET (1 .. Len(input_impl))
      BY <1>2 DEF Runs
    <2> QED
      BY <2>1, <2>2, <1>2, FS_Subset
  <1>5. OnlyRun <=> \E i \in Runs : Runs = {i}
    <2>1. Cardinality(Runs) = 1 <=> \E i : Runs = {i}
      BY <1>4, FS_Singleton
    <2> QED
      BY <2>1 DEF OnlyRun
  <1> QED
    BY <1>3, <1>5, ImplsAssumption

\* What is documented of the only run function.
LEMMA DocumentedAs ==
  ASSUME NEW i \in Runs, Runs = {i}
  PROVE  Documented => /\ attr \in GoodAttr
                       /\ input_impl[i].async = expect_async
                       /\ input_impl[i].returns
                       /\ \A k \in DOMAIN input_impl[i].params : Plainly(input_impl[i].params[k])
  BY DEF Documented, GoodAttr, Plainly

-----------------------------------------------------------------------------
(***************************************************************************)
(* The invariant is inductive, one lemma per pass.                         *)
(***************************************************************************)
LEMMA MacroStart == Init => MacroInv
  <1> SUFFICES ASSUME Init
               PROVE  MacroInv
    OBVIOUS
  <1>1. NoFn \in Fn
    <2>1. <<>> \in Seq(Param)
      OBVIOUS
    <2> QED
      BY <2>1 DEF NoFn, Fn, Receivers
  <1>2. MacroTypeOK
    <2>1. run_fn \in Fn /\ run_fn.params = <<>> /\ typed_arg_index = 0 /\ args = <<>>
          /\ has_ctx = FALSE /\ at = "attr"
      BY <1>1 DEF Init, NoFn
    <2>2. typed_arg_index \in 0 .. Len(run_fn.params)
      BY <2>1
    <2>3. args \in Seq(Param)
      BY <2>1, EmptySeq
    <2> QED
      BY <2>1, <2>2, <2>3 DEF MacroTypeOK
  <1> QED
    BY <1>2 DEF Init, MacroInv, StartInv, FoundInv, SeenInv, EndInv

\* What the user wrote does not change.
LEMMA InputStays ==
  ASSUME UNCHANGED <<input_impl, attr, expect_async>>
  PROVE  (Documented' <=> Documented) /\ Runs' = Runs
  BY DEF Documented, Runs

LEMMA AttrStep ==
  ASSUME MacroInv, parse_root_path
  PROVE  MacroInv'
  <1>1. /\ at = "attr" /\ at' = IF attr \in GoodAttr THEN "find" ELSE "failed"
        /\ UNCHANGED <<input_impl, attr, expect_async, run_fn, typed_arg_index, has_ctx, args>>
    BY DEF parse_root_path, GoodAttr
  <1>2. (Documented' <=> Documented) /\ Runs' = Runs
    BY <1>1, InputStays
  <1>3. attr \notin GoodAttr => ~Documented
    BY DEF Documented, GoodAttr
  <1>4. MacroTypeOK'
    BY <1>1 DEF MacroInv, MacroTypeOK
  <1> QED
    BY <1>1, <1>2, <1>3, <1>4 DEF MacroInv, StartInv, FoundInv, SeenInv, EndInv

LEMMA FindStep ==
  ASSUME MacroInv, find_run_fn
  PROVE  MacroInv'
  <1>1. /\ at = "find" /\ UNCHANGED <<input_impl, attr, expect_async, typed_arg_index, has_ctx, args>>
        /\ typed_arg_index = 0 /\ has_ctx = FALSE /\ args = <<>> /\ attr \in GoodAttr
        /\ input_impl \in Impls
    BY DEF find_run_fn, MacroInv, StartInv, FoundInv
  <1>2. (Documented' <=> Documented) /\ Runs' = Runs
    BY <1>1, InputStays
  <1>3. CASE ~OnlyRun
    <2>1. at' = "failed" /\ run_fn' = run_fn
      BY <1>3 DEF find_run_fn
    <2>2. ~Documented
      BY <1>1, <1>3, ImplFns DEF Documented
    <2>3. MacroTypeOK'
      BY <1>1, <2>1 DEF MacroInv, MacroTypeOK
    <2> QED
      BY <1>1, <1>2, <2>1, <2>2, <2>3 DEF MacroInv, StartInv, FoundInv, SeenInv, EndInv
  <1>4. CASE OnlyRun
    <2>1. PICK i \in Runs : Runs = {i}
      BY <1>1, <1>4, ImplFns
    <2>2. (CHOOSE r \in Runs : \A j \in Runs : r <= j) = i
      <3>1. i \in DOMAIN input_impl /\ i <= i
        <4>1. DOMAIN input_impl = 1 .. Len(input_impl) /\ Len(input_impl) \in Nat
          BY <1>1, ImplsAssumption
        <4> QED
          BY <2>1, <4>1 DEF Runs
      <3> QED
        BY <2>1, <3>1
    <2>3. run_fn' = input_impl[i] /\ at' = IF run_fn'.async = expect_async THEN "params" ELSE "failed"
      BY <1>4, <2>2 DEF find_run_fn
    <2>4. run_fn' \in Fn /\ run_fn'.name = "run"
      BY <1>1, <2>1, <2>3, ImplFns DEF Runs
    <2>5. 0 \in 0 .. Len(run_fn'.params)
      BY <2>4, FnFields
    <2>6. MacroTypeOK'
      BY <1>1, <2>3, <2>4, <2>5 DEF MacroInv, MacroTypeOK
    <2>7. run_fn'.async # expect_async => ~Documented
      BY <2>1, <2>3, DocumentedAs
    <2>8. FoundInv'
      BY <1>1, <1>2, <2>1, <2>3 DEF FoundInv
    <2>9. SeenInv'
      BY <1>1 DEF SeenInv
    <2> QED
      BY <1>1, <1>2, <2>3, <2>6, <2>7, <2>8, <2>9 DEF MacroInv, StartInv, EndInv
  <1> QED
    BY <1>3, <1>4

LEMMA ParamStep ==
  ASSUME MacroInv, parse_signature
  PROVE  MacroInv'
  <1> DEFINE n == typed_arg_index
             p == run_fn.params[n + 1]
  <1>1. /\ at = "params" /\ n < Len(run_fn.params) /\ typed_arg_index' = n + 1
        /\ UNCHANGED <<input_impl, attr, expect_async, run_fn>>
    BY DEF parse_signature
  <1>2. (Documented' <=> Documented) /\ Runs' = Runs
    BY <1>1, InputStays
  <1>3. /\ run_fn \in Fn /\ n \in Nat /\ n + 1 \in 1 .. Len(run_fn.params)
        /\ n + 1 \in 0 .. Len(run_fn.params)
        /\ args \in Seq(Param) /\ Len(args) \in Nat /\ Len(args) + Offset = n
        /\ p \in Param /\ has_ctx \in BOOLEAN /\ run_fn.name = "run"
    <2>1. run_fn \in Fn /\ n \in 0 .. Len(run_fn.params) /\ args \in Seq(Param)
          /\ has_ctx \in BOOLEAN /\ run_fn.name = "run"
      BY <1>1 DEF MacroInv, MacroTypeOK
    <2>2. Len(run_fn.params) \in Nat /\ \A k \in 1 .. Len(run_fn.params) : run_fn.params[k] \in Param
      BY <2>1, FnFields
    <2>3. n + 1 \in 1 .. Len(run_fn.params) /\ n \in Nat /\ n + 1 \in 0 .. Len(run_fn.params)
      BY <1>1, <2>1, <2>2
    <2>4. Len(args) + Offset = n
      BY <1>1 DEF MacroInv, MacroTypeOK, Offset
    <2>5. Len(args) \in Nat
      BY <2>1
    <2> QED
      BY <2>1, <2>2, <2>3, <2>4, <2>5
  <1>4. /\ attr \in GoodAttr
        /\ \E i \in Runs : /\ Runs = {i} /\ run_fn = input_impl[i]
                           /\ run_fn.async = expect_async
        /\ \A k \in 1 .. n : Plainly(run_fn.params[k])
        /\ has_ctx <=> n # 0 /\ is_flow_context_path(run_fn.params[1].ty)
        /\ \A k \in DOMAIN args : args[k] = run_fn.params[Offset + k]
    BY <1>1 DEF MacroInv, FoundInv, SeenInv
  <1> HIDE DEF n, p
  <1>5. 1 .. n + 1 = (1 .. n) \cup {n + 1}
    BY <1>3
  <1>6. CASE ~Plainly(p)
    <2>1. at' = "failed" /\ UNCHANGED <<has_ctx, args>>
      BY <1>6 DEF parse_signature, Parameter, Plainly, TakesContext, n, p
    <2>2. ~Documented
      <3>1. PICK i \in Runs : Runs = {i} /\ run_fn = input_impl[i]
        BY <1>4
      <3>2. n + 1 \in DOMAIN run_fn.params
        BY <1>3, FnFields
      <3> QED
        BY <3>1, <3>2, <1>6, DocumentedAs DEF p
    <2>3. MacroTypeOK'
      BY <1>1, <1>3, <2>1 DEF MacroInv, MacroTypeOK
    <2> QED
      BY <1>1, <1>2, <2>1, <2>2, <2>3 DEF MacroInv, StartInv, FoundInv, SeenInv, EndInv
  <1>7. CASE Plainly(p) /\ n = 0 /\ is_flow_context_path(p.ty)
    <2>1. has_ctx' = TRUE /\ UNCHANGED <<at, args>>
      BY <1>7 DEF parse_signature, Parameter, Plainly, TakesContext, n, p
    <2>2. ~has_ctx /\ Len(args) = 0
      BY <1>3, <1>4, <1>7 DEF Offset
    <2>3. MacroTypeOK'
      <3>1. Len(args) + 1 = n + 1
        BY <2>2, <1>7
      <3> QED
        BY <3>1, <1>1, <1>3, <2>1 DEF MacroInv, MacroTypeOK
    <2>4. SeenInv'
      <3>1. \A k \in 1 .. n + 1 : Plainly(run_fn.params[k])
        BY <1>4, <1>5, <1>7 DEF p
      <3>2. DOMAIN args = {}
        BY <1>3, <2>2
      <3>3. n + 1 # 0 /\ is_flow_context_path(run_fn.params[1].ty)
        BY <1>7 DEF p
      <3> QED
        BY <3>1, <3>2, <3>3, <1>1, <2>1 DEF SeenInv
    <2> QED
      BY <1>1, <1>2, <2>1, <2>3, <2>4 DEF MacroInv, StartInv, FoundInv, EndInv
  <1>8. CASE Plainly(p) /\ ~(n = 0 /\ is_flow_context_path(p.ty))
    <2>1. args' = Append(args, p) /\ UNCHANGED <<at, has_ctx>>
      BY <1>8 DEF parse_signature, Parameter, Plainly, TakesContext, n, p
    <2>2. Offset' = Offset /\ Offset \in {0, 1}
      BY <2>1 DEF Offset
    <2>3. /\ args' \in Seq(Param) /\ Len(args') = Len(args) + 1
          /\ DOMAIN args = 1 .. Len(args) /\ DOMAIN args' = (1 .. Len(args)) \cup {Len(args) + 1}
          /\ args'[Len(args) + 1] = p /\ \A k \in 1 .. Len(args) : args'[k] = args[k]
      BY <2>1, <1>3
    <2>4. MacroTypeOK'
      <3>1. Len(args') + Offset = n + 1
        BY <2>2, <2>3, <1>3
      <3>2. Len(args') + (IF has_ctx' THEN 1 ELSE 0) = n + 1
        BY <3>1, <2>1 DEF Offset
      <3> QED
        BY <3>2, <1>1, <1>3, <2>1, <2>3 DEF MacroInv, MacroTypeOK
    <2>5. SeenInv'
      <3>1. \A k \in 1 .. n + 1 : Plainly(run_fn.params[k])
        BY <1>4, <1>5, <1>8 DEF p
      <3>2. has_ctx <=> n + 1 # 0 /\ is_flow_context_path(run_fn.params[1].ty)
        <4>1. CASE n = 0
          BY <4>1, <1>4, <1>8 DEF p
        <4>2. CASE n # 0
          BY <4>2, <1>3, <1>4
        <4> QED
          BY <4>1, <4>2
      <3>3. ASSUME NEW k \in DOMAIN args'
            PROVE  args'[k] = run_fn.params[Offset + k]
        <4>1. CASE k \in 1 .. Len(args)
          BY <4>1, <2>3, <1>4
        <4>2. CASE k = Len(args) + 1
          <5>1. Offset + k = n + 1
            BY <4>2, <2>2, <1>3
          <5> QED
            BY <4>2, <5>1, <2>3 DEF p
        <4> QED
          BY <4>1, <4>2, <2>3
      <3> QED
        BY <3>1, <3>2, <3>3, <1>1, <2>1, <2>2 DEF SeenInv
    <2> QED
      BY <1>1, <1>2, <2>1, <2>4, <2>5 DEF MacroInv, StartInv, FoundInv, EndInv
  <1> QED
    BY <1>6, <1>7, <1>8

LEMMA BuildStep ==
  ASSUME MacroInv, build_task_impl
  PROVE  MacroInv'
  <1>1. /\ at = "params" /\ typed_arg_index = Len(run_fn.params)
        /\ at' = IF run_fn.returns THEN "expanded" ELSE "failed"
        /\ UNCHANGED <<input_impl, attr, expect_async, run_fn, typed_arg_index, has_ctx, args>>
    BY DEF build_task_impl
  <1>2. (Documented' <=> Documented) /\ Runs' = Runs /\ Offset' = Offset
    BY <1>1, InputStays DEF Offset
  <1>3. ~run_fn.returns => ~Documented
    BY <1>1, DocumentedAs DEF MacroInv, FoundInv
  <1>4. MacroTypeOK'
    BY <1>1 DEF MacroInv, MacroTypeOK
  <1>5. SeenInv'
    BY <1>1, <1>2 DEF MacroInv, SeenInv
  <1>6. FoundInv'
    BY <1>1, <1>2 DEF MacroInv, FoundInv
  <1> QED
    BY <1>1, <1>2, <1>3, <1>4, <1>5, <1>6 DEF MacroInv, StartInv, EndInv

LEMMA MacroStep ==
  ASSUME MacroInv, [Next]_vars
  PROVE  MacroInv'
  <1>1. CASE Next
    BY <1>1, AttrStep, FindStep, ParamStep, BuildStep DEF Next
  <1>2. CASE UNCHANGED vars
    <2>1. UNCHANGED <<at, input_impl, attr, expect_async, run_fn, typed_arg_index, has_ctx, args>>
      BY <1>2 DEF vars
    <2>2. (Documented' <=> Documented) /\ Runs' = Runs /\ Offset' = Offset
      BY <2>1, InputStays DEF Offset
    <2> QED
      BY <2>1, <2>2 DEF MacroInv, MacroTypeOK, StartInv, FoundInv, SeenInv, EndInv
  <1> QED
    BY <1>1, <1>2

-----------------------------------------------------------------------------
(***************************************************************************)
(* The expansion.                                                          *)
(***************************************************************************)

\* What an expanded function is like.
LEMMA Expanded ==
  ASSUME MacroInv, at = "expanded"
  PROVE  /\ args \in Seq(Param) /\ Len(args) \in Nat /\ DOMAIN args = 1 .. Len(args)
         /\ run_fn \in Fn /\ has_ctx \in BOOLEAN /\ Offset \in {0, 1}
         /\ Len(run_fn.params) = Offset + Len(args)
         /\ \A k \in 1 .. Len(args) : args[k] = run_fn.params[Offset + k]
         /\ \A j, k \in 1 .. Len(args) : args[j].ident = args[k].ident => j = k
  <1>1. /\ args \in Seq(Param) /\ run_fn \in Fn /\ has_ctx \in BOOLEAN
        /\ Len(args) + Offset = Len(run_fn.params)
    BY DEF MacroInv, MacroTypeOK, EndInv, Offset
  <1>2. Len(args) \in Nat /\ DOMAIN args = 1 .. Len(args) /\ Offset \in {0, 1}
    BY <1>1 DEF Offset
  <1>3. Len(run_fn.params) = Offset + Len(args)
    BY <1>1, <1>2
  <1>4. \A k \in 1 .. Len(args) : args[k] = run_fn.params[Offset + k]
    BY <1>2 DEF MacroInv, SeenInv
  <1>5. ASSUME NEW j \in 1 .. Len(args), NEW k \in 1 .. Len(args), args[j].ident = args[k].ident
        PROVE  j = k
    <2>1. PICK i \in Runs : run_fn = input_impl[i]
      BY DEF MacroInv, FoundInv
    <2>2. Offset + j \in DOMAIN run_fn.params /\ Offset + k \in DOMAIN run_fn.params
      <3>1. DOMAIN run_fn.params = 1 .. Len(run_fn.params)
        BY <1>1, FnFields
      <3> QED
        BY <3>1, <1>2, <1>3
    <2>3. Offset + j = Offset + k
      BY <2>1, <2>2, <1>4, <1>5, ImplFns DEF MacroInv, Runs
    <2> QED
      BY <2>3, <1>2
  <1> QED
    BY <1>1, <1>2, <1>3, <1>4, <1>5

\* What the name of the k-th input stands for in the generated run().
LEMMA ScopeOfInput ==
  ASSUME MacroInv, at = "expanded", NEW k \in 1 .. Len(args)
  PROVE  Scope(args[k].ident) =
           IF run_fn.receiver = "RefMut" /\ args[k].ident = "__task" THEN Task ELSE InputAt(k)
  <1> DEFINE n == args[k].ident
  <1>1. k \in DOMAIN args /\ \A j \in DOMAIN args : args[j].ident = n => j = k
    BY Expanded
  <1>2. (CHOOSE j \in DOMAIN args : args[j].ident = n) = k
    BY <1>1
  <1>3. n \in DOMAIN build_destructure /\ build_destructure[n] = InputAt(k)
    BY <1>1, <1>2 DEF build_destructure
  <1>4. n \in DOMAIN ReceiverSetup <=> run_fn.receiver = "RefMut" /\ n = "__task"
    BY DEF ReceiverSetup
  <1>5. n \in DOMAIN ReceiverSetup => ReceiverSetup[n] = Task
    BY DEF ReceiverSetup
  <1> HIDE DEF n
  <1> QED
    BY <1>3, <1>4, <1>5 DEF Scope, n

\* What the runtime's context is called there ...
LEMMA ScopeOfContext ==
  ASSUME MacroInv, at = "expanded"
  PROVE  Scope("__tf_ctx") = Context <=> \A k \in 1 .. Len(args) : args[k].ident # "__tf_ctx"
  <1>1. "__tf_ctx" \notin DOMAIN ReceiverSetup
    BY DEF ReceiverSetup
  <1>2. CASE \A k \in 1 .. Len(args) : args[k].ident # "__tf_ctx"
    <2>1. "__tf_ctx" \notin DOMAIN build_destructure
      BY <1>2, Expanded DEF build_destructure
    <2>2. Scope("__tf_ctx") = Parameters["__tf_ctx"]
      BY <1>1, <2>1 DEF Scope
    <2>3. Parameters["__tf_ctx"] = Context
      BY DEF Parameters
    <2> QED
      BY <1>2, <2>2, <2>3
  <1>3. CASE \E k \in 1 .. Len(args) : args[k].ident = "__tf_ctx"
    <2>1. PICK k \in 1 .. Len(args) : args[k].ident = "__tf_ctx"
      BY <1>3
    <2>2. Scope("__tf_ctx") \in {Task, InputAt(k)}
      BY <2>1, ScopeOfInput
    <2>3. Context \notin {Task, InputAt(k)}
      BY DEF Context, Task, InputAt
    <2> QED
      BY <1>3, <2>2, <2>3
  <1> QED
    BY <1>2, <1>3

\* ... and the task, where run() takes it by `&mut self`.
LEMMA ScopeOfTask ==
  ASSUME run_fn.receiver = "RefMut"
  PROVE  Scope("__task") = Task
  <1>1. "__task" \in DOMAIN ReceiverSetup /\ ReceiverSetup["__task"] = Task
    BY DEF ReceiverSetup
  <1> QED
    BY <1>1 DEF Scope

CtxArg == [deref |-> FALSE, of |-> Scope("__tf_ctx")]
InputArg(k) == [deref |-> TRUE, of |-> Scope(args[k].ident)]

\* The arguments of the call: the context, if asked for, and then the inputs.
LEMMA CallShape ==
  ASSUME MacroInv, at = "expanded"
  PROVE  /\ Len(CallArgs) = Len(run_fn.params)
         /\ DOMAIN CallArgs = 1 .. Offset + Len(args)
         /\ has_ctx => CallArgs[1] = CtxArg
         /\ \A k \in 1 .. Len(args) : CallArgs[Offset + k] = InputArg(k)
  <1> DEFINE n == Len(args)
             S == {CtxArg} \cup {InputArg(k) : k \in 1 .. n}
             front == IF has_ctx THEN <<CtxArg>> ELSE <<>>
             back == [k \in 1 .. n |-> InputArg(k)]
  <1>1. n \in Nat /\ DOMAIN args = 1 .. n /\ Offset \in {0, 1} /\ has_ctx \in BOOLEAN
        /\ Len(run_fn.params) = Offset + n
    BY Expanded
  <1>2. CallArgs = front \o back
    BY <1>1 DEF CallArgs, CtxArg, InputArg
  <1>3. front \in Seq(S) /\ Len(front) = Offset /\ (has_ctx => front[1] = CtxArg)
    <2>1. CtxArg \in S
      OBVIOUS
    <2> HIDE DEF S
    <2>2. CASE has_ctx
      <3>1. front = <<CtxArg>> /\ Offset = 1
        BY <2>2 DEF Offset
      <3>2. front \in Seq(S) /\ Len(front) = 1 /\ front[1] = CtxArg
        BY <2>1, <3>1
      <3> QED
        BY <3>1, <3>2
    <2>3. CASE ~has_ctx
      <3>1. front = <<>> /\ Offset = 0
        BY <2>3 DEF Offset
      <3>2. <<>> \in Seq(S) /\ Len(<<>>) = 0
        BY EmptySeq
      <3> QED
        BY <2>3, <3>1, <3>2
    <2> QED
      BY <2>2, <2>3
  <1>4. back \in Seq(S) /\ Len(back) = n /\ \A k \in 1 .. n : back[k] = InputArg(k)
    <2>1. \A k \in 1 .. n : InputArg(k) \in S
      OBVIOUS
    <2> HIDE DEF S
    <2>2. back \in [1 .. n -> S]
      BY <2>1
    <2> QED
      BY <2>2, <1>1
  <1> HIDE DEF S, front, back, n
  <1>5. /\ CallArgs \in Seq(S) /\ Len(CallArgs) = Offset + n
        /\ \A i \in 1 .. Offset + n :
             CallArgs[i] = IF i <= Offset THEN front[i] ELSE back[i - Offset]
    BY <1>2, <1>3, <1>4, ConcatProperties
  <1>6. DOMAIN CallArgs = 1 .. Offset + n
    BY <1>5
  <1>7. has_ctx => CallArgs[1] = CtxArg
    <2>1. has_ctx => Offset = 1
      BY DEF Offset
    <2> QED
      BY <2>1, <1>1, <1>3, <1>5
  <1>8. ASSUME NEW k \in 1 .. n
        PROVE  CallArgs[Offset + k] = InputArg(k)
    <2>1. Offset + k \in 1 .. Offset + n /\ ~(Offset + k <= Offset) /\ (Offset + k) - Offset = k
      BY <1>1
    <2> QED
      BY <2>1, <1>4, <1>5
  <1> QED
    BY <1>1, <1>5, <1>6, <1>7, <1>8 DEF n

\* rustc accepts the argument for the context unless an input has its name or
\* the parameter is of another type ...
LEMMA ContextFits ==
  ASSUME MacroInv, at = "expanded", has_ctx
  PROVE  Fits(CtxArg, run_fn.params[1]) <=>
           /\ \A k \in 1 .. Len(args) : args[k].ident # "__tf_ctx"
           /\ run_fn.params[1].ty.type = "FlowContext"
  BY ScopeOfContext DEF Fits, CtxArg

\* ... and that for an input unless it has the name of the task.
LEMMA InputFits ==
  ASSUME MacroInv, at = "expanded", NEW k \in 1 .. Len(args)
  PROVE  Fits(InputArg(k), run_fn.params[Offset + k]) <=>
           ~(run_fn.receiver = "RefMut" /\ args[k].ident = "__task")
  <1>1. Fits(InputArg(k), run_fn.params[Offset + k]) <=>
          /\ Scope(args[k].ident).what = "arc"
          /\ run_fn.params[Offset + k].ty.type = Input[Scope(args[k].ident).place]
    BY DEF Fits, InputArg
  <1>2. Input[k] = run_fn.params[Offset + k].ty.type
    BY Expanded DEF Input
  <1>3. Task.what # "arc" /\ InputAt(k).what = "arc" /\ InputAt(k).place = k
    BY DEF Task, InputAt
  <1> QED
    BY <1>1, <1>2, <1>3, ScopeOfInput

LEMMA Delivers ==
  ASSUME MacroInv, at = "expanded"
  PROVE  CallDelivers
  <1> DEFINE n == Len(args)
  <1>1. /\ n \in Nat /\ DOMAIN args = 1 .. n /\ has_ctx \in BOOLEAN /\ Offset \in {0, 1}
        /\ DOMAIN Input = 1 .. n
        /\ Offset = IF has_ctx THEN 1 ELSE 0
    BY Expanded DEF Input, Offset
  <1>2. build_inherent_call.args = CallArgs /\ build_inherent_call.receiver = Task
    BY ScopeOfTask DEF build_inherent_call
  <1>3. Compiles <=> \A i \in 1 .. Offset + n : Fits(CallArgs[i], run_fn.params[i])
    BY <1>2, CallShape DEF Compiles
  <1>4. Compiles <=> /\ has_ctx => Fits(CtxArg, run_fn.params[1])
                     /\ \A k \in 1 .. n : Fits(InputArg(k), run_fn.params[Offset + k])
    <2>1. has_ctx => 1 \in 1 .. Offset + n
      BY <1>1
    <2>2. \A k \in 1 .. n : Offset + k \in 1 .. Offset + n
      BY <1>1
    <2>3. \A i \in 1 .. Offset + n : (has_ctx /\ i = 1) \/ \E k \in 1 .. n : i = Offset + k
      <3> SUFFICES ASSUME NEW i \in 1 .. Offset + n, ~(has_ctx /\ i = 1)
                   PROVE  \E k \in 1 .. n : i = Offset + k
        OBVIOUS
      <3>1. i - Offset \in 1 .. n /\ i = Offset + (i - Offset)
        BY <1>1
      <3> QED
        BY <3>1
    <2> HIDE DEF n
    <2> QED
      BY <1>3, <2>1, <2>2, <2>3, CallShape DEF n
  <1>5. Compiles <=> ~NameClash /\ ~LooksLikeContext
    BY <1>1, <1>4, ContextFits, InputFits DEF NameClash, LooksLikeContext
  <1>6. ASSUME Compiles
        PROVE  /\ has_ctx => CallArgs[1].of = Context
               /\ \A k \in 1 .. n : /\ CallArgs[Offset + k].of = InputAt(k)
                                    /\ run_fn.params[Offset + k].ty.type = Input[k]
    <2>1. ~NameClash
      BY <1>5, <1>6
    <2>2. has_ctx => CallArgs[1].of = Context
      BY <1>1, <2>1, CallShape, ScopeOfContext DEF NameClash, CtxArg
    <2>3. ASSUME NEW k \in 1 .. n
          PROVE  CallArgs[Offset + k].of = InputAt(k)
      <3>1. ~(run_fn.receiver = "RefMut" /\ args[k].ident = "__task")
        BY <1>1, <2>1 DEF NameClash
      <3>2. CallArgs[Offset + k] = InputArg(k)
        BY CallShape
      <3> QED
        BY <3>1, <3>2, ScopeOfInput DEF InputArg
    <2>4. \A k \in 1 .. n : run_fn.params[Offset + k].ty.type = Input[k]
      BY <1>1, Expanded DEF Input
    <2> QED
      BY <2>2, <2>3, <2>4
  <1> HIDE DEF n
  <1> QED
    BY <1>1, <1>2, <1>5, <1>6 DEF CallDelivers

-----------------------------------------------------------------------------
(***************************************************************************)
(* The theorems.                                                           *)
(***************************************************************************)

\* The invariant, for every impl block.
THEOREM MacroInvariant == Spec => []MacroInv
  BY MacroStart, MacroStep, PTL DEF Spec

\* The variables are of their types, and every parameter seen was either taken
\* for the context or for an input.
THEOREM MacroTypes == Spec => []MacroTypeOK
  <1>1. MacroInv => MacroTypeOK
    BY DEF MacroInv
  <1> QED
    BY <1>1, MacroInvariant, PTL

(***************************************************************************)
(* The attributes accept every signature of their documentation and none   *)
(* that it excludes: any number of parameters, of any names and types, in  *)
(* any impl block.                                                         *)
(***************************************************************************)
THEOREM AlwaysKeepsTheDocumentation == Spec => []KeepsTheDocumentation
  <1>1. ASSUME MacroInv, at = "expanded"
        PROVE  ~Excluded
    <2>1. PICK i \in Runs : run_fn = input_impl[i] /\ run_fn.async = expect_async
      BY <1>1 DEF MacroInv, FoundInv
    <2>2. /\ typed_arg_index = Len(run_fn.params) /\ run_fn \in Fn
          /\ \A k \in 1 .. typed_arg_index : Plainly(run_fn.params[k])
      BY <1>1 DEF MacroInv, MacroTypeOK, EndInv, SeenInv
    <2>3. \A k \in DOMAIN run_fn.params : run_fn.params[k].mode = "shared"
      BY <2>2, FnFields DEF Plainly
    <2> QED
      BY <2>1, <2>3 DEF Excluded
  <1>2. MacroInv => KeepsTheDocumentation
    BY <1>1 DEF MacroInv, EndInv, KeepsTheDocumentation
  <1> QED
    BY <1>2, MacroInvariant, PTL

(***************************************************************************)
(* An expansion compiles unless a name clashes or the context is not the   *)
(* real one, and what compiles passes every value to its own parameter.    *)
(***************************************************************************)
THEOREM CallsAlwaysDeliver == Spec => []CallDelivers
  <1>1. MacroInv => CallDelivers
    BY Delivers DEF CallDelivers
  <1> QED
    BY <1>1, MacroInvariant, PTL

=============================================================================
