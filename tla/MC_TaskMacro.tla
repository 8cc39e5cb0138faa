----------------------------- MODULE MC_TaskMacro -----------------------------
(***************************************************************************)
(* Small instances of TaskMacro for TLC.                                   *)
(***************************************************************************)
EXTENDS TaskMacro

\* A user's name and the names that the expansion uses itself.
MCIdents == {"a", "input", "__tf_ctx", "__task"}

\* The context; the context under an alias; another type of that name; a type.
MCTypes ==
  {[segment |-> "FlowContext", type |-> "FlowContext"],
   [segment |-> "Foo", type |-> "FlowContext"],
   [segment |-> "FlowContext", type |-> "other::FlowContext"],
   [segment |-> "A", type |-> "A"]}

Plain(n, ty) == [simple |-> TRUE, ident |-> n, mode |-> "shared", ty |-> ty]

\* Parameters the macro accepts, and some that it does not.
Good == {Plain(n, ty) : n \in MCIdents, ty \in MCTypes}
Bad == {[p EXCEPT !.mode = m] : p \in {q \in Good : q.ident = "a"}, m \in {"mut", "owned"}}
         \cup {[p EXCEPT !.simple = FALSE] : p \in {q \in Good : q.ident = "a"}}

ParamLists ==
  {l \in UNION {[1 .. n -> Good] : n \in 0 .. 2} \cup {<<p>> : p \in Bad}
           \cup {<<p, q>> : p \in {Plain("input", ty) : ty \in MCTypes}, q \in Bad}
           \cup {<<Plain("input", ty), Plain("__task", u), p>> : ty, u \in MCTypes, p \in Good} :
     \A i, j \in DOMAIN l : l[i].ident = l[j].ident => i = j}

RunFns ==
  [name : {"run"}, async : BOOLEAN, receiver : Receivers, params : ParamLists,
   returns : BOOLEAN]

New == [NoFn EXCEPT !.returns = TRUE]

MCImpls ==
  {<<f>> : f \in RunFns}
    \cup {<<>>, <<New>>}
    \cup {<<New, f>> : f \in {g \in RunFns : Len(g.params) = 1}}
    \cup {<<f, New, g>> : f, g \in {h \in RunFns : h.params = <<>>}}

=============================================================================
