---------------------------- MODULE MC_FlowCodegen ----------------------------
(***************************************************************************)
(* Small instances of FlowCodegen, and of GeneratedFlow, for TLC.          *)
(***************************************************************************)
EXTENDS GeneratedFlow, TLC

CONSTANT MaxDeps   \* bound: dependencies of one node

\* Enough outputs for a fan-out of three nodes and for an unknown one; "C" and
\* "c" are one variable once folded to lower case.
FewOutputs == {"a", "b", "c", "C"}
MCOutputs == FewOutputs \cup {"d", "e"}
MCIdent == [a |-> "out_a", b |-> "out_b", c |-> "out_c", C |-> "out_c",
            d |-> "out_d", e |-> "out_e"]
MCVars == Range(MCIdent)

DepLists == UNION {[1 .. n -> FewOutputs] : n \in 0 .. MaxDeps}

Nodes(isSource, isSink, blanks) ==
  [output : FewOutputs, dependencies : DepLists, source : {isSource},
   sink : {isSink}, blank : blanks]

Sources(blanks) == Nodes(TRUE, FALSE, blanks)
Processors(blanks) == Nodes(FALSE, FALSE, blanks)
Sinks(blanks) == Nodes(FALSE, TRUE, blanks)

\* Up to two nodes, some with an empty builder.
TwoNodeFiles ==
  LET B == BOOLEAN IN
    {<<k>> : k \in Sinks(B)}
    \cup {<<n, k>> : n \in Sources(B) \cup Processors(B), k \in Sinks(B)}

\* A source, a processor or second source, and the sink.
ThreeNodeFiles ==
  LET ok == {FALSE} IN
    {<<s, p, k>> : s \in {n \in Sources(ok) : n.dependencies = <<>> /\ n.output = "a"},
                   p \in Sources(ok) \cup Processors(ok), k \in Sinks(ok)}

AllFiles == TwoNodeFiles \cup ThreeNodeFiles

Plain(o, deps, src, snk) ==
  [output |-> o, dependencies |-> deps, source |-> src, sink |-> snk, blank |-> FALSE]

\* A chain; a source used twice; a processor and a sink that need each other.
Chain == <<Plain("a", <<>>, TRUE, FALSE), Plain("b", <<"a">>, FALSE, TRUE)>>
FewFiles ==
  {Chain,
   <<Plain("a", <<>>, TRUE, FALSE), Plain("b", <<"a">>, FALSE, FALSE),
     Plain("c", <<"a", "b">>, FALSE, TRUE)>>,
   <<Plain("a", <<>>, TRUE, FALSE), Plain("b", <<"a", "c">>, FALSE, FALSE),
     Plain("c", <<"b">>, FALSE, TRUE)>>}

\* The shapes of tf-examples/configs/flows: fib_flow.toml, mixed_fib_io_flow.toml
\* (with the processors in another order than they can run in).
FibFlow ==
  <<Plain("a", <<>>, TRUE, FALSE), Plain("b", <<>>, TRUE, FALSE),
    Plain("c", <<"a", "b">>, FALSE, FALSE), Plain("d", <<"c">>, FALSE, FALSE),
    Plain("e", <<"d">>, FALSE, TRUE)>>
MixedFlow ==
  <<Plain("a", <<>>, TRUE, FALSE), Plain("c", <<"b">>, FALSE, FALSE),
    Plain("b", <<"a">>, FALSE, FALSE), Plain("d", <<"c">>, FALSE, TRUE)>>

\* "x" holds anything; "y" is in the package and "/y" outside: one entry.
MCPaths == {"x", "y", "/y"}
MCEntries == {"at x", "at y", "elsewhere"}
MCNormalize == "x" :> "at x" @@ "y" :> "at y" @@ "/y" :> "at y"
MCIndexes == {<<>>, <<"x">>, <<"y", "x">>, <<"/y", "y">>, <<"y", "y", "/y">>}
MCFlowFiles ==
  "x" :> AllFiles @@ "y" :> FewFiles \cup {FibFlow} @@ "/y" :> {Chain, MixedFlow}

FewPaths == {"y"}
FewIndexes == {<<"y">>}
FewEntries == "y" :> "y"
FewFlowFiles == "y" :> FewFiles

OneType == {"A"}
MCSignatures ==
  {[ins |-> [k \in 1 .. n |-> "A"], out |-> "A", sync |-> TRUE] : n \in 0 .. MaxDeps}
NoMisuse == {}

=============================================================================
