---------------------------- MODULE MC_TopoLayers ----------------------------
(***************************************************************************)
(* Small instances of TopoLayers for TLC.                                  *)
(***************************************************************************)
EXTENDS TopoLayers

\* A source, a pass-through and tasks with two inputs, of different types so
\* that their order can be told apart, or of one type so that one wrapper can
\* be given twice.
MCTypes == {"A", "B"}
MCSignatures ==
  { [ins |-> <<>>, out |-> "A", sync |-> TRUE],
    [ins |-> <<"A">>, out |-> "B", sync |-> TRUE],
    [ins |-> <<"A", "B">>, out |-> "A", sync |-> TRUE],
    [ins |-> <<"A", "A">>, out |-> "A", sync |-> TRUE] }

\* One type and at most one input, where only the shape of the graph matters.
MCOneType == {"A"}
MCShapes ==
  { [ins |-> <<>>, out |-> "A", sync |-> TRUE],
    [ins |-> <<"A">>, out |-> "A", sync |-> TRUE] }

NoMisuse == {}

=============================================================================
