----------------------------- MODULE MC_FlowExec -----------------------------
(***************************************************************************)
(* Small instances of FlowExec for TLC.                                    *)
(***************************************************************************)
EXTENDS FlowExec

MCOneType == {"A"}
MCTypes == {"A", "B"}

Shape(n, sync) == [ins |-> [i \in 1 .. n |-> "A"], out |-> "A", sync |-> sync]

\* Sync sources, async tasks with one or two inputs.
MCSignatures == {Shape(0, TRUE), Shape(1, FALSE), Shape(2, FALSE)}

\* Two types, so that a wrapper of another flow may have the wrong one.
MCMixed == {Shape(0, TRUE),
            [ins |-> <<"A">>, out |-> "B", sync |-> FALSE]}

\* Two types, and a task whose inputs can be swapped.
MCPromise == MCMixed \cup {[ins |-> <<"A", "B">>, out |-> "A", sync |-> FALSE]}

\* Inputs that can be swapped without the types showing it, and with.
MCSwaps == {Shape(0, TRUE),
            [ins |-> <<"A", "A">>, out |-> "B", sync |-> FALSE],
            [ins |-> <<"A", "B">>, out |-> "A", sync |-> FALSE]}

NoMisuse == {}
NoFault == {}
MCFailures == {"panic", "cancel"}

=============================================================================
