-------------------------- MODULE WorkflowEngineMC --------------------------
(* Canvases and symmetry for the runs of WorkflowEngine.                   *)
EXTENDS WorkflowEngine, TLC

CONSTANTS k0, k1, k2

Edge(s, r, d) == [src |-> s, route |-> r, dst |-> d]
StopOnError == [k \in Keys |-> "STOP"]

\* A fork that joins: k2 follows a truthy k0 and a falsy k1.
JoinKeys == {k0, k1, k2}
JoinTransitions ==
    {Edge(k0, "ON_SUCCESS", k1), Edge(k0, "IF_TRUE", k2), Edge(k1, "IF_FALSE", k2)}

\* Two steps: the first branches on its result and has a failure branch.
PairKeys == {k0, k1}
PairTransitions == {Edge(k0, "IF_TRUE", k1), Edge(k0, "ON_FAILURE", k1)}
ContinueAtFirst == [k \in Keys |-> IF k = k0 THEN "CONTINUE" ELSE "STOP"]

SlotSymmetry == Permutations(Workers)
=============================================================================
