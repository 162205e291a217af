---------------------------- MODULE AgentTasksMC ----------------------------
(* Symmetry for the runs of AgentTasks.                                    *)
EXTENDS AgentTasks, TLC

Symmetry == Permutations(Slots)
=============================================================================
