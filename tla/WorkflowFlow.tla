---------------------------- MODULE WorkflowFlow ----------------------------
(***************************************************************************)
(* What the workflow engine promises, free of queues, workers, attempts    *)
(* and crashes: a step of an execution settles at most once, only after a  *)
(* transition of an already settled step opened it, and the execution is   *)
(* only closed for a reason that its settled steps show.  WorkflowEngine   *)
(* is checked, and its steps proved, against this module.                  *)
(***************************************************************************)
EXTENDS WorkflowCanvas, Naturals, FiniteSets

CONSTANTS
    Execs,     \* workflow executions
    MaxDepth   \* max(1, workflow.maxDepth)

VARIABLES
    phase,     \* phase[e]: the status the execution shows
    settled    \* settled[e][k]: the final outcome of step k, "none" before it

flowVars == <<phase, settled>>

Phases == {"NONE", "RUNNING", "SUCCESS", "FAILED", "CANCELLED"}

FlowInit ==
    /\ phase = [e \in Execs |-> "NONE"]
    /\ settled = [e \in Execs |-> [k \in Keys |-> "none"]]

\* Step k has been reached: it is the trigger, or a settled step opened it.
Reached(e, k) ==
    \/ k = Trigger
    \/ \E t \in Transitions : t.dst = k /\ t \in Opened(t.src, settled[e][t.src])

Succeeded(e) == {k \in Keys : settled[e][k] \in Outputs}

Start(e) ==
    /\ phase[e] = "NONE"
    /\ phase' = [phase EXCEPT ![e] = "RUNNING"]
    /\ UNCHANGED settled

Settle(e, k, outcome) ==
    /\ phase[e] # "NONE"
    /\ Reached(e, k)
    /\ settled[e][k] = "none"
    /\ settled' = [settled EXCEPT ![e][k] = outcome]
    /\ UNCHANGED phase

\* Some settled leaf ends the execution well.
CloseSuccess(e) ==
    /\ \E k \in Keys : settled[e][k] \in Outputs /\ Opened(k, settled[e][k]) = {}
    /\ phase' = [phase EXCEPT ![e] = "SUCCESS"]
    /\ UNCHANGED settled

\* Some step failed for good with nowhere to go, or max_depth is used up.
CloseFailed(e) ==
    /\ \/ \E k \in Keys : settled[e][k] = "FAILED" /\ Fallbacks(k) = {}
       \/ Cardinality(Succeeded(e)) >= MaxDepth
    /\ phase' = [phase EXCEPT ![e] = "FAILED"]
    /\ UNCHANGED settled

CloseCancelled(e) ==
    /\ phase[e] # "NONE"
    /\ phase' = [phase EXCEPT ![e] = "CANCELLED"]
    /\ UNCHANGED settled

FlowNext ==
    \E e \in Execs :
        \/ Start(e)
        \/ \E k \in Keys, outcome \in Outputs \cup {"FAILED"} : Settle(e, k, outcome)
        \/ CloseSuccess(e)
        \/ CloseFailed(e)
        \/ CloseCancelled(e)

FlowSpec == FlowInit /\ [][FlowNext]_flowVars
=============================================================================
