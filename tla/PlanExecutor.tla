---------------------------- MODULE PlanExecutor ----------------------------
(***************************************************************************)
(* What PlanExecutor.execute keeps in Redis per execution: the result of a *)
(* plan that ran to its end, and a lock that only tells that some runner   *)
(* took it.  Both keys have a time to live.                                *)
(***************************************************************************)
EXTENDS Integers, FiniteSets

CONSTANT Executions  \* execution ids

VARIABLES
    cached,    \* cached[e]: key exec_result:e exists
    planLock,  \* planLock[e]: key exec_lock:e exists
    lapses     \* lapses[e]: times the lock of e ran out of time

planVars == <<cached, planLock, lapses>>

PlanTypeOK ==
    /\ cached \in [Executions -> BOOLEAN]
    /\ planLock \in [Executions -> BOOLEAN]
    /\ lapses \in [Executions -> Nat]

PlanInit ==
    /\ cached = [e \in Executions |-> FALSE]
    /\ planLock = [e \in Executions |-> FALSE]
    /\ lapses = [e \in Executions |-> 0]

\* SET exec_lock:e NX.  Variant: without NX.
AcquireAlways(e) ==
    /\ planLock' = [planLock EXCEPT ![e] = TRUE]
    /\ UNCHANGED <<cached, lapses>>

Acquire(e) ==
    /\ ~planLock[e]
    /\ planLock' = [planLock EXCEPT ![e] = TRUE]
    /\ UNCHANGED <<cached, lapses>>

Store(e) ==
    /\ cached' = [cached EXCEPT ![e] = TRUE]
    /\ UNCHANGED <<planLock, lapses>>

\* DEL exec_lock:e, whoever holds it.
Unlock(e) ==
    /\ planLock' = [planLock EXCEPT ![e] = FALSE]
    /\ UNCHANGED <<cached, lapses>>

LockLapses(e) ==
    /\ planLock[e]
    /\ planLock' = [planLock EXCEPT ![e] = FALSE]
    /\ lapses' = [lapses EXCEPT ![e] = @ + 1]
    /\ UNCHANGED cached

ResultLapses(e) ==
    /\ cached[e]
    /\ cached' = [cached EXCEPT ![e] = FALSE]
    /\ UNCHANGED <<planLock, lapses>>
=============================================================================
