------------------------------ MODULE JobQueue ------------------------------
(***************************************************************************)
(* A BullMQ queue as the workers of this platform see it: WorkerFactory    *)
(* gives every queue a worker with a number of slots; a job that rejects   *)
(* is retried until its attempts are used up and then stays failed; a job  *)
(* whose lock is no longer renewed is delivered again by the stalled       *)
(* check.  A slot that lost a job's lock is refused when it reports.       *)
(***************************************************************************)
EXTENDS Integers, FiniteSets

CONSTANTS
    Jobs,         \* job ids
    Slots,        \* concurrent handlers over all worker processes
    NoSlot,       \* the lock of a job nobody renews
    JobAttempts,  \* attempts of a job of this queue
    MaxStalled    \* maxStalledCount, left at its default (1)

ASSUME QueueAssumption ==
    /\ JobAttempts \in Nat \ {0}
    /\ MaxStalled \in Nat
    /\ NoSlot \notin Slots /\ IsFiniteSet(Slots)

VARIABLES
    jobs,    \* jobs[j]: the state of job j ("waiting" includes delayed)
    tries,   \* tries[j]: job.attemptsMade
    stalls,  \* stalls[j]: job.stalledCounter
    lock     \* lock[j]: the slot that renews the lock of j

queueVars == <<jobs, tries, stalls, lock>>

JobStates == {"absent", "waiting", "active", "completed", "failed"}

QueueTypeOK ==
    /\ jobs \in [Jobs -> JobStates]
    /\ tries \in [Jobs -> Nat]
    /\ stalls \in [Jobs -> Nat]
    /\ lock \in [Jobs -> Slots \cup {NoSlot}]

QueueInit ==
    /\ jobs = [j \in Jobs |-> "absent"]
    /\ tries = [j \in Jobs |-> 0]
    /\ stalls = [j \in Jobs |-> 0]
    /\ lock = [j \in Jobs |-> NoSlot]

\* Queue.add with a generated id
Add(j) ==
    /\ jobs[j] = "absent"
    /\ jobs' = [jobs EXCEPT ![j] = "waiting"]
    /\ UNCHANGED <<tries, stalls, lock>>

Claim(s, j) ==
    /\ jobs[j] = "waiting"
    /\ jobs' = [jobs EXCEPT ![j] = "active"]
    /\ lock' = [lock EXCEPT ![j] = s]
    /\ UNCHANGED <<tries, stalls>>

\* The handler of slot s resolved.
Complete(s, j) ==
    /\ IF lock[j] = s
       THEN /\ jobs' = [jobs EXCEPT ![j] = "completed"]
            /\ lock' = [lock EXCEPT ![j] = NoSlot]
       ELSE UNCHANGED <<jobs, lock>>
    /\ UNCHANGED <<tries, stalls>>

\* The handler of slot s rejected.
Reject(s, j) ==
    /\ IF lock[j] = s
       THEN /\ tries' = [tries EXCEPT ![j] = @ + 1]
            /\ jobs' = [jobs EXCEPT ![j] =
                            IF tries[j] + 1 < JobAttempts THEN "waiting" ELSE "failed"]
            /\ lock' = [lock EXCEPT ![j] = NoSlot]
       ELSE UNCHANGED <<jobs, tries, lock>>
    /\ UNCHANGED stalls

\* The lock of s on j is no longer renewed; j keeps state active.
Abandon(s, j) ==
    /\ lock' = [lock EXCEPT ![j] = IF @ = s THEN NoSlot ELSE @]
    /\ UNCHANGED <<jobs, tries, stalls>>

\* The stalled check.
Redeliver(j) ==
    /\ jobs[j] = "active"
    /\ lock[j] = NoSlot
    /\ stalls' = [stalls EXCEPT ![j] = @ + 1]
    /\ jobs' = [jobs EXCEPT ![j] = IF stalls[j] < MaxStalled THEN "waiting" ELSE "failed"]
    /\ UNCHANGED <<tries, lock>>
=============================================================================
