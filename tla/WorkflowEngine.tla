--------------------------- MODULE WorkflowEngine ---------------------------
(***************************************************************************)
(* The execution engine of one published workflow.                         *)
(*                                                                         *)
(* The API (runWorkflowNow) or the worker's trigger queue                  *)
(* (processTriggerJob) creates a WorkflowExecution row and then adds the   *)
(* trigger step's job.  Worker slots take "workflow-step" jobs from BullMQ *)
(* and run processWorkflowExecutionJob: load the execution, run the step,  *)
(* create its StepResult row, bump the depth, then fan out, retry or       *)
(* close.  Every await of that handler is a step of its own here, so any   *)
(* two handlers interleave at any await, and a fault, a crash or a lost    *)
(* job lock can fall between any two of them.                              *)
(***************************************************************************)
EXTENDS WorkflowCanvas, Integers, FiniteSets

CONSTANTS
    Execs,        \* WorkflowExecution rows
    Workers,      \* concurrent job slots of the workflow-execution workers
    NoWorker,     \* the lock value of a job nobody renews
    NoJob,        \* the job of an idle slot
    MaxAttempts,  \* MAX_ATTEMPTS of runner.shared.ts (5)
    JobAttempts,  \* attempts of a BullMQ job of this queue (5)
    MaxStalled,   \* BullMQ's maxStalledCount, left at its default (1)
    MaxDepth,     \* max(1, workflow.maxDepth)
    MaxStamps,    \* bound: distinct Date.now() job ids per execution and step
    MaxFaults     \* bound: transient faults, crashes and lost locks in a run

ASSUME EngineAssumption ==
    /\ MaxAttempts \in Nat \ {0} /\ JobAttempts \in Nat \ {0}
    /\ MaxDepth \in Nat \ {0} /\ MaxStamps \in Nat \ {0}
    /\ MaxStalled \in Nat /\ MaxFaults \in Nat
    /\ NoWorker \notin Workers

Attempts == 1 .. MaxAttempts

\* Job ids: "exec:key:attempt" for the trigger and the retries,
\* "exec:key:timestamp" for a job that a transition adds.
JobIds ==
    [exec : Execs, key : Keys, by : {"attempt"}, n : Attempts]
        \cup [exec : Execs, key : Keys, by : {"stamp"}, n : 1 .. MaxStamps]

ASSUME NoJobAssumption == NoJob \notin JobIds

AttemptJob(e, k, a) == [exec |-> e, key |-> k, by |-> "attempt", n |-> a]
StampJob(e, k, s)   == [exec |-> e, key |-> k, by |-> "stamp", n |-> s]

\* payload.attempt: a transition's job starts at 1.
AttemptOf(j) == IF j.by = "attempt" THEN j.n ELSE 1

VARIABLES
    status,   \* status[e]: WorkflowExecution.status, "NONE" before the row exists
    depth,    \* depth[e]: WorkflowExecution.depth
    results,  \* results[e][k][a]: the StepResult row of attempt a of step k
    launch,   \* launch[e]: where the two writes that start e have got to
    jobs,     \* jobs[j]: the queue state of job j ("waiting" includes delayed)
    tries,    \* tries[j]: job.attemptsMade
    stalls,   \* stalls[j]: job.stalledCounter
    lock,     \* lock[j]: the slot that renews the lock of an active job
    pc,       \* pc[w]: the await the handler in slot w is at
    job,      \* job[w]: the job of slot w
    seen,     \* seen[w]: context.execution.depth, the depth the handler loaded
    out,      \* out[w]: the step's output
    todo,     \* todo[w]: transitions the handler has still to enqueue
    faults    \* faults so far

rowVars   == <<status, depth, results, launch>>
queueVars == <<jobs, tries, stalls, lock>>
slotVars  == <<pc, job, seen, out, todo>>
vars      == <<rowVars, queueVars, slotVars, faults>>

Statuses == {"NONE", "RUNNING", "SUCCESS", "FAILED", "CANCELLED"}
PCs == {"idle", "load", "tooDeep", "run", "record", "deepen", "enqueue", "succeed",
        "recordFailed", "retry", "fallback", "fail", "finish", "throw"}

TypeOK ==
    /\ status \in [Execs -> Statuses]
    /\ depth \in [Execs -> Nat]
    /\ results \in [Execs -> [Keys -> [Attempts -> Outcomes]]]
    /\ launch \in [Execs -> {"none", "created", "queued", "lost"}]
    /\ jobs \in [JobIds -> {"absent", "waiting", "active", "completed", "failed"}]
    /\ tries \in [JobIds -> Nat]
    /\ stalls \in [JobIds -> Nat]
    /\ lock \in [JobIds -> Workers \cup {NoWorker}]
    /\ pc \in [Workers -> PCs]
    /\ job \in [Workers -> JobIds \cup {NoJob}]
    /\ \A w \in Workers : pc[w] # "idle" => job[w] \in JobIds
    /\ seen \in [Workers -> Nat]
    /\ out \in [Workers -> Outputs]
    /\ todo \in [Workers -> SUBSET Transitions]
    /\ \A w \in Workers : pc[w] \in {"enqueue", "fallback"} => todo[w] # {}
    /\ faults \in 0 .. MaxFaults

Init ==
    /\ status = [e \in Execs |-> "NONE"]
    /\ depth = [e \in Execs |-> 0]
    /\ results = [e \in Execs |-> [k \in Keys |-> [a \in Attempts |-> "none"]]]
    /\ launch = [e \in Execs |-> "none"]
    /\ jobs = [j \in JobIds |-> "absent"]
    /\ tries = [j \in JobIds |-> 0]
    /\ stalls = [j \in JobIds |-> 0]
    /\ lock = [j \in JobIds |-> NoWorker]
    /\ pc = [w \in Workers |-> "idle"]
    /\ job = [w \in Workers |-> NoJob]
    /\ seen = [w \in Workers |-> 0]
    /\ out = [w \in Workers |-> "false"]
    /\ todo = [w \in Workers |-> {}]
    /\ faults = 0

-----------------------------------------------------------------------------
(* Queue operations.  Queue.add with an id that exists is ignored.         *)

Added(j) == [jobs EXCEPT ![j] = IF @ = "absent" THEN "waiting" ELSE @]

Exec(w) == job[w].exec
Key(w)  == job[w].key
Att(w)  == AttemptOf(job[w])

\* The StepResult row this handler is about to create.
Row(w) == results[Exec(w)][Key(w)][Att(w)]

Goto(w, label) == pc' = [pc EXCEPT ![w] = label]

-----------------------------------------------------------------------------
(* Starting an execution: create the row, then add the trigger's job.      *)

CreateExecution(e) ==
    /\ status[e] = "NONE"
    /\ status' = [status EXCEPT ![e] = "RUNNING"]
    /\ launch' = [launch EXCEPT ![e] = "created"]
    /\ UNCHANGED <<depth, results, queueVars, slotVars, faults>>

EnqueueTrigger(e) ==
    /\ launch[e] = "created"
    /\ launch' = [launch EXCEPT ![e] = "queued"]
    /\ jobs' = Added(AttemptJob(e, Trigger, 1))
    /\ UNCHANGED <<status, depth, results, tries, stalls, lock, slotVars, faults>>

\* The process dies, or the add fails, between the two writes: a later
\* request or redelivery starts another execution, never this one.
LaunchLost(e) ==
    /\ launch[e] = "created"
    /\ faults < MaxFaults
    /\ launch' = [launch EXCEPT ![e] = "lost"]
    /\ faults' = faults + 1
    /\ UNCHANGED <<status, depth, results, queueVars, slotVars>>

\* External: the row is set to CANCELLED while it runs.  The runner honours
\* that status; no handler of the repository writes it.
Cancel(e) ==
    /\ status[e] = "RUNNING"
    /\ status' = [status EXCEPT ![e] = "CANCELLED"]
    /\ UNCHANGED <<depth, results, launch, queueVars, slotVars, faults>>

-----------------------------------------------------------------------------
(* The handler, one await per action.                                      *)

Take(w, j) ==
    /\ pc[w] = "idle"
    /\ jobs[j] = "waiting"
    /\ jobs' = [jobs EXCEPT ![j] = "active"]
    /\ lock' = [lock EXCEPT ![j] = w]
    /\ job' = [job EXCEPT ![w] = j]
    /\ Goto(w, "load")
    /\ UNCHANGED <<rowVars, tries, stalls, seen, out, todo, faults>>

\* resolveExecutionContext
Load(w) ==
    /\ pc[w] = "load"
    /\ seen' = [seen EXCEPT ![w] = depth[Exec(w)]]
    /\ Goto(w, IF status[Exec(w)] = "CANCELLED" THEN "finish"
               ELSE IF depth[Exec(w)] >= MaxDepth THEN "tooDeep" ELSE "run")
    /\ UNCHANGED <<rowVars, queueVars, job, out, todo, faults>>

\* failExecution of the max_depth check
FailTooDeep(w) ==
    /\ pc[w] = "tooDeep"
    /\ status' = [status EXCEPT ![Exec(w)] = "FAILED"]
    /\ Goto(w, "finish")
    /\ UNCHANGED <<depth, results, launch, queueVars, job, seen, out, todo, faults>>

\* executeStep returns an output or throws.
RunStep(w) ==
    /\ pc[w] = "run"
    /\ \/ \E o \in Outputs : out' = [out EXCEPT ![w] = o] /\ Goto(w, "record")
       \/ Goto(w, "recordFailed") /\ UNCHANGED out
    /\ UNCHANGED <<rowVars, queueVars, job, seen, todo, faults>>

\* Variant: the row is upserted.
RecordSuccessUpsert(w) ==
    /\ pc[w] = "record"
    /\ results' = [results EXCEPT ![Exec(w)][Key(w)][Att(w)] = out[w]]
    /\ Goto(w, "deepen")
    /\ UNCHANGED <<status, depth, launch, queueVars, job, seen, out, todo, faults>>

\* Variant: an existing row is taken for this handler's own.
RecordSuccessSkipDuplicate(w) ==
    /\ pc[w] = "record"
    /\ results' = [results EXCEPT ![Exec(w)][Key(w)][Att(w)] = IF @ = "none" THEN out[w] ELSE @]
    /\ Goto(w, "deepen")
    /\ UNCHANGED <<status, depth, launch, queueVars, job, seen, out, todo, faults>>

\* recordSuccessfulStep, first write: the unique key (execution, step,
\* attempt) makes a second create throw, into the handler's catch.
RecordSuccess(w) ==
    /\ pc[w] = "record"
    /\ IF Row(w) = "none"
       THEN /\ results' = [results EXCEPT ![Exec(w)][Key(w)][Att(w)] = out[w]]
            /\ Goto(w, "deepen")
       ELSE Goto(w, "recordFailed") /\ UNCHANGED results
    /\ UNCHANGED <<status, depth, launch, queueVars, job, seen, out, todo, faults>>

\* handleSuccessfulExecution: a step without a matching transition closes
\* the execution, any other enqueues.  Variants: the empty case is missed,
\* the leaf just returns, the routes are not filtered.
RouteSuccessNoLeafCase(w, next) ==
    todo' = [todo EXCEPT ![w] = next] /\ Goto(w, "enqueue")

RouteSuccessSilentLeaf(w, next) ==
    /\ todo' = [todo EXCEPT ![w] = next]
    /\ Goto(w, IF next = {} THEN "finish" ELSE "enqueue")

RouteSuccessUnfiltered(w, next) ==
    LET all == {t \in Transitions : t.src = Key(w)}
    IN  /\ todo' = [todo EXCEPT ![w] = all]
        /\ Goto(w, IF all = {} THEN "succeed" ELSE "enqueue")

RouteSuccess(w, next) ==
    /\ todo' = [todo EXCEPT ![w] = next]
    /\ Goto(w, IF next = {} THEN "succeed" ELSE "enqueue")

\* recordSuccessfulStep, second write, from the depth read at load.
Deepen(w) ==
    /\ pc[w] = "deepen"
    /\ depth' = [depth EXCEPT ![Exec(w)] = seen[w] + 1]
    /\ RouteSuccess(w, Matching(Key(w), out[w], FALSE))
    /\ UNCHANGED <<status, results, launch, queueVars, job, seen, out, faults>>

MarkSuccess(w) ==
    /\ pc[w] = "succeed"
    /\ status' = [status EXCEPT ![Exec(w)] = "SUCCESS"]
    /\ Goto(w, "finish")
    /\ UNCHANGED <<depth, results, launch, queueVars, job, seen, out, todo, faults>>

\* One add of enqueueTransitions.  The id carries Date.now(): a fresh stamp
\* makes a new job; the stamp of an add made in the same millisecond, its
\* job not yet taken, makes none.
AddStamped(w, t) ==
    \E s \in 1 .. MaxStamps :
        LET j == StampJob(Exec(w), t.dst, s)
        IN  /\ jobs[j] \in {"absent", "waiting"}
            /\ \A r \in 1 .. (s - 1) : jobs[StampJob(Exec(w), t.dst, r)] # "absent"
            /\ jobs' = Added(j)

EnqueueNext(w, t) ==
    /\ pc[w] \in {"enqueue", "fallback"}
    /\ t \in todo[w]
    /\ AddStamped(w, t)
    /\ todo' = [todo EXCEPT ![w] = @ \ {t}]
    /\ IF todo[w] = {t} THEN Goto(w, "finish") ELSE UNCHANGED pc
    /\ UNCHANGED <<rowVars, tries, stalls, lock, job, seen, out, faults>>

\* After the failed row: retry, take the fallback transitions, or fail.
\* Variant: the last attempt is not run.
RouteFailureOneShort(w) ==
    LET last == Att(w) >= MaxAttempts - 1
        next == IF last THEN Fallbacks(Key(w)) ELSE {}
    IN  /\ todo' = [todo EXCEPT ![w] = next]
        /\ Goto(w, IF ~last THEN "retry" ELSE IF next # {} THEN "fallback" ELSE "fail")

RouteFailure(w) ==
    LET last == Att(w) >= MaxAttempts
        next == IF last THEN Fallbacks(Key(w)) ELSE {}
    IN  /\ todo' = [todo EXCEPT ![w] = next]
        /\ Goto(w, IF ~last THEN "retry" ELSE IF next # {} THEN "fallback" ELSE "fail")

\* Variant: a row that exists is taken to mean that all is done.
RecordFailureForgiving(w) ==
    /\ pc[w] = "recordFailed"
    /\ IF Row(w) = "none"
       THEN /\ results' = [results EXCEPT ![Exec(w)][Key(w)][Att(w)] = "FAILED"]
            /\ RouteFailure(w)
       ELSE Goto(w, "finish") /\ UNCHANGED <<results, todo>>
    /\ UNCHANGED <<status, depth, launch, queueVars, job, seen, out, faults>>

\* recordFailedStep, inside the catch: a second row throws out of the
\* handler.
RecordFailure(w) ==
    /\ pc[w] = "recordFailed"
    /\ IF Row(w) = "none"
       THEN /\ results' = [results EXCEPT ![Exec(w)][Key(w)][Att(w)] = "FAILED"]
            /\ RouteFailure(w)
       ELSE Goto(w, "throw") /\ UNCHANGED <<results, todo>>
    /\ UNCHANGED <<status, depth, launch, queueVars, job, seen, out, faults>>

\* Variant: the retry reuses the job id of the attempt it follows.
ScheduleRetrySameId(w) ==
    /\ pc[w] = "retry"
    /\ jobs' = Added(AttemptJob(Exec(w), Key(w), Att(w)))
    /\ Goto(w, "finish")
    /\ UNCHANGED <<rowVars, tries, stalls, lock, job, seen, out, todo, faults>>

\* The next attempt is a job of its own, with backoff.
ScheduleRetry(w) ==
    /\ pc[w] = "retry"
    /\ jobs' = Added(AttemptJob(Exec(w), Key(w), Att(w) + 1))
    /\ Goto(w, "finish")
    /\ UNCHANGED <<rowVars, tries, stalls, lock, job, seen, out, todo, faults>>

FailExecution(w) ==
    /\ pc[w] = "fail"
    /\ status' = [status EXCEPT ![Exec(w)] = "FAILED"]
    /\ Goto(w, "finish")
    /\ UNCHANGED <<depth, results, launch, queueVars, job, seen, out, todo, faults>>

-----------------------------------------------------------------------------
(* The slot returns to BullMQ.  A slot that lost the job's lock is refused *)
(* and changes nothing in the queue.                                       *)

Release(w) ==
    /\ Goto(w, "idle")
    /\ job' = [job EXCEPT ![w] = NoJob]
    /\ seen' = [seen EXCEPT ![w] = 0]
    /\ out' = [out EXCEPT ![w] = "false"]
    /\ todo' = [todo EXCEPT ![w] = {}]

Finish(w) ==
    /\ pc[w] = "finish"
    /\ IF lock[job[w]] = w
       THEN /\ jobs' = [jobs EXCEPT ![job[w]] = "completed"]
            /\ lock' = [lock EXCEPT ![job[w]] = NoWorker]
       ELSE UNCHANGED <<jobs, lock>>
    /\ Release(w)
    /\ UNCHANGED <<rowVars, tries, stalls, faults>>

\* The handler rejected: BullMQ retries the job until its attempts are
\* used up; then it stays failed and workerFactory copies it to the DLQ.
Throw(w) ==
    /\ pc[w] = "throw"
    /\ IF lock[job[w]] = w
       THEN /\ tries' = [tries EXCEPT ![job[w]] = @ + 1]
            /\ jobs' = [jobs EXCEPT ![job[w]] =
                            IF tries[job[w]] + 1 < JobAttempts THEN "waiting" ELSE "failed"]
            /\ lock' = [lock EXCEPT ![job[w]] = NoWorker]
       ELSE UNCHANGED <<jobs, tries, lock>>
    /\ Release(w)
    /\ UNCHANGED <<rowVars, stalls, faults>>

\* A database or Redis call rejects.  Before and inside the catch the error
\* leaves the handler; in the try block it goes to the catch, which treats
\* it as a failure of the step.
Fault(w) ==
    /\ faults < MaxFaults
    /\ faults' = faults + 1
    /\ \/ /\ pc[w] \in {"record", "deepen", "enqueue", "succeed"}
          /\ Goto(w, "recordFailed")
       \/ /\ pc[w] \in {"load", "tooDeep", "recordFailed", "retry", "fallback", "fail", "finish"}
          /\ Goto(w, "throw")
    /\ UNCHANGED <<rowVars, queueVars, job, seen, out, todo>>

\* The process of slot w dies; its job keeps state active, unlocked.
Crash(w) ==
    /\ faults < MaxFaults
    /\ pc[w] # "idle"
    /\ faults' = faults + 1
    /\ lock' = [lock EXCEPT ![job[w]] = IF @ = w THEN NoWorker ELSE @]
    /\ Release(w)
    /\ UNCHANGED <<rowVars, jobs, tries, stalls>>

\* The lock of a live slot expires: it does not know, and works on.
LockExpires(w) ==
    /\ faults < MaxFaults
    /\ pc[w] # "idle"
    /\ lock[job[w]] = w
    /\ faults' = faults + 1
    /\ lock' = [lock EXCEPT ![job[w]] = NoWorker]
    /\ UNCHANGED <<rowVars, jobs, tries, stalls, slotVars>>

\* BullMQ's stalled check: an active job without a lock waits again, or
\* fails when it has stalled too often.
Redeliver(j) ==
    /\ jobs[j] = "active"
    /\ lock[j] = NoWorker
    /\ stalls' = [stalls EXCEPT ![j] = @ + 1]
    /\ jobs' = [jobs EXCEPT ![j] = IF stalls[j] < MaxStalled THEN "waiting" ELSE "failed"]
    /\ UNCHANGED <<rowVars, tries, lock, slotVars, faults>>

-----------------------------------------------------------------------------

Handle(w) ==
    \/ Load(w)
    \/ FailTooDeep(w)
    \/ RunStep(w)
    \/ RecordSuccess(w)
    \/ Deepen(w)
    \/ MarkSuccess(w)
    \/ \E t \in Transitions : EnqueueNext(w, t)
    \/ RecordFailure(w)
    \/ ScheduleRetry(w)
    \/ FailExecution(w)
    \/ Finish(w)
    \/ Throw(w)

Disturb(w) == Fault(w) \/ Crash(w) \/ LockExpires(w)

Next ==
    \/ \E e \in Execs : CreateExecution(e) \/ EnqueueTrigger(e) \/ LaunchLost(e) \/ Cancel(e)
    \/ \E w \in Workers, j \in JobIds : Take(w, j)
    \/ \E w \in Workers : Handle(w) \/ Disturb(w)
    \/ \E j \in JobIds : Redeliver(j)

Spec == Init /\ [][Next]_vars

\* The workers and BullMQ keep running: a slot's handler advances, an idle
\* slot takes some waiting job, the stalled check keeps sweeping.  Nothing
\* is assumed of the API, of operators or of faults.
Fairness ==
    /\ \A w \in Workers : WF_vars(Handle(w))
    /\ WF_vars(\E w \in Workers, j \in JobIds : Take(w, j))
    /\ WF_vars(\E j \in JobIds : Redeliver(j))

FairSpec == Spec /\ Fairness

-----------------------------------------------------------------------------
(* Properties.                                                             *)

\* The rows that say step k of e succeeded, and the outcome they settle on.
SuccessRows(e) == {r \in Keys \X Attempts : results[e][r[1]][r[2]] \in Outputs}

Outcome(e, k) ==
    IF \E a \in Attempts : results[e][k][a] \in Outputs
    THEN results[e][k][CHOOSE a \in Attempts : results[e][k][a] \in Outputs]
    ELSE IF results[e][k][MaxAttempts] = "FAILED" THEN "FAILED" ELSE "none"

\* A step succeeds at most once, whatever is redelivered, joined or stalled:
\* the row of an attempt exists only when every earlier attempt failed
\* (recordSuccessfulStep, recordFailedStep, scheduleRetry together with the
\* unique key of StepResult).
AttemptsLinear ==
    \A e \in Execs, k \in Keys, a \in Attempts :
        results[e][k][a] # "none" => \A b \in 1 .. (a - 1) : results[e][k][b] = "FAILED"

\* The timestamped job ids of enqueueTransitions do not deduplicate; still a
\* step is never queued more often than it has incoming transitions.
NoDuplicateFanOut ==
    \A e \in Execs, k \in Keys :
        Cardinality({s \in 1 .. MaxStamps : jobs[StampJob(e, k, s)] # "absent"})
            <= Cardinality({t \in Transitions : t.dst = k})

\* The depth counter, written back from a stale read, may fall behind the
\* steps that succeeded but never runs ahead of them, so max_depth never
\* ends an execution early.
DepthNeverOvercounts ==
    \A e \in Execs : depth[e] <= Cardinality(SuccessRows(e))

\* What an operator can find: a job of step k in the queue or in its failed set.
Traceable(e, k) ==
    \E j \in JobIds : j.exec = e /\ j.key = k /\ jobs[j] \in {"waiting", "active", "failed"}

\* A recorded outcome whose follow-up (next steps, fallback or retry) was
\* never queued leaves a job of that step behind: no crash, fault or lost
\* lock between the row and the adds makes a running execution lose a
\* branch without a trace.
NoLostFollowUp ==
    \A e \in Execs, k \in Keys :
        status[e] = "RUNNING" /\ ~Traceable(e, k) =>
            /\ \A t \in Opened(k, Outcome(e, k)) :
                    \E s \in 1 .. MaxStamps : jobs[StampJob(e, t.dst, s)] # "absent"
            /\ \A a \in 1 .. (MaxAttempts - 1) :
                    results[e][k][a] = "FAILED" => jobs[AttemptJob(e, k, a + 1)] # "absent"

\* The engine implements WorkflowFlow: a step settles once and only after an
\* outcome that opens it, and the status is only ever closed for a reason
\* the recorded rows show, under every interleaving of the handlers.
Flow == INSTANCE WorkflowFlow WITH
    phase <- status,
    settled <- [e \in Execs |-> [k \in Keys |-> Outcome(e, k)]]

ImplementsFlow == Flow!FlowSpec

\* An execution whose first job was queued is eventually closed, or one of
\* its jobs ends in the failed set where the DLQ alert sees it.
EventuallyClosed ==
    \A e \in Execs :
        status[e] = "RUNNING" /\ launch[e] = "queued" ~>
            \/ status[e] # "RUNNING"
            \/ \E j \in JobIds : j.exec = e /\ jobs[j] = "failed"

\* docs/workflows/template-customization-guide.md:31 promises that a failure
\* branch keeps a step's errors from failing the workflow: an execution does
\* not fail through an exhausted step that has an ON_FAILURE transition.
FailureBranchTaken ==
    \A e \in Execs : status[e] = "FAILED" =>
        ~ \E k \in Keys : /\ results[e][k][MaxAttempts] = "FAILED"
                          /\ \E t \in Transitions : t.src = k /\ t.route = "ON_FAILURE"
=============================================================================
