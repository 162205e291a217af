----------------------------- MODULE AgentTasks -----------------------------
(***************************************************************************)
(* Agent executions: the API records a live execution and queues its job,  *)
(* a worker runs the plan under the executor's lock, charges the agent's   *)
(* budget, keeps an output, writes the execution's status and tells the    *)
(* tenant.  The queue delivers at least once; every await is a step.       *)
(***************************************************************************)
EXTENDS JobQueue, PlanExecutor

CONSTANTS
    NoJob,     \* the job of an idle slot
    MaxFaults  \* bound: rejected calls, crashes, lost locks and expired keys

ASSUME TaskAssumption ==
    /\ Executions = Jobs  \* a job's id is tenantId:executionId
    /\ NoJob \notin Jobs
    /\ MaxFaults \in Nat

VARIABLES
    kind,       \* kind[e]: how e was asked for
    launch,     \* launch[e]: how far the API got with e
    status,     \* AgentExecution.status, or "none" without a row
    ran,        \* ran[e]: plans of e whose tools all ran
    charged,    \* charged[e]: AgentBudgetEvents of kind CONSUME for e
    outputs,    \* outputs[e]: OutputArtifacts of e
    announced,  \* announced[e]: outcomes of e whose fan-out to the tenant ended
    value,      \* value[e]: the outcome that e's job completed with
    overruled,  \* executions whose handler lost its job's lock, or whose
                \* request was answered with an error after the job was queued
    pc,         \* pc[s]: the await that slot s is at
    job,        \* job[s]: its job
    out,        \* out[s]: the outcome it has come to
    faults      \* faults so far

historyVars == <<ran, charged, outputs, announced>>
slotVars    == <<pc, job, out>>
vars == <<queueVars, planVars, kind, launch, status, historyVars, value, overruled, slotVars,
          faults>>

\* "installed" is queued by the API with its row; the legacy queue's jobs
\* bring their own mode.
Kinds    == {"installed", "task", "dry", "approval"}
Launches == {"none", "created", "queued", "done"}
Outcomes == {"SUCCESS", "WAITING_APPROVAL", "FAILED"}
PCs == {"idle", "start", "billing", "block", "tellBlocked", "preflight", "peek", "lock", "plan",
        "store", "unlock", "drop", "charge", "output", "finish", "tell", "done", "markFailed",
        "tellFailed", "throw"}

Live(e)    == kind[e] \in {"installed", "task"}
Running(e) == {s \in Slots : job[s] = e /\ pc[s] \in {"plan", "store", "unlock", "drop"}}

Decided    == {"block", "tellBlocked", "finish", "tell", "done", "tellFailed"}

\* Types, and no handler writes or announces an outcome it has not come to.
TypeOK ==
    /\ QueueTypeOK /\ PlanTypeOK
    /\ kind \in [Jobs -> Kinds]
    /\ launch \in [Jobs -> Launches]
    /\ status \in [Jobs -> Outcomes \cup {"none", "RUNNING"}]
    /\ ran \in [Jobs -> Nat] /\ charged \in [Jobs -> Nat] /\ outputs \in [Jobs -> Nat]
    /\ announced \in [Jobs -> SUBSET Outcomes]
    /\ value \in [Jobs -> Outcomes \cup {"none"}]
    /\ overruled \subseteq Jobs
    /\ pc \in [Slots -> PCs]
    /\ job \in [Slots -> Jobs \cup {NoJob}]
    /\ \A s \in Slots : pc[s] # "idle" => job[s] \in Jobs
    /\ out \in [Slots -> Outcomes \cup {"none"}]
    /\ \A s \in Slots : pc[s] \in Decided => out[s] \in Outcomes
    /\ faults \in 0 .. MaxFaults

Init ==
    /\ QueueInit /\ PlanInit
    /\ kind \in [Jobs -> Kinds]
    /\ launch = [e \in Jobs |-> "none"]
    /\ status = [e \in Jobs |-> "none"]
    /\ ran = [e \in Jobs |-> 0] /\ charged = [e \in Jobs |-> 0] /\ outputs = [e \in Jobs |-> 0]
    /\ announced = [e \in Jobs |-> {}]
    /\ value = [e \in Jobs |-> "none"]
    /\ overruled = {}
    /\ pc = [s \in Slots |-> "idle"]
    /\ job = [s \in Slots |-> NoJob]
    /\ out = [s \in Slots |-> "none"]
    /\ faults = 0

Goto(s, label)  == pc' = [pc EXCEPT ![s] = label]
Settle(s, o)    == out' = [out EXCEPT ![s] = o]
Mark(e, o)      == status' = [status EXCEPT ![e] = o]
Count(f, e)     == [f EXCEPT ![e] = @ + 1]
Reached(e, at)  == launch' = [launch EXCEPT ![e] = at]
Tell(e, o)      == announced' = [announced EXCEPT ![e] = @ \cup {o}]
Trouble         == faults < MaxFaults /\ faults' = faults + 1

-----------------------------------------------------------------------------
(* The API: queueInstalledAgentExecution and enqueueTask.                  *)

CreateExecution(e) ==
    /\ kind[e] = "installed" /\ launch[e] = "none"
    /\ Mark(e, "RUNNING")
    /\ Reached(e, "created")
    /\ UNCHANGED <<queueVars, planVars, kind, historyVars, value, overruled, slotVars, faults>>

Enqueue(e) ==
    /\ launch[e] = "created"
    /\ Add(e)
    /\ Reached(e, "queued")
    /\ UNCHANGED <<planVars, kind, status, historyVars, value, overruled, slotVars, faults>>

\* The rate limit or the backlog refuses the job.  Variant: the row is left.
RefuseQuietly(e) ==
    /\ launch[e] = "created"
    /\ Reached(e, "done")
    /\ UNCHANGED <<queueVars, planVars, kind, status, historyVars, value, overruled, slotVars,
                   faults>>

Refuse(e) ==
    /\ launch[e] = "created"
    /\ Mark(e, "FAILED")
    /\ Reached(e, "done")
    /\ UNCHANGED <<queueVars, planVars, kind, historyVars, value, overruled, slotVars, faults>>

Accept(e) ==
    /\ launch[e] = "queued"
    /\ Reached(e, "done")
    /\ UNCHANGED <<queueVars, planVars, kind, status, historyVars, value, overruled, slotVars,
                   faults>>

\* The update after the add rejects, and the catch takes it for a refusal.
AcceptFails(e) ==
    /\ launch[e] = "queued"
    /\ Trouble
    /\ Mark(e, "FAILED")
    /\ Reached(e, "done")
    /\ overruled' = overruled \cup {e}
    /\ UNCHANGED <<queueVars, planVars, kind, historyVars, value, slotVars>>

\* The API's process dies in between, or its catch fails too.
LaunchLost(e) ==
    /\ launch[e] \in {"created", "queued"}
    /\ Trouble
    /\ Reached(e, "done")
    /\ UNCHANGED <<queueVars, planVars, kind, status, historyVars, value, overruled, slotVars>>

EnqueueTask(e) ==
    /\ kind[e] # "installed" /\ launch[e] = "none"
    /\ Add(e)
    /\ Reached(e, "done")
    /\ UNCHANGED <<planVars, kind, status, historyVars, value, overruled, slotVars, faults>>

-----------------------------------------------------------------------------
(* createJobProcessor, one await per action.                               *)

Take(s, e) ==
    /\ pc[s] = "idle"
    /\ Claim(s, e)
    /\ job' = [job EXCEPT ![s] = e]
    /\ Goto(s, "start")
    /\ UNCHANGED <<planVars, kind, launch, status, historyVars, value, overruled, out, faults>>

\* persistExecutionStarted: an upsert, whatever the row says.
Start(s) ==
    /\ pc[s] = "start"
    /\ Mark(job[s], "RUNNING")
    /\ Goto(s, "billing")
    /\ UNCHANGED <<queueVars, planVars, kind, launch, historyVars, value, overruled, job, out,
                   faults>>

\* resolveBillingLock; an unlocked job goes where its mode sends it.
CheckBilling(s) ==
    /\ pc[s] = "billing"
    /\ \/ Goto(s, "block") /\ Settle(s, "FAILED")
       \/ /\ Live(job[s])
          /\ Goto(s, "preflight") /\ UNCHANGED out
       \/ /\ ~Live(job[s])
          /\ Goto(s, "finish")
          /\ Settle(s, IF kind[job[s]] = "dry" THEN "SUCCESS" ELSE "WAITING_APPROVAL")
    /\ UNCHANGED <<queueVars, planVars, kind, launch, status, historyVars, value, overruled, job,
                   faults>>

\* Variant: the row is left as it is.
BlockQuietly(s) ==
    /\ pc[s] = "block"
    /\ Goto(s, "tellBlocked")
    /\ UNCHANGED <<queueVars, planVars, kind, launch, status, historyVars, value, overruled, job,
                   out, faults>>

Block(s) ==
    /\ pc[s] = "block"
    /\ Mark(job[s], "FAILED")
    /\ Goto(s, "tellBlocked")
    /\ UNCHANGED <<queueVars, planVars, kind, launch, historyVars, value, overruled, job, out,
                   faults>>

\* ensureBudgetHeadroom; other executions of the agent share the budget.
Preflight(s) ==
    /\ pc[s] = "preflight"
    /\ Goto(s, "peek") \/ Goto(s, "markFailed")
    /\ UNCHANGED <<queueVars, planVars, kind, launch, status, historyVars, value, overruled, job,
                   out, faults>>

Peek(s) ==
    /\ pc[s] = "peek"
    /\ Goto(s, IF cached[job[s]] THEN "charge" ELSE "lock")
    /\ UNCHANGED <<queueVars, planVars, kind, launch, status, historyVars, value, overruled, job,
                   out, faults>>

Lock(s) ==
    /\ pc[s] = "lock"
    /\ Acquire(job[s])
    /\ Goto(s, "plan")
    /\ UNCHANGED <<queueVars, kind, launch, status, historyVars, value, overruled, job, out,
                   faults>>

\* "is already running"
Locked(s) ==
    /\ pc[s] = "lock"
    /\ planLock[job[s]]
    /\ Goto(s, "markFailed")
    /\ UNCHANGED <<queueVars, planVars, kind, launch, status, historyVars, value, overruled, job,
                   out, faults>>

\* The tools run in sequence; one that keeps failing, the deadline, the cost
\* ceiling or the plan's size ends the plan.
RunPlan(s) ==
    /\ pc[s] = "plan"
    /\ \/ Goto(s, "store") /\ ran' = Count(ran, job[s])
       \/ Goto(s, "drop") /\ UNCHANGED ran
    /\ UNCHANGED <<queueVars, planVars, kind, launch, status, charged, outputs, announced, value,
                   overruled, job, out, faults>>

StoreResult(s) ==
    /\ pc[s] = "store"
    /\ Store(job[s])
    /\ Goto(s, "unlock")
    /\ UNCHANGED <<queueVars, kind, launch, status, historyVars, value, overruled, job, out,
                   faults>>

\* The finally block of a plan that ended well ("unlock") or not ("drop").
\* Variant: it returns in either case.
ReleaseAndReturn(s) ==
    /\ pc[s] \in {"unlock", "drop"}
    /\ Unlock(job[s])
    /\ Goto(s, "charge")
    /\ UNCHANGED <<queueVars, kind, launch, status, historyVars, value, overruled, job, out,
                   faults>>

ReleasePlan(s) ==
    /\ pc[s] \in {"unlock", "drop"}
    /\ Unlock(job[s])
    /\ Goto(s, IF pc[s] = "unlock" THEN "charge" ELSE "markFailed")
    /\ UNCHANGED <<queueVars, kind, launch, status, historyVars, value, overruled, job, out,
                   faults>>

\* consumeBudget
Charge(s) ==
    /\ pc[s] = "charge"
    /\ charged' = Count(charged, job[s])
    /\ Goto(s, "output")
    /\ UNCHANGED <<queueVars, planVars, kind, launch, status, ran, outputs, announced, value,
                   overruled, job, out, faults>>

\* createOutputArtifact; governance decides on the outcome.  Variant: it
\* does not.
CreateOutputUndecided(s) ==
    /\ pc[s] = "output"
    /\ outputs' = Count(outputs, job[s])
    /\ Goto(s, "finish")
    /\ UNCHANGED <<queueVars, planVars, kind, launch, status, ran, charged, announced, value,
                   overruled, job, out, faults>>

CreateOutput(s) ==
    /\ pc[s] = "output"
    /\ outputs' = Count(outputs, job[s])
    /\ \E o \in {"SUCCESS", "WAITING_APPROVAL"} : Settle(s, o)
    /\ Goto(s, "finish")
    /\ UNCHANGED <<queueVars, planVars, kind, launch, status, ran, charged, announced, value,
                   overruled, job, faults>>

\* persistExecutionFinished; only live runs are announced.  Variant: approvals
\* are not announced.
FinishQuietly(s) ==
    /\ pc[s] = "finish"
    /\ Mark(job[s], out[s])
    /\ Goto(s, IF Live(job[s]) /\ out[s] = "SUCCESS" THEN "tell" ELSE "done")
    /\ UNCHANGED <<queueVars, planVars, kind, launch, historyVars, value, overruled, job, out,
                   faults>>

Finish(s) ==
    /\ pc[s] = "finish"
    /\ Mark(job[s], out[s])
    /\ Goto(s, IF Live(job[s]) THEN "tell" ELSE "done")
    /\ UNCHANGED <<queueVars, planVars, kind, launch, historyVars, value, overruled, job, out,
                   faults>>

\* fanOutExecutionOutcome of an outcome that completes the job.
Announce(s) ==
    /\ pc[s] \in {"tell", "tellBlocked"}
    /\ Tell(job[s], out[s])
    /\ Goto(s, "done")
    /\ UNCHANGED <<queueVars, planVars, kind, launch, status, ran, charged, outputs, value,
                   overruled, job, out, faults>>

\* The catch.  Variant: the row is left as it is.
MarkFailedNever(s) ==
    /\ pc[s] = "markFailed"
    /\ Settle(s, "FAILED")
    /\ Goto(s, "tellFailed")
    /\ UNCHANGED <<queueVars, planVars, kind, launch, status, historyVars, value, overruled, job,
                   faults>>

MarkFailed(s) ==
    /\ pc[s] = "markFailed"
    /\ Mark(job[s], "FAILED")
    /\ Settle(s, "FAILED")
    /\ Goto(s, "tellFailed")
    /\ UNCHANGED <<queueVars, planVars, kind, launch, historyVars, value, overruled, job, faults>>

AnnounceFailed(s) ==
    /\ pc[s] = "tellFailed"
    /\ Tell(job[s], "FAILED")
    /\ Goto(s, "throw")
    /\ UNCHANGED <<queueVars, planVars, kind, launch, status, ran, charged, outputs, value,
                   overruled, job, out, faults>>

Release(s) ==
    /\ Goto(s, "idle")
    /\ job' = [job EXCEPT ![s] = NoJob]
    /\ Settle(s, "none")

Done(s) ==
    /\ pc[s] = "done"
    /\ Complete(s, job[s])
    /\ value' = IF lock[job[s]] = s THEN [value EXCEPT ![job[s]] = out[s]] ELSE value
    /\ Release(s)
    /\ UNCHANGED <<planVars, kind, launch, status, historyVars, overruled, faults>>

Throw(s) ==
    /\ pc[s] = "throw"
    /\ Reject(s, job[s])
    /\ Release(s)
    /\ UNCHANGED <<planVars, kind, launch, status, historyVars, value, overruled, faults>>

-----------------------------------------------------------------------------
(* What goes wrong around it.                                              *)

\* A database or Redis call rejects: out of the handler before its try block
\* and in its catch, through the executor's finally block, or into the catch.
Fault(s) ==
    /\ Trouble
    /\ \/ /\ pc[s] \in {"start", "markFailed", "tellFailed"}
          /\ Goto(s, "throw")
       \/ /\ pc[s] \in {"plan", "store"}
          /\ Goto(s, "drop")
       \/ /\ pc[s] \in {"billing", "block", "tellBlocked", "preflight", "peek", "lock", "unlock",
                        "drop", "charge", "output", "finish", "tell"}
          /\ Goto(s, "markFailed")
    /\ UNCHANGED <<queueVars, planVars, kind, launch, status, historyVars, value, overruled, job,
                   out>>

Crash(s) ==
    /\ Trouble
    /\ pc[s] # "idle"
    /\ Abandon(s, job[s])
    /\ Release(s)
    /\ UNCHANGED <<planVars, kind, launch, status, historyVars, value, overruled>>

LockExpires(s) ==
    /\ Trouble
    /\ pc[s] # "idle"
    /\ lock[job[s]] = s
    /\ Abandon(s, job[s])
    /\ overruled' = overruled \cup {job[s]}
    /\ UNCHANGED <<planVars, kind, launch, status, historyVars, value, slotVars>>

\* A key of the executor runs out of time.
KeyLapses(e) ==
    /\ Trouble
    /\ LockLapses(e) \/ ResultLapses(e)
    /\ UNCHANGED <<queueVars, kind, launch, status, historyVars, value, overruled, slotVars>>

StalledCheck(e) ==
    /\ Redeliver(e)
    /\ UNCHANGED <<planVars, kind, launch, status, historyVars, value, overruled, slotVars,
                   faults>>

-----------------------------------------------------------------------------

Request(e) ==
    \/ CreateExecution(e)
    \/ Enqueue(e)
    \/ Refuse(e)
    \/ Accept(e)
    \/ AcceptFails(e)
    \/ LaunchLost(e)
    \/ EnqueueTask(e)

Handle(s) ==
    \/ Start(s) \/ CheckBilling(s) \/ Block(s) \/ Preflight(s)
    \/ Peek(s) \/ Lock(s) \/ Locked(s) \/ RunPlan(s) \/ StoreResult(s) \/ ReleasePlan(s)
    \/ Charge(s) \/ CreateOutput(s) \/ Finish(s) \/ Announce(s)
    \/ MarkFailed(s) \/ AnnounceFailed(s) \/ Done(s) \/ Throw(s)

Next ==
    \/ \E e \in Jobs : Request(e) \/ KeyLapses(e) \/ StalledCheck(e)
    \/ \E s \in Slots, e \in Jobs : Take(s, e)
    \/ \E s \in Slots : Handle(s) \/ Fault(s) \/ Crash(s) \/ LockExpires(s)

Spec == Init /\ [][Next]_vars

\* The workers run: handlers advance, waiting jobs are taken, the stalled
\* check sweeps.  Nothing is assumed of the API, of expiry or of faults.
Fairness ==
    /\ \A s \in Slots : WF_vars(Handle(s))
    /\ WF_vars(\E s \in Slots, e \in Jobs : Take(s, e))
    /\ WF_vars(\E e \in Jobs : StalledCheck(e))

FairSpec == Spec /\ Fairness

-----------------------------------------------------------------------------
(* What the handlers must get right.                                       *)

\* Two handlers run the plan of an execution at the same time only if its
\* lock ran out of time: a retry, a redelivered job and the handler it was
\* taken from never do, although the executor deletes a lock without asking
\* whose it is.
OneRunnerPerLease ==
    \A e \in Jobs : Cardinality(Running(e)) <= 1 + lapses[e]

\* A live job that completed told the tenant the outcome it completed with,
\* and unless that is FAILED it was charged and left an output.
NothingCompletesSilently ==
    \A e \in Jobs : jobs[e] = "completed" /\ Live(e) =>
        /\ value[e] \in announced[e]
        /\ value[e] # "FAILED" => charged[e] > 0 /\ outputs[e] > 0

\* The row of a completed job says what the job completed with, unless a
\* handler lost the job's lock, or the API took the job for refused: then an
\* older handler, or the API, may write last.
RowAgreesWithJob ==
    \A e \in Jobs : jobs[e] = "completed" /\ e \notin overruled => status[e] = value[e]

\* Nobody is charged for a plan that did not run to its end, no output is
\* kept that was not charged, and every charge or run too many has a fault.
ChargesPaidFor ==
    \A e \in Jobs :
        /\ charged[e] > 0 => ran[e] > 0
        /\ outputs[e] <= charged[e]
        /\ charged[e] <= 1 + faults
        /\ ran[e] <= 1 + faults

\* An execution that nobody works on any more is RUNNING for ever only after
\* a fault: neither a refused job, nor a failing plan, nor the last attempt
\* leaves one.
OrphansNeedAFault ==
    \A e \in Jobs :
        status[e] = "RUNNING" /\ launch[e] = "done" /\ jobs[e] \notin {"waiting", "active"}
            /\ (\A s \in Slots : job[s] # e)
        => faults > 0

\* A queued job ends completed or failed, and without a fault its execution
\* has an outcome by then.
EventuallySettled ==
    \A e \in Jobs :
        jobs[e] = "waiting" ~> /\ jobs[e] \in {"completed", "failed"}
                               /\ faults = 0 => status[e] \in Outcomes

\* docs/architecture/Agent-Registry-Execution.md:12 has the executor's lock
\* rule out that a redelivered execution is billed again.  The lock and the
\* cached result keep its tools from running again; the budget is charged
\* after them, and once more for the cached result.
ChargedOnce ==
    \A e \in Jobs : charged[e] <= 1
=============================================================================
