-------------------------- MODULE OutboundWebhooks --------------------------
(***************************************************************************)
(* One tenant webhook endpoint, the jobs that deliver events to it, and    *)
(* the breaker that disables it after a run of failures.                   *)
(*                                                                         *)
(* processOutboundWebhookJob reads the endpoint once, creates a            *)
(* WebhookDelivery row, calls the receiver and then writes the row and the *)
(* endpoint from what it read before the call.  Every await is a step, so  *)
(* other deliveries and the tenant's administrator act in between.         *)
(***************************************************************************)
EXTENDS JobQueue

CONSTANTS
    NoJob,      \* the job of an idle slot
    Threshold,  \* consecutive failures that disable an endpoint (10)
    MaxEdits,   \* bound: administrator's updates of the endpoint
    MaxFaults   \* bound: failed calls, late answers, crashes, lost locks

ASSUME WebhookAssumption ==
    /\ Threshold \in Nat \ {0}
    /\ MaxEdits \in Nat /\ MaxFaults \in Nat
    /\ NoJob \notin Jobs

VARIABLES
    status,      \* WebhookEndpoint.status
    failures,    \* WebhookEndpoint.consecutiveFailures
    subscribed,  \* the event's topic is in WebhookEndpoint.topics
    edits,       \* administrator's updates so far
    switchedOff, \* an administrator has disabled the endpoint before
    due,         \* deliveries that a publisher selected the endpoint for
    logged,      \* jobs with a WebhookDelivery row
    missed,      \* the WebhookDelivery rows whose success is false
    delivered,   \* delivered[j]: rows of job j whose success is true
    received,    \* received[j]: requests for j that the receiver accepted
    value,       \* value[j]: what job j completed with
    streak,      \* failed attempts since a success or an update
    pc,          \* pc[s]: the await that slot s is at
    job,         \* job[s]: its job
    seen,        \* seen[s]: endpoint.consecutiveFailures as it was read
    answer,      \* answer[s]: how the attempt has gone
    faults       \* faults so far

endpointVars == <<status, failures, streak>>
adminVars    == <<subscribed, edits, switchedOff, due>>
rowVars      == <<logged, missed, delivered>>
slotVars     == <<pc, job, seen, answer>>
vars == <<queueVars, endpointVars, adminVars, rowVars, received, value, slotVars, faults>>

Endpoint == {"ACTIVE", "DISABLED"}
PCs      == {"idle", "load", "log", "limit", "call", "note", "write", "explain",
             "penalise", "finish", "throw"}
Answers  == {"none", "skipped", "ok", "refused", "error"}

TypeOK ==
    /\ QueueTypeOK
    /\ status \in Endpoint
    /\ failures \in Nat /\ streak \in Nat
    /\ subscribed \in BOOLEAN /\ switchedOff \in BOOLEAN
    /\ edits \in 0 .. MaxEdits
    /\ due \subseteq Jobs /\ logged \subseteq Jobs
    /\ missed \in Nat
    /\ delivered \in [Jobs -> Nat]
    /\ received \in [Jobs -> Nat]
    /\ value \in [Jobs -> {"none", "skipped", "ok"}]
    /\ pc \in [Slots -> PCs]
    /\ job \in [Slots -> Jobs \cup {NoJob}]
    /\ \A s \in Slots : pc[s] # "idle" => job[s] \in Jobs
    /\ seen \in [Slots -> Nat]
    /\ answer \in [Slots -> Answers]
    /\ faults \in 0 .. MaxFaults

Init ==
    /\ QueueInit
    /\ status = "ACTIVE" /\ failures = 0 /\ streak = 0
    /\ subscribed = TRUE /\ switchedOff = FALSE /\ edits = 0
    /\ due = {} /\ logged = {} /\ missed = 0
    /\ delivered = [j \in Jobs |-> 0]
    /\ received = [j \in Jobs |-> 0]
    /\ value = [j \in Jobs |-> "none"]
    /\ pc = [s \in Slots |-> "idle"]
    /\ job = [s \in Slots |-> NoJob]
    /\ seen = [s \in Slots |-> 0]
    /\ answer = [s \in Slots |-> "none"]
    /\ faults = 0

Goto(s, label)  == pc' = [pc EXCEPT ![s] = label]
Became(s, a)    == answer' = [answer EXCEPT ![s] = a]
On              == status = "ACTIVE" /\ subscribed

-----------------------------------------------------------------------------
(* The administrator and the publishers.                                   *)

\* updateTenantWebhookEndpoint
SetStatus(new) ==
    /\ edits < MaxEdits
    /\ edits' = edits + 1
    /\ status' = new
    /\ streak' = 0
    /\ switchedOff' = (switchedOff \/ new = "DISABLED")
    /\ UNCHANGED <<queueVars, failures, subscribed, due, rowVars, received, value, slotVars, faults>>

SetTopics ==
    /\ edits < MaxEdits
    /\ edits' = edits + 1
    /\ subscribed' = ~subscribed
    /\ UNCHANGED <<queueVars, endpointVars, switchedOff, due, rowVars, received, value, slotVars,
                   faults>>

\* enqueueWebhookTopicDeliveries: the query, then the adds.
Publish(j) ==
    /\ On
    /\ jobs[j] = "absent" /\ j \notin due
    /\ due' = due \cup {j}
    /\ UNCHANGED <<queueVars, endpointVars, subscribed, edits, switchedOff, rowVars, received,
                   value, slotVars, faults>>

Enqueue(j) ==
    /\ j \in due
    /\ Add(j)
    /\ due' = due \ {j}
    /\ UNCHANGED <<endpointVars, subscribed, edits, switchedOff, rowVars, received, value,
                   slotVars, faults>>

\* retryWebhookDelivery: any recorded delivery, whatever the endpoint's state.
RetryDelivery(j) ==
    /\ logged # {}
    /\ j \notin due
    /\ Add(j)
    /\ UNCHANGED <<endpointVars, adminVars, rowVars, received, value, slotVars, faults>>

-----------------------------------------------------------------------------
(* processOutboundWebhookJob, one await per action.                        *)

Take(s, j) ==
    /\ pc[s] = "idle"
    /\ Claim(s, j)
    /\ job' = [job EXCEPT ![s] = j]
    /\ Goto(s, "load")
    /\ UNCHANGED <<endpointVars, adminVars, rowVars, received, value, seen, answer, faults>>

Load(s) ==
    /\ pc[s] = "load"
    /\ seen' = [seen EXCEPT ![s] = failures]
    /\ IF On THEN Goto(s, "log") /\ UNCHANGED answer
             ELSE Goto(s, "finish") /\ Became(s, "skipped")
    /\ UNCHANGED <<queueVars, endpointVars, adminVars, rowVars, received, value, job, faults>>

\* webhookDelivery.create, one row per attempt.  Variant: one row per job.
LogDeliveryOnce(s) ==
    /\ pc[s] = "log"
    /\ logged' = logged \cup {job[s]}
    /\ missed' = IF job[s] \in logged THEN missed ELSE missed + 1
    /\ Goto(s, "limit")
    /\ UNCHANGED <<queueVars, endpointVars, adminVars, delivered, received, value, job, seen,
                   answer, faults>>

LogDelivery(s) ==
    /\ pc[s] = "log"
    /\ logged' = logged \cup {job[s]}
    /\ missed' = missed + 1
    /\ Goto(s, "limit")
    /\ UNCHANGED <<queueVars, endpointVars, adminVars, delivered, received, value, job, seen,
                   answer, faults>>

\* limiter.consume: the window of this tenant and host is shared with other
\* deliveries; being over it is an error of the attempt.
Limit(s) ==
    /\ pc[s] = "limit"
    /\ \/ Goto(s, "call") /\ UNCHANGED answer
       \/ Goto(s, "explain") /\ Became(s, "error")
    /\ UNCHANGED <<queueVars, endpointVars, adminVars, rowVars, received, value, job, seen, faults>>

\* dispatchHttpRequest: accepted, answered with an error status, or no answer.
Call(s) ==
    /\ pc[s] = "call"
    /\ \/ /\ Goto(s, "note") /\ Became(s, "ok")
          /\ received' = [received EXCEPT ![job[s]] = @ + 1]
       \/ Goto(s, "note") /\ Became(s, "refused") /\ UNCHANGED received
       \/ Goto(s, "explain") /\ Became(s, "error") /\ UNCHANGED received
    /\ UNCHANGED <<queueVars, endpointVars, adminVars, rowVars, value, job, seen, faults>>

\* External: the receiver accepts, and answers after the timer has aborted.
LateAnswer(s) ==
    /\ pc[s] = "call"
    /\ faults < MaxFaults
    /\ faults' = faults + 1
    /\ received' = [received EXCEPT ![job[s]] = @ + 1]
    /\ Goto(s, "explain") /\ Became(s, "error")
    /\ UNCHANGED <<queueVars, endpointVars, adminVars, rowVars, value, job, seen>>

\* webhookDelivery.update with the answer.  Variant: any answer is a success.
NoteAnyAnswer(s) ==
    /\ pc[s] = "note"
    /\ delivered' = [delivered EXCEPT ![job[s]] = @ + 1]
    /\ missed' = missed - 1
    /\ Goto(s, "write")
    /\ UNCHANGED <<queueVars, endpointVars, adminVars, logged, received, value, job, seen, answer,
                   faults>>

Note(s) ==
    /\ pc[s] = "note"
    /\ IF answer[s] = "ok"
       THEN /\ delivered' = [delivered EXCEPT ![job[s]] = @ + 1]
            /\ missed' = missed - 1
       ELSE UNCHANGED <<delivered, missed>>
    /\ Goto(s, "write")
    /\ UNCHANGED <<queueVars, endpointVars, adminVars, logged, received, value, job, seen, answer,
                   faults>>

\* webhookEndpoint.update of a failed attempt, from the count read at load.
\* Variant: one failure too few disables.
PenaltyEarly(s) ==
    /\ failures' = seen[s] + 1
    /\ status' = IF seen[s] + 1 >= Threshold - 1 THEN "DISABLED" ELSE "ACTIVE"
    /\ streak' = streak + 1

Penalty(s) ==
    /\ failures' = seen[s] + 1
    /\ status' = IF seen[s] + 1 >= Threshold THEN "DISABLED" ELSE "ACTIVE"
    /\ streak' = streak + 1

\* webhookEndpoint.update after an answer; an error status then throws.
Write(s) ==
    /\ pc[s] = "write"
    /\ IF answer[s] = "ok"
       THEN failures' = 0 /\ streak' = 0 /\ UNCHANGED status /\ Goto(s, "finish")
       ELSE Penalty(s) /\ Goto(s, "explain")
    /\ UNCHANGED <<queueVars, adminVars, rowVars, received, value, job, seen, answer, faults>>

\* The catch: the row gets the error's message; an error status was counted
\* already.  Variants: the error is swallowed; it is retried on the spot.
ExplainSwallow(s) ==
    /\ pc[s] = "explain"
    /\ Goto(s, IF answer[s] = "refused" THEN "finish" ELSE "penalise")
    /\ UNCHANGED <<queueVars, endpointVars, adminVars, rowVars, received, value, job, seen, answer,
                   faults>>

ExplainRetry(s) ==
    /\ pc[s] = "explain"
    /\ Goto(s, IF answer[s] = "refused" THEN "throw" ELSE "limit")
    /\ UNCHANGED <<queueVars, endpointVars, adminVars, rowVars, received, value, job, seen, answer,
                   faults>>

Explain(s) ==
    /\ pc[s] = "explain"
    /\ Goto(s, IF answer[s] = "refused" THEN "throw" ELSE "penalise")
    /\ UNCHANGED <<queueVars, endpointVars, adminVars, rowVars, received, value, job, seen, answer,
                   faults>>

PenaliseError(s) ==
    /\ pc[s] = "penalise"
    /\ Penalty(s)
    /\ Goto(s, "throw")
    /\ UNCHANGED <<queueVars, adminVars, rowVars, received, value, job, seen, answer, faults>>

Release(s) ==
    /\ Goto(s, "idle")
    /\ job' = [job EXCEPT ![s] = NoJob]
    /\ seen' = [seen EXCEPT ![s] = 0]
    /\ Became(s, "none")

Finish(s) ==
    /\ pc[s] = "finish"
    /\ Complete(s, job[s])
    /\ value' = IF lock[job[s]] = s THEN [value EXCEPT ![job[s]] = answer[s]] ELSE value
    /\ Release(s)
    /\ UNCHANGED <<endpointVars, adminVars, rowVars, received, faults>>

Throw(s) ==
    /\ pc[s] = "throw"
    /\ Reject(s, job[s])
    /\ Release(s)
    /\ UNCHANGED <<endpointVars, adminVars, rowVars, received, value, faults>>

-----------------------------------------------------------------------------
(* What goes wrong around it.                                              *)

\* A database call rejects: into the catch from inside the try block (with a
\* message that may include the word "status", like that of an error status),
\* out of the handler from before it or from the catch itself.
Fault(s) ==
    /\ faults < MaxFaults
    /\ faults' = faults + 1
    /\ \/ /\ pc[s] \in {"note", "write"}
          /\ Goto(s, "explain")
          /\ Became(s, "error") \/ Became(s, "refused")
       \/ pc[s] \in {"load", "log", "explain", "penalise"} /\ Goto(s, "throw") /\ UNCHANGED answer
    /\ UNCHANGED <<queueVars, endpointVars, adminVars, rowVars, received, value, job, seen>>

Crash(s) ==
    /\ faults < MaxFaults
    /\ pc[s] # "idle"
    /\ faults' = faults + 1
    /\ Abandon(s, job[s])
    /\ Release(s)
    /\ UNCHANGED <<endpointVars, adminVars, rowVars, received, value>>

LockExpires(s) ==
    /\ faults < MaxFaults
    /\ pc[s] # "idle"
    /\ lock[job[s]] = s
    /\ faults' = faults + 1
    /\ Abandon(s, job[s])
    /\ UNCHANGED <<endpointVars, adminVars, rowVars, received, value, slotVars>>

StalledCheck(j) ==
    /\ Redeliver(j)
    /\ UNCHANGED <<endpointVars, adminVars, rowVars, received, value, slotVars, faults>>

-----------------------------------------------------------------------------

Handle(s) ==
    \/ Load(s)
    \/ LogDelivery(s)
    \/ Limit(s)
    \/ Call(s)
    \/ Note(s)
    \/ Write(s)
    \/ Explain(s)
    \/ PenaliseError(s)
    \/ Finish(s)
    \/ Throw(s)

Disturb(s) == LateAnswer(s) \/ Fault(s) \/ Crash(s) \/ LockExpires(s)

Next ==
    \/ \E new \in Endpoint : SetStatus(new)
    \/ SetTopics
    \/ \E j \in Jobs : Publish(j) \/ Enqueue(j) \/ RetryDelivery(j) \/ StalledCheck(j)
    \/ \E s \in Slots, j \in Jobs : Take(s, j)
    \/ \E s \in Slots : Handle(s) \/ Disturb(s)

Spec == Init /\ [][Next]_vars

\* The workers run: handlers advance, waiting jobs are taken, the stalled
\* check sweeps.  Nothing is assumed of publishers, administrators or faults.
Fairness ==
    /\ \A s \in Slots : WF_vars(Handle(s))
    /\ WF_vars(\E s \in Slots, j \in Jobs : Take(s, j))
    /\ WF_vars(\E j \in Jobs : StalledCheck(j))

FairSpec == Spec /\ Fairness

-----------------------------------------------------------------------------
(* Properties.                                                             *)

\* A delivery job that completes was skipped because the endpoint was off, or
\* its history holds a successful row for a request the receiver accepted:
\* no error path of the handler ends a job quietly.
NothingLostQuietly ==
    \A j \in Jobs :
        jobs[j] = "completed" =>
            value[j] = "skipped" \/ (delivered[j] > 0 /\ received[j] > 0)

\* Each fault, late answer, crash or lost lock costs the receiver at most one
\* repetition of a delivery and the history at most one success it does not
\* show; without them delivery is exactly once.
OneRepetitionPerFault ==
    \A j \in Jobs :
        LET unnoted == {s \in Slots : job[s] = j /\ pc[s] = "note" /\ answer[s] = "ok"}
        IN  /\ received[j] <= 1 + faults
            /\ delivered[j] <= received[j]
            /\ unnoted = {} => received[j] - delivered[j] <= faults

\* The breaker counts no failure twice: stale writes make the count of an
\* endpoint too small or too old, but it never exceeds the unsuccessful
\* attempts on record, and the breaker disables nothing before Threshold of
\* them (a fault after a noted success is counted as one).
PenaltiesJustified ==
    /\ failures <= missed + faults
    /\ status = "DISABLED" /\ ~switchedOff => missed + faults >= Threshold

\* A delivery that was queued is completed or ends in the failed set.
EventuallyResolved ==
    \A j \in Jobs : jobs[j] = "waiting" ~> jobs[j] \in {"completed", "failed"}

\* "10 consecutive failures disables endpoint" (the name of a test of
\* apps/worker/test/outbound.webhooks.test.ts): after Threshold failed
\* attempts with no success and no update between them, the endpoint is off.
StreakDisables == streak >= Threshold => status = "DISABLED"
=============================================================================
