--------------------------- MODULE StripeWebhooks ---------------------------
(***************************************************************************)
(* The Stripe events of one customer and the requests that process them.   *)
(*                                                                         *)
(* Stripe sends an event until it is answered 200, sometimes twice at      *)
(* once.  A request takes the customer's Redlock for ten seconds, which    *)
(* nothing extends, looks for the event in the idempotency cache and in    *)
(* the billing_events table, marks the row, reconciles the subscription in *)
(* a transaction, and then, outside of it, sets the idempotency key and    *)
(* deletes the cached billing verdicts.  Every await is a step.            *)
(***************************************************************************)
EXTENDS BillingLock

CONSTANTS
    Events,     \* the events of the customer
    Handlers,   \* requests in progress at a time
    NoEvent, Free, Orphan,
    Histories,  \* the event types to consider: a set of functions of Events
    MaxFaults   \* bound: repeats, failed calls, crashes, lost keys, outlived locks

ASSUME StripeAssumption ==
    /\ MaxFaults \in Nat
    /\ NoEvent \notin Events /\ {Free, Orphan} \cap Handlers = {} /\ Free # Orphan

VARIABLES
    kind,      \* kind[e]: the type of the event
    row,       \* row[e]: BillingEvent.status, or "none"
    known,     \* events with an idempotency key
    credited,  \* events with a BillingCredit row (stripeEventId is unique)
    applied,   \* applied[e]: transactions that reconciled e
    acked,     \* events that Stripe has had a 200 for
    owner,     \* the request whose token is in the customer's lock
    at,        \* at[h]: the await that request h is at
    event,     \* event[h]: the event it carries
    lapsed,    \* some lock has expired under a request still at work
    skipped,   \* cached copies a committed change has not been taken out of
    faults     \* faults so far

eventVars   == <<row, known, credited, applied>>
handlerVars == <<at, event>>
vars == <<sub, lockVars, kind, eventVars, acked, owner, handlerVars, lapsed, skipped, faults>>

Kinds == {"checkout", "paid", "failed", "deleted", "downgrade", "pastDue"}
Steps == {"idle", "acquire", "key", "verify", "ensure", "again", "mark", "apply", "record",
          "remember", "forget", "accept", "refuse"}
Rows  == {"none", "received", "processing", "processed", "failed"}

ASSUME HistoryAssumption == Histories \subseteq [Events -> Kinds]

TypeOK ==
    /\ LockTypeOK
    /\ kind \in [Events -> Kinds]
    /\ row \in [Events -> Rows]
    /\ known \subseteq Events /\ credited \subseteq Events /\ acked \subseteq Events
    /\ applied \in [Events -> Nat]
    /\ owner \in Handlers \cup {Free, Orphan}
    /\ at \in [Handlers -> Steps]
    /\ event \in [Handlers -> Events \cup {NoEvent}]
    /\ \A h \in Handlers : at[h] # "idle" => event[h] \in Events
    /\ lapsed \in BOOLEAN /\ faults \in 0 .. MaxFaults
    /\ skipped \subseteq Caches

Init ==
    /\ LockInit
    /\ kind \in Histories
    /\ row = [e \in Events |-> "none"]
    /\ known = {} /\ credited = {} /\ acked = {} /\ skipped = {}
    /\ applied = [e \in Events |-> 0]
    /\ owner = Free
    /\ at = [h \in Handlers |-> "idle"]
    /\ event = [h \in Handlers |-> NoEvent]
    /\ lapsed = FALSE /\ faults = 0

Goto(h, step) == at' = [at EXCEPT ![h] = step]
Fault         == faults < MaxFaults /\ faults' = faults + 1

-----------------------------------------------------------------------------
(* Stripe.                                                                 *)

Arrive(h, e) ==
    /\ at[h] = "idle"
    /\ Goto(h, "acquire")
    /\ event' = [event EXCEPT ![h] = e]
    /\ UNCHANGED <<sub, lockVars, kind, eventVars, acked, owner, lapsed, skipped>>

Deliver(h, e) ==
    /\ e \notin acked /\ \A g \in Handlers : event[g] # e
    /\ Arrive(h, e)
    /\ UNCHANGED faults

\* The same event once more: an attempt that Stripe timed out, or a repeat.
Repeat(h, e) ==
    /\ e \in acked \/ \E g \in Handlers : event[g] = e
    /\ Fault
    /\ Arrive(h, e)

-----------------------------------------------------------------------------
(* withStripeEventLock.                                                    *)

\* Variant: requests that do not share a lock.
AcquireOwn(h) ==
    /\ at[h] = "acquire"
    /\ owner' = h
    /\ Goto(h, "key")
    /\ UNCHANGED <<sub, lockVars, kind, eventVars, acked, event, lapsed, skipped, faults>>

Acquire(h) ==
    /\ at[h] = "acquire"
    /\ owner = Free
    /\ owner' = h
    /\ Goto(h, "key")
    /\ UNCHANGED <<sub, lockVars, kind, eventVars, acked, event, lapsed, skipped, faults>>

\* Three retries in under a second, then the request fails.
GiveUp(h) ==
    /\ at[h] = "acquire"
    /\ owner # Free
    /\ Goto(h, "refuse")
    /\ UNCHANGED <<sub, lockVars, kind, eventVars, acked, owner, event, lapsed, skipped, faults>>

\* Ten seconds are over while the owner is still at work.
Lapse ==
    /\ owner \in Handlers
    /\ Fault
    /\ owner' = Free
    /\ lapsed' = TRUE
    /\ UNCHANGED <<sub, lockVars, kind, eventVars, acked, handlerVars, skipped>>

OrphanExpires ==
    /\ owner = Orphan
    /\ owner' = Free
    /\ UNCHANGED <<sub, lockVars, kind, eventVars, acked, handlerVars, lapsed, skipped, faults>>

Answer(h, answered) ==
    /\ owner' = IF owner = h THEN Free ELSE owner
    /\ acked' = acked \cup answered
    /\ Goto(h, "idle")
    /\ event' = [event EXCEPT ![h] = NoEvent]
    /\ UNCHANGED <<sub, lockVars, kind, eventVars, lapsed, skipped, faults>>

Accept(h) == at[h] = "accept" /\ Answer(h, {event[h]})
Refuse(h) == at[h] = "refuse" /\ Answer(h, {})

-----------------------------------------------------------------------------
(* processLockedStripeEvent.                                               *)

ReadKey(h) ==
    /\ at[h] = "key"
    /\ Goto(h, IF event[h] \in known THEN "verify" ELSE "ensure")
    /\ UNCHANGED <<sub, lockVars, kind, eventVars, acked, owner, event, lapsed, skipped, faults>>

\* The key alone is not believed; one that the row contradicts is deleted.
VerifyKey(h) ==
    /\ at[h] = "verify"
    /\ IF row[event[h]] = "processed"
       THEN Goto(h, "accept") /\ UNCHANGED known
       ELSE Goto(h, "ensure") /\ known' = known \ {event[h]}
    /\ UNCHANGED <<sub, lockVars, kind, row, credited, applied, acked, owner, event, lapsed,
                   skipped, faults>>

\* Variant: a row that somebody is processing counts as processed.
EnsureRowOrBusy(h) ==
    LET e == event[h] IN
    /\ at[h] = "ensure"
    /\ row' = [row EXCEPT ![e] = IF @ = "none" THEN "received" ELSE @]
    /\ Goto(h, IF row[e] \in {"processing", "processed"} THEN "again" ELSE "mark")
    /\ UNCHANGED <<sub, lockVars, kind, known, credited, applied, acked, owner, event, lapsed,
                   skipped, faults>>

\* ensurePendingBillingEvent
EnsureRow(h) ==
    LET e == event[h] IN
    /\ at[h] = "ensure"
    /\ row' = [row EXCEPT ![e] = IF @ = "none" THEN "received" ELSE @]
    /\ Goto(h, IF row[e] = "processed" THEN "again" ELSE "mark")
    /\ UNCHANGED <<sub, lockVars, kind, known, credited, applied, acked, owner, event, lapsed,
                   skipped, faults>>

\* An event already processed: its key is set again, on a best effort.
RememberAgain(h) ==
    /\ at[h] = "again"
    /\ known' = known \cup {event[h]}
    /\ Goto(h, "accept")
    /\ UNCHANGED <<sub, lockVars, kind, row, credited, applied, acked, owner, event, lapsed,
                   skipped, faults>>

\* markBillingEventProcessing, whatever the row has become meanwhile.
MarkProcessing(h) ==
    /\ at[h] = "mark"
    /\ row' = [row EXCEPT ![event[h]] = "processing"]
    /\ Goto(h, "apply")
    /\ UNCHANGED <<sub, lockVars, kind, known, credited, applied, acked, owner, event, lapsed,
                   skipped, faults>>

\* Variant: the status of Stripe is stored as it comes.
StatusAsSent ==
    [checkout |-> "active", paid |-> "active", downgrade |-> "active",
     failed |-> "past_due", pastDue |-> "unpaid", deleted |-> "canceled"]

\* What the handlers of service.reconciliation write to the subscription.
StatusAfter ==
    [checkout |-> "active", paid |-> "active", downgrade |-> "active",
     failed |-> "past_due", pastDue |-> "past_due", deleted |-> "canceled"]

Reconciled(k) ==
    [status |-> StatusAfter[k],
     grace  |-> IF k = "paid" THEN "none" ELSE IF k = "failed" THEN "running" ELSE sub.grace,
     aged   |-> FALSE]

\* The insert of a second credit for the event violates its unique key.
CreditRefused(e) == kind[e] = "downgrade" /\ e \in credited

\* Variant: the event is not updated with the subscription.
ApplyAlone(h) ==
    LET e == event[h] IN
    /\ at[h] = "apply"
    /\ ~CreditRefused(e)
    /\ sub' = Reconciled(kind[e])
    /\ credited' = IF kind[e] = "downgrade" THEN credited \cup {e} ELSE credited
    /\ applied' = [applied EXCEPT ![e] = @ + 1]
    /\ skipped' = Caches
    /\ Goto(h, "remember")
    /\ UNCHANGED <<lockVars, kind, row, known, acked, owner, event, lapsed, faults>>

\* processStripeDomainEvent: one transaction.
Apply(h) ==
    LET e == event[h] IN
    /\ at[h] = "apply"
    /\ ~CreditRefused(e)
    /\ sub' = Reconciled(kind[e])
    /\ credited' = IF kind[e] = "downgrade" THEN credited \cup {e} ELSE credited
    /\ row' = [row EXCEPT ![e] = "processed"]
    /\ applied' = [applied EXCEPT ![e] = @ + 1]
    /\ skipped' = Caches
    /\ Goto(h, "remember")
    /\ UNCHANGED <<lockVars, kind, known, acked, owner, event, lapsed, faults>>

\* The violation is caught, but PostgreSQL has aborted the transaction, and
\* the update of the event that follows in it fails.
ApplyAborts(h) ==
    /\ at[h] = "apply"
    /\ CreditRefused(event[h])
    /\ Goto(h, "record")
    /\ UNCHANGED <<sub, lockVars, kind, eventVars, acked, owner, event, lapsed, skipped, faults>>

ApplyFails(h) ==
    /\ at[h] = "apply"
    /\ Fault
    /\ Goto(h, "record")
    /\ UNCHANGED <<sub, lockVars, kind, eventVars, acked, owner, event, lapsed, skipped>>

\* Variant: the error is recorded and not thrown on.
RecordAndAccept(h) ==
    /\ at[h] = "record"
    /\ row' = [row EXCEPT ![event[h]] = "failed"]
    /\ Goto(h, "accept")
    /\ UNCHANGED <<sub, lockVars, kind, known, credited, applied, acked, owner, event, lapsed,
                   skipped, faults>>

RecordFailure(h) ==
    /\ at[h] = "record"
    /\ row' = [row EXCEPT ![event[h]] = "failed"]
    /\ Goto(h, "refuse")
    /\ UNCHANGED <<sub, lockVars, kind, known, credited, applied, acked, owner, event, lapsed,
                   skipped, faults>>

\* persistProcessedCache
Remember(h) ==
    /\ at[h] = "remember"
    /\ known' = known \cup {event[h]}
    /\ Goto(h, "forget")
    /\ UNCHANGED <<sub, lockVars, kind, row, credited, applied, acked, owner, event, lapsed,
                   skipped, faults>>

\* Redis drops the key after a day, or to make room.
KeyExpires(e) ==
    /\ e \in known
    /\ Fault
    /\ known' = known \ {e}
    /\ UNCHANGED <<sub, lockVars, kind, row, credited, applied, acked, owner, handlerVars,
                   lapsed, skipped>>

\* Variant: the keys deleted are not those the resolvers use.
InvalidateOthers(h) ==
    /\ at[h] = "forget"
    /\ skipped' = {}
    /\ Goto(h, "accept")
    /\ UNCHANGED <<sub, lockVars, kind, eventVars, acked, owner, event, lapsed, faults>>

\* runPostCommitSideEffects
Invalidate(h) ==
    /\ at[h] = "forget"
    /\ Forget(Caches)
    /\ skipped' = {}
    /\ Goto(h, "accept")
    /\ UNCHANGED <<sub, resolving, read, kind, eventVars, acked, owner, event, lapsed, faults>>

-----------------------------------------------------------------------------
(* Calls that fail, and requests that end in the middle.                   *)

\* A call before the transaction, or the one that records its failure.
CallFails(h) ==
    /\ at[h] \in {"key", "verify", "ensure", "mark", "record"}
    /\ Fault
    /\ Goto(h, "refuse")
    /\ UNCHANGED <<sub, lockVars, kind, eventVars, acked, owner, event, lapsed, skipped>>

\* A call after it: the error is logged, the event is answered 200.
LateCallFails(h) ==
    /\ Fault
    /\ \/ /\ at[h] = "again" /\ Goto(h, "accept")
          /\ UNCHANGED <<cache, late, skipped>>
       \/ /\ at[h] = "remember" /\ Goto(h, "forget")
          /\ UNCHANGED <<cache, late, skipped>>
       \/ /\ at[h] = "forget" /\ Goto(h, "accept")
          /\ \E C \in SUBSET Caches : C # Caches /\ Forget(C) /\ skipped' = skipped \ C
    /\ UNCHANGED <<sub, resolving, read, kind, eventVars, acked, owner, event, lapsed>>

\* The process dies; its lock stays until it expires.
Crash(h) ==
    /\ at[h] # "idle"
    /\ Fault
    /\ owner' = IF owner = h THEN Orphan ELSE owner
    /\ Goto(h, "idle")
    /\ event' = [event EXCEPT ![h] = NoEvent]
    /\ UNCHANGED <<sub, lockVars, kind, eventVars, acked, lapsed, skipped>>

-----------------------------------------------------------------------------
HandlerStep(h) ==
    \/ GiveUp(h) \/ ReadKey(h) \/ VerifyKey(h) \/ EnsureRow(h) \/ RememberAgain(h)
    \/ MarkProcessing(h) \/ Apply(h) \/ ApplyAborts(h) \/ RecordFailure(h)
    \/ Remember(h) \/ Invalidate(h) \/ Accept(h) \/ Refuse(h)

LockStep ==
    /\ \/ GraceEnds
       \/ \E c \in Caches : Query(c) \/ Fill(c) \/ Expire(c)
    /\ UNCHANGED <<kind, eventVars, acked, owner, handlerVars, lapsed, skipped, faults>>

Next ==
    \/ \E h \in Handlers :
          \/ \E e \in Events : Deliver(h, e) \/ Repeat(h, e)
          \/ Acquire(h) \/ HandlerStep(h)
          \/ ApplyFails(h) \/ CallFails(h) \/ LateCallFails(h) \/ Crash(h)
    \/ Lapse \/ OrphanExpires \/ \E e \in Events : KeyExpires(e)
    \/ LockStep

Spec == Init /\ [][Next]_vars

\* Requests run and resolvers finish what they started; Redis expires what
\* has a TTL; Stripe redelivers for days, with growing delays, so that an
\* event does not forever meet the lock of another.
Fairness ==
    /\ \A h \in Handlers : WF_vars(HandlerStep(h))
    /\ \A e \in Events :
          /\ WF_vars(\E h \in Handlers : Deliver(h, e))
          /\ SF_vars(\E h \in Handlers : event[h] = e /\ Acquire(h))
    /\ WF_vars(OrphanExpires)
    /\ \A c \in Caches :
          /\ WF_vars(Fill(c) /\ LockStep)
          /\ WF_vars(Expire(c) /\ LockStep)

FairSpec == Spec /\ Fairness

-----------------------------------------------------------------------------
(* Properties.                                                             *)

\* Stripe is answered 200 only for an event whose transaction has committed:
\* neither the idempotency key, nor a row that another request has created
\* or is processing, nor a lock that was lost makes a request skip the work.
AckedWasApplied == \A e \in Events : e \in acked => applied[e] > 0

\* The ten seconds of the lock are the only way to reconcile an event twice:
\* crashes, repeats, failed calls and lost answers never do.
RepeatsNeedALapse == \A e \in Events : applied[e] > 1 => lapsed

\* An event that was answered 200 keeps the status processed, unless a lock
\* has lapsed: then a second request may put the row back to processing and
\* leave it there, or at failed.
AckedStaysProcessed == \A e \in acked : row[e] = "processed" \/ lapsed

\* A cached copy refuses an organization that has paid only if the deletion
\* that follows the commit has not taken place yet (or failed, or its
\* process died), or if the copy was set from a read older than the commit.
RefusalsExplained ==
    \A c \in Caches :
        Stale(c) /\ cache[c].verdict = "locked" => c \in skipped \cup late

\* Every event is reconciled in the end, and answered 200 in the end except
\* when its credit was granted by a request that did not get to answer.
EventuallyReconciled ==
    \A e \in Events : <>(applied[e] > 0 /\ (e \in acked \/ e \in credited))

\* However a cached verdict came to contradict the subscription, it is gone
\* in the end.
StaleVerdictsExpire == \A c \in Caches : Stale(c) ~> ~Stale(c)
=============================================================================
