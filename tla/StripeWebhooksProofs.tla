------------------------ MODULE StripeWebhooksProofs ------------------------
(***************************************************************************)
(* Safety of StripeWebhooks for every number of events, requests, cached   *)
(* copies and faults, and every history of event types.                    *)
(***************************************************************************)
EXTENDS StripeWebhooks, TLAPS

\* Requests between the acquisition of the lock and their answer.
Inside == {"key", "verify", "ensure", "again", "mark", "apply", "record",
           "remember", "forget", "accept"}

\* Requests that have found the event not processed.
Undertaken == {"mark", "apply", "record"}

\* Where an event counts as reconciled, it was.
Evidence ==
    /\ \A e \in Events : row[e] = "processed" => applied[e] > 0
    /\ \A h \in Handlers :
          at[h] \in {"again", "remember", "forget", "accept"} => applied[event[h]] > 0

\* While no lock has lapsed the lock excludes, and the row is exact.
Exclusive ==
    ~lapsed =>
        /\ \A h \in Handlers : at[h] \in Inside => owner = h
        /\ \A h \in Handlers : at[h] \in Undertaken => row[event[h]] # "processed"
        /\ \A e \in Events : applied[e] > 0 => row[e] = "processed" /\ applied[e] = 1

StripeInv == TypeOK /\ AckedWasApplied /\ Evidence /\ Exclusive

-----------------------------------------------------------------------------
(* Type correctness.                                                       *)

\* The row that a reconciled subscription has is well typed.
LEMMA ReconciledType ==
    ASSUME TypeOK, NEW k \in Kinds
    PROVE  Reconciled(k) \in [status : Statuses, grace : Graces, aged : BOOLEAN]
<1>1. StatusAfter[k] \in Statuses
  BY DEF Kinds, StatusAfter, Statuses
<1>2. sub.grace \in Graces
  BY DEF TypeOK, LockTypeOK
<1> QED BY <1>1, <1>2 DEF Reconciled, Graces

\* The initial state is well typed.
LEMMA InitTypeOK == Init => TypeOK
<1> SUFFICES ASSUME Init PROVE TypeOK
  OBVIOUS
<1>1. LockTypeOK
  BY DEF Init, LockInit, LockTypeOK, Statuses, Graces, Verdicts, Nothing
<1>2. kind \in [Events -> Kinds]
  BY HistoryAssumption DEF Init
<1>3. faults \in 0 .. MaxFaults
  BY StripeAssumption DEF Init, StripeAssumption
<1> QED BY <1>1, <1>2, <1>3 DEF Init, TypeOK, Rows, Steps

\* What a step does with the cached copies keeps them well typed.
LEMMA ForgetType ==
    ASSUME LockTypeOK, NEW C, Forget(C)
    PROVE  /\ cache' \in [Caches -> [verdict : Verdicts, held : BOOLEAN, expires : BOOLEAN]]
           /\ late' \subseteq Caches
<1>1. Nothing \in [verdict : Verdicts, held : BOOLEAN, expires : BOOLEAN]
  BY DEF Nothing, Verdicts
<1> QED BY <1>1 DEF Forget, LockTypeOK

\* The resolvers and the clock keep the subscription and its copies typed.
LEMMA LockStepType == TypeOK /\ LockStep => TypeOK'
<1> SUFFICES ASSUME TypeOK, LockStep PROVE LockTypeOK'
  BY DEF TypeOK, LockStep, eventVars, handlerVars
<1> USE DEF LockTypeOK
<1>0. LockTypeOK
  BY DEF TypeOK
<1>1. ASSUME GraceEnds PROVE LockTypeOK'
  BY <1>0, <1>1 DEF GraceEnds, lockVars, Graces
<1>2. ASSUME NEW c \in Caches, Query(c) PROVE LockTypeOK'
  <2>1. Verdict \in Verdicts
    BY DEF Verdict, Verdicts
  <2> QED BY <1>0, <1>2, <2>1 DEF Query
<1>3. ASSUME NEW c \in Caches, Fill(c) PROVE LockTypeOK'
  BY <1>0, <1>3 DEF Fill, Verdicts
<1>4. ASSUME NEW c \in Caches, Expire(c) PROVE LockTypeOK'
  BY <1>0, <1>4, ForgetType DEF Expire
<1> QED BY <1>1, <1>2, <1>3, <1>4 DEF LockStep

\* Every step keeps the state well typed.
LEMMA NextTypeOK == TypeOK /\ [Next]_vars => TypeOK'
<1> SUFFICES ASSUME TypeOK, [Next]_vars PROVE TypeOK'
  OBVIOUS
<1> USE DEF Rows, Steps
<1>a. ASSUME NEW h \in Handlers, NEW e \in Events, Arrive(h, e), faults' \in 0 .. MaxFaults
      PROVE  TypeOK'
  BY <1>a DEF TypeOK, LockTypeOK, Arrive, Goto, lockVars, eventVars
<1>b. ASSUME NEW h \in Handlers, NEW A, Answer(h, A), A \subseteq Events PROVE TypeOK'
  BY <1>b DEF TypeOK, LockTypeOK, Answer, Goto, lockVars, eventVars
<1>c. Fault => faults' \in 0 .. MaxFaults
  BY StripeAssumption DEF StripeAssumption, TypeOK, Fault
<1>1. ASSUME NEW h \in Handlers PROVE
         /\ \A e \in Events : (Deliver(h, e) \/ Repeat(h, e)) => TypeOK'
         /\ Acquire(h) \/ GiveUp(h) \/ ReadKey(h) => TypeOK'
         /\ VerifyKey(h) \/ EnsureRow(h) \/ RememberAgain(h) \/ MarkProcessing(h) => TypeOK'
         /\ Apply(h) => TypeOK'
         /\ ApplyAborts(h) \/ ApplyFails(h) \/ RecordFailure(h) \/ Remember(h) => TypeOK'
         /\ Invalidate(h) => TypeOK'
         /\ Accept(h) \/ Refuse(h) => TypeOK'
         /\ CallFails(h) => TypeOK'
         /\ LateCallFails(h) => TypeOK'
         /\ Crash(h) => TypeOK'
  <2>1. ASSUME NEW e \in Events, Deliver(h, e) \/ Repeat(h, e) PROVE TypeOK'
    BY <2>1, <1>a, <1>c DEF Deliver, Repeat, TypeOK
  <2>2. Acquire(h) \/ GiveUp(h) \/ ReadKey(h) => TypeOK'
    BY DEF TypeOK, LockTypeOK, Acquire, GiveUp, ReadKey, Goto, lockVars, eventVars
  <2>3. VerifyKey(h) \/ EnsureRow(h) \/ RememberAgain(h) \/ MarkProcessing(h) => TypeOK'
    <3>1. VerifyKey(h) \/ RememberAgain(h) => TypeOK'
      BY DEF TypeOK, LockTypeOK, VerifyKey, RememberAgain, Goto, lockVars
    <3>2. EnsureRow(h) => TypeOK'
      BY DEF TypeOK, LockTypeOK, EnsureRow, Goto, lockVars
    <3>3. MarkProcessing(h) => TypeOK'
      BY DEF TypeOK, LockTypeOK, MarkProcessing, Goto, lockVars
    <3> QED BY <3>1, <3>2, <3>3
  <2>4. ASSUME Apply(h) PROVE TypeOK'
    <3>1. event[h] \in Events /\ kind[event[h]] \in Kinds
      BY <2>4 DEF TypeOK, Apply
    <3>2. sub' \in [status : Statuses, grace : Graces, aged : BOOLEAN]
      BY <2>4, <3>1, ReconciledType DEF Apply
    <3> QED BY <2>4, <3>1, <3>2 DEF TypeOK, LockTypeOK, Apply, Goto, lockVars
  <2>5. ApplyAborts(h) \/ ApplyFails(h) \/ RecordFailure(h) \/ Remember(h) => TypeOK'
    <3>1. ApplyAborts(h) \/ ApplyFails(h) => TypeOK'
      BY <1>c DEF TypeOK, LockTypeOK, ApplyAborts, ApplyFails, Goto, lockVars, eventVars
    <3>2. RecordFailure(h) \/ Remember(h) => TypeOK'
      BY DEF TypeOK, LockTypeOK, RecordFailure, Remember, Goto, lockVars
    <3> QED BY <3>1, <3>2
  <2>6. Invalidate(h) => TypeOK'
    BY ForgetType DEF TypeOK, LockTypeOK, Invalidate, Goto, eventVars
  <2>7. Accept(h) \/ Refuse(h) => TypeOK'
    BY <1>b DEF TypeOK, Accept, Refuse
  <2>8. CallFails(h) => TypeOK'
    BY <1>c DEF TypeOK, LockTypeOK, CallFails, Goto, lockVars, eventVars
  <2>9. ASSUME LateCallFails(h) PROVE TypeOK'
    <3>1. skipped' \subseteq Caches
      BY <2>9 DEF LateCallFails, TypeOK
    <3>2. LockTypeOK'
      BY <2>9, ForgetType DEF TypeOK, LockTypeOK, LateCallFails
    <3>3. at' \in [Handlers -> Steps] /\ at[h] # "idle"
      BY <2>9 DEF TypeOK, LateCallFails, Goto
    <3>4. \A g \in Handlers : g # h => at'[g] = at[g]
      BY <2>9 DEF TypeOK, LateCallFails, Goto
    <3> QED BY <2>9, <1>c, <3>1, <3>2, <3>3, <3>4 DEF TypeOK, LateCallFails, eventVars
  <2>10. Crash(h) => TypeOK'
    BY <1>c DEF TypeOK, LockTypeOK, Crash, Goto, lockVars, eventVars
  <2> QED BY <2>1, <2>2, <2>3, <2>4, <2>5, <2>6, <2>7, <2>8, <2>9, <2>10
<1>2. Lapse => TypeOK'
  BY <1>c DEF TypeOK, LockTypeOK, Lapse, lockVars, eventVars, handlerVars
<1>3. OrphanExpires => TypeOK'
  BY DEF TypeOK, LockTypeOK, OrphanExpires, lockVars, eventVars, handlerVars
<1>4. \A e \in Events : KeyExpires(e) => TypeOK'
  BY <1>c DEF TypeOK, LockTypeOK, KeyExpires, lockVars, handlerVars
<1>5. LockStep => TypeOK'
  BY LockStepType
<1>6. UNCHANGED vars => TypeOK'
  BY DEF TypeOK, LockTypeOK, vars, lockVars, eventVars, handlerVars
<1> QED BY <1>1, <1>2, <1>3, <1>4, <1>5, <1>6 DEF Next, HandlerStep

\* The subscription, its copies, the events, the lock and the requests are
\* well typed whatever the events are and however requests interleave.
THEOREM TypeCorrect == Spec => []TypeOK
BY InitTypeOK, NextTypeOK, PTL DEF Spec

-----------------------------------------------------------------------------
(* Acknowledgement and repetition.                                         *)

\* A step that moves one request, leaves the events' rows alone, and lets
\* nobody reach an answer of 200 unless the event is processed.
Calm(h) ==
    /\ \A g \in Handlers : g # h => at'[g] = at[g] /\ event'[g] = event[g]
    /\ UNCHANGED <<row, applied, lapsed>>
    /\ at'[h] \in {"again", "remember", "forget", "accept"} =>
          /\ event'[h] = event[h] /\ event[h] \in Events
          /\ at[h] \in {"again", "remember", "forget"} \/ row[event[h]] = "processed"
    /\ at'[h] \in Undertaken =>
          /\ event'[h] = event[h]
          /\ at[h] \in Undertaken \/ row[event[h]] # "processed"
    /\ at'[h] \in Inside => owner' = h \/ (at[h] \in Inside /\ owner' = owner)
    /\ \A g \in Handlers : (g # h /\ owner = g) => owner' = g
    /\ acked' \subseteq acked \cup {e \in Events : applied[e] > 0}

\* A calm step keeps the invariant.
LEMMA CalmStep ==
    ASSUME StripeInv, TypeOK', NEW h \in Handlers, Calm(h)
    PROVE  StripeInv'
<1>1. AckedWasApplied'
  BY DEF StripeInv, AckedWasApplied, Calm, TypeOK
<1>2. Evidence'
  <2>1. \A e \in Events : row'[e] = "processed" => applied'[e] > 0
    BY DEF StripeInv, Evidence, Calm
  <2>2. ASSUME NEW g \in Handlers, at'[g] \in {"again", "remember", "forget", "accept"}
        PROVE  applied'[event'[g]] > 0
    <3>1. CASE g = h
      BY <2>2, <3>1 DEF StripeInv, Evidence, Calm
    <3>2. CASE g # h
      BY <2>2, <3>2 DEF StripeInv, Evidence, Calm
    <3> QED BY <3>1, <3>2
  <2> QED BY <2>1, <2>2 DEF Evidence
<1>3. Exclusive'
  <2> SUFFICES ASSUME ~lapsed PROVE Exclusive'
    BY DEF Exclusive, Calm
  <2>1. ASSUME NEW g \in Handlers, at'[g] \in Inside PROVE owner' = g
    <3>1. CASE g = h
      BY <2>1, <3>1 DEF StripeInv, Exclusive, Calm
    <3>2. CASE g # h
      BY <2>1, <3>2 DEF StripeInv, Exclusive, Calm
    <3> QED BY <3>1, <3>2
  <2>2. ASSUME NEW g \in Handlers, at'[g] \in Undertaken
        PROVE  row'[event'[g]] # "processed"
    <3>1. CASE g = h
      BY <2>2, <3>1 DEF StripeInv, Exclusive, Calm
    <3>2. CASE g # h
      BY <2>2, <3>2 DEF StripeInv, Exclusive, Calm
    <3> QED BY <3>1, <3>2
  <2>3. \A e \in Events : applied'[e] > 0 => row'[e] = "processed" /\ applied'[e] = 1
    BY DEF StripeInv, Exclusive, Calm
  <2> QED BY <2>1, <2>2, <2>3 DEF Exclusive
<1> QED BY <1>1, <1>2, <1>3 DEF StripeInv

\* A request that changes its event's row has found it not processed.
LEMMA RowStep ==
    ASSUME StripeInv, TypeOK', NEW h \in Handlers,
           EnsureRow(h) \/ MarkProcessing(h) \/ RecordFailure(h)
    PROVE  StripeInv'
<1> DEFINE e == event[h]
<1>1. /\ e \in Events /\ h \in Handlers /\ at[h] \in {"ensure", "mark", "record"}
      /\ \A g \in Handlers : g # h => at'[g] = at[g]
      /\ UNCHANGED <<applied, lapsed, acked, owner, event>>
      /\ \A f \in Events : f # e => row'[f] = row[f]
  BY DEF StripeInv, TypeOK, EnsureRow, MarkProcessing, RecordFailure, Goto
<1>2. /\ at'[h] \in {"again", "mark", "apply", "refuse"}
      /\ at'[h] = "again" => row[e] = "processed"
      /\ at'[h] \in Undertaken => row'[e] # "processed"
      /\ row'[e] = "processed" <=> at[h] = "ensure" /\ row[e] = "processed"
  BY DEF StripeInv, TypeOK, EnsureRow, MarkProcessing, RecordFailure, Goto, Undertaken
<1>3. AckedWasApplied'
  BY <1>1 DEF StripeInv, AckedWasApplied
<1>4. Evidence'
  BY <1>1, <1>2 DEF StripeInv, Evidence
<1>5. Exclusive'
  <2> SUFFICES ASSUME ~lapsed PROVE Exclusive'
    BY <1>1 DEF Exclusive
  <2>1. at[h] \in Inside /\ owner = h /\ (at[h] # "ensure" => row[e] # "processed")
    BY <1>1 DEF StripeInv, Exclusive, Inside, Undertaken
  <2>2. \A g \in Handlers : g # h => at[g] \notin Inside
    BY <2>1 DEF StripeInv, Exclusive
  <2>3. \A g \in Handlers : at'[g] \in Inside => owner' = g
    BY <1>1, <2>1, <2>2
  <2>4. \A g \in Handlers : at'[g] \in Undertaken => row'[event'[g]] # "processed"
    BY <1>1, <1>2, <2>2 DEF Undertaken, Inside
  <2>5. \A f \in Events : applied'[f] > 0 => row'[f] = "processed" /\ applied'[f] = 1
    BY <1>1, <1>2, <2>1 DEF StripeInv, Exclusive
  <2> QED BY <2>3, <2>4, <2>5 DEF Exclusive
<1> QED BY <1>3, <1>4, <1>5 DEF StripeInv

\* The transaction reconciles an event not reconciled before, unless a lock
\* has lapsed.
LEMMA ApplyStep ==
    ASSUME StripeInv, TypeOK', NEW h \in Handlers, Apply(h)
    PROVE  StripeInv'
<1> DEFINE e == event[h]
<1>1. /\ e \in Events /\ at[h] = "apply" /\ at'[h] = "remember"
      /\ \A g \in Handlers : g # h => at'[g] = at[g]
      /\ UNCHANGED <<lapsed, acked, owner, event>>
      /\ \A f \in Events : f # e => row'[f] = row[f] /\ applied'[f] = applied[f]
      /\ row'[e] = "processed" /\ applied'[e] = applied[e] + 1
      /\ \A f \in Events : applied[f] \in Nat
  BY DEF StripeInv, TypeOK, Apply, Goto
<1>2. \A f \in Events : applied'[f] >= applied[f]
  BY <1>1
<1>3. AckedWasApplied'
  BY <1>1, <1>2 DEF StripeInv, AckedWasApplied
<1>4. Evidence'
  <2>1. \A f \in Events : row'[f] = "processed" => applied'[f] > 0
    BY <1>1 DEF StripeInv, Evidence
  <2>2. ASSUME NEW g \in Handlers, at'[g] \in {"again", "remember", "forget", "accept"}
        PROVE  applied'[event'[g]] > 0
    <3>1. event[g] \in Events
      BY <1>1, <2>2 DEF StripeInv, TypeOK
    <3>2. g # h => applied[event[g]] > 0
      BY <1>1, <2>2 DEF StripeInv, Evidence
    <3> QED BY <1>1, <3>1, <3>2
  <2> QED BY <2>1, <2>2 DEF Evidence
<1>5. Exclusive'
  <2> SUFFICES ASSUME ~lapsed PROVE Exclusive'
    BY <1>1 DEF Exclusive
  <2>1. owner = h /\ row[e] # "processed"
    BY <1>1 DEF StripeInv, Exclusive, Inside, Undertaken
  <2>2. \A g \in Handlers : g # h => at[g] \notin Inside
    BY <2>1 DEF StripeInv, Exclusive
  <2>3. applied[e] = 0
    BY <1>1, <2>1 DEF StripeInv, Exclusive
  <2>4. \A g \in Handlers : at'[g] \in Inside => owner' = g
    BY <1>1, <2>1, <2>2
  <2>5. \A g \in Handlers : at'[g] \in Undertaken => row'[event'[g]] # "processed"
    BY <1>1, <2>2 DEF Undertaken, Inside
  <2>6. \A f \in Events : applied'[f] > 0 => row'[f] = "processed" /\ applied'[f] = 1
    BY <1>1, <2>3 DEF StripeInv, Exclusive
  <2> QED BY <2>4, <2>5, <2>6 DEF Exclusive
<1> QED BY <1>3, <1>4, <1>5 DEF StripeInv

\* The invariant holds initially.
LEMMA InitStripeInv == Init => StripeInv
BY InitTypeOK DEF Init, StripeInv, AckedWasApplied, Evidence, Exclusive, Inside, Undertaken

\* Every step keeps the invariant.
LEMMA NextStripeInv == StripeInv /\ [Next]_vars => StripeInv'
<1> SUFFICES ASSUME StripeInv, [Next]_vars PROVE StripeInv'
  OBVIOUS
<1>0. TypeOK /\ TypeOK'
  BY NextTypeOK DEF StripeInv
<1> USE DEF Inside, Undertaken, Goto, eventVars, handlerVars
<1>1. ASSUME NEW h \in Handlers, NEW e \in Events, Deliver(h, e) \/ Repeat(h, e)
      PROVE  StripeInv'
  <2>1. Calm(h)
    BY <1>0, <1>1 DEF Deliver, Repeat, Arrive, Calm, TypeOK
  <2> QED BY <1>0, <2>1, CalmStep
<1>2. ASSUME NEW h \in Handlers, Acquire(h) PROVE StripeInv'
  <2>1. Calm(h)
    BY <1>0, <1>2, StripeAssumption DEF StripeAssumption, Acquire, Calm, TypeOK
  <2> QED BY <1>0, <2>1, CalmStep
<1>3. ASSUME NEW h \in Handlers,
             GiveUp(h) \/ ReadKey(h) \/ VerifyKey(h) \/ RememberAgain(h)
      PROVE  StripeInv'
  <2>1. Calm(h)
    BY <1>0, <1>3 DEF GiveUp, ReadKey, VerifyKey, RememberAgain, Calm, TypeOK
  <2> QED BY <1>0, <2>1, CalmStep
<1>4. ASSUME NEW h \in Handlers,
             EnsureRow(h) \/ MarkProcessing(h) \/ RecordFailure(h)
      PROVE  StripeInv'
  BY <1>0, <1>4, RowStep
<1>5. ASSUME NEW h \in Handlers, Apply(h) PROVE StripeInv'
  BY <1>0, <1>5, ApplyStep
<1>6. ASSUME NEW h \in Handlers,
             ApplyAborts(h) \/ ApplyFails(h) \/ Remember(h) \/ Invalidate(h) \/ CallFails(h)
      PROVE  StripeInv'
  <2>1. Calm(h)
    BY <1>0, <1>6 DEF ApplyAborts, ApplyFails, Remember, Invalidate, CallFails, Calm, TypeOK
  <2> QED BY <1>0, <2>1, CalmStep
<1>7. ASSUME NEW h \in Handlers, LateCallFails(h) PROVE StripeInv'
  <2>1. Calm(h)
    BY <1>0, <1>7 DEF LateCallFails, Calm, TypeOK
  <2> QED BY <1>0, <2>1, CalmStep
<1>8. ASSUME NEW h \in Handlers, Accept(h) PROVE StripeInv'
  <2>1. event[h] \in Events /\ applied[event[h]] > 0
    BY <1>0, <1>8 DEF Accept, TypeOK, StripeInv, Evidence
  <2>2. Calm(h)
    BY <1>0, <1>8, <2>1 DEF Accept, Answer, Calm, TypeOK
  <2> QED BY <1>0, <2>2, CalmStep
<1>9. ASSUME NEW h \in Handlers, Refuse(h) \/ Crash(h) PROVE StripeInv'
  <2>1. Calm(h)
    BY <1>0, <1>9 DEF Refuse, Answer, Crash, Calm, TypeOK
  <2> QED BY <1>0, <2>1, CalmStep
<1>10. CASE Lapse
  BY <1>0, <1>10 DEF Lapse, StripeInv, AckedWasApplied, Evidence, Exclusive
<1>11. CASE OrphanExpires
  BY <1>0, <1>11, StripeAssumption
  DEF StripeAssumption, OrphanExpires, StripeInv, AckedWasApplied, Evidence, Exclusive
<1>12. ASSUME NEW e \in Events, KeyExpires(e) PROVE StripeInv'
  BY <1>0, <1>12 DEF KeyExpires, StripeInv, AckedWasApplied, Evidence, Exclusive
<1>13. CASE LockStep
  BY <1>0, <1>13 DEF LockStep, StripeInv, AckedWasApplied, Evidence, Exclusive
<1>14. CASE UNCHANGED vars
  BY <1>0, <1>14 DEF vars, StripeInv, AckedWasApplied, Evidence, Exclusive
<1> QED
  BY <1>1, <1>2, <1>3, <1>4, <1>5, <1>6, <1>7, <1>8, <1>9, <1>10, <1>11, <1>12, <1>13, <1>14
  DEF Next, HandlerStep

\* What is answered 200 was reconciled, in every behaviour.
THEOREM AckedEventsWereApplied == Spec => []AckedWasApplied
<1>1. StripeInv => AckedWasApplied
  BY DEF StripeInv
<1> QED BY <1>1, InitStripeInv, NextStripeInv, PTL DEF Spec

\* Only a lock that ran out under its request lets an event be reconciled
\* twice.
THEOREM OneReconciliationPerLock == Spec => []RepeatsNeedALapse
<1>1. StripeInv => RepeatsNeedALapse
  BY DEF StripeInv, Exclusive, RepeatsNeedALapse, TypeOK
<1> QED BY <1>1, InitStripeInv, NextStripeInv, PTL DEF Spec

\* Only such a lock lets the row of an acknowledged event leave processed.
THEOREM ProcessedIsFinal == Spec => []AckedStaysProcessed
<1>1. StripeInv => AckedStaysProcessed
  BY DEF StripeInv, Exclusive, AckedStaysProcessed, AckedWasApplied, TypeOK
<1> QED BY <1>1, InitStripeInv, NextStripeInv, PTL DEF Spec

-----------------------------------------------------------------------------
(* The cached verdicts.                                                    *)

\* A clock that passes the grace period never unlocks.
LEMMA GraceLocks == TypeOK /\ GraceEnds => Verdict' = Verdict \/ Verdict' = "locked"
BY DEF TypeOK, LockTypeOK, GraceEnds, Verdict, Graces

\* Every step keeps each stale refusal explained.
LEMMA NextRefusals == TypeOK /\ RefusalsExplained /\ [Next]_vars => RefusalsExplained'
<1> SUFFICES ASSUME TypeOK, RefusalsExplained, [Next]_vars,
                    NEW c \in Caches, Stale(c)', cache'[c].verdict = "locked"
             PROVE  c \in skipped' \cup late'
  BY DEF RefusalsExplained
<1>1. CASE sub' = sub /\ cache' = cache /\ late' = late /\ skipped' = skipped
  BY <1>1 DEF RefusalsExplained, Stale, Verdict
<1>2. CASE \E h \in Handlers : Apply(h)
  BY <1>2 DEF Apply
<1>3. ASSUME NEW C \in SUBSET Caches, Forget(C), sub' = sub, skipped \ C \subseteq skipped'
      PROVE  c \in skipped' \cup late'
  BY <1>3 DEF RefusalsExplained, Forget, Stale, Verdict, Nothing, TypeOK, LockTypeOK
<1>4. CASE \E h \in Handlers : Invalidate(h)
  BY <1>4 DEF Invalidate, Forget, Stale, Nothing
<1>5. CASE \E h \in Handlers : LateCallFails(h)
  BY <1>1, <1>3, <1>5 DEF LateCallFails
<1>6. CASE LockStep
  <2>1. CASE GraceEnds
    <3>1. cache' = cache /\ late' = late /\ skipped' = skipped
      BY <1>6, <2>1 DEF LockStep, GraceEnds, lockVars
    <3>2. Verdict' = "locked" => FALSE
      BY <3>1 DEF Stale
    <3> QED BY <2>1, <3>1, <3>2, GraceLocks DEF RefusalsExplained, Stale
  <2>2. ASSUME NEW d \in Caches, Fill(d) PROVE c \in skipped' \cup late'
    <3>1. skipped' = skipped /\ sub' = sub /\ Verdict' = Verdict
      BY <1>6, <2>2 DEF LockStep, Fill, Verdict
    <3>2. CASE d = c
      BY <2>2, <3>1, <3>2 DEF Fill, Stale, TypeOK, LockTypeOK
    <3>3. CASE d # c
      BY <2>2, <3>1, <3>3 DEF Fill, Stale, TypeOK, LockTypeOK, RefusalsExplained
    <3> QED BY <3>2, <3>3
  <2>3. ASSUME NEW d \in Caches, Query(d) PROVE c \in skipped' \cup late'
    BY <1>1, <1>6, <2>3 DEF LockStep, Query
  <2>4. ASSUME NEW d \in Caches, Expire(d) PROVE c \in skipped' \cup late'
    BY <1>3, <1>6, <2>4 DEF LockStep, Expire
  <2> QED BY <1>6, <2>1, <2>2, <2>3, <2>4 DEF LockStep
<1>7. ASSUME NEW h \in Handlers,
             \/ \E e \in Events : Deliver(h, e) \/ Repeat(h, e)
             \/ Acquire(h) \/ GiveUp(h) \/ ReadKey(h) \/ VerifyKey(h) \/ EnsureRow(h)
             \/ RememberAgain(h) \/ MarkProcessing(h) \/ ApplyAborts(h) \/ ApplyFails(h)
             \/ RecordFailure(h) \/ Remember(h) \/ Accept(h) \/ Refuse(h) \/ CallFails(h)
             \/ Crash(h)
      PROVE  sub' = sub /\ cache' = cache /\ late' = late /\ skipped' = skipped
  BY <1>7 DEF Deliver, Repeat, Arrive, Acquire, GiveUp, ReadKey, VerifyKey, EnsureRow,
     RememberAgain, MarkProcessing, ApplyAborts, ApplyFails, RecordFailure, Remember,
     Accept, Refuse, Answer, CallFails, Crash, lockVars
<1>8. ASSUME Lapse \/ OrphanExpires \/ (\E e \in Events : KeyExpires(e)) \/ UNCHANGED vars
      PROVE  sub' = sub /\ cache' = cache /\ late' = late /\ skipped' = skipped
  BY <1>8 DEF Lapse, OrphanExpires, KeyExpires, vars, lockVars
<1> QED BY <1>1, <1>2, <1>4, <1>5, <1>6, <1>7, <1>8 DEF Next, HandlerStep

\* A cached refusal of an organization that has paid is always one of the
\* windows the property names.
THEOREM RefusalsAreExplained == Spec => []RefusalsExplained
<1>1. Init => RefusalsExplained
  BY DEF Init, LockInit, Nothing, RefusalsExplained, Stale
<1>2. TypeOK /\ RefusalsExplained /\ [Next]_vars => (TypeOK /\ RefusalsExplained)'
  BY NextTypeOK, NextRefusals
<1> QED BY <1>1, <1>2, InitTypeOK, PTL DEF Spec
=============================================================================
