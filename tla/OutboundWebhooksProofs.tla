----------------------- MODULE OutboundWebhooksProofs -----------------------
(***************************************************************************)
(* Safety of OutboundWebhooks for every number of jobs, slots, attempts,   *)
(* updates and faults, and every threshold.                                *)
(***************************************************************************)
EXTENDS OutboundWebhooks, JobQueueProofs

\* The slots whose attempt has a row that no answer was written to.
Open == {s \in Slots : pc[s] \in {"limit", "call", "note"}}

\* The slots whose attempt has a row, and may still cost the endpoint one
\* failure.
MayCost(at, a) ==
    \/ at \in {"limit", "call", "note", "penalise"}
    \/ at = "write" /\ a = "refused"
    \/ at = "explain" /\ a = "error"

Pending == {s \in Slots : MayCost(pc[s], answer[s])}

\* What a slot's position says of its answer and of its job's history.
SlotFacts ==
    \A s \in Slots :
        /\ pc[s] \in {"note", "write"} => answer[s] \in {"ok", "refused"}
        /\ pc[s] = "explain" => answer[s] \in {"refused", "error"}
        /\ pc[s] = "finish" => answer[s] \in {"skipped", "ok"}
        /\ pc[s] \in {"note", "write", "finish"} /\ answer[s] = "ok" => received[job[s]] > 0
        /\ pc[s] \in {"write", "finish"} /\ answer[s] = "ok" => delivered[job[s]] > 0

\* Unsuccessful rows and faults that no pending attempt can take back.
Balance == missed + faults - Cardinality(Pending)

\* The ledger: every failure that the endpoint counts, that a slot has read,
\* or that disabled the endpoint is on that balance.
Ledger ==
    /\ Cardinality(Open) <= missed
    /\ failures <= Balance
    /\ \A s \in Slots : seen[s] <= Balance
    /\ status = "DISABLED" /\ ~switchedOff => Threshold <= Balance

WebhookInv == TypeOK /\ SlotFacts /\ NothingLostQuietly /\ Ledger

-----------------------------------------------------------------------------
(* Counting slots.                                                         *)

\* What a slot at an await counts for in Open and in Pending.
OpenAt(at)    == One(at \in {"limit", "call", "note"})
CostAt(at, a) == One(MayCost(at, a))

\* What a step of slot s adds to the balance.
Gain(s) ==
    (missed' + faults' - CostAt(pc'[s], answer'[s])) - (missed + faults - CostAt(pc[s], answer[s]))

\* Only slot s moves.
OnlyMoves(s) ==
    \A v \in Slots : v # s => pc'[v] = pc[v] /\ answer'[v] = answer[v] /\ job'[v] = job[v]

\* The weights of every await.
LEMMA Weights ==
    /\ OpenAt("limit") = 1 /\ OpenAt("call") = 1 /\ OpenAt("note") = 1
    /\ \A at \in PCs \ {"limit", "call", "note"} : OpenAt(at) = 0
    /\ \A at \in {"limit", "call", "note", "penalise"}, a \in Answers : CostAt(at, a) = 1
    /\ \A at \in {"idle", "load", "log", "finish", "throw"}, a \in Answers : CostAt(at, a) = 0
    /\ CostAt("write", "refused") = 1 /\ CostAt("write", "ok") = 0
    /\ CostAt("explain", "refused") = 0 /\ CostAt("explain", "error") = 1
    /\ \A at, a : OpenAt(at) \in {0, 1} /\ CostAt(at, a) \in {0, 1}
BY DEF OpenAt, CostAt, One, MayCost, PCs

\* A slot that moves changes the two tallies by its own weight.
LEMMA TallyStep ==
    ASSUME NEW s \in Slots, OnlyMoves(s)
    PROVE  /\ Cardinality(Open) \in Nat /\ Cardinality(Open') \in Nat
           /\ Cardinality(Pending) \in Nat /\ Cardinality(Pending') \in Nat
           /\ Cardinality(Open') = Cardinality(Open) - OpenAt(pc[s]) + OpenAt(pc'[s])
           /\ Cardinality(Pending') =
                  Cardinality(Pending) - CostAt(pc[s], answer[s]) + CostAt(pc'[s], answer'[s])
<1>1. IsFiniteSet(Open) /\ IsFiniteSet(Pending)
  <2>1. Open \in SUBSET Slots /\ Pending \in SUBSET Slots
    BY DEF Open, Pending
  <2> QED BY <2>1, FS_Subset, QueueAssumption DEF QueueAssumption
<1>2. Open \ {s} = Open' \ {s} /\ Pending \ {s} = Pending' \ {s}
  BY DEF Open, Pending, MayCost, OnlyMoves
<1>3. /\ s \in Open <=> pc[s] \in {"limit", "call", "note"}
      /\ s \in Open' <=> pc'[s] \in {"limit", "call", "note"}
      /\ s \in Pending <=> MayCost(pc[s], answer[s])
      /\ s \in Pending' <=> MayCost(pc'[s], answer'[s])
  BY DEF Open, Pending, MayCost
<1>4. /\ One(s \in Open) = OpenAt(pc[s]) /\ One(s \in Open') = OpenAt(pc'[s])
      /\ One(s \in Pending) = CostAt(pc[s], answer[s])
      /\ One(s \in Pending') = CostAt(pc'[s], answer'[s])
  BY <1>3 DEF One, OpenAt, CostAt
<1>5. /\ Cardinality(Open) \in Nat /\ Cardinality(Open') \in Nat
      /\ Cardinality(Open') = Cardinality(Open) - One(s \in Open) + One(s \in Open')
  BY <1>1, <1>2, SizeSwap
<1>6. /\ Cardinality(Pending) \in Nat /\ Cardinality(Pending') \in Nat
      /\ Cardinality(Pending') = Cardinality(Pending) - One(s \in Pending) + One(s \in Pending')
  BY <1>1, <1>2, SizeSwap
<1> QED BY <1>4, <1>5, <1>6

\* The tallies are numbers, and change only with the slots.
LEMMA TallyFrame ==
    ASSUME TypeOK
    PROVE  /\ Cardinality(Open) \in Nat /\ Cardinality(Pending) \in Nat
           /\ Balance \in Int
           /\ pc' = pc /\ answer' = answer => Open' = Open /\ Pending' = Pending
<1>1. Open \in SUBSET Slots /\ Pending \in SUBSET Slots
  BY DEF Open, Pending
<1>2. Cardinality(Open) \in Nat /\ Cardinality(Pending) \in Nat
  BY <1>1, FS_Subset, FS_CardinalityType, QueueAssumption DEF QueueAssumption
<1>3. Balance \in Int
  BY <1>2 DEF Balance, TypeOK
<1> QED BY <1>2, <1>3 DEF Open, Pending

-----------------------------------------------------------------------------
(* Type correctness.                                                       *)

\* The initial state is well typed.
LEMMA InitTypeOK == Init => TypeOK
<1> SUFFICES ASSUME Init PROVE TypeOK
  OBVIOUS
<1>1. QueueTypeOK
  BY DEF Init, QueueInit, QueueTypeOK, JobStates
<1>2. edits \in 0 .. MaxEdits /\ faults \in 0 .. MaxFaults
  BY WebhookAssumption DEF Init, WebhookAssumption
<1>3. /\ pc \in [Slots -> PCs] /\ job \in [Slots -> Jobs \cup {NoJob}]
      /\ \A s \in Slots : pc[s] # "idle" => job[s] \in Jobs
      /\ seen \in [Slots -> Nat] /\ answer \in [Slots -> Answers]
  BY DEF Init, PCs, Answers
<1> QED BY <1>1, <1>2, <1>3 DEF Init, TypeOK, Endpoint

\* An attempt that has yet to note its answer has an unsuccessful row.
LEMMA RowToNote ==
    ASSUME TypeOK, Ledger, NEW s \in Slots, pc[s] = "note"
    PROVE  missed - 1 \in Nat
<1>1. IsFiniteSet(Open) /\ s \in Open
  <2>1. Open \in SUBSET Slots /\ s \in Open
    BY DEF Open
  <2> QED BY <2>1, FS_Subset, QueueAssumption DEF QueueAssumption
<1>2. Cardinality(Open) \in Nat /\ Cardinality(Open) # 0
  BY <1>1, FS_CardinalityType, FS_EmptySet
<1> QED BY <1>2 DEF Ledger, TypeOK

\* A slot that is released is idle and well typed.
LEMMA ReleaseType ==
    ASSUME TypeOK, NEW s \in Slots, Release(s)
    PROVE  /\ pc' \in [Slots -> PCs]
           /\ job' \in [Slots -> Jobs \cup {NoJob}]
           /\ \A v \in Slots : pc'[v] # "idle" => job'[v] \in Jobs
           /\ seen' \in [Slots -> Nat]
           /\ answer' \in [Slots -> Answers]
BY DEF TypeOK, Release, Goto, Became, PCs, Answers

\* Every step keeps the state well typed.
LEMMA NextTypeOK ==
    ASSUME TypeOK, SlotFacts, Ledger, [Next]_vars
    PROVE  TypeOK'
<1> USE DEF endpointVars, adminVars, rowVars, slotVars, Goto, Became
<1>q. QueueTypeOK
  BY DEF TypeOK
<1>1. ASSUME NEW new \in Endpoint, SetStatus(new) PROVE TypeOK'
  BY <1>1, WebhookAssumption DEF SetStatus, TypeOK, QueueTypeOK, queueVars, WebhookAssumption
<1>2. ASSUME SetTopics PROVE TypeOK'
  BY <1>2, WebhookAssumption DEF SetTopics, TypeOK, QueueTypeOK, queueVars, WebhookAssumption
<1>3. ASSUME NEW j \in Jobs, Publish(j) PROVE TypeOK'
  BY <1>3 DEF Publish, TypeOK, QueueTypeOK, queueVars
<1>4. ASSUME NEW j \in Jobs, Enqueue(j) \/ RetryDelivery(j) PROVE TypeOK'
  <2>1. QueueTypeOK'
    BY <1>4, <1>q DEF Enqueue, RetryDelivery, Add, QueueTypeOK, JobStates
  <2> QED BY <1>4, <2>1 DEF Enqueue, RetryDelivery, TypeOK
<1>5. ASSUME NEW j \in Jobs, StalledCheck(j) PROVE TypeOK'
  <2>1. QueueTypeOK'
    BY <1>5, <1>q DEF StalledCheck, Redeliver, QueueTypeOK, JobStates
  <2> QED BY <1>5, <2>1 DEF StalledCheck, TypeOK
<1>6. ASSUME NEW s \in Slots, NEW j \in Jobs, Take(s, j) PROVE TypeOK'
  <2>1. QueueTypeOK'
    BY <1>6, <1>q, QueueType DEF Take
  <2> QED BY <1>6, <2>1 DEF Take, TypeOK, PCs
<1>7. ASSUME NEW s \in Slots, Handle(s) PROVE TypeOK'
  <2>1. CASE Load(s)
    BY <2>1 DEF Load, TypeOK, QueueTypeOK, queueVars, PCs, Answers
  <2>2. CASE LogDelivery(s)
    BY <2>2 DEF LogDelivery, TypeOK, QueueTypeOK, queueVars, PCs
  <2>3. CASE Limit(s)
    BY <2>3 DEF Limit, TypeOK, QueueTypeOK, queueVars, PCs, Answers
  <2>4. CASE Call(s)
    BY <2>4 DEF Call, TypeOK, QueueTypeOK, queueVars, PCs, Answers
  <2>5. CASE Note(s)
    <3>1. missed' \in Nat
      BY <2>5, RowToNote DEF Note, TypeOK
    <3>2. delivered' \in [Jobs -> Nat]
      BY <2>5 DEF Note, TypeOK
    <3> QED BY <2>5, <3>1, <3>2 DEF Note, TypeOK, QueueTypeOK, queueVars, PCs
  <2>6. CASE Write(s)
    BY <2>6 DEF Write, Penalty, TypeOK, QueueTypeOK, queueVars, PCs, Endpoint
  <2>7. CASE Explain(s)
    BY <2>7 DEF Explain, TypeOK, QueueTypeOK, queueVars, PCs
  <2>8. CASE PenaliseError(s)
    BY <2>8 DEF PenaliseError, Penalty, TypeOK, QueueTypeOK, queueVars, PCs, Endpoint
  <2>9. CASE Finish(s)
    <3>1. job[s] \in Jobs /\ Release(s)
      BY <2>9 DEF Finish, TypeOK
    <3>2. QueueTypeOK'
      BY <2>9, <3>1, <1>q, QueueType DEF Finish
    <3>3. answer[s] \in {"skipped", "ok"}
      BY <2>9 DEF Finish, SlotFacts
    <3>4. value' \in [Jobs -> {"none", "skipped", "ok"}]
      BY <2>9, <3>3 DEF Finish, TypeOK
    <3> QED BY <2>9, <3>1, <3>2, <3>4, ReleaseType DEF Finish, TypeOK
  <2>10. CASE Throw(s)
    <3>1. job[s] \in Jobs /\ Release(s)
      BY <2>10 DEF Throw, TypeOK
    <3>2. QueueTypeOK'
      BY <2>10, <3>1, <1>q, QueueType DEF Throw
    <3> QED BY <2>10, <3>1, <3>2, ReleaseType DEF Throw, TypeOK
  <2> QED
    BY <1>7, <2>1, <2>2, <2>3, <2>4, <2>5, <2>6, <2>7, <2>8, <2>9, <2>10 DEF Handle
<1>8. ASSUME NEW s \in Slots, Disturb(s) PROVE TypeOK'
  <2>0. faults < MaxFaults => faults + 1 \in 0 .. MaxFaults
    BY WebhookAssumption DEF WebhookAssumption, TypeOK
  <2>1. CASE LateAnswer(s)
    BY <2>0, <2>1 DEF LateAnswer, TypeOK, QueueTypeOK, queueVars, PCs, Answers
  <2>2. CASE Fault(s)
    BY <2>0, <2>2 DEF Fault, TypeOK, QueueTypeOK, queueVars, PCs, Answers
  <2>3. CASE Crash(s)
    <3>1. job[s] \in Jobs /\ Release(s)
      BY <2>3 DEF Crash, TypeOK
    <3>2. QueueTypeOK'
      BY <2>3, <3>1, <1>q, QueueType DEF Crash
    <3> QED BY <2>0, <2>3, <3>1, <3>2, ReleaseType DEF Crash, TypeOK
  <2>4. CASE LockExpires(s)
    <3>1. job[s] \in Jobs
      BY <2>4 DEF LockExpires, TypeOK
    <3>2. QueueTypeOK'
      BY <2>4, <3>1, <1>q, QueueType DEF LockExpires
    <3> QED BY <2>0, <2>4, <3>2 DEF LockExpires, TypeOK
  <2> QED BY <1>8, <2>1, <2>2, <2>3, <2>4 DEF Disturb
<1>9. CASE UNCHANGED vars
  BY <1>9 DEF vars, TypeOK, QueueTypeOK, queueVars
<1> QED
  BY <1>1, <1>2, <1>3, <1>4, <1>5, <1>6, <1>7, <1>8, <1>9 DEF Next

-----------------------------------------------------------------------------
(* The ledger and the history.                                             *)

\* What NothingLostQuietly says of one job.
Quiet(j) == value[j] = "skipped" \/ (delivered[j] > 0 /\ received[j] > 0)

\* The initial state satisfies the invariant.
LEMMA InitInv == Init => WebhookInv
<1> SUFFICES ASSUME Init PROVE SlotFacts /\ NothingLostQuietly /\ Ledger
  BY InitTypeOK DEF WebhookInv
<1>1. SlotFacts /\ NothingLostQuietly
  BY DEF Init, QueueInit, SlotFacts, NothingLostQuietly
<1>2. Open = {} /\ Pending = {}
  BY DEF Init, Open, Pending, MayCost
<1>3. Cardinality(Open) = 0 /\ Cardinality(Pending) = 0
  BY <1>2, FS_EmptySet
<1> QED BY <1>1, <1>3 DEF Init, Ledger, Balance

\* A step that moves no slot keeps the invariant if it loses no history,
\* takes nothing off the balance and disables the endpoint for no new reason.
LEMMA OutsideStep ==
    ASSUME WebhookInv, TypeOK',
           UNCHANGED <<slotVars, rowVars, received, value, failures>>, faults' >= faults,
           \A j \in Jobs : jobs'[j] = "completed" => jobs[j] = "completed",
           status' = "DISABLED" /\ ~switchedOff' => status = "DISABLED" /\ ~switchedOff
    PROVE  WebhookInv'
<1> USE DEF slotVars, rowVars
<1>1. SlotFacts' /\ NothingLostQuietly'
  BY DEF WebhookInv, SlotFacts, NothingLostQuietly
<1>2. Balance' >= Balance /\ Balance \in Int /\ Balance' \in Int /\ Open' = Open
  BY TallyFrame DEF WebhookInv, Balance, TypeOK
<1>3. Ledger'
  BY <1>2, WebhookAssumption DEF WebhookInv, Ledger, TypeOK, WebhookAssumption
<1> QED BY <1>1, <1>3 DEF WebhookInv

\* A step of slot s keeps the invariant if it loses no history, fits the
\* slot's new position, takes nothing off the balance, and counts a failure
\* or disables the endpoint only when it adds to the balance.
LEMMA SlotStep ==
    ASSUME WebhookInv, TypeOK', NEW s \in Slots, OnlyMoves(s),
           \A j \in Jobs : received'[j] >= received[j] /\ delivered'[j] >= delivered[j],
           \A j \in Jobs : jobs'[j] = "completed" =>
               (jobs[j] = "completed" /\ value'[j] = value[j]) \/ Quiet(j)',
           pc'[s] \in {"note", "write"} => answer'[s] \in {"ok", "refused"},
           pc'[s] = "explain" => answer'[s] \in {"refused", "error"},
           pc'[s] = "finish" => answer'[s] \in {"skipped", "ok"},
           pc'[s] \in {"note", "write", "finish"} /\ answer'[s] = "ok" => received'[job'[s]] > 0,
           pc'[s] \in {"write", "finish"} /\ answer'[s] = "ok" => delivered'[job'[s]] > 0,
           missed' - OpenAt(pc'[s]) >= missed - OpenAt(pc[s]),
           Gain(s) >= 0,
           failures' \in {failures, 0} \/ (failures' = seen[s] + 1 /\ Gain(s) >= 1),
           \A v \in Slots : seen'[v] \in {seen[v], failures, 0},
           status' = "DISABLED" /\ ~switchedOff' =>
               \/ status = "DISABLED" /\ ~switchedOff
               \/ Threshold <= seen[s] + 1 /\ Gain(s) >= 1
    PROVE  WebhookInv'
<1>1. \A j \in Jobs : /\ received[j] > 0 => received'[j] > 0
                      /\ delivered[j] > 0 => delivered'[j] > 0
  BY DEF WebhookInv, TypeOK
<1>2. SlotFacts'
  <2> SUFFICES ASSUME NEW v \in Slots
               PROVE  /\ pc'[v] \in {"note", "write"} => answer'[v] \in {"ok", "refused"}
                      /\ pc'[v] = "explain" => answer'[v] \in {"refused", "error"}
                      /\ pc'[v] = "finish" => answer'[v] \in {"skipped", "ok"}
                      /\ pc'[v] \in {"note", "write", "finish"} /\ answer'[v] = "ok"
                            => received'[job'[v]] > 0
                      /\ pc'[v] \in {"write", "finish"} /\ answer'[v] = "ok"
                            => delivered'[job'[v]] > 0
    BY DEF SlotFacts
  <2>1. CASE v = s
    BY <2>1
  <2>2. CASE v # s
    <3>1. pc[v] # "idle" => job[v] \in Jobs
      BY DEF WebhookInv, TypeOK
    <3> QED BY <1>1, <2>2, <3>1 DEF OnlyMoves, WebhookInv, SlotFacts
  <2> QED BY <2>1, <2>2
<1>3. NothingLostQuietly'
  BY <1>1 DEF WebhookInv, NothingLostQuietly, Quiet
<1>4. /\ Cardinality(Open) \in Nat /\ Cardinality(Open') \in Nat
      /\ Cardinality(Pending) \in Nat /\ Cardinality(Pending') \in Nat
      /\ Cardinality(Open') = Cardinality(Open) - OpenAt(pc[s]) + OpenAt(pc'[s])
      /\ Cardinality(Pending') =
             Cardinality(Pending) - CostAt(pc[s], answer[s]) + CostAt(pc'[s], answer'[s])
  BY TallyStep
<1>5. /\ OpenAt(pc[s]) \in Int /\ OpenAt(pc'[s]) \in Int
      /\ CostAt(pc[s], answer[s]) \in Int /\ CostAt(pc'[s], answer'[s]) \in Int
  BY Weights
<1>6. missed \in Nat /\ missed' \in Nat /\ faults \in Nat /\ faults' \in Nat
  BY DEF WebhookInv, TypeOK
<1>7. /\ Balance \in Int /\ Balance' = Balance + Gain(s) /\ Gain(s) \in Int
      /\ Cardinality(Open') <= missed'
  BY <1>4, <1>5, <1>6 DEF Balance, Gain, WebhookInv, Ledger
<1>8. Ledger'
  BY <1>7, WebhookAssumption DEF WebhookInv, Ledger, TypeOK, WebhookAssumption
<1> QED BY <1>2, <1>3, <1>8 DEF WebhookInv

\* Every step keeps the invariant.
LEMMA NextInv == WebhookInv /\ [Next]_vars => WebhookInv'
<1> SUFFICES ASSUME WebhookInv, [Next]_vars PROVE WebhookInv'
  OBVIOUS
<1> USE DEF endpointVars, adminVars, rowVars, slotVars, queueVars, Goto, Became
<1>t. TypeOK /\ TypeOK' /\ faults \in Nat /\ missed \in Nat
  BY NextTypeOK DEF WebhookInv, TypeOK
<1>m. \A j \in Jobs : received[j] >= received[j] /\ delivered[j] >= delivered[j]
  BY <1>t DEF TypeOK
<1>1. ASSUME NEW new \in Endpoint, SetStatus(new) PROVE WebhookInv'
  <2>1. /\ UNCHANGED <<slotVars, rowVars, received, value, failures, faults, jobs>>
        /\ status' = new /\ (new = "DISABLED" => switchedOff')
    BY <1>1 DEF SetStatus
  <2> QED BY <2>1, <1>t, OutsideStep
<1>2. CASE SetTopics
  BY <1>2, <1>t, OutsideStep DEF SetTopics
<1>3. ASSUME NEW j \in Jobs, Publish(j) PROVE WebhookInv'
  BY <1>3, <1>t, OutsideStep DEF Publish
<1>4. ASSUME NEW j \in Jobs, Enqueue(j) \/ RetryDelivery(j) PROVE WebhookInv'
  <2>1. jobs' = [jobs EXCEPT ![j] = "waiting"]
    BY <1>4 DEF Enqueue, RetryDelivery, Add
  <2>2. \A i \in Jobs : jobs'[i] = "completed" => jobs[i] = "completed"
    BY <2>1, <1>t DEF TypeOK, QueueTypeOK
  <2> QED BY <1>4, <1>t, <2>2, OutsideStep DEF Enqueue, RetryDelivery
<1>5. ASSUME NEW j \in Jobs, StalledCheck(j) PROVE WebhookInv'
  <2>1. \A i \in Jobs : jobs'[i] = "completed" => jobs[i] = "completed"
    BY <1>5, <1>t DEF StalledCheck, Redeliver, TypeOK, QueueTypeOK
  <2> QED BY <1>5, <1>t, <2>1, OutsideStep DEF StalledCheck
<1>r. ASSUME NEW s \in Slots, Release(s), faults' \in {faults, faults + 1},
             UNCHANGED <<received, delivered, value, missed, failures, status, switchedOff>>,
             \A j \in Jobs : jobs'[j] = "completed" => jobs[j] = "completed"
      PROVE  WebhookInv'
  <2>1. /\ OnlyMoves(s) /\ pc'[s] = "idle" /\ answer'[s] = "none"
        /\ \A v \in Slots : seen'[v] \in {seen[v], 0}
    BY <1>r, <1>t DEF Release, OnlyMoves, TypeOK
  <2>2. /\ OpenAt(pc'[s]) = 0 /\ CostAt(pc'[s], answer'[s]) = 0
        /\ OpenAt(pc[s]) \in {0, 1} /\ CostAt(pc[s], answer[s]) \in {0, 1}
    BY <2>1, Weights DEF PCs, Answers
  <2>3. Gain(s) >= 0 /\ missed' - OpenAt(pc'[s]) >= missed - OpenAt(pc[s])
    BY <1>r, <2>2, <1>t DEF Gain
  <2> QED BY <1>r, <1>t, <1>m, <2>1, <2>3, SlotStep
<1>6. ASSUME NEW s \in Slots, NEW j \in Jobs, Take(s, j) PROVE WebhookInv'
  <2>1. \A i \in Jobs : jobs'[i] = "completed" => jobs[i] = "completed"
    BY <1>6, <1>t DEF Take, Claim, TypeOK, QueueTypeOK
  <2>2. OnlyMoves(s) /\ pc[s] = "idle" /\ pc'[s] = "load" /\ answer' = answer
    BY <1>6, <1>t DEF Take, OnlyMoves, TypeOK
  <2>3. Gain(s) = 0 /\ OpenAt(pc[s]) = 0 /\ OpenAt(pc'[s]) = 0
    BY <1>6, <2>2, <1>t, Weights DEF Take, Gain, TypeOK, PCs
  <2>4. UNCHANGED <<received, delivered, value, missed, failures, seen, status, switchedOff>>
    BY <1>6 DEF Take
  <2> QED BY <1>t, <1>m, <2>1, <2>2, <2>3, <2>4, SlotStep
<1>7. ASSUME NEW s \in Slots, Handle(s) PROVE WebhookInv'
  <2>f. /\ pc[s] \in {"note", "write"} => answer[s] \in {"ok", "refused"}
        /\ pc[s] = "explain" => answer[s] \in {"refused", "error"}
        /\ pc[s] \in {"note", "write", "finish"} /\ answer[s] = "ok" => received[job[s]] > 0
        /\ pc[s] \in {"write", "finish"} /\ answer[s] = "ok" => delivered[job[s]] > 0
        /\ answer[s] \in Answers
    BY DEF WebhookInv, SlotFacts, TypeOK
  <2>1. CASE Load(s)
    <3>1. /\ OnlyMoves(s) /\ pc[s] = "load"
          /\ \/ pc'[s] = "log" /\ answer' = answer
             \/ pc'[s] = "finish" /\ answer'[s] = "skipped"
          /\ \A v \in Slots : seen'[v] \in {seen[v], failures}
      BY <2>1, <1>t DEF Load, OnlyMoves, TypeOK
    <3>2. UNCHANGED <<jobs, received, delivered, value, missed, faults, failures, status, switchedOff>>
      BY <2>1 DEF Load
    <3>3. Gain(s) = 0 /\ OpenAt(pc[s]) = 0 /\ OpenAt(pc'[s]) = 0
      BY <3>1, <3>2, <1>t, <2>f, Weights DEF Gain, PCs, Answers
    <3> QED BY <1>t, <1>m, <3>1, <3>2, <3>3, SlotStep
  <2>2. CASE LogDelivery(s)
    <3>1. OnlyMoves(s) /\ pc[s] = "log" /\ pc'[s] = "limit" /\ answer' = answer
      BY <2>2, <1>t DEF LogDelivery, OnlyMoves, TypeOK
    <3>2. /\ UNCHANGED <<jobs, received, delivered, value, faults, failures, seen, status, switchedOff>>
          /\ missed' = missed + 1
      BY <2>2 DEF LogDelivery
    <3>3. Gain(s) = 0 /\ OpenAt(pc[s]) = 0 /\ OpenAt(pc'[s]) = 1
      BY <3>1, <3>2, <1>t, <2>f, Weights DEF Gain, PCs
    <3> QED BY <1>t, <1>m, <3>1, <3>2, <3>3, SlotStep
  <2>3. CASE Limit(s)
    <3>1. /\ OnlyMoves(s) /\ pc[s] = "limit"
          /\ \/ pc'[s] = "call" /\ answer' = answer
             \/ pc'[s] = "explain" /\ answer'[s] = "error"
      BY <2>3, <1>t DEF Limit, OnlyMoves, TypeOK
    <3>2. UNCHANGED <<jobs, received, delivered, value, missed, faults, failures, seen, status,
                      switchedOff>>
      BY <2>3 DEF Limit
    <3>3. Gain(s) = 0 /\ OpenAt(pc[s]) = 1 /\ OpenAt(pc'[s]) \in {0, 1}
      BY <3>1, <3>2, <1>t, <2>f, Weights DEF Gain, PCs
    <3> QED BY <1>t, <1>m, <3>1, <3>2, <3>3, SlotStep
  <2>4. CASE Call(s)
    <3>1. /\ OnlyMoves(s) /\ pc[s] = "call" /\ job' = job
          /\ \/ pc'[s] = "note" /\ answer'[s] = "ok" /\ received'[job[s]] > 0
             \/ pc'[s] = "note" /\ answer'[s] = "refused"
             \/ pc'[s] = "explain" /\ answer'[s] = "error"
          /\ \A j \in Jobs : received'[j] >= received[j]
      BY <2>4, <1>t DEF Call, OnlyMoves, TypeOK
    <3>2. UNCHANGED <<jobs, delivered, value, missed, faults, failures, seen, status, switchedOff>>
      BY <2>4 DEF Call
    <3>3. Gain(s) = 0 /\ OpenAt(pc[s]) = 1 /\ OpenAt(pc'[s]) \in {0, 1}
      BY <3>1, <3>2, <1>t, <2>f, Weights DEF Gain, Answers
    <3>4. \A j \in Jobs : jobs'[j] = "completed" => jobs[j] = "completed" /\ value'[j] = value[j]
      BY <3>2
    <3> QED BY <1>t, <1>m, <3>1, <3>2, <3>3, <3>4, SlotStep
  <2>5. CASE Note(s)
    <3>1. OnlyMoves(s) /\ pc[s] = "note" /\ pc'[s] = "write" /\ answer' = answer /\ job' = job
      BY <2>5, <1>t DEF Note, OnlyMoves, TypeOK
    <3>2. UNCHANGED <<jobs, received, value, faults, failures, seen, status, switchedOff>>
      BY <2>5 DEF Note
    <3>3. /\ \A j \in Jobs : delivered'[j] >= delivered[j]
          /\ answer[s] = "ok" => delivered'[job[s]] > 0 /\ missed' = missed - 1
          /\ answer[s] # "ok" => missed' = missed
      BY <2>5, <3>1, <1>t DEF Note, TypeOK
    <3>4. Gain(s) = 0 /\ OpenAt(pc[s]) = 1 /\ OpenAt(pc'[s]) = 0
      BY <3>1, <3>2, <3>3, <1>t, <2>f, Weights DEF Gain, PCs
    <3>5. missed' - OpenAt(pc'[s]) >= missed - OpenAt(pc[s])
      BY <3>3, <3>4, <1>t
    <3>6. \A j \in Jobs : received'[j] >= received[j] /\ delivered'[j] >= delivered[j]
      BY <3>2, <3>3, <1>m
    <3> QED BY <1>t, <2>f, <3>1, <3>2, <3>3, <3>4, <3>5, <3>6, SlotStep
  <2>6. CASE Write(s)
    <3>1. OnlyMoves(s) /\ pc[s] = "write" /\ answer' = answer /\ job' = job
      BY <2>6, <1>t DEF Write, OnlyMoves, TypeOK
    <3>2. UNCHANGED <<jobs, received, delivered, value, missed, faults, seen, switchedOff>>
      BY <2>6 DEF Write
    <3>3. CASE answer[s] = "ok"
      <4>1. pc'[s] = "finish" /\ failures' = 0 /\ status' = status
        BY <2>6, <3>3, <1>t DEF Write, TypeOK
      <4>2. Gain(s) = 0 /\ OpenAt(pc[s]) = 0 /\ OpenAt(pc'[s]) = 0
        BY <3>1, <3>2, <3>3, <4>1, <1>t, <2>f, Weights DEF Gain, PCs
      <4> QED BY <1>t, <1>m, <2>f, <3>1, <3>2, <3>3, <4>1, <4>2, SlotStep
    <3>4. CASE answer[s] = "refused"
      <4>1. /\ pc'[s] = "explain" /\ failures' = seen[s] + 1
            /\ status' = "DISABLED" => Threshold <= seen[s] + 1
        BY <2>6, <3>4, <1>t, WebhookAssumption DEF Write, Penalty, TypeOK, WebhookAssumption
      <4>2. Gain(s) = 1 /\ OpenAt(pc[s]) = 0 /\ OpenAt(pc'[s]) = 0
        BY <3>1, <3>2, <3>4, <4>1, <1>t, <2>f, Weights DEF Gain, PCs
      <4> QED BY <1>t, <1>m, <2>f, <3>1, <3>2, <3>4, <4>1, <4>2, SlotStep
    <3> QED BY <2>f, <3>1, <3>3, <3>4
  <2>7. CASE Explain(s)
    <3>1. /\ OnlyMoves(s) /\ pc[s] = "explain" /\ answer' = answer
          /\ pc'[s] = (IF answer[s] = "refused" THEN "throw" ELSE "penalise")
      BY <2>7, <1>t DEF Explain, OnlyMoves, TypeOK
    <3>2. UNCHANGED <<jobs, received, delivered, value, missed, faults, failures, seen, status,
                      switchedOff>>
      BY <2>7 DEF Explain
    <3>3. Gain(s) = 0 /\ OpenAt(pc[s]) = 0 /\ OpenAt(pc'[s]) = 0
      BY <3>1, <3>2, <1>t, <2>f, Weights DEF Gain, PCs
    <3> QED BY <1>t, <1>m, <3>1, <3>2, <3>3, SlotStep
  <2>8. CASE PenaliseError(s)
    <3>1. OnlyMoves(s) /\ pc[s] = "penalise" /\ pc'[s] = "throw" /\ answer' = answer
      BY <2>8, <1>t DEF PenaliseError, OnlyMoves, TypeOK
    <3>2. UNCHANGED <<jobs, received, delivered, value, missed, faults, seen, switchedOff>>
      BY <2>8 DEF PenaliseError
    <3>3. Gain(s) = 1 /\ OpenAt(pc[s]) = 0 /\ OpenAt(pc'[s]) = 0
      BY <3>1, <3>2, <1>t, <2>f, Weights DEF Gain, PCs
    <3>4. failures' = seen[s] + 1 /\ (status' = "DISABLED" => Threshold <= seen[s] + 1)
      BY <2>8, <1>t, WebhookAssumption DEF PenaliseError, Penalty, TypeOK, WebhookAssumption
    <3> QED BY <1>t, <1>m, <3>1, <3>2, <3>3, <3>4, SlotStep
  <2>9. CASE Finish(s)
    <3>1. pc[s] = "finish" /\ Release(s)
      BY <2>9 DEF Finish
    <3>2. OnlyMoves(s) /\ pc'[s] = "idle" /\ answer'[s] = "none"
          /\ \A v \in Slots : seen'[v] \in {seen[v], 0}
      BY <3>1, <1>t DEF Release, OnlyMoves, TypeOK
    <3>3. UNCHANGED <<received, delivered, missed, faults, failures, status, switchedOff>>
      BY <2>9 DEF Finish
    <3>4. Gain(s) = 0 /\ OpenAt(pc[s]) = 0 /\ OpenAt(pc'[s]) = 0
      BY <3>1, <3>2, <3>3, <1>t, <2>f, Weights DEF Gain, PCs, Answers
    <3>5. answer[s] \in {"skipped", "ok"} /\ job[s] \in Jobs
      BY <3>1, <1>t DEF WebhookInv, SlotFacts, TypeOK
    <3>6. \A j \in Jobs : jobs'[j] = "completed" =>
              (jobs[j] = "completed" /\ value'[j] = value[j]) \/ Quiet(j)'
      <4>1. CASE lock[job[s]] = s
        <5>1. /\ jobs' = [jobs EXCEPT ![job[s]] = "completed"]
              /\ value' = [value EXCEPT ![job[s]] = answer[s]]
          BY <2>9, <4>1 DEF Finish, Complete
        <5>2. \A j \in Jobs : j # job[s] => jobs'[j] = jobs[j] /\ value'[j] = value[j]
          BY <5>1, <1>t DEF TypeOK, QueueTypeOK
        <5>3. value'[job[s]] = answer[s]
          BY <5>1, <3>5, <1>t DEF TypeOK
        <5>4. \A j \in Jobs : j = job[s] => Quiet(j)'
          BY <5>3, <3>1, <3>3, <3>5, <2>f DEF Quiet
        <5> QED BY <5>2, <5>4, <5>1, <1>t DEF TypeOK, QueueTypeOK
      <4>2. CASE lock[job[s]] # s
        BY <2>9, <4>2 DEF Finish, Complete
      <4> QED BY <4>1, <4>2
    <3> QED BY <1>t, <1>m, <3>2, <3>3, <3>4, <3>6, SlotStep
  <2>10. CASE Throw(s)
    <3>1. pc[s] = "throw" /\ Release(s) /\ Reject(s, job[s]) /\ job[s] \in Jobs
      BY <2>10, <1>t DEF Throw, TypeOK
    <3>2. UNCHANGED <<received, delivered, value, missed, faults, failures, status, switchedOff>>
      BY <2>10 DEF Throw
    <3>3. \A j \in Jobs : jobs'[j] = "completed" => jobs[j] = "completed"
      BY <3>1, <1>t DEF Reject, TypeOK, QueueTypeOK
    <3> QED BY <3>1, <3>2, <3>3, <1>r
  <2> QED
    BY <1>7, <2>1, <2>2, <2>3, <2>4, <2>5, <2>6, <2>7, <2>8, <2>9, <2>10 DEF Handle
<1>8. ASSUME NEW s \in Slots, Disturb(s) PROVE WebhookInv'
  <2>f. /\ pc[s] \in {"note", "write"} => answer[s] \in {"ok", "refused"}
        /\ pc[s] = "explain" => answer[s] \in {"refused", "error"}
        /\ answer[s] \in Answers
    BY DEF WebhookInv, SlotFacts, TypeOK
  <2>1. CASE LateAnswer(s)
    <3>1. /\ OnlyMoves(s) /\ pc[s] = "call" /\ pc'[s] = "explain" /\ answer'[s] = "error"
          /\ \A j \in Jobs : received'[j] >= received[j]
      BY <2>1, <1>t DEF LateAnswer, OnlyMoves, TypeOK
    <3>2. /\ UNCHANGED <<jobs, delivered, value, missed, failures, seen, status, switchedOff>>
          /\ faults' = faults + 1
      BY <2>1 DEF LateAnswer
    <3>3. Gain(s) = 1 /\ OpenAt(pc[s]) = 1 /\ OpenAt(pc'[s]) = 0
      BY <3>1, <3>2, <1>t, <2>f, Weights DEF Gain, PCs
    <3>4. \A j \in Jobs : received'[j] >= received[j] /\ delivered'[j] >= delivered[j]
      BY <3>1, <3>2, <1>m
    <3> QED BY <1>t, <3>1, <3>2, <3>3, <3>4, SlotStep
  <2>2. CASE Fault(s)
    <3>1. /\ OnlyMoves(s)
          /\ \/ pc[s] \in {"note", "write"} /\ pc'[s] = "explain" /\ answer'[s] \in {"error", "refused"}
             \/ pc[s] \in {"load", "log", "explain", "penalise"} /\ pc'[s] = "throw" /\ answer' = answer
      BY <2>2, <1>t DEF Fault, OnlyMoves, TypeOK
    <3>2. /\ UNCHANGED <<jobs, received, delivered, value, missed, failures, seen, status, switchedOff>>
          /\ faults' = faults + 1
      BY <2>2 DEF Fault
    <3>3. Gain(s) >= 0 /\ missed' - OpenAt(pc'[s]) >= missed - OpenAt(pc[s])
      <4>1. OpenAt(pc'[s]) = 0 /\ OpenAt(pc[s]) \in {0, 1}
        BY <3>1, Weights DEF PCs
      <4>2. CostAt(pc'[s], answer'[s]) <= CostAt(pc[s], answer[s]) + 1
            /\ CostAt(pc[s], answer[s]) \in Int /\ CostAt(pc'[s], answer'[s]) \in Int
        BY Weights
      <4> QED BY <4>1, <4>2, <3>2, <1>t DEF Gain
    <3> QED BY <1>t, <1>m, <3>1, <3>2, <3>3, SlotStep
  <2>3. CASE Crash(s)
    <3>1. /\ Release(s) /\ pc[s] # "idle"
          /\ UNCHANGED <<jobs, received, delivered, value, missed, failures, status, switchedOff>>
          /\ faults' = faults + 1
      BY <2>3 DEF Crash, Abandon
    <3> QED BY <3>1, <1>r
  <2>4. CASE LockExpires(s)
    BY <2>4, <1>t, OutsideStep DEF LockExpires, Abandon
  <2> QED BY <1>8, <2>1, <2>2, <2>3, <2>4 DEF Disturb
<1>9. CASE UNCHANGED vars
  BY <1>9, <1>t, OutsideStep DEF vars
<1> QED
  BY <1>1, <1>2, <1>3, <1>4, <1>5, <1>6, <1>7, <1>8, <1>9 DEF Next

\* The webhook worker's state is always well typed; in particular the number
\* of unsuccessful delivery rows never goes below zero.
THEOREM TypeCorrect == Spec => []TypeOK
<1>1. WebhookInv => TypeOK
  BY DEF WebhookInv
<1> QED BY <1>1, InitInv, NextInv, PTL DEF Spec

\* A delivery job completes only as skipped or with a successful row of an
\* accepted request, for any number of slots, deliveries and faults.
THEOREM NothingIsLostQuietly == Spec => []NothingLostQuietly
<1>1. WebhookInv => NothingLostQuietly
  BY DEF WebhookInv
<1> QED BY <1>1, InitInv, NextInv, PTL DEF Spec

\* The breaker never counts a failure twice and never disables an endpoint
\* before Threshold unsuccessful attempts, however stale the counts are that
\* concurrent deliveries write back.
THEOREM PenaltiesAreJustified == Spec => []PenaltiesJustified
<1>1. WebhookInv => PenaltiesJustified
  <2> SUFFICES ASSUME WebhookInv PROVE PenaltiesJustified
    OBVIOUS
  <2>1. Cardinality(Pending) \in Nat
    BY TallyFrame DEF WebhookInv
  <2> QED BY <2>1, WebhookAssumption
          DEF WebhookInv, Ledger, Balance, PenaltiesJustified, TypeOK, WebhookAssumption
<1> QED BY <1>1, InitInv, NextInv, PTL DEF Spec

-----------------------------------------------------------------------------
(* Repetitions.                                                            *)

\* What a slot at an await is to its job: it may yet get an acceptance, it is
\* going to reject, it has an acceptance that the history does not show yet.
TryAt(at)     == One(at \in {"load", "log", "limit", "call"})
FailAt(at, a) == \/ at \in {"explain", "penalise", "throw"}
                 \/ at \in {"note", "write"} /\ a = "refused"
NoteAt(at, a) == at = "note" /\ a = "ok"

Trying(j)  == {s \in Slots : job[s] = j /\ pc[s] \in {"load", "log", "limit", "call"}}
Failing    == {s \in Slots : FailAt(pc[s], answer[s])}
Unnoted(j) == {s \in Slots : job[s] = j /\ NoteAt(pc[s], answer[s])}

\* Each acceptance that a delivery has or may get without a fault but the
\* first is paid for by a fault, and so is each that its rows do not show.
DeliveryFact(j) ==
    /\ \A s \in Slots : lock[j] = s => job[s] = j /\ jobs[j] = "active"
    /\ received[j] + Cardinality(Trying(j)) + One(MayRun(j, Failing)) <= 1 + faults
    /\ delivered[j] + Cardinality(Unnoted(j)) <= received[j]
    /\ received[j] <= delivered[j] + Cardinality(Unnoted(j)) + faults

DeliveryInv ==
    /\ \A s \in Slots : pc[s] = "idle" => job[s] = NoJob
    /\ \A j \in Jobs : DeliveryFact(j)

\* A slot that moves changes the tallies of a job by its own weight.
LEMMA JobTally ==
    ASSUME NEW s \in Slots, NEW j \in Jobs, OnlyMoves(s)
    PROVE  /\ Cardinality(Trying(j)) \in Nat /\ Cardinality(Trying(j)') \in Nat
           /\ Cardinality(Unnoted(j)) \in Nat /\ Cardinality(Unnoted(j)') \in Nat
           /\ Cardinality(Trying(j)') =
                  Cardinality(Trying(j)) - One(s \in Trying(j)) + One(s \in Trying(j)')
           /\ Cardinality(Unnoted(j)') =
                  Cardinality(Unnoted(j)) - One(s \in Unnoted(j)) + One(s \in Unnoted(j)')
<1>1. IsFiniteSet(Trying(j)) /\ IsFiniteSet(Unnoted(j))
  <2>1. Trying(j) \in SUBSET Slots /\ Unnoted(j) \in SUBSET Slots
    BY DEF Trying, Unnoted
  <2> QED BY <2>1, FS_Subset, QueueAssumption DEF QueueAssumption
<1>2. Trying(j) \ {s} = Trying(j)' \ {s} /\ Unnoted(j) \ {s} = Unnoted(j)' \ {s}
  BY DEF Trying, Unnoted, NoteAt, OnlyMoves
<1>3. /\ Cardinality(Trying(j)) \in Nat /\ Cardinality(Trying(j)') \in Nat
      /\ Cardinality(Trying(j)') =
             Cardinality(Trying(j)) - One(s \in Trying(j)) + One(s \in Trying(j)')
  BY <1>1, <1>2, SizeSwap
<1>4. /\ Cardinality(Unnoted(j)) \in Nat /\ Cardinality(Unnoted(j)') \in Nat
      /\ Cardinality(Unnoted(j)') =
             Cardinality(Unnoted(j)) - One(s \in Unnoted(j)) + One(s \in Unnoted(j)')
  BY <1>1, <1>2, SizeSwap
<1> QED BY <1>3, <1>4

\* What slot s and the queue contribute to the books of job j.
Share(s, j)   == received[j] + One(s \in Trying(j)) + One(MayRun(j, Failing)) - faults
Surplus(s, j) == delivered[j] + One(s \in Unnoted(j)) - received[j]

\* A step of slot s keeps the books of a job that it charges no more than a
\* fault pays for.
LEMMA BooksStep ==
    ASSUME TypeOK, TypeOK', NEW s \in Slots, NEW j \in Jobs, DeliveryFact(j), OnlyMoves(s),
           \A v \in Slots : lock'[j] = v => job'[v] = j /\ jobs'[j] = "active",
           Share(s, j)' <= Share(s, j),
           Surplus(s, j)' <= Surplus(s, j),
           Surplus(s, j) - Surplus(s, j)' <= faults' - faults
    PROVE  DeliveryFact(j)'
<1>1. /\ Cardinality(Trying(j)) \in Nat /\ Cardinality(Trying(j)') \in Nat
      /\ Cardinality(Unnoted(j)) \in Nat /\ Cardinality(Unnoted(j)') \in Nat
      /\ Cardinality(Trying(j)') =
             Cardinality(Trying(j)) - One(s \in Trying(j)) + One(s \in Trying(j)')
      /\ Cardinality(Unnoted(j)') =
             Cardinality(Unnoted(j)) - One(s \in Unnoted(j)) + One(s \in Unnoted(j)')
  BY JobTally
<1>2. /\ received[j] \in Nat /\ received'[j] \in Nat /\ delivered[j] \in Nat /\ delivered'[j] \in Nat
      /\ faults \in Nat /\ faults' \in Nat
  BY DEF TypeOK
<1>3. \A p : One(p) \in {0, 1}
  BY DEF One
<1>4. /\ One(s \in Trying(j)) \in Int /\ One(s \in Trying(j)') \in Int
      /\ One(s \in Unnoted(j)) \in Int /\ One(s \in Unnoted(j)') \in Int
      /\ One(MayRun(j, Failing)) \in Int /\ One(MayRun(j, Failing)') \in Int
  BY <1>3
<1>5. One(MayRun(j, Failing))' = One(MayRun(j, Failing)') /\ One(s \in Trying(j))' = One(s \in Trying(j)')
      /\ One(s \in Unnoted(j))' = One(s \in Unnoted(j)')
  OBVIOUS
<1>6. received'[j] + Cardinality(Trying(j)') + One(MayRun(j, Failing)') <= 1 + faults'
  BY <1>1, <1>2, <1>4, <1>5 DEF Share, DeliveryFact
<1>7. /\ delivered'[j] + Cardinality(Unnoted(j)') <= received'[j]
      /\ received'[j] <= delivered'[j] + Cardinality(Unnoted(j)') + faults'
  BY <1>1, <1>2, <1>4, <1>5 DEF Surplus, DeliveryFact
<1> QED BY <1>6, <1>7 DEF DeliveryFact

\* A step of slot s keeps the books of a job it neither has nor takes.
LEMMA OtherBooks ==
    ASSUME TypeOK, TypeOK', NEW s \in Slots, NEW j \in Jobs, DeliveryFact(j), OnlyMoves(s),
           job[s] # j, job'[s] # j, faults' >= faults,
           jobs'[j] = jobs[j], lock'[j] = lock[j],
           received'[j] = received[j], delivered'[j] = delivered[j]
    PROVE  DeliveryFact(j)'
<1>1. s \notin Trying(j) /\ s \notin Trying(j)' /\ s \notin Unnoted(j) /\ s \notin Unnoted(j)'
  BY DEF Trying, Unnoted
<1>2. \A v \in Slots : lock[j] = v => v # s /\ job[v] = j /\ jobs[j] = "active"
  BY DEF DeliveryFact
<1>3. \A v \in Slots : v # s => (v \in Failing <=> v \in Failing')
  BY DEF Failing, FailAt, OnlyMoves
<1>4. MayRun(j, Failing)' <=> MayRun(j, Failing)
  BY <1>2, <1>3, QueueAssumption DEF MayRun, Failing, QueueAssumption
<1>5. Share(s, j)' <= Share(s, j) /\ Surplus(s, j)' = Surplus(s, j) /\ Surplus(s, j) \in Int
  BY <1>1, <1>4 DEF Share, Surplus, One, TypeOK
<1>6. \A v \in Slots : lock'[j] = v => job'[v] = j /\ jobs'[j] = "active"
  BY <1>2 DEF OnlyMoves
<1>7. Surplus(s, j)' <= Surplus(s, j) /\ Surplus(s, j) - Surplus(s, j)' <= faults' - faults
  BY <1>5 DEF TypeOK
<1> QED BY <1>5, <1>6, <1>7, BooksStep

\* A step of slot s that leaves the queue alone and charges its job no more
\* than a fault pays for keeps the books.
LEMMA HandlerBooks ==
    ASSUME TypeOK, TypeOK', DeliveryInv, NEW s \in Slots, OnlyMoves(s), job' = job,
           pc[s] # "idle", pc'[s] # "idle", UNCHANGED queueVars, faults' >= faults,
           \A j \in Jobs : j # job[s] => received'[j] = received[j] /\ delivered'[j] = delivered[j],
           LET accepted == received'[job[s]] - received[job[s]]
               noted    == delivered'[job[s]] - delivered[job[s]]
               fault    == faults' - faults
               trying   == TryAt(pc'[s]) - TryAt(pc[s])
               fails    == One(FailAt(pc'[s], answer'[s])) - One(FailAt(pc[s], answer[s]))
               open     == One(NoteAt(pc'[s], answer'[s])) - One(NoteAt(pc[s], answer[s]))
           IN  /\ accepted + trying <= fault
               /\ accepted + trying + fails <= fault
               /\ noted + open <= accepted
               /\ accepted <= noted + open + fault
    PROVE  DeliveryInv'
<1>1. /\ job[s] \in Jobs /\ faults \in Nat /\ faults' \in Nat
      /\ \A j \in Jobs : /\ received[j] \in Nat /\ received'[j] \in Nat
                         /\ delivered[j] \in Nat /\ delivered'[j] \in Nat
  BY DEF TypeOK
<1>2. ASSUME NEW j \in Jobs PROVE DeliveryFact(j)'
  <2>1. DeliveryFact(j) /\ jobs'[j] = jobs[j] /\ lock'[j] = lock[j]
    BY DEF DeliveryInv, queueVars
  <2>2. CASE j # job[s]
    BY <2>1, <2>2, OtherBooks
  <2>3. CASE j = job[s]
    <3>1. /\ One(s \in Trying(j)) = TryAt(pc[s]) /\ One(s \in Trying(j)') = TryAt(pc'[s])
          /\ One(s \in Unnoted(j)) = One(NoteAt(pc[s], answer[s]))
          /\ One(s \in Unnoted(j)') = One(NoteAt(pc'[s], answer'[s]))
          /\ s \in Failing <=> FailAt(pc[s], answer[s])
          /\ s \in Failing' <=> FailAt(pc'[s], answer'[s])
      BY <2>3 DEF Trying, Unnoted, TryAt, NoteAt, Failing, FailAt, One
    <3>2. \A v \in Slots : v # s => (v \in Failing <=> v \in Failing')
      BY DEF Failing, FailAt, OnlyMoves
    <3>3. \A p : One(p) \in {0, 1}
      BY DEF One
    <3>4. /\ One(FailAt(pc[s], answer[s])) \in Int /\ One(FailAt(pc'[s], answer'[s])) \in Int
          /\ One(NoteAt(pc[s], answer[s])) \in Int /\ One(NoteAt(pc'[s], answer'[s])) \in Int
          /\ TryAt(pc[s]) \in Int /\ TryAt(pc'[s]) \in Int
          /\ One(MayRun(j, Failing)) \in Int /\ One(MayRun(j, Failing)') \in Int
      BY <3>3 DEF TryAt
    <3>5. \/ One(MayRun(j, Failing)') = One(MayRun(j, Failing))
          \/ /\ One(MayRun(j, Failing)) = One(FailAt(pc[s], answer[s]))
             /\ One(MayRun(j, Failing)') = One(FailAt(pc'[s], answer'[s]))
      <4>1. CASE lock[j] = s
        <5>1. jobs[j] = "active" /\ s # NoSlot
          BY <2>1, <4>1, QueueAssumption DEF DeliveryFact, QueueAssumption
        <5> QED BY <2>1, <3>1, <4>1, <5>1 DEF MayRun, One
      <4>2. CASE lock[j] # s
        <5>1. lock[j] \in Slots \cup {NoSlot}
          BY DEF TypeOK, QueueTypeOK
        <5>2. lock[j] \in Failing <=> lock[j] \in Failing'
          BY <3>2, <4>2, <5>1, QueueAssumption DEF Failing, QueueAssumption
        <5> QED BY <2>1, <5>2 DEF MayRun
      <4> QED BY <4>1, <4>2
    <3>6. Share(s, j)' <= Share(s, j)
      <4>1. Share(s, j)' = received'[j] + TryAt(pc'[s]) + One(MayRun(j, Failing)') - faults'
        BY <3>1 DEF Share
      <4>2. Share(s, j) = received[j] + TryAt(pc[s]) + One(MayRun(j, Failing)) - faults
        BY <3>1 DEF Share
      <4> QED BY <1>1, <2>3, <3>4, <3>5, <4>1, <4>2
    <3>7. /\ Surplus(s, j)' <= Surplus(s, j)
          /\ Surplus(s, j) - Surplus(s, j)' <= faults' - faults
      <4>1. Surplus(s, j)' = delivered'[j] + One(NoteAt(pc'[s], answer'[s])) - received'[j]
        BY <3>1 DEF Surplus
      <4>2. Surplus(s, j) = delivered[j] + One(NoteAt(pc[s], answer[s])) - received[j]
        BY <3>1 DEF Surplus
      <4> QED BY <1>1, <2>3, <3>4, <4>1, <4>2
    <3>8. \A v \in Slots : lock'[j] = v => job'[v] = j /\ jobs'[j] = "active"
      BY <2>1 DEF DeliveryFact
    <3> QED BY <2>1, <3>6, <3>7, <3>8, BooksStep
  <2> QED BY <2>2, <2>3
<1>3. \A v \in Slots : pc'[v] = "idle" => job'[v] = NoJob
  BY DEF DeliveryInv, OnlyMoves
<1> QED BY <1>2, <1>3 DEF DeliveryInv

\* A step that moves no slot keeps the books if it gives no job another run
\* without a fault.
LEMMA QuietBooks ==
    ASSUME TypeOK, TypeOK', DeliveryInv, UNCHANGED <<slotVars, received, delivered>>, faults' >= faults,
           \A j \in Jobs : /\ MayRun(j, Failing)' => MayRun(j, Failing) \/ faults' = faults + 1
                           /\ \A s \in Slots : lock'[j] = s => lock[j] = s /\ jobs'[j] = "active"
    PROVE  DeliveryInv'
<1> SUFFICES ASSUME NEW j \in Jobs PROVE DeliveryFact(j)'
  BY DEF DeliveryInv, slotVars
<1>1. Trying(j)' = Trying(j) /\ Unnoted(j)' = Unnoted(j)
  BY DEF slotVars, Trying, Unnoted, NoteAt
<1>2. Cardinality(Trying(j)) \in Nat /\ Cardinality(Unnoted(j)) \in Nat
  <2>1. Trying(j) \in SUBSET Slots /\ Unnoted(j) \in SUBSET Slots
    BY DEF Trying, Unnoted
  <2> QED BY <2>1, FS_Subset, FS_CardinalityType, QueueAssumption DEF QueueAssumption
<1>3. received[j] \in Nat /\ delivered[j] \in Nat /\ faults \in Nat /\ faults' \in Nat
  BY DEF TypeOK
<1>4. One(MayRun(j, Failing)') - faults' <= One(MayRun(j, Failing)) - faults
  BY <1>3 DEF One
<1>5. One(MayRun(j, Failing)) \in Int /\ One(MayRun(j, Failing)') \in Int
  BY DEF One
<1>6. /\ received'[j] + Cardinality(Trying(j)') + One(MayRun(j, Failing)') <= 1 + faults'
      /\ delivered'[j] + Cardinality(Unnoted(j)') <= received'[j]
      /\ received'[j] <= delivered'[j] + Cardinality(Unnoted(j)') + faults'
  BY <1>1, <1>2, <1>3, <1>4, <1>5 DEF DeliveryInv, DeliveryFact
<1>7. \A s \in Slots : lock'[j] = s => job'[s] = j /\ jobs'[j] = "active"
  BY DEF DeliveryInv, DeliveryFact, slotVars
<1> QED BY <1>6, <1>7 DEF DeliveryFact

\* A slot that lets go of its job keeps the books if the job gets another run
\* only for a rejection or a fault.
LEMMA ReleaseBooks ==
    ASSUME TypeOK, TypeOK', DeliveryInv, NEW s \in Slots, pc[s] # "idle", Release(s),
           UNCHANGED <<received, delivered>>, faults' \in {faults, faults + 1},
           \A j \in Jobs : j # job[s] => jobs'[j] = jobs[j] /\ lock'[j] = lock[j],
           lock'[job[s]] = IF lock[job[s]] = s THEN NoSlot ELSE lock[job[s]],
           lock[job[s]] # s => jobs'[job[s]] = jobs[job[s]],
           faults' = faults => ~NoteAt(pc[s], answer[s]),
           \/ faults' = faults + 1
           \/ jobs'[job[s]] \in {"completed", "failed"}
           \/ lock[job[s]] = s => s \in Failing
    PROVE  DeliveryInv'
<1>1. OnlyMoves(s) /\ pc'[s] = "idle" /\ job'[s] = NoJob /\ answer'[s] = "none" /\ job[s] \in Jobs
  BY DEF Release, Goto, Became, OnlyMoves, TypeOK
<1>2. faults \in Nat /\ faults' \in Nat /\ NoJob \notin Jobs /\ faults' >= faults
  BY WebhookAssumption DEF TypeOK, WebhookAssumption
<1>3. ASSUME NEW j \in Jobs PROVE DeliveryFact(j)'
  <2>1. DeliveryFact(j)
    BY DEF DeliveryInv
  <2>2. CASE j # job[s]
    BY <1>1, <1>2, <2>1, <2>2, OtherBooks
  <2>3. CASE j = job[s]
    <3>1. /\ s \notin Trying(j)' /\ s \notin Unnoted(j)' /\ s \notin Failing'
          /\ s \in Unnoted(j) => faults' = faults + 1
      BY <1>1 DEF Trying, Unnoted, NoteAt, Failing, FailAt
    <3>2. \A v \in Slots : v # s => (v \in Failing <=> v \in Failing')
      BY <1>1 DEF Failing, FailAt, OnlyMoves
    <3>3. /\ received[j] \in Nat /\ delivered[j] \in Nat
          /\ \A p : One(p) \in {0, 1}
      BY DEF TypeOK, One
    <3>4. One(MayRun(j, Failing)') - faults' <= One(MayRun(j, Failing)) - faults
      <4>1. CASE lock[j] # s
        <5>1. lock'[j] = lock[j] /\ jobs'[j] = jobs[j] /\ lock[j] \in Slots \cup {NoSlot}
          BY <2>3, <4>1 DEF TypeOK, QueueTypeOK
        <5>2. lock[j] \in Failing <=> lock[j] \in Failing'
          BY <3>2, <4>1, <5>1, QueueAssumption DEF Failing, QueueAssumption
        <5>3. MayRun(j, Failing)' <=> MayRun(j, Failing)
          BY <5>1, <5>2 DEF MayRun
        <5> QED BY <1>2, <5>3 DEF One
      <4>2. CASE lock[j] = s /\ faults' = faults + 1
        BY <1>2, <4>2 DEF One
      <4>3. CASE lock[j] = s /\ s \in Failing
        <5>1. MayRun(j, Failing)
          BY <2>1, <4>3 DEF DeliveryFact, MayRun
        <5> QED BY <1>2, <5>1 DEF One
      <4>4. CASE lock[j] = s /\ jobs'[j] \in {"completed", "failed"}
        <5>1. ~MayRun(j, Failing)'
          BY <4>4 DEF MayRun
        <5> QED BY <1>2, <5>1 DEF One
      <4> QED BY <1>2, <2>3, <4>1, <4>2, <4>3, <4>4
    <3>5. One(MayRun(j, Failing)) \in Int /\ One(MayRun(j, Failing)') \in Int
      BY DEF One
    <3>6. Share(s, j)' <= Share(s, j)
      <4>1. Share(s, j)' = received[j] + 0 + One(MayRun(j, Failing)') - faults'
        BY <3>1 DEF Share, One
      <4>2. One(s \in Trying(j)) \in {0, 1}
        BY DEF One
      <4> QED BY <1>2, <3>3, <3>4, <3>5, <4>1, <4>2 DEF Share
    <3>7. /\ Surplus(s, j)' <= Surplus(s, j)
          /\ Surplus(s, j) - Surplus(s, j)' <= faults' - faults
      BY <1>2, <3>1, <3>3 DEF Surplus, One
    <3>8. \A v \in Slots : lock'[j] = v => job'[v] = j /\ jobs'[j] = "active"
      <4> SUFFICES ASSUME NEW v \in Slots, lock'[j] = v PROVE job'[v] = j /\ jobs'[j] = "active"
        OBVIOUS
      <4>1. lock[j] = v /\ v # s
        BY <2>3, QueueAssumption DEF QueueAssumption
      <4> QED BY <1>1, <2>1, <2>3, <4>1 DEF OnlyMoves, DeliveryFact
    <3> QED BY <1>1, <2>1, <3>6, <3>7, <3>8, BooksStep
  <2> QED BY <2>2, <2>3
<1>4. \A v \in Slots : pc'[v] = "idle" => job'[v] = NoJob
  BY <1>1 DEF DeliveryInv, OnlyMoves
<1> QED BY <1>3, <1>4 DEF DeliveryInv

\* The weights of every await.
LEMMA DeliveryWeights ==
    /\ \A at \in {"load", "log", "limit", "call"} : TryAt(at) = 1
    /\ \A at \in PCs \ {"load", "log", "limit", "call"} : TryAt(at) = 0
    /\ \A at \in {"idle", "load", "log", "limit", "call", "finish"} : \A a : One(FailAt(at, a)) = 0
    /\ \A at \in {"explain", "penalise", "throw"} : \A a : One(FailAt(at, a)) = 1
    /\ \A at \in {"note", "write"} : /\ One(FailAt(at, "ok")) = 0
                                     /\ One(FailAt(at, "refused")) = 1
    /\ One(NoteAt("note", "ok")) = 1 /\ One(NoteAt("note", "refused")) = 0
    /\ \A at \in PCs \ {"note"} : \A a : One(NoteAt(at, a)) = 0
BY DEF TryAt, FailAt, NoteAt, One, PCs

\* The books are right at first.
LEMMA InitBooks == Init => DeliveryInv
<1> SUFFICES ASSUME Init PROVE DeliveryInv
  OBVIOUS
<1>1. \A j \in Jobs : Trying(j) = {} /\ Unnoted(j) = {}
  BY DEF Init, Trying, Unnoted, NoteAt
<1>2. Cardinality({}) = 0
  BY FS_EmptySet
<1>3. \A j \in Jobs : lock[j] = NoSlot /\ received[j] = 0 /\ delivered[j] = 0
  BY DEF Init, QueueInit
<1>4. \A p : One(p) <= 1
  BY DEF One
<1>5. faults = 0 /\ \A s \in Slots : job[s] = NoJob
  BY DEF Init
<1>6. ASSUME NEW j \in Jobs PROVE DeliveryFact(j)
  <2>1. received[j] + Cardinality(Trying(j)) + One(MayRun(j, Failing)) <= 1 + faults
    <3>1. One(MayRun(j, Failing)) \in {0, 1}
      BY DEF One
    <3> QED BY <1>1, <1>2, <1>3, <1>5, <3>1
  <2> QED BY <1>1, <1>2, <1>3, <1>5, <2>1, QueueAssumption DEF DeliveryFact, QueueAssumption
<1> QED BY <1>5, <1>6 DEF DeliveryInv

\* Every step keeps the books.
LEMMA NextBooks ==
    ASSUME WebhookInv, TypeOK', DeliveryInv, [Next]_vars
    PROVE  DeliveryInv'
<1> USE DEF endpointVars, adminVars, rowVars, slotVars, Goto, Became
<1>t. /\ TypeOK /\ faults \in Nat /\ MaxFaults \in Nat /\ NoSlot \notin Slots /\ NoJob \notin Jobs
      /\ jobs \in [Jobs -> JobStates] /\ lock \in [Jobs -> Slots \cup {NoSlot}]
      /\ \A j \in Jobs : DeliveryFact(j)
      /\ \A s \in Slots : pc[s] = "idle" => job[s] = NoJob
      /\ faults >= faults
  BY WebhookAssumption, QueueAssumption
     DEF WebhookInv, TypeOK, QueueTypeOK, DeliveryInv, WebhookAssumption, QueueAssumption
<1>1. CASE \/ \E new \in Endpoint : SetStatus(new)
           \/ SetTopics
           \/ \E j \in Jobs : Publish(j)
           \/ UNCHANGED vars
  <2>1. UNCHANGED <<slotVars, received, delivered, faults, jobs, lock>>
    BY <1>1 DEF SetStatus, SetTopics, Publish, vars, queueVars
  <2>2. \A j \in Jobs : MayRun(j, Failing)' => MayRun(j, Failing)
    BY <2>1 DEF MayRun, Failing
  <2>3. \A j \in Jobs : \A s \in Slots : lock'[j] = s => lock[j] = s /\ jobs'[j] = "active"
    BY <1>t, <2>1 DEF DeliveryFact
  <2> QED BY <1>t, <2>1, <2>2, <2>3, QuietBooks
<1>2. ASSUME NEW i \in Jobs, Enqueue(i) \/ RetryDelivery(i) \/ StalledCheck(i) PROVE DeliveryInv'
  <2>1. /\ UNCHANGED <<slotVars, received, delivered, faults, lock>>
        /\ MayRun(i, Failing) /\ lock[i] = NoSlot
        /\ \A j \in Jobs : j # i => jobs'[j] = jobs[j]
    <3>1. CASE Add(i)
      <4>1. lock[i] = NoSlot
        BY <1>t, <3>1 DEF DeliveryFact, Add
      <4> QED BY <1>2, <1>t, <3>1, <4>1 DEF Enqueue, RetryDelivery, StalledCheck, Add, MayRun, Redeliver
    <3>2. CASE Redeliver(i)
      BY <1>2, <1>t, <3>2 DEF Enqueue, RetryDelivery, StalledCheck, Redeliver, MayRun, Add
    <3> QED BY <1>2, <3>1, <3>2 DEF Enqueue, RetryDelivery, StalledCheck
  <2>2. \A j \in Jobs : MayRun(j, Failing)' => MayRun(j, Failing)
    <3>1. Failing' = Failing
      BY <2>1 DEF Failing
    <3>2. \A j \in Jobs : j # i => (MayRun(j, Failing)' => MayRun(j, Failing))
      BY <2>1, <3>1 DEF MayRun
    <3> QED BY <2>1, <3>2
  <2>3. \A j \in Jobs : \A s \in Slots : lock'[j] = s => lock[j] = s /\ jobs'[j] = "active"
    BY <1>t, <2>1 DEF DeliveryFact
  <2> QED BY <1>t, <2>1, <2>2, <2>3, QuietBooks
<1>3. ASSUME NEW s \in Slots, NEW i \in Jobs, Take(s, i) PROVE DeliveryInv'
  <2>1. /\ pc[s] = "idle" /\ job[s] = NoJob /\ pc'[s] = "load" /\ job'[s] = i /\ OnlyMoves(s)
        /\ jobs[i] = "waiting" /\ jobs'[i] = "active" /\ lock'[i] = s
        /\ UNCHANGED <<received, delivered, faults>>
        /\ \A j \in Jobs : j # i => jobs'[j] = jobs[j] /\ lock'[j] = lock[j]
    BY <1>3, <1>t DEF Take, Claim, OnlyMoves, TypeOK
  <2>2. ASSUME NEW j \in Jobs PROVE DeliveryFact(j)'
    <3>1. CASE j # i
      BY <1>t, <2>1, <3>1, OtherBooks
    <3>2. CASE j = i
      <4>1. /\ MayRun(j, Failing) /\ s \notin Trying(j) /\ s \in Trying(j)'
            /\ s \notin Unnoted(j) /\ s \notin Unnoted(j)'
        BY <1>t, <2>1, <3>2 DEF MayRun, Trying, Unnoted, NoteAt
      <4>2. ~MayRun(j, Failing)'
        BY <1>t, <2>1, <3>2 DEF MayRun, Failing, FailAt
      <4>3. Share(s, j)' <= Share(s, j) /\ Surplus(s, j)' = Surplus(s, j)
            /\ Surplus(s, j) \in Int
        BY <1>t, <2>1, <4>1, <4>2 DEF Share, Surplus, One, TypeOK
      <4>4. \A v \in Slots : lock'[j] = v => job'[v] = j /\ jobs'[j] = "active"
        BY <2>1, <3>2
      <4> QED BY <1>t, <2>1, <4>3, <4>4, BooksStep
    <3> QED BY <3>1, <3>2
  <2>3. \A v \in Slots : pc'[v] = "idle" => job'[v] = NoJob
    BY <1>t, <2>1 DEF OnlyMoves
  <2> QED BY <2>2, <2>3 DEF DeliveryInv
<1>4. ASSUME NEW s \in Slots, Handle(s) PROVE DeliveryInv'
  <2>f. /\ pc[s] \in {"note", "write"} => answer[s] \in {"ok", "refused"}
        /\ pc[s] = "explain" => answer[s] \in {"refused", "error"}
        /\ pc[s] # "idle" => job[s] \in Jobs
    BY DEF WebhookInv, SlotFacts, TypeOK
  <2>1. ASSUME Load(s) \/ LogDelivery(s) \/ Limit(s) \/ Explain(s) \/ PenaliseError(s)
        PROVE  DeliveryInv'
    <3>1. /\ OnlyMoves(s) /\ job' = job /\ UNCHANGED queueVars
          /\ UNCHANGED <<received, delivered, faults>>
          /\ \/ pc[s] \in {"load", "log", "limit"} /\ pc'[s] \in {"log", "limit", "call", "finish", "explain"}
             \/ pc[s] \in {"explain", "penalise"} /\ pc'[s] \in {"penalise", "throw"}
      BY <2>1, <1>t DEF Load, LogDelivery, Limit, Explain, PenaliseError, OnlyMoves, TypeOK
    <3>2. /\ TryAt(pc[s]) \in Int /\ TryAt(pc'[s]) \in Int
          /\ TryAt(pc'[s]) <= TryAt(pc[s])
          /\ TryAt(pc'[s]) - TryAt(pc[s])
                + (One(FailAt(pc'[s], answer'[s])) - One(FailAt(pc[s], answer[s]))) <= 0
          /\ One(NoteAt(pc'[s], answer'[s])) = 0 /\ One(NoteAt(pc[s], answer[s])) = 0
      <4>1. \A p : One(p) \in {0, 1}
        BY DEF One
      <4>2. /\ One(NoteAt(pc'[s], answer'[s])) = 0 /\ One(NoteAt(pc[s], answer[s])) = 0
            /\ TryAt(pc[s]) \in Int /\ TryAt(pc'[s]) \in Int
        BY <3>1, <4>1 DEF NoteAt, One, TryAt
      <4>3. CASE pc[s] \in {"load", "log", "limit"} /\ pc'[s] \in {"log", "limit", "call", "finish", "explain"}
        <5>1. TryAt(pc[s]) = 1 /\ One(FailAt(pc[s], answer[s])) = 0
          BY <4>3, DeliveryWeights
        <5>2. \/ TryAt(pc'[s]) \in {0, 1} /\ One(FailAt(pc'[s], answer'[s])) = 0
              \/ TryAt(pc'[s]) = 0 /\ One(FailAt(pc'[s], answer'[s])) = 1
          BY <4>3 DEF TryAt, FailAt, One
        <5> QED BY <4>2, <5>1, <5>2
      <4>4. CASE pc[s] \in {"explain", "penalise"} /\ pc'[s] \in {"penalise", "throw"}
        <5>1. /\ TryAt(pc[s]) = 0 /\ One(FailAt(pc[s], answer[s])) = 1
              /\ TryAt(pc'[s]) = 0 /\ One(FailAt(pc'[s], answer'[s])) = 1
          BY <4>4 DEF TryAt, FailAt, One
        <5> QED BY <4>2, <5>1
      <4> QED BY <3>1, <4>3, <4>4
    <3>3. received[job[s]] \in Nat /\ delivered[job[s]] \in Nat
      BY <2>f, <3>1 DEF TypeOK
    <3> QED BY <1>t, <3>1, <3>2, <3>3, HandlerBooks
  <2>2. CASE Call(s)
    <3>1. /\ OnlyMoves(s) /\ job' = job /\ UNCHANGED queueVars
          /\ UNCHANGED <<delivered, faults>> /\ pc[s] = "call"
          /\ \/ /\ pc'[s] = "note" /\ answer'[s] = "ok"
                /\ received' = [received EXCEPT ![job[s]] = @ + 1]
             \/ /\ \/ pc'[s] = "note" /\ answer'[s] = "refused"
                   \/ pc'[s] = "explain"
                /\ UNCHANGED received
      BY <2>2, <1>t DEF Call, OnlyMoves, TypeOK
    <3>2. /\ received[job[s]] \in Nat /\ delivered[job[s]] \in Nat
          /\ \A j \in Jobs : j # job[s] => received'[j] = received[j]
          /\ received'[job[s]] \in {received[job[s]], received[job[s]] + 1}
      BY <1>t, <2>f, <3>1 DEF TypeOK
    <3>3. CASE pc'[s] = "note" /\ answer'[s] = "ok" /\ received'[job[s]] = received[job[s]] + 1
      <4>1. /\ TryAt(pc[s]) = 1 /\ TryAt(pc'[s]) = 0
            /\ One(FailAt(pc'[s], answer'[s])) = 0 /\ One(FailAt(pc[s], answer[s])) = 0
            /\ One(NoteAt(pc'[s], answer'[s])) = 1 /\ One(NoteAt(pc[s], answer[s])) = 0
        BY <3>1, <3>3, DeliveryWeights DEF PCs
      <4> QED BY <1>t, <3>1, <3>2, <3>3, <4>1, HandlerBooks
    <3>4. CASE /\ (pc'[s] = "note" /\ answer'[s] = "refused") \/ pc'[s] = "explain"
               /\ UNCHANGED received
      <4>1. /\ TryAt(pc[s]) = 1 /\ TryAt(pc'[s]) = 0
            /\ One(FailAt(pc'[s], answer'[s])) = 1 /\ One(FailAt(pc[s], answer[s])) = 0
            /\ One(NoteAt(pc'[s], answer'[s])) = 0 /\ One(NoteAt(pc[s], answer[s])) = 0
        BY <3>1, <3>4, DeliveryWeights DEF PCs
      <4> QED BY <1>t, <3>1, <3>2, <3>4, <4>1, HandlerBooks
    <3>5. received' = [received EXCEPT ![job[s]] = @ + 1] => received'[job[s]] = received[job[s]] + 1
      BY <2>f, <3>1 DEF TypeOK
    <3> QED BY <3>1, <3>3, <3>4, <3>5
  <2>3. CASE Note(s)
    <3>1. /\ OnlyMoves(s) /\ job' = job /\ UNCHANGED queueVars
          /\ UNCHANGED <<received, faults>> /\ pc[s] = "note" /\ pc'[s] = "write"
          /\ answer'[s] = answer[s] /\ answer[s] \in {"ok", "refused"}
          /\ delivered' = IF answer[s] = "ok" THEN [delivered EXCEPT ![job[s]] = @ + 1] ELSE delivered
      BY <2>3, <2>f, <1>t DEF Note, OnlyMoves, TypeOK
    <3>2. /\ received[job[s]] \in Nat /\ delivered[job[s]] \in Nat
          /\ \A j \in Jobs : j # job[s] => delivered'[j] = delivered[j]
          /\ delivered'[job[s]] = delivered[job[s]] + (IF answer[s] = "ok" THEN 1 ELSE 0)
      BY <1>t, <2>f, <3>1 DEF TypeOK
    <3>3. TryAt(pc[s]) = 0 /\ TryAt(pc'[s]) = 0 /\ One(NoteAt(pc'[s], answer'[s])) = 0
      BY <3>1, DeliveryWeights DEF PCs
    <3>4. CASE answer[s] = "ok"
      <4>1. /\ One(FailAt(pc'[s], answer'[s])) = 0 /\ One(FailAt(pc[s], answer[s])) = 0
            /\ One(NoteAt(pc[s], answer[s])) = 1
        BY <3>1, <3>4, DeliveryWeights
      <4> QED BY <1>t, <3>1, <3>2, <3>3, <3>4, <4>1, HandlerBooks
    <3>5. CASE answer[s] = "refused"
      <4>1. /\ One(FailAt(pc'[s], answer'[s])) = 1 /\ One(FailAt(pc[s], answer[s])) = 1
            /\ One(NoteAt(pc[s], answer[s])) = 0
        BY <3>1, <3>5, DeliveryWeights
      <4> QED BY <1>t, <3>1, <3>2, <3>3, <3>5, <4>1, HandlerBooks
    <3> QED BY <3>1, <3>4, <3>5
  <2>4. CASE Write(s)
    <3>1. /\ OnlyMoves(s) /\ job' = job /\ UNCHANGED queueVars
          /\ UNCHANGED <<received, delivered, faults>> /\ pc[s] = "write"
          /\ answer[s] \in {"ok", "refused"}
          /\ pc'[s] = IF answer[s] = "ok" THEN "finish" ELSE "explain"
      BY <2>4, <2>f, <1>t DEF Write, OnlyMoves, TypeOK
    <3>2. /\ TryAt(pc[s]) = 0 /\ TryAt(pc'[s]) = 0
          /\ One(NoteAt(pc'[s], answer'[s])) = 0 /\ One(NoteAt(pc[s], answer[s])) = 0
          /\ One(FailAt(pc'[s], answer'[s])) = One(FailAt(pc[s], answer[s]))
          /\ One(FailAt(pc[s], answer[s])) \in Int
      BY <3>1, DeliveryWeights DEF PCs
    <3>3. received[job[s]] \in Nat /\ delivered[job[s]] \in Nat
      BY <2>f, <3>1 DEF TypeOK
    <3>4. pc'[s] # "idle"
      BY <3>1
    <3> QED BY <1>t, <3>1, <3>2, <3>3, <3>4, HandlerBooks
  <2>5. CASE Finish(s)
    <3>1. /\ pc[s] = "finish" /\ Release(s) /\ Complete(s, job[s]) /\ job[s] \in Jobs
          /\ UNCHANGED <<received, delivered, faults>>
      BY <2>5, <2>f DEF Finish
    <3>2. ~NoteAt(pc[s], answer[s])
      BY <3>1 DEF NoteAt
    <3>3. /\ \A j \in Jobs : j # job[s] => jobs'[j] = jobs[j] /\ lock'[j] = lock[j]
          /\ lock'[job[s]] = IF lock[job[s]] = s THEN NoSlot ELSE lock[job[s]]
          /\ lock[job[s]] # s => jobs'[job[s]] = jobs[job[s]]
          /\ lock[job[s]] = s => jobs'[job[s]] = "completed"
      BY <1>t, <3>1 DEF Complete
    <3> QED BY <1>t, <3>1, <3>2, <3>3, ReleaseBooks
  <2>6. CASE Throw(s)
    <3>1. /\ pc[s] = "throw" /\ Release(s) /\ Reject(s, job[s]) /\ job[s] \in Jobs
          /\ UNCHANGED <<received, delivered, faults>>
      BY <2>6, <2>f DEF Throw
    <3>2. ~NoteAt(pc[s], answer[s]) /\ s \in Failing
      BY <3>1 DEF NoteAt, Failing, FailAt
    <3>3. /\ \A j \in Jobs : j # job[s] => jobs'[j] = jobs[j] /\ lock'[j] = lock[j]
          /\ lock'[job[s]] = IF lock[job[s]] = s THEN NoSlot ELSE lock[job[s]]
          /\ lock[job[s]] # s => jobs'[job[s]] = jobs[job[s]]
      BY <1>t, <3>1 DEF Reject
    <3> QED BY <1>t, <3>1, <3>2, <3>3, ReleaseBooks
  <2> QED BY <1>4, <2>1, <2>2, <2>3, <2>4, <2>5, <2>6 DEF Handle
<1>5. ASSUME NEW s \in Slots, Disturb(s) PROVE DeliveryInv'
  <2>f. /\ pc[s] \in {"note", "write"} => answer[s] \in {"ok", "refused"}
        /\ pc[s] # "idle" => job[s] \in Jobs
    BY DEF WebhookInv, SlotFacts, TypeOK
  <2>1. CASE LateAnswer(s)
    <3>1. /\ OnlyMoves(s) /\ job' = job /\ UNCHANGED queueVars /\ pc[s] = "call" /\ pc'[s] = "explain"
          /\ UNCHANGED delivered /\ faults' = faults + 1
          /\ received' = [received EXCEPT ![job[s]] = @ + 1]
      BY <2>1, <1>t DEF LateAnswer, OnlyMoves, TypeOK
    <3>2. /\ received[job[s]] \in Nat /\ delivered[job[s]] \in Nat
          /\ \A j \in Jobs : j # job[s] => received'[j] = received[j]
          /\ received'[job[s]] = received[job[s]] + 1
      BY <1>t, <2>f, <3>1 DEF TypeOK
    <3>3. /\ TryAt(pc[s]) = 1 /\ TryAt(pc'[s]) = 0
          /\ One(FailAt(pc'[s], answer'[s])) = 1 /\ One(FailAt(pc[s], answer[s])) = 0
          /\ One(NoteAt(pc'[s], answer'[s])) = 0 /\ One(NoteAt(pc[s], answer[s])) = 0
      BY <3>1, DeliveryWeights DEF PCs
    <3> QED BY <1>t, <3>1, <3>2, <3>3, HandlerBooks
  <2>2. CASE Fault(s)
    <3>1. /\ OnlyMoves(s) /\ job' = job /\ UNCHANGED queueVars
          /\ UNCHANGED <<received, delivered>> /\ faults' = faults + 1
          /\ \/ pc[s] \in {"note", "write"} /\ pc'[s] = "explain"
             \/ pc[s] \in {"load", "log", "explain", "penalise"} /\ pc'[s] = "throw"
      BY <2>2, <1>t DEF Fault, OnlyMoves, TypeOK
    <3>2. /\ TryAt(pc[s]) \in {0, 1} /\ TryAt(pc'[s]) = 0
          /\ One(FailAt(pc'[s], answer'[s])) = 1 /\ One(FailAt(pc[s], answer[s])) \in {0, 1}
          /\ One(NoteAt(pc'[s], answer'[s])) = 0 /\ One(NoteAt(pc[s], answer[s])) \in {0, 1}
      <4>1. \A p : One(p) \in {0, 1}
        BY DEF One
      <4> QED BY <3>1, <4>1, DeliveryWeights DEF PCs, TryAt
    <3>3. received[job[s]] \in Nat /\ delivered[job[s]] \in Nat
      BY <2>f, <3>1 DEF TypeOK
    <3> QED BY <1>t, <3>1, <3>2, <3>3, HandlerBooks
  <2>3. CASE Crash(s)
    <3>1. /\ pc[s] # "idle" /\ Release(s) /\ Abandon(s, job[s]) /\ job[s] \in Jobs
          /\ UNCHANGED <<received, delivered>> /\ faults' = faults + 1
      BY <2>3, <2>f DEF Crash
    <3>2. /\ \A j \in Jobs : j # job[s] => jobs'[j] = jobs[j] /\ lock'[j] = lock[j]
          /\ lock'[job[s]] = IF lock[job[s]] = s THEN NoSlot ELSE lock[job[s]]
          /\ lock[job[s]] # s => jobs'[job[s]] = jobs[job[s]]
      BY <1>t, <3>1 DEF Abandon
    <3> QED BY <1>t, <3>1, <3>2, ReleaseBooks
  <2>4. CASE LockExpires(s)
    <3>1. /\ UNCHANGED <<slotVars, received, delivered>> /\ faults' = faults + 1 /\ job[s] \in Jobs
          /\ jobs' = jobs /\ lock' = [lock EXCEPT ![job[s]] = IF @ = s THEN NoSlot ELSE @]
      BY <2>4, <2>f DEF LockExpires, Abandon
    <3>2. \A j \in Jobs : \A v \in Slots : lock'[j] = v => lock[j] = v /\ jobs'[j] = "active"
      BY <1>t, <3>1 DEF DeliveryFact
    <3> QED BY <1>t, <3>1, <3>2, QuietBooks
  <2> QED BY <1>5, <2>1, <2>2, <2>3, <2>4 DEF Disturb
<1> QED BY <1>1, <1>2, <1>3, <1>4, <1>5 DEF Next

\* However attempts, retries, late answers, crashes and lost locks interleave,
\* a delivery is accepted at most once more than there were faults, and its
\* history hides no more acceptances than that.
THEOREM RepetitionsAreFaults == Spec => []OneRepetitionPerFault
<1>1. WebhookInv /\ DeliveryInv /\ [Next]_vars => (WebhookInv /\ DeliveryInv)'
  <2> SUFFICES ASSUME WebhookInv, DeliveryInv, [Next]_vars PROVE (WebhookInv /\ DeliveryInv)'
    OBVIOUS
  <2>1. WebhookInv' /\ TypeOK'
    BY NextInv DEF WebhookInv
  <2> QED BY <2>1, NextBooks
<1>2. WebhookInv /\ DeliveryInv => OneRepetitionPerFault
  <2> SUFFICES ASSUME WebhookInv, DeliveryInv, NEW j \in Jobs
               PROVE  /\ received[j] <= 1 + faults
                      /\ delivered[j] <= received[j]
                      /\ Unnoted(j) = {} => received[j] - delivered[j] <= faults
    BY DEF OneRepetitionPerFault, Unnoted, NoteAt
  <2>1. Cardinality(Trying(j)) \in Nat /\ Cardinality(Unnoted(j)) \in Nat
    <3>1. Trying(j) \in SUBSET Slots /\ Unnoted(j) \in SUBSET Slots
      BY DEF Trying, Unnoted
    <3> QED BY <3>1, FS_Subset, FS_CardinalityType, QueueAssumption DEF QueueAssumption
  <2>2. received[j] \in Nat /\ delivered[j] \in Nat /\ faults \in Nat
    BY DEF WebhookInv, TypeOK
  <2>3. One(MayRun(j, Failing)) \in {0, 1}
    BY DEF One
  <2>4. Unnoted(j) = {} => Cardinality(Unnoted(j)) = 0
    BY FS_EmptySet
  <2> QED BY <2>1, <2>2, <2>3, <2>4 DEF DeliveryInv, DeliveryFact
<1> QED BY <1>1, <1>2, InitInv, InitBooks, PTL DEF Spec
=============================================================================
