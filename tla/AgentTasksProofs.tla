-------------------------- MODULE AgentTasksProofs --------------------------
(***************************************************************************)
(* Safety of AgentTasks for every number of executions, slots, attempts    *)
(* and faults.                                                             *)
(***************************************************************************)
EXTENDS AgentTasks, JobQueueProofs

Past(e) == charged[e] > 0 /\ outputs[e] > 0

\* What the queue, the executor and the row say of execution e.
JobFact(e) ==
    /\ \A s \in Slots : lock[e] = s => job[s] = e /\ jobs[e] = "active"
    /\ launch[e] \in {"none", "created"} => jobs[e] = "absent"
    /\ launch[e] = "queued" => jobs[e] # "absent"
    /\ cached[e] \/ charged[e] > 0 => ran[e] > 0
    /\ jobs[e] = "completed" /\ Live(e) =>
           value[e] \in announced[e] /\ (value[e] # "FAILED" => Past(e))
    /\ jobs[e] = "completed" /\ e \notin overruled => status[e] = value[e]

\* What the position of slot s says of its execution.
SlotFact(s) ==
    /\ pc[s] = "idle" => job[s] = NoJob
    /\ job[s] \in Jobs /\ job[s] \notin overruled => lock[job[s]] = s
    /\ pc[s] \in {"tell", "tellBlocked", "done"} /\ job[s] \notin overruled =>
           status[job[s]] = out[s]
    /\ pc[s] \in {"block", "tellBlocked", "tellFailed"} => out[s] = "FAILED"
    /\ pc[s] \in {"store", "unlock", "charge"} => ran[job[s]] > 0
    /\ pc[s] = "output" => charged[job[s]] > 0
    /\ pc[s] \in {"finish", "tell", "done"} /\ out[s] # "FAILED" /\ Live(job[s]) => Past(job[s])
    /\ pc[s] = "done" /\ Live(job[s]) => out[s] \in announced[job[s]]

\* What holds as long as nothing went wrong.
JobCalm(e) ==
    /\ jobs[e] = "active" => lock[e] # NoSlot
    /\ jobs[e] \in {"completed", "failed"} => status[e] # "RUNNING"
    /\ jobs[e] = "absent" /\ launch[e] = "done" => status[e] = "FAILED"

SlotCalm(s) == pc[s] \in {"tellFailed", "throw"} => status[job[s]] = "FAILED"

Calm ==
    faults = 0 => /\ overruled = {}
                  /\ \A e \in Jobs : JobCalm(e)
                  /\ \A s \in Slots : SlotCalm(s)

\* A lock in Redis, or one that ran out of time, stands for every runner.
LeaseBound ==
    \A e \in Jobs : Cardinality(Running(e)) <= One(planLock[e]) + lapses[e]

TaskInv ==
    /\ TypeOK
    /\ \A e \in Jobs : JobFact(e)
    /\ \A s \in Slots : SlotFact(s)
    /\ Calm
    /\ LeaseBound

-----------------------------------------------------------------------------
(* Type correctness.                                                       *)

\* The initial state is well typed.
LEMMA InitTypeOK == Init => TypeOK
<1> SUFFICES ASSUME Init PROVE TypeOK
  OBVIOUS
<1>1. QueueTypeOK
  BY DEF Init, QueueInit, QueueTypeOK, JobStates
<1>2. PlanTypeOK
  BY DEF Init, PlanInit, PlanTypeOK
<1>3. faults \in 0 .. MaxFaults
  BY TaskAssumption DEF Init, TaskAssumption
<1> QED BY <1>1, <1>2, <1>3
        DEF Init, TypeOK, Kinds, Launches, Outcomes, PCs, Decided

\* The executor's operations keep its keys well typed.
LEMMA PlanType ==
    ASSUME PlanTypeOK, NEW e \in Executions,
           \/ Acquire(e) \/ Store(e) \/ Unlock(e) \/ LockLapses(e) \/ ResultLapses(e)
    PROVE  PlanTypeOK'
<1>1. CASE Acquire(e) \/ Store(e) \/ Unlock(e)
  BY <1>1 DEF PlanTypeOK, Acquire, Store, Unlock
<1>2. CASE LockLapses(e) \/ ResultLapses(e)
  <2>1. lapses[e] + 1 \in Nat
    BY DEF PlanTypeOK
  <2> QED BY <1>2, <2>1 DEF PlanTypeOK, LockLapses, ResultLapses
<1> QED BY <1>1, <1>2

\* A slot that is released is idle and well typed.
LEMMA ReleaseType ==
    ASSUME TypeOK, NEW s \in Slots, Release(s)
    PROVE  /\ pc' \in [Slots -> PCs]
           /\ job' \in [Slots -> Jobs \cup {NoJob}]
           /\ out' \in [Slots -> Outcomes \cup {"none"}]
           /\ \A v \in Slots : pc'[v] # "idle" => job'[v] \in Jobs
           /\ \A v \in Slots : pc'[v] \in Decided => out'[v] \in Outcomes
BY DEF TypeOK, Release, Goto, Settle, PCs, Decided

\* Every step keeps the state well typed.
LEMMA NextTypeOK ==
    ASSUME TypeOK, [Next]_vars
    PROVE  TypeOK'
<1> USE DEF historyVars, slotVars, Goto, Settle, Mark, Count, Reached, Tell, Trouble
<1>q. QueueTypeOK /\ PlanTypeOK /\ Executions = Jobs
  BY TaskAssumption DEF TypeOK, TaskAssumption
<1>u. /\ UNCHANGED queueVars => QueueTypeOK'
      /\ UNCHANGED planVars => PlanTypeOK'
  BY <1>q DEF queueVars, planVars, QueueTypeOK, PlanTypeOK
<1>f. faults < MaxFaults => faults + 1 \in 0 .. MaxFaults
  BY TaskAssumption DEF TaskAssumption, TypeOK
<1>1. ASSUME NEW e \in Jobs, Request(e) PROVE TypeOK'
  <2>1. CASE Enqueue(e) \/ EnqueueTask(e)
    <3>1. Add(e) /\ UNCHANGED planVars
      BY <2>1 DEF Enqueue, EnqueueTask
    <3>2. QueueTypeOK'
      BY <3>1, <1>q DEF Add, QueueTypeOK, JobStates
    <3> QED BY <2>1, <3>1, <3>2, <1>u DEF Enqueue, EnqueueTask, TypeOK, Launches
  <2>2. CASE CreateExecution(e)
    BY <2>2, <1>u DEF CreateExecution, TypeOK, Launches
  <2>3. CASE Refuse(e) \/ Accept(e)
    BY <2>3, <1>u DEF Refuse, Accept, TypeOK, Launches, Outcomes
  <2>4. CASE AcceptFails(e)
    BY <2>4, <1>u, <1>f DEF AcceptFails, TypeOK, Launches, Outcomes
  <2>5. CASE LaunchLost(e)
    BY <2>5, <1>u, <1>f DEF LaunchLost, TypeOK, Launches
  <2> QED BY <1>1, <2>1, <2>2, <2>3, <2>4, <2>5 DEF Request
<1>2. ASSUME NEW e \in Jobs, KeyLapses(e) PROVE TypeOK'
  <2>1. PlanTypeOK'
    BY <1>2, <1>q, PlanType DEF KeyLapses
  <2> QED BY <1>2, <2>1, <1>u, <1>f DEF KeyLapses, TypeOK
<1>3. ASSUME NEW e \in Jobs, StalledCheck(e) PROVE TypeOK'
  <2>1. QueueTypeOK'
    BY <1>3, <1>q DEF StalledCheck, Redeliver, QueueTypeOK, JobStates
  <2> QED BY <1>3, <2>1, <1>u DEF StalledCheck, TypeOK
<1>4. ASSUME NEW s \in Slots, NEW e \in Jobs, Take(s, e) PROVE TypeOK'
  <2>1. QueueTypeOK'
    BY <1>4, <1>q, QueueType DEF Take
  <2> QED BY <1>4, <2>1, <1>u DEF Take, TypeOK, PCs, Decided
<1>5. ASSUME NEW s \in Slots, Handle(s) PROVE TypeOK'
  <2>j. pc[s] # "idle" => job[s] \in Jobs
    BY DEF TypeOK
  <2>1. CASE Start(s)
    BY <2>1, <2>j, <1>u DEF Start, TypeOK, PCs, Decided, Outcomes
  <2>2. CASE CheckBilling(s)
    BY <2>2, <2>j, <1>u DEF CheckBilling, TypeOK, PCs, Decided, Outcomes
  <2>3. CASE Block(s)
    BY <2>3, <2>j, <1>u DEF Block, TypeOK, PCs, Decided, Outcomes
  <2>4. CASE Preflight(s)
    BY <2>4, <2>j, <1>u DEF Preflight, TypeOK, PCs, Decided, Outcomes
  <2>5. CASE Peek(s)
    BY <2>5, <2>j, <1>u DEF Peek, TypeOK, PCs, Decided, Outcomes
  <2>6. CASE Locked(s)
    BY <2>6, <2>j, <1>u DEF Locked, TypeOK, PCs, Decided, Outcomes
  <2>7. CASE RunPlan(s)
    BY <2>7, <2>j, <1>u DEF RunPlan, TypeOK, PCs, Decided, Outcomes
  <2>8. CASE Charge(s)
    BY <2>8, <2>j, <1>u DEF Charge, TypeOK, PCs, Decided, Outcomes
  <2>9. CASE CreateOutput(s)
    BY <2>9, <2>j, <1>u DEF CreateOutput, TypeOK, PCs, Decided, Outcomes
  <2>10. CASE Finish(s)
    BY <2>10, <2>j, <1>u DEF Finish, TypeOK, PCs, Decided, Outcomes
  <2>11. CASE Announce(s)
    BY <2>11, <2>j, <1>u DEF Announce, TypeOK, PCs, Decided, Outcomes
  <2>12. CASE MarkFailed(s)
    BY <2>12, <2>j, <1>u DEF MarkFailed, TypeOK, PCs, Decided, Outcomes
  <2>13. CASE AnnounceFailed(s)
    BY <2>13, <2>j, <1>u DEF AnnounceFailed, TypeOK, PCs, Decided, Outcomes
  <2>14. CASE Lock(s)
    <3>1. PlanTypeOK'
      BY <2>14, <2>j, <1>q, PlanType DEF Lock
    <3> QED BY <2>14, <2>j, <3>1, <1>u DEF Lock, TypeOK, PCs, Decided
  <2>15. CASE StoreResult(s)
    <3>1. PlanTypeOK'
      BY <2>15, <2>j, <1>q, PlanType DEF StoreResult
    <3> QED BY <2>15, <2>j, <3>1, <1>u DEF StoreResult, TypeOK, PCs, Decided
  <2>16. CASE ReleasePlan(s)
    <3>1. PlanTypeOK'
      BY <2>16, <2>j, <1>q, PlanType DEF ReleasePlan
    <3> QED BY <2>16, <2>j, <3>1, <1>u DEF ReleasePlan, TypeOK, PCs, Decided
  <2>17. CASE Done(s)
    <3>1. job[s] \in Jobs /\ Release(s)
      BY <2>17, <2>j DEF Done
    <3>2. QueueTypeOK'
      BY <2>17, <3>1, <1>q, QueueType DEF Done
    <3>3. value' \in [Jobs -> Outcomes \cup {"none"}]
      BY <2>17, <3>1 DEF Done, TypeOK
    <3> QED BY <2>17, <3>1, <3>2, <3>3, <1>u, ReleaseType DEF Done, TypeOK
  <2>18. CASE Throw(s)
    <3>1. job[s] \in Jobs /\ Release(s)
      BY <2>18, <2>j DEF Throw
    <3>2. QueueTypeOK'
      BY <2>18, <3>1, <1>q, QueueType DEF Throw
    <3> QED BY <2>18, <3>1, <3>2, <1>u, ReleaseType DEF Throw, TypeOK
  <2> QED
    BY <1>5, <2>1, <2>2, <2>3, <2>4, <2>5, <2>6, <2>7, <2>8, <2>9,
       <2>10, <2>11, <2>12, <2>13, <2>14, <2>15, <2>16, <2>17, <2>18 DEF Handle
<1>6. ASSUME NEW s \in Slots, Fault(s) PROVE TypeOK'
  <2>1. /\ pc' \in [Slots -> PCs]
        /\ \A v \in Slots : pc'[v] # "idle" => job[v] \in Jobs
        /\ \A v \in Slots : pc'[v] \in Decided => out[v] \in Outcomes
    BY <1>6 DEF Fault, TypeOK, PCs, Decided
  <2> QED BY <1>6, <2>1, <1>u, <1>f DEF Fault, TypeOK
<1>7. ASSUME NEW s \in Slots, Crash(s) PROVE TypeOK'
  <2>1. job[s] \in Jobs /\ Release(s)
    BY <1>7 DEF Crash, TypeOK
  <2>2. QueueTypeOK'
    BY <1>7, <2>1, <1>q, QueueType DEF Crash
  <2> QED BY <1>7, <2>1, <2>2, <1>u, <1>f, ReleaseType DEF Crash, TypeOK
<1>8. ASSUME NEW s \in Slots, LockExpires(s) PROVE TypeOK'
  <2>1. job[s] \in Jobs
    BY <1>8 DEF LockExpires, TypeOK
  <2>2. QueueTypeOK'
    BY <1>8, <2>1, <1>q, QueueType DEF LockExpires
  <2> QED BY <1>8, <2>1, <2>2, <1>u, <1>f DEF LockExpires, TypeOK
<1>9. CASE UNCHANGED vars
  BY <1>9, <1>u DEF vars, TypeOK
<1> QED BY <1>1, <1>2, <1>3, <1>4, <1>5, <1>6, <1>7, <1>8, <1>9 DEF Next

-----------------------------------------------------------------------------
(* The handlers' facts.                                                    *)

\* Only slot s moves.
OnlyMoves(s) ==
    \A v \in Slots : v # s => pc'[v] = pc[v] /\ job'[v] = job[v] /\ out'[v] = out[v]

\* The histories of every execution grow, and no charge is new but for a plan
\* that ran to its end.
Grows ==
    \A e \in Jobs :
        /\ ran'[e] >= ran[e] /\ charged'[e] >= charged[e] /\ outputs'[e] >= outputs[e]
        /\ announced[e] \subseteq announced'[e]
        /\ cached'[e] \/ charged'[e] > 0 => ran'[e] > 0

\* What TaskInv says of executions and slots.
Facts == (\A e \in Jobs : JobFact(e)) /\ (\A s \in Slots : SlotFact(s)) /\ Calm

\* Two slots have the same execution only if it is overruled.
LEMMA OneHandler ==
    ASSUME Facts, NEW s \in Slots, NEW v \in Slots, v # s, job[s] \in Jobs, job[v] = job[s]
    PROVE  job[s] \in overruled /\ faults # 0
BY DEF Facts, SlotFact, Calm

\* An execution that a slot has is active, unless it is overruled.
LEMMA HandledIsActive ==
    ASSUME Facts, NEW s \in Slots, job[s] \in Jobs, job[s] \notin overruled
    PROVE  jobs[job[s]] = "active"
BY DEF Facts, SlotFact, JobFact

\* A step of a handler that reports nothing to the queue keeps the facts if it
\* writes its own execution's row only, and fits the slot's new position.
LEMMA HandlerStep ==
    ASSUME TypeOK, TypeOK', Facts, NEW s \in Slots, pc[s] # "idle", OnlyMoves(s), job' = job,
           UNCHANGED <<queueVars, kind, launch, value, overruled>>, faults' >= faults, Grows,
           \A e \in Jobs : e # job[s] => status'[e] = status[e],
           SlotFact(s)', faults' = 0 => SlotCalm(s)'
    PROVE  Facts'
<1> USE DEF queueVars
<1>j. job[s] \in Jobs
  BY DEF TypeOK
<1>z. faults' = 0 => faults = 0
  BY DEF TypeOK
<1>1. ASSUME NEW e \in Jobs PROVE JobFact(e)'
  <2>1. jobs[e] = "completed" /\ e \notin overruled => status'[e] = status[e]
    BY HandledIsActive
  <2>2. /\ JobFact(e) /\ announced[e] \subseteq announced'[e]
        /\ cached'[e] \/ charged'[e] > 0 => ran'[e] > 0
        /\ Past(e) => Past(e)'
    BY DEF Facts, Grows, Past, TypeOK
  <2> QED BY <2>1, <2>2 DEF JobFact, Live
<1>2. ASSUME NEW v \in Slots PROVE SlotFact(v)'
  <2>1. CASE v = s
    BY <2>1
  <2>2. CASE v # s
    <3>1. SlotFact(v) /\ pc'[v] = pc[v] /\ out'[v] = out[v] /\ job'[v] = job[v]
      BY <2>2 DEF Facts, OnlyMoves
    <3>2. job[v] \in Jobs /\ job[v] \notin overruled => status'[job[v]] = status[job[v]]
      BY <2>2, <1>j, OneHandler
    <3>3. job[v] \in Jobs =>
            /\ ran[job[v]] > 0 => ran'[job[v]] > 0
            /\ charged[job[v]] > 0 => charged'[job[v]] > 0
            /\ Past(job[v]) => (Past(job[v]))'
            /\ announced[job[v]] \subseteq announced'[job[v]]
      BY <3>1 DEF Grows, Past, TypeOK
    <3>4. pc[v] # "idle" => job[v] \in Jobs
      BY DEF TypeOK
    <3> QED BY <3>1, <3>2, <3>3, <3>4 DEF SlotFact, Live, Past
  <2> QED BY <2>1, <2>2
<1>3. Calm'
  <2> SUFFICES ASSUME faults' = 0
               PROVE  /\ overruled' = {}
                      /\ \A e \in Jobs : JobCalm(e)'
                      /\ \A v \in Slots : SlotCalm(v)'
    BY DEF Calm
  <2>1. overruled = {} /\ (\A e \in Jobs : JobCalm(e)) /\ (\A v \in Slots : SlotCalm(v))
    BY <1>z DEF Facts, Calm
  <2>2. jobs[job[s]] = "active"
    BY <2>1, <1>j, HandledIsActive
  <2>3. ASSUME NEW e \in Jobs PROVE JobCalm(e)'
    <3>1. CASE e = job[s]
      BY <3>1, <2>1, <2>2 DEF JobCalm
    <3>2. CASE e # job[s]
      BY <3>2, <2>1 DEF JobCalm
    <3> QED BY <3>1, <3>2
  <2>4. ASSUME NEW v \in Slots PROVE SlotCalm(v)'
    <3>1. CASE v = s
      BY <3>1
    <3>2. CASE v # s
      <4>1. pc[v] # "idle" => job[v] \in Jobs /\ job[v] # job[s]
        BY <3>2, <1>j, <1>z, OneHandler DEF TypeOK
      <4>2. pc'[v] = pc[v] /\ SlotCalm(v)
        BY <3>2, <2>1 DEF OnlyMoves
      <4> QED BY <4>1, <4>2 DEF SlotCalm
    <3> QED BY <3>1, <3>2
  <2> QED BY <2>1, <2>3, <2>4
<1> QED BY <1>1, <1>2, <1>3 DEF Facts

\* A step that leaves the histories and the results alone lets them grow.
LEMMA HistoryFrame ==
    ASSUME TypeOK, Facts, UNCHANGED <<historyVars, cached>>
    PROVE  Grows
BY DEF TypeOK, Facts, JobFact, Grows, historyVars

\* The steps of a handler before it reports to the queue keep the facts.
LEMMA HandlerFacts ==
    ASSUME TypeOK, TypeOK', Facts, NEW s \in Slots, pc[s] # "idle"
    PROVE  /\ \/ Start(s) \/ CheckBilling(s) \/ Block(s) \/ Preflight(s) \/ Peek(s)
              \/ Lock(s) \/ Locked(s) \/ RunPlan(s) \/ StoreResult(s) \/ ReleasePlan(s)
              \/ Charge(s) \/ CreateOutput(s) \/ Finish(s) \/ Announce(s)
              \/ MarkFailed(s) \/ AnnounceFailed(s)
              => Facts'
           /\ Fault(s) => Facts'
<1> USE DEF historyVars, slotVars, planVars, Goto, Settle, Mark, Count, Tell, Trouble
<1>j. job[s] \in Jobs /\ SlotFact(s) /\ pc[s] \in PCs /\ Executions = Jobs
  BY TaskAssumption DEF TypeOK, Facts, TaskAssumption
<1>f. /\ pc \in [Slots -> PCs] /\ job \in [Slots -> Jobs \cup {NoJob}]
      /\ out \in [Slots -> Outcomes \cup {"none"}]
      /\ status \in [Jobs -> Outcomes \cup {"none", "RUNNING"}]
      /\ faults \in Nat
  BY TaskAssumption DEF TypeOK, TaskAssumption
<1>h. /\ ran \in [Jobs -> Nat] /\ charged \in [Jobs -> Nat] /\ outputs \in [Jobs -> Nat]
      /\ announced \in [Jobs -> SUBSET Outcomes]
  BY DEF TypeOK
<1>c. faults = 0 => SlotCalm(s)
  BY DEF Facts, Calm
<1>1. ASSUME Start(s) PROVE Facts'
  <2>1. /\ OnlyMoves(s) /\ job' = job /\ faults' >= faults
        /\ UNCHANGED <<queueVars, kind, launch, value, overruled>>
        /\ \A e \in Jobs : e # job[s] => status'[e] = status[e]
    BY <1>1, <1>f DEF Start, OnlyMoves
  <2>2. Grows
    BY <1>1, HistoryFrame DEF Start
  <2>3. SlotFact(s)' /\ (faults' = 0 => SlotCalm(s)')
    BY <1>1, <1>j, <1>f, <2>1, <2>2
       DEF Start, SlotFact, SlotCalm, Grows, Past, Live, queueVars, PCs
  <2> QED BY <1>j, <2>1, <2>2, <2>3, HandlerStep
<1>2. ASSUME CheckBilling(s) PROVE Facts'
  <2>1. /\ OnlyMoves(s) /\ job' = job /\ faults' >= faults
        /\ UNCHANGED <<queueVars, kind, launch, value, overruled>>
        /\ \A e \in Jobs : e # job[s] => status'[e] = status[e]
    BY <1>2, <1>f DEF CheckBilling, OnlyMoves
  <2>2. Grows
    BY <1>2, HistoryFrame DEF CheckBilling
  <2>3. SlotFact(s)' /\ (faults' = 0 => SlotCalm(s)')
    BY <1>2, <1>j, <1>f, <2>1, <2>2
       DEF CheckBilling, SlotFact, SlotCalm, Grows, Past, Live, queueVars, PCs
  <2> QED BY <1>j, <2>1, <2>2, <2>3, HandlerStep
<1>3. ASSUME Block(s) PROVE Facts'
  <2>1. /\ OnlyMoves(s) /\ job' = job /\ faults' >= faults
        /\ UNCHANGED <<queueVars, kind, launch, value, overruled>>
        /\ \A e \in Jobs : e # job[s] => status'[e] = status[e]
    BY <1>3, <1>f DEF Block, OnlyMoves
  <2>2. Grows
    BY <1>3, HistoryFrame DEF Block
  <2>3. SlotFact(s)' /\ (faults' = 0 => SlotCalm(s)')
    BY <1>3, <1>j, <1>f, <2>1, <2>2
       DEF Block, SlotFact, SlotCalm, Grows, Past, Live, queueVars, PCs
  <2> QED BY <1>j, <2>1, <2>2, <2>3, HandlerStep
<1>4. ASSUME Preflight(s) PROVE Facts'
  <2>1. /\ OnlyMoves(s) /\ job' = job /\ faults' >= faults
        /\ UNCHANGED <<queueVars, kind, launch, value, overruled>>
        /\ \A e \in Jobs : e # job[s] => status'[e] = status[e]
    BY <1>4, <1>f DEF Preflight, OnlyMoves
  <2>2. Grows
    BY <1>4, HistoryFrame DEF Preflight
  <2>3. SlotFact(s)' /\ (faults' = 0 => SlotCalm(s)')
    BY <1>4, <1>j, <1>f, <2>1, <2>2
       DEF Preflight, SlotFact, SlotCalm, Grows, Past, Live, queueVars, PCs
  <2> QED BY <1>j, <2>1, <2>2, <2>3, HandlerStep
<1>5. ASSUME Peek(s) PROVE Facts'
  <2>1. /\ OnlyMoves(s) /\ job' = job /\ faults' >= faults
        /\ UNCHANGED <<queueVars, kind, launch, value, overruled>>
        /\ \A e \in Jobs : e # job[s] => status'[e] = status[e]
    BY <1>5, <1>f DEF Peek, OnlyMoves
  <2>2. Grows
    BY <1>5, HistoryFrame DEF Peek
  <2>3. SlotFact(s)' /\ (faults' = 0 => SlotCalm(s)')
    BY <1>5, <1>j, <1>f, <2>1, <2>2
       DEF Peek, SlotFact, SlotCalm, Grows, Past, Live, queueVars, PCs
  <2> QED BY <1>j, <2>1, <2>2, <2>3, HandlerStep
<1>6. ASSUME Lock(s) PROVE Facts'
  <2>1. /\ OnlyMoves(s) /\ job' = job /\ faults' >= faults
        /\ UNCHANGED <<queueVars, kind, launch, value, overruled>>
        /\ \A e \in Jobs : e # job[s] => status'[e] = status[e]
    BY <1>6, <1>f DEF Lock, OnlyMoves
  <2>2. Grows
    BY <1>6, HistoryFrame DEF Lock, Acquire
  <2>3. SlotFact(s)' /\ (faults' = 0 => SlotCalm(s)')
    BY <1>6, <1>j, <1>f, <2>1, <2>2
       DEF Lock, Acquire, SlotFact, SlotCalm, Grows, Past, Live, queueVars, PCs
  <2> QED BY <1>j, <2>1, <2>2, <2>3, HandlerStep
<1>7. ASSUME Locked(s) PROVE Facts'
  <2>1. /\ OnlyMoves(s) /\ job' = job /\ faults' >= faults
        /\ UNCHANGED <<queueVars, kind, launch, value, overruled>>
        /\ \A e \in Jobs : e # job[s] => status'[e] = status[e]
    BY <1>7, <1>f DEF Locked, OnlyMoves
  <2>2. Grows
    BY <1>7, HistoryFrame DEF Locked
  <2>3. SlotFact(s)' /\ (faults' = 0 => SlotCalm(s)')
    BY <1>7, <1>j, <1>f, <2>1, <2>2
       DEF Locked, SlotFact, SlotCalm, Grows, Past, Live, queueVars, PCs
  <2> QED BY <1>j, <2>1, <2>2, <2>3, HandlerStep
<1>8. ASSUME RunPlan(s) PROVE Facts'
  <2>1. /\ OnlyMoves(s) /\ job' = job /\ faults' >= faults
        /\ UNCHANGED <<queueVars, kind, launch, value, overruled>>
        /\ \A e \in Jobs : e # job[s] => status'[e] = status[e]
    BY <1>8, <1>f DEF RunPlan, OnlyMoves
  <2>2. Grows
    BY <1>8, <1>j DEF RunPlan, TypeOK, Facts, JobFact, Grows
  <2>3. SlotFact(s)' /\ (faults' = 0 => SlotCalm(s)')
    BY <1>8, <1>j, <1>f, <1>h, <2>1
       DEF RunPlan, SlotFact, SlotCalm, Past, Live, queueVars, PCs
  <2> QED BY <1>j, <2>1, <2>2, <2>3, HandlerStep
<1>9. ASSUME StoreResult(s) PROVE Facts'
  <2>1. /\ OnlyMoves(s) /\ job' = job /\ faults' >= faults
        /\ UNCHANGED <<queueVars, kind, launch, value, overruled>>
        /\ \A e \in Jobs : e # job[s] => status'[e] = status[e]
    BY <1>9, <1>f DEF StoreResult, OnlyMoves
  <2>2. Grows
    BY <1>9, <1>j DEF StoreResult, Store, TypeOK, PlanTypeOK, Facts, JobFact, SlotFact, Grows
  <2>3. SlotFact(s)' /\ (faults' = 0 => SlotCalm(s)')
    BY <1>9, <1>j, <1>f, <2>1, <2>2
       DEF StoreResult, Store, SlotFact, SlotCalm, Grows, Past, Live, queueVars, PCs
  <2> QED BY <1>j, <2>1, <2>2, <2>3, HandlerStep
<1>10. ASSUME ReleasePlan(s) PROVE Facts'
  <2>1. /\ OnlyMoves(s) /\ job' = job /\ faults' >= faults
        /\ UNCHANGED <<queueVars, kind, launch, value, overruled>>
        /\ \A e \in Jobs : e # job[s] => status'[e] = status[e]
    BY <1>10, <1>f DEF ReleasePlan, OnlyMoves
  <2>2. Grows
    BY <1>10, HistoryFrame DEF ReleasePlan, Unlock
  <2>3. SlotFact(s)' /\ (faults' = 0 => SlotCalm(s)')
    BY <1>10, <1>j, <1>f, <2>1, <2>2
       DEF ReleasePlan, Unlock, SlotFact, SlotCalm, Grows, Past, Live, queueVars, PCs
  <2> QED BY <1>j, <2>1, <2>2, <2>3, HandlerStep
<1>11. ASSUME Charge(s) PROVE Facts'
  <2>1. /\ OnlyMoves(s) /\ job' = job /\ faults' >= faults
        /\ UNCHANGED <<queueVars, kind, launch, value, overruled>>
        /\ \A e \in Jobs : e # job[s] => status'[e] = status[e]
    BY <1>11, <1>f DEF Charge, OnlyMoves
  <2>2. Grows
    BY <1>11, <1>j DEF Charge, TypeOK, Facts, JobFact, SlotFact, Grows
  <2>3. SlotFact(s)' /\ (faults' = 0 => SlotCalm(s)')
    BY <1>11, <1>j, <1>f, <1>h, <2>1
       DEF Charge, SlotFact, SlotCalm, Past, Live, queueVars, PCs
  <2> QED BY <1>j, <2>1, <2>2, <2>3, HandlerStep
<1>12. ASSUME CreateOutput(s) PROVE Facts'
  <2>1. /\ OnlyMoves(s) /\ job' = job /\ faults' >= faults
        /\ UNCHANGED <<queueVars, kind, launch, value, overruled>>
        /\ \A e \in Jobs : e # job[s] => status'[e] = status[e]
    BY <1>12, <1>f DEF CreateOutput, OnlyMoves
  <2>2. Grows
    BY <1>12, <1>j DEF CreateOutput, TypeOK, Facts, JobFact, Grows
  <2>3. SlotFact(s)' /\ (faults' = 0 => SlotCalm(s)')
    BY <1>12, <1>j, <1>f, <1>h, <2>1
       DEF CreateOutput, SlotFact, SlotCalm, Past, Live, queueVars, PCs
  <2> QED BY <1>j, <2>1, <2>2, <2>3, HandlerStep
<1>13. ASSUME Finish(s) PROVE Facts'
  <2>1. /\ OnlyMoves(s) /\ job' = job /\ faults' >= faults
        /\ UNCHANGED <<queueVars, kind, launch, value, overruled>>
        /\ \A e \in Jobs : e # job[s] => status'[e] = status[e]
    BY <1>13, <1>f DEF Finish, OnlyMoves
  <2>2. Grows
    BY <1>13, HistoryFrame DEF Finish
  <2>3. SlotFact(s)' /\ (faults' = 0 => SlotCalm(s)')
    BY <1>13, <1>j, <1>f, <2>1, <2>2
       DEF Finish, SlotFact, SlotCalm, Grows, Past, Live, queueVars, PCs
  <2> QED BY <1>j, <2>1, <2>2, <2>3, HandlerStep
<1>14. ASSUME Announce(s) PROVE Facts'
  <2>1. /\ OnlyMoves(s) /\ job' = job /\ faults' >= faults
        /\ UNCHANGED <<queueVars, kind, launch, value, overruled>>
        /\ \A e \in Jobs : e # job[s] => status'[e] = status[e]
    BY <1>14, <1>f DEF Announce, OnlyMoves
  <2>2. Grows
    BY <1>14, <1>j DEF Announce, TypeOK, Facts, JobFact, Grows
  <2>3. SlotFact(s)' /\ (faults' = 0 => SlotCalm(s)')
    BY <1>14, <1>j, <1>f, <1>h, <2>1
       DEF Announce, SlotFact, SlotCalm, Past, Live, queueVars, PCs
  <2> QED BY <1>j, <2>1, <2>2, <2>3, HandlerStep
<1>15. ASSUME MarkFailed(s) PROVE Facts'
  <2>1. /\ OnlyMoves(s) /\ job' = job /\ faults' >= faults
        /\ UNCHANGED <<queueVars, kind, launch, value, overruled>>
        /\ \A e \in Jobs : e # job[s] => status'[e] = status[e]
    BY <1>15, <1>f DEF MarkFailed, OnlyMoves
  <2>2. Grows
    BY <1>15, HistoryFrame DEF MarkFailed
  <2>3. SlotFact(s)' /\ (faults' = 0 => SlotCalm(s)')
    BY <1>15, <1>j, <1>f, <2>1, <2>2
       DEF MarkFailed, SlotFact, SlotCalm, Grows, Past, Live, queueVars, PCs
  <2> QED BY <1>j, <2>1, <2>2, <2>3, HandlerStep
<1>16. ASSUME AnnounceFailed(s) PROVE Facts'
  <2>1. /\ OnlyMoves(s) /\ job' = job /\ faults' >= faults
        /\ UNCHANGED <<queueVars, kind, launch, value, overruled>>
        /\ \A e \in Jobs : e # job[s] => status'[e] = status[e]
    BY <1>16, <1>f DEF AnnounceFailed, OnlyMoves
  <2>2. Grows
    BY <1>16, <1>j DEF AnnounceFailed, TypeOK, Facts, JobFact, Grows
  <2>3. SlotFact(s)' /\ (faults' = 0 => SlotCalm(s)')
    BY <1>16, <1>j, <1>f, <1>c, <2>1
       DEF AnnounceFailed, SlotFact, SlotCalm, Past, Live, queueVars, PCs
  <2> QED BY <1>j, <2>1, <2>2, <2>3, HandlerStep
<1>17. ASSUME Fault(s) PROVE Facts'
  <2>1. /\ OnlyMoves(s) /\ job' = job /\ faults' >= faults
        /\ UNCHANGED <<queueVars, kind, launch, value, overruled>>
        /\ \A e \in Jobs : e # job[s] => status'[e] = status[e]
    BY <1>17, <1>f DEF Fault, OnlyMoves
  <2>2. Grows
    BY <1>17, HistoryFrame DEF Fault
  <2>3. SlotFact(s)' /\ (faults' = 0 => SlotCalm(s)')
    BY <1>17, <1>j, <1>f, <2>1, <2>2
       DEF Fault, SlotFact, SlotCalm, Grows, Past, Live, queueVars, PCs
  <2> QED BY <1>j, <2>1, <2>2, <2>3, HandlerStep
<1> QED
  BY <1>1, <1>2, <1>3, <1>4, <1>5, <1>6, <1>7, <1>8, <1>9,
     <1>10, <1>11, <1>12, <1>13, <1>14, <1>15, <1>16, <1>17

\* A step that moves no slot keeps the facts of the slots if it keeps the
\* locks, the histories, and the row of every execution that a slot has and
\* that is not overruled.
LEMMA SlotFactsFrame ==
    ASSUME TypeOK, Facts, UNCHANGED <<slotVars, historyVars, kind, cached>>,
           overruled \subseteq overruled',
           \A e \in Jobs : e \notin overruled' => lock'[e] = lock[e],
           \A s \in Slots : job[s] \in Jobs /\ job[s] \notin overruled' =>
               status'[job[s]] = status[job[s]]
    PROVE  \A s \in Slots : SlotFact(s)'
<1> SUFFICES ASSUME NEW s \in Slots PROVE SlotFact(s)'
  OBVIOUS
<1>1. SlotFact(s) /\ (pc[s] # "idle" => job[s] \in Jobs)
  BY DEF Facts, TypeOK
<1> QED BY <1>1 DEF SlotFact, Past, Live, slotVars, historyVars

\* The steps of the API keep the facts.
LEMMA RequestFacts ==
    ASSUME TypeOK, TypeOK', Facts, NEW e \in Jobs, Request(e)
    PROVE  Facts'
<1> USE DEF Mark, Reached, Trouble
<1>j. (\A d \in Jobs : JobFact(d)) /\ faults \in Nat
  BY TaskAssumption DEF Facts, TypeOK, TaskAssumption
<1>t. /\ status \in [Jobs -> Outcomes \cup {"none", "RUNNING"}]
      /\ launch \in [Jobs -> Launches]
      /\ jobs \in [Jobs -> JobStates] /\ lock \in [Jobs -> Slots \cup {NoSlot}]
  BY DEF TypeOK, QueueTypeOK
<1>u. /\ UNCHANGED <<slotVars, historyVars, kind, cached, lock, value>>
      /\ overruled \subseteq overruled' /\ faults' >= faults
      /\ \A d \in Jobs : d # e => /\ status'[d] = status[d] /\ launch'[d] = launch[d]
                                  /\ jobs'[d] = jobs[d] /\ (d \in overruled' => d \in overruled)
      /\ \/ e \in overruled' /\ faults' > 0 /\ jobs' = jobs /\ launch'[e] = "done"
            /\ jobs[e] # "absent"
         \/ /\ overruled' = overruled
            /\ \/ faults' > 0 /\ jobs' = jobs /\ launch'[e] = "done" /\ status' = status
               \/ /\ faults' = faults /\ jobs[e] = "absent" /\ jobs' = jobs
                  /\ \/ launch'[e] = "created"
                     \/ launch'[e] = "done" /\ status'[e] = "FAILED"
               \/ /\ faults' = faults /\ jobs[e] = "absent" /\ jobs'[e] = "waiting"
                  /\ status' = status /\ launch'[e] \in {"queued", "done"}
               \/ /\ faults' = faults /\ jobs[e] # "absent" /\ jobs' = jobs
                  /\ launch'[e] = "done" /\ status' = status
  <2> USE <1>j, <1>t DEF JobFact, queueVars, planVars, historyVars, slotVars
  <2>1. CASE CreateExecution(e)
    BY <2>1 DEF CreateExecution
  <2>2. CASE Enqueue(e) \/ EnqueueTask(e)
    BY <2>2 DEF Enqueue, EnqueueTask, Add
  <2>3. CASE Refuse(e)
    BY <2>3 DEF Refuse
  <2>4. CASE Accept(e)
    BY <2>4 DEF Accept
  <2>5. CASE AcceptFails(e)
    BY <2>5 DEF AcceptFails
  <2>6. CASE LaunchLost(e)
    BY <2>6 DEF LaunchLost
  <2> QED BY <2>1, <2>2, <2>3, <2>4, <2>5, <2>6 DEF Request
<1>1. \A d \in Jobs : JobFact(d)'
  <2> SUFFICES ASSUME NEW d \in Jobs PROVE JobFact(d)'
    OBVIOUS
  <2>1. CASE d = e
    BY <2>1, <1>j, <1>t, <1>u DEF JobFact, Past, Live, slotVars, historyVars
  <2>2. CASE d # e
    BY <2>2, <1>j, <1>u DEF JobFact, Past, Live, slotVars, historyVars
  <2> QED BY <2>1, <2>2
<1>2. \A s \in Slots : SlotFact(s)'
  <2>1. ASSUME NEW s \in Slots, job[s] \in Jobs, job[s] \notin overruled'
        PROVE  status'[job[s]] = status[job[s]]
    BY <2>1, <1>u, HandledIsActive
  <2> QED BY <2>1, <1>u, SlotFactsFrame
<1>3. Calm'
  <2> SUFFICES ASSUME faults' = 0
               PROVE  /\ overruled' = {}
                      /\ \A d \in Jobs : JobCalm(d)'
                      /\ \A s \in Slots : SlotCalm(s)'
    BY DEF Calm
  <2>1. /\ faults = 0 /\ overruled = {}
        /\ (\A d \in Jobs : JobCalm(d)) /\ (\A s \in Slots : SlotCalm(s))
    BY <1>u, <1>j DEF Facts, Calm
  <2>2. \A d \in Jobs : JobCalm(d)'
    BY <2>1, <1>u, <1>t DEF JobCalm
  <2>3. \A s \in Slots : SlotCalm(s)'
    <3>1. ASSUME NEW s \in Slots, job[s] \in Jobs PROVE status'[job[s]] = status[job[s]]
      BY <3>1, <2>1, <1>u, HandledIsActive
    <3>2. \A s \in Slots : pc[s] # "idle" => job[s] \in Jobs
      BY DEF TypeOK
    <3> QED BY <3>1, <3>2, <2>1, <1>u DEF SlotCalm, slotVars
  <2> QED BY <2>1, <2>2, <2>3, <1>u
<1> QED BY <1>1, <1>2, <1>3 DEF Facts

\* Expiry of the executor's keys, of a job's lock, and the stalled check keep
\* the facts.
LEMMA OutsideFacts ==
    ASSUME TypeOK, TypeOK', Facts
    PROVE  /\ \A e \in Jobs : KeyLapses(e) \/ StalledCheck(e) => Facts'
           /\ \A s \in Slots : LockExpires(s) => Facts'
<1> USE DEF Trouble
<1>j. /\ \A d \in Jobs : JobFact(d)
      /\ faults \in Nat /\ Executions = Jobs
      /\ jobs \in [Jobs -> JobStates] /\ lock \in [Jobs -> Slots \cup {NoSlot}]
      /\ cached \in [Jobs -> BOOLEAN]
  BY TaskAssumption DEF Facts, TypeOK, QueueTypeOK, PlanTypeOK, TaskAssumption
<1>1. ASSUME NEW e \in Jobs, KeyLapses(e) PROVE Facts'
  <2>1. /\ UNCHANGED <<slotVars, historyVars, kind, launch, status, queueVars, value, overruled>>
        /\ faults' > 0
        /\ \A d \in Jobs : cached'[d] => cached[d]
    BY <1>1, <1>j DEF KeyLapses, LockLapses, ResultLapses
  <2>2. \A d \in Jobs : JobFact(d)'
    BY <2>1, <1>j DEF JobFact, Past, Live, slotVars, historyVars, queueVars
  <2>3. \A s \in Slots : SlotFact(s)'
    BY <2>1 DEF Facts, SlotFact, Past, Live, slotVars, historyVars, queueVars
  <2> QED BY <2>1, <2>2, <2>3 DEF Facts, Calm
<1>2. ASSUME NEW e \in Jobs, StalledCheck(e) PROVE Facts'
  <2>1. /\ UNCHANGED <<slotVars, historyVars, planVars, kind, launch, status, value, overruled>>
        /\ faults' = faults /\ lock' = lock /\ jobs[e] = "active" /\ lock[e] = NoSlot
        /\ jobs'[e] \in {"waiting", "failed"} /\ \A d \in Jobs : d # e => jobs'[d] = jobs[d]
    BY <1>2, <1>j DEF StalledCheck, Redeliver
  <2>2. \A d \in Jobs : JobFact(d)'
    BY <2>1, <1>j, QueueAssumption
       DEF JobFact, Past, Live, slotVars, historyVars, planVars, QueueAssumption
  <2>3. \A s \in Slots : SlotFact(s)'
    BY <2>1 DEF Facts, SlotFact, Past, Live, slotVars, historyVars
  <2>4. faults # 0
    BY <2>1 DEF Facts, Calm, JobCalm
  <2> QED BY <2>1, <2>2, <2>3, <2>4 DEF Facts, Calm
<1>3. ASSUME NEW s \in Slots, LockExpires(s) PROVE Facts'
  <2>1. /\ UNCHANGED <<slotVars, historyVars, planVars, kind, launch, status, value, jobs>>
        /\ faults' > 0 /\ overruled' = overruled \cup {job[s]} /\ job[s] \in Jobs
        /\ \A d \in Jobs : d # job[s] => lock'[d] = lock[d]
        /\ \A d \in Jobs : lock'[d] \in {lock[d], NoSlot}
    BY <1>3, <1>j DEF LockExpires, Abandon, TypeOK
  <2>2. \A d \in Jobs : JobFact(d)'
    BY <2>1, <1>j, QueueAssumption
       DEF JobFact, Past, Live, slotVars, historyVars, planVars, QueueAssumption
  <2>3. \A v \in Slots : SlotFact(v)'
    BY <2>1 DEF Facts, SlotFact, Past, Live, slotVars, historyVars
  <2> QED BY <2>1, <2>2, <2>3 DEF Facts, Calm
<1> QED BY <1>1, <1>2, <1>3

\* Taking a job, and handing it back in any way, keep the facts.
LEMMA QueueFacts ==
    ASSUME TypeOK, TypeOK', Facts, NEW s \in Slots
    PROVE  /\ \A e \in Jobs : Take(s, e) => Facts'
           /\ Done(s) \/ Throw(s) \/ Crash(s) => Facts'
<1> USE DEF Goto, Settle, Trouble
<1>j. /\ \A d \in Jobs : JobFact(d)
      /\ \A v \in Slots : SlotFact(v)
      /\ faults = 0 => /\ overruled = {}
                       /\ \A d \in Jobs : JobCalm(d)
                       /\ \A v \in Slots : SlotCalm(v)
  BY DEF Facts, Calm
<1>t. /\ jobs \in [Jobs -> JobStates] /\ lock \in [Jobs -> Slots \cup {NoSlot}]
      /\ pc \in [Slots -> PCs] /\ job \in [Slots -> Jobs \cup {NoJob}]
      /\ out \in [Slots -> Outcomes \cup {"none"}]
      /\ value \in [Jobs -> Outcomes \cup {"none"}]
      /\ \A v \in Slots : pc[v] # "idle" => job[v] \in Jobs
      /\ \A v \in Slots : pc[v] \in Decided => out[v] \in Outcomes
      /\ NoJob \notin Jobs /\ NoSlot \notin Slots
      /\ faults \in Nat
  BY TaskAssumption, QueueAssumption DEF TypeOK, QueueTypeOK, TaskAssumption, QueueAssumption
<1>1. ASSUME NEW e \in Jobs, Take(s, e) PROVE Facts'
  <2>1. /\ UNCHANGED <<historyVars, planVars, kind, launch, status, value, overruled, faults>>
        /\ pc[s] = "idle" /\ jobs[e] = "waiting" /\ job[s] = NoJob
        /\ jobs'[e] = "active" /\ lock'[e] = s /\ job'[s] = e /\ pc'[s] = "start"
        /\ \A d \in Jobs : d # e => jobs'[d] = jobs[d] /\ lock'[d] = lock[d]
        /\ \A v \in Slots : v # s => pc'[v] = pc[v] /\ job'[v] = job[v]
        /\ out' = out
    BY <1>1, <1>j, <1>t DEF Take, Claim, SlotFact
  <2>2. \A d \in Jobs : JobFact(d)'
    BY <2>1, <1>j, <1>t DEF JobFact, Past, Live, historyVars, planVars
  <2>3. \A v \in Slots : SlotFact(v)'
    BY <2>1, <1>j, <1>t DEF JobFact, SlotFact, Past, Live, historyVars
  <2>4. Calm'
    BY <2>1, <1>j, <1>t DEF Calm, JobCalm, SlotCalm
  <2> QED BY <2>2, <2>3, <2>4 DEF Facts
<1>2. ASSUME Done(s) \/ Throw(s) \/ Crash(s) PROVE Facts'
  <2>1. /\ UNCHANGED <<historyVars, planVars, kind, launch, status, overruled>>
        /\ faults' >= faults /\ job[s] \in Jobs
        /\ pc'[s] = "idle" /\ job'[s] = NoJob
        /\ \A v \in Slots : v # s => pc'[v] = pc[v] /\ job'[v] = job[v] /\ out'[v] = out[v]
        /\ \A d \in Jobs : d # job[s] =>
               jobs'[d] = jobs[d] /\ lock'[d] = lock[d] /\ value'[d] = value[d]
    <3>1. CASE Done(s)
      BY <3>1, <1>t DEF Done, Complete, Release
    <3>2. CASE Throw(s)
      BY <3>2, <1>t DEF Throw, Reject, Release
    <3>3. CASE Crash(s)
      BY <3>3, <1>t DEF Crash, Abandon, Release
    <3> QED BY <1>2, <3>1, <3>2, <3>3
  <2>2. \/ lock[job[s]] # s /\ jobs' = jobs /\ lock' = lock /\ value' = value
        \/ /\ lock[job[s]] = s /\ lock'[job[s]] = NoSlot
           /\ \/ /\ jobs'[job[s]] = "completed" /\ value'[job[s]] = out[s]
                 /\ pc[s] = "done" /\ out[s] \in Outcomes
              \/ /\ jobs'[job[s]] \in {"waiting", "failed"} /\ value' = value
                 /\ pc[s] = "throw"
              \/ faults' > 0 /\ jobs' = jobs /\ value' = value
    <3>1. CASE Done(s)
      BY <3>1, <1>t, <2>1 DEF Done, Complete, Decided
    <3>2. CASE Throw(s)
      BY <3>2, <1>t, <2>1 DEF Throw, Reject
    <3>3. CASE Crash(s)
      BY <3>3, <1>t, <2>1 DEF Crash, Abandon
    <3> QED BY <1>2, <3>1, <3>2, <3>3
  <2>3. \A d \in Jobs : JobFact(d)'
    <3> SUFFICES ASSUME NEW d \in Jobs PROVE JobFact(d)'
      OBVIOUS
    <3>1. CASE d # job[s]
      BY <3>1, <2>1, <1>j, <1>t DEF JobFact, Past, Live, historyVars, planVars
    <3>2. CASE d = job[s]
      <4>1. JobFact(job[s]) /\ SlotFact(s)
        BY <2>1, <1>j
      <4> QED BY <4>1, <3>2, <2>1, <2>2, <1>t
              DEF JobFact, SlotFact, Past, Live, historyVars, planVars
    <3> QED BY <3>1, <3>2
  <2>4. \A v \in Slots : SlotFact(v)'
    <3> SUFFICES ASSUME NEW v \in Slots PROVE SlotFact(v)'
      OBVIOUS
    <3>1. CASE v = s
      BY <3>1, <2>1, <1>t DEF SlotFact
    <3>2. CASE v # s
      <4>1. job[v] \in Jobs /\ job[v] \notin overruled => lock'[job[v]] = lock[job[v]]
        BY <3>2, <2>1, <1>j DEF SlotFact
      <4> QED BY <3>2, <4>1, <2>1, <1>j DEF SlotFact, Past, Live, historyVars
    <3> QED BY <3>1, <3>2
  <2>5. Calm'
    <3> SUFFICES ASSUME faults' = 0 PROVE Calm'
      BY DEF Calm
    <3>1. faults = 0 /\ SlotFact(s) /\ SlotCalm(s) /\ lock[job[s]] = s
      BY <2>1, <1>j, <1>t DEF SlotFact
    <3>2. \A d \in Jobs : JobCalm(d)'
      BY <3>1, <2>1, <2>2, <1>j, <1>t DEF JobCalm, SlotCalm, SlotFact, Outcomes
    <3>3. \A v \in Slots : SlotCalm(v)'
      BY <3>1, <2>1, <1>j DEF SlotCalm
    <3> QED BY <3>1, <3>2, <3>3, <2>1, <1>j DEF Calm
  <2> QED BY <2>3, <2>4, <2>5 DEF Facts
<1> QED BY <1>1, <1>2

-----------------------------------------------------------------------------
(* The executor's lock.                                                    *)

Runs(at) == at \in {"plan", "store", "unlock", "drop"}

\* The locks and lapses of execution e
Leases(e) == One(planLock[e]) + lapses[e]

\* A step that moves no slot but s keeps the bound if s becomes a runner only
\* with a lease, and a lease is given up only by a runner that stops.
LEMMA LeaseStep ==
    ASSUME TypeOK, TypeOK', LeaseBound, NEW s \in Slots,
           \A v \in Slots : v # s => pc'[v] = pc[v] /\ job'[v] = job[v],
           \A e \in Jobs : Leases(e)' - One((s \in Running(e))')
                             >= Leases(e) - One(s \in Running(e))
    PROVE  LeaseBound'
<1> SUFFICES ASSUME NEW e \in Jobs PROVE Cardinality(Running(e)') <= Leases(e)'
  BY DEF LeaseBound, Leases
<1>1. IsFiniteSet(Running(e))
  <2>1. Running(e) \in SUBSET Slots
    BY DEF Running
  <2> QED BY <2>1, FS_Subset, QueueAssumption DEF QueueAssumption
<1>2. Running(e) \ {s} = Running(e)' \ {s}
  BY DEF Running
<1>3. /\ Cardinality(Running(e)) \in Nat /\ Cardinality(Running(e)') \in Nat
      /\ Cardinality(Running(e)') =
             Cardinality(Running(e)) - One(s \in Running(e)) + One(s \in Running(e)')
  BY <1>1, <1>2, SizeSwap
<1>4. Cardinality(Running(e)) <= Leases(e)
  BY DEF LeaseBound, Leases
<1>5. Leases(e) \in Nat /\ Leases(e)' \in Nat
  BY TaskAssumption DEF Leases, One, TypeOK, PlanTypeOK, TaskAssumption
<1>6. Leases(e)' - One(s \in Running(e)') >= Leases(e) - One(s \in Running(e))
  OBVIOUS
<1>7. One(s \in Running(e)) \in {0, 1} /\ One(s \in Running(e)') \in {0, 1}
  BY DEF One
<1> QED BY <1>3, <1>4, <1>5, <1>6, <1>7

\* A step that moves no slot keeps the bound if it takes no lease away.
LEMMA LeaseFrame ==
    ASSUME LeaseBound, UNCHANGED <<pc, job>>, TypeOK, TypeOK',
           \A e \in Jobs : Leases(e)' >= Leases(e)
    PROVE  LeaseBound'
<1> SUFFICES ASSUME NEW e \in Jobs PROVE Cardinality(Running(e)') <= Leases(e)'
  BY DEF LeaseBound, Leases
<1>1. Running(e)' = Running(e)
  BY DEF Running
<1>2. Leases(e) \in Nat /\ Leases(e)' \in Nat
  BY TaskAssumption DEF Leases, One, TypeOK, PlanTypeOK, TaskAssumption
<1>3. Cardinality(Running(e)) \in Nat
  <2>1. Running(e) \in SUBSET Slots
    BY DEF Running
  <2> QED BY <2>1, FS_Subset, FS_CardinalityType, QueueAssumption DEF QueueAssumption
<1>4. Cardinality(Running(e)) <= Leases(e)
  BY DEF LeaseBound, Leases
<1> QED BY <1>1, <1>2, <1>3, <1>4

\* Every step keeps the bound.
LEMMA NextLease ==
    ASSUME TypeOK, TypeOK', LeaseBound, [Next]_vars
    PROVE  LeaseBound'
<1> USE DEF Goto, Settle, Mark, Count, Reached, Tell, Trouble, historyVars, slotVars
<1>t. /\ pc \in [Slots -> PCs] /\ job \in [Slots -> Jobs \cup {NoJob}]
      /\ planLock \in [Jobs -> BOOLEAN] /\ lapses \in [Jobs -> Nat]
      /\ \A s \in Slots : pc[s] # "idle" => job[s] \in Jobs
      /\ NoJob \notin Jobs /\ Executions = Jobs
  BY TaskAssumption DEF TypeOK, PlanTypeOK, TaskAssumption
<1>l. \A e \in Jobs : Leases(e) \in Nat
  BY <1>t DEF Leases, One
<1>p. UNCHANGED <<planLock, lapses>> => \A e \in Jobs : Leases(e)' = Leases(e)
  BY DEF Leases
<1>r. ASSUME NEW s \in Slots,
             \A v \in Slots : v # s => pc'[v] = pc[v] /\ job'[v] = job[v],
             UNCHANGED <<planLock, lapses>>,
             Runs(pc'[s]) => Runs(pc[s]) /\ job'[s] = job[s]
      PROVE  LeaseBound'
  <2>1. \A e \in Jobs : (s \in Running(e))' => s \in Running(e)
    BY <1>r DEF Running, Runs
  <2>2. \A e \in Jobs : Leases(e)' - One((s \in Running(e))') >= Leases(e) - One(s \in Running(e))
    BY <2>1, <1>p, <1>r, <1>l DEF One
  <2> QED BY <1>r, <2>2, LeaseStep
<1>1. ASSUME NEW e \in Jobs, Request(e) \/ StalledCheck(e) PROVE LeaseBound'
  <2>1. UNCHANGED <<pc, job, planLock, lapses>>
    BY <1>1 DEF Request, CreateExecution, Enqueue, Refuse, Accept, AcceptFails, LaunchLost,
                EnqueueTask, StalledCheck, planVars
  <2> QED BY <2>1, <1>p, <1>l, LeaseFrame
<1>2. ASSUME NEW e \in Jobs, KeyLapses(e) PROVE LeaseBound'
  <2>1. UNCHANGED <<pc, job>>
    BY <1>2 DEF KeyLapses
  <2>2. \A d \in Jobs : Leases(d)' >= Leases(d)
    <3>1. CASE LockLapses(e)
      BY <3>1, <1>t DEF LockLapses, Leases, One
    <3>2. CASE ResultLapses(e)
      BY <3>2, <1>p, <1>l DEF ResultLapses
    <3> QED BY <1>2, <3>1, <3>2 DEF KeyLapses
  <2> QED BY <2>1, <2>2, LeaseFrame
<1>3. ASSUME NEW s \in Slots, NEW e \in Jobs, Take(s, e) PROVE LeaseBound'
  BY <1>3, <1>t, <1>r DEF Take, planVars, Runs
<1>4. ASSUME NEW s \in Slots, Handle(s) PROVE LeaseBound'
  <2>1. CASE \/ Start(s) \/ CheckBilling(s) \/ Block(s) \/ Preflight(s) \/ Peek(s)
             \/ Locked(s) \/ Charge(s) \/ CreateOutput(s) \/ Finish(s) \/ Announce(s)
             \/ MarkFailed(s) \/ AnnounceFailed(s)
    <3>1. /\ \A v \in Slots : v # s => pc'[v] = pc[v]
          /\ UNCHANGED <<job, planLock, lapses>> /\ ~Runs(pc'[s])
      BY <2>1, <1>t
         DEF Start, CheckBilling, Block, Preflight, Peek, Locked, Charge, CreateOutput, Finish,
             Announce, MarkFailed, AnnounceFailed, planVars, Runs
    <3> QED BY <3>1, <1>r
  <2>2. CASE RunPlan(s)
    BY <2>2, <1>t, <1>r DEF RunPlan, planVars, Runs
  <2>3. CASE StoreResult(s)
    BY <2>3, <1>t, <1>r DEF StoreResult, Store, Runs
  <2>4. CASE Lock(s)
    <3>1. /\ \A v \in Slots : v # s => pc'[v] = pc[v] /\ job'[v] = job[v]
          /\ pc[s] = "lock" /\ job[s] \in Jobs /\ lapses' = lapses /\ job' = job
          /\ planLock[job[s]] = FALSE /\ planLock' = [planLock EXCEPT ![job[s]] = TRUE]
      BY <2>4, <1>t DEF Lock, Acquire
    <3>2. \A e \in Jobs : Leases(e)' - One((s \in Running(e))') >= Leases(e) - One(s \in Running(e))
      BY <3>1, <1>t DEF Leases, One, Running
    <3> QED BY <3>1, <3>2, LeaseStep
  <2>5. CASE ReleasePlan(s)
    <3>1. /\ \A v \in Slots : v # s => pc'[v] = pc[v] /\ job'[v] = job[v]
          /\ Runs(pc[s]) /\ ~Runs(pc'[s]) /\ job[s] \in Jobs /\ lapses' = lapses /\ job' = job
          /\ planLock' = [planLock EXCEPT ![job[s]] = FALSE]
      BY <2>5, <1>t DEF ReleasePlan, Unlock, Runs
    <3>2. \A e \in Jobs : Leases(e)' - One((s \in Running(e))') >= Leases(e) - One(s \in Running(e))
      BY <3>1, <1>t DEF Leases, One, Running, Runs
    <3> QED BY <3>1, <3>2, LeaseStep
  <2>6. CASE Done(s) \/ Throw(s)
    BY <2>6, <1>t, <1>r DEF Done, Throw, Release, planVars, Runs
  <2> QED BY <1>4, <2>1, <2>2, <2>3, <2>4, <2>5, <2>6 DEF Handle
<1>5. ASSUME NEW s \in Slots, Fault(s) PROVE LeaseBound'
  BY <1>5, <1>t, <1>r DEF Fault, planVars, Runs
<1>6. ASSUME NEW s \in Slots, Crash(s) PROVE LeaseBound'
  BY <1>6, <1>t, <1>r DEF Crash, Release, planVars, Runs
<1>7. ASSUME NEW s \in Slots, LockExpires(s) PROVE LeaseBound'
  <2>1. UNCHANGED <<pc, job, planLock, lapses>>
    BY <1>7 DEF LockExpires, planVars
  <2> QED BY <2>1, <1>p, <1>l, LeaseFrame
<1>8. CASE UNCHANGED vars
  <2>1. UNCHANGED <<pc, job, planLock, lapses>>
    BY <1>8 DEF vars, planVars
  <2> QED BY <2>1, <1>p, <1>l, LeaseFrame
<1> QED BY <1>1, <1>2, <1>3, <1>4, <1>5, <1>6, <1>7, <1>8 DEF Next

-----------------------------------------------------------------------------
(* The invariant, and what follows from it.                                *)

\* The initial state satisfies the invariant.
LEMMA InitInv == Init => TaskInv
<1> SUFFICES ASSUME Init PROVE TaskInv
  OBVIOUS
<1>1. \A e \in Jobs : JobFact(e)
  BY QueueAssumption, TaskAssumption
     DEF Init, QueueInit, PlanInit, JobFact, QueueAssumption, TaskAssumption
<1>2. \A s \in Slots : SlotFact(s)
  BY TaskAssumption DEF Init, SlotFact, TaskAssumption
<1>3. Calm
  BY DEF Init, QueueInit, Calm, JobCalm, SlotCalm
<1>4. LeaseBound
  <2> SUFFICES ASSUME NEW e \in Jobs PROVE Cardinality(Running(e)) <= One(planLock[e]) + lapses[e]
    BY DEF LeaseBound
  <2>1. Running(e) = {}
    BY DEF Init, Running
  <2>2. Cardinality(Running(e)) = 0
    BY <2>1, FS_EmptySet
  <2> QED BY <2>2, TaskAssumption DEF Init, PlanInit, One, TaskAssumption
<1> QED BY <1>1, <1>2, <1>3, <1>4, InitTypeOK DEF TaskInv

\* Every step keeps the facts.
LEMMA NextFacts ==
    ASSUME TypeOK, TypeOK', Facts, [Next]_vars
    PROVE  Facts'
<1>1. ASSUME NEW e \in Jobs, Request(e) \/ KeyLapses(e) \/ StalledCheck(e) PROVE Facts'
  BY <1>1, RequestFacts, OutsideFacts
<1>2. ASSUME NEW s \in Slots, NEW e \in Jobs, Take(s, e) PROVE Facts'
  BY <1>2, QueueFacts
<1>3. ASSUME NEW s \in Slots, Handle(s) \/ Fault(s) PROVE Facts'
  <2>1. CASE Done(s) \/ Throw(s)
    BY <2>1, QueueFacts
  <2>2. CASE ~(Done(s) \/ Throw(s))
    <3>1. pc[s] # "idle"
      BY <1>3, <2>2
         DEF Handle, Start, CheckBilling, Block, Preflight, Peek, Lock, Locked, RunPlan,
             StoreResult, ReleasePlan, Charge, CreateOutput, Finish, Announce, MarkFailed,
             AnnounceFailed, Fault
    <3> QED BY <1>3, <2>2, <3>1, HandlerFacts DEF Handle
  <2> QED BY <2>1, <2>2
<1>4. ASSUME NEW s \in Slots, Crash(s) \/ LockExpires(s) PROVE Facts'
  BY <1>4, QueueFacts, OutsideFacts
<1>5. CASE UNCHANGED vars
  BY <1>5 DEF vars, Facts, JobFact, SlotFact, Calm, JobCalm, SlotCalm, Past, Live,
              queueVars, planVars, historyVars, slotVars
<1> QED BY <1>1, <1>2, <1>3, <1>4, <1>5 DEF Next

\* The invariant is inductive.
LEMMA NextInv == TaskInv /\ [Next]_vars => TaskInv'
<1> SUFFICES ASSUME TaskInv, [Next]_vars PROVE TaskInv'
  OBVIOUS
<1>1. TypeOK /\ Facts /\ LeaseBound
  BY DEF TaskInv, Facts
<1>2. TypeOK'
  BY <1>1, NextTypeOK
<1>3. Facts'
  BY <1>1, <1>2, NextFacts
<1>4. LeaseBound'
  BY <1>1, <1>2, NextLease
<1> QED BY <1>2, <1>3, <1>4 DEF TaskInv, Facts

\* The agent worker's state is always well typed: no handler writes or
\* announces an outcome that it has not come to.
THEOREM TypeCorrect == Spec => []TypeOK
<1>1. TaskInv => TypeOK
  BY DEF TaskInv
<1> QED BY <1>1, InitInv, NextInv, PTL DEF Spec

\* As many handlers run an execution's plan at a time as its lock ran out of
\* time, and one more, although any of them may delete another's lock.
THEOREM RunnersHoldLeases == Spec => []OneRunnerPerLease
<1>1. TaskInv => OneRunnerPerLease
  <2> SUFFICES ASSUME TaskInv, NEW e \in Jobs PROVE Cardinality(Running(e)) <= 1 + lapses[e]
    BY DEF OneRunnerPerLease
  <2>1. Running(e) \in SUBSET Slots
    BY DEF Running
  <2>2. Cardinality(Running(e)) \in Nat
    BY <2>1, FS_Subset, FS_CardinalityType, QueueAssumption DEF QueueAssumption
  <2>3. Cardinality(Running(e)) <= One(planLock[e]) + lapses[e] /\ lapses[e] \in Nat
    BY TaskAssumption DEF TaskInv, LeaseBound, TypeOK, PlanTypeOK, TaskAssumption
  <2> QED BY <2>2, <2>3 DEF One
<1> QED BY <1>1, InitInv, NextInv, PTL DEF Spec

\* A live job completes only when the tenant was told its outcome, and unless
\* that is FAILED only when it was charged and left an output.
THEOREM CompletionIsAnnounced == Spec => []NothingCompletesSilently
<1>1. TaskInv => NothingCompletesSilently
  BY DEF TaskInv, JobFact, Past, NothingCompletesSilently
<1> QED BY <1>1, InitInv, NextInv, PTL DEF Spec

\* The row of a completed job says what the job completed with, as long as
\* neither a lost lock nor the API overruled its handler.
THEOREM RowsAgree == Spec => []RowAgreesWithJob
<1>1. TaskInv => RowAgreesWithJob
  BY DEF TaskInv, JobFact, RowAgreesWithJob
<1> QED BY <1>1, InitInv, NextInv, PTL DEF Spec

\* Without a fault nobody leaves an execution RUNNING.
THEOREM NoOrphanWithoutFault == Spec => []OrphansNeedAFault
<1>1. TaskInv => OrphansNeedAFault
  <2> SUFFICES ASSUME TaskInv, NEW e \in Jobs, status[e] = "RUNNING", launch[e] = "done",
                      jobs[e] \notin {"waiting", "active"}, faults = 0
               PROVE  FALSE
    BY TaskAssumption DEF OrphansNeedAFault, TaskInv, TypeOK, TaskAssumption
  <2>1. JobCalm(e) /\ jobs[e] \in JobStates
    BY DEF TaskInv, Calm, TypeOK, QueueTypeOK
  <2> QED BY <2>1 DEF JobCalm, JobStates
<1> QED BY <1>1, InitInv, NextInv, PTL DEF Spec

-----------------------------------------------------------------------------
(* Charges.                                                                *)

\* The slots that have execution e at one of some awaits, and those that are
\* going to reject.
At(e, places) == {s \in Slots : job[s] = e /\ pc[s] \in places}

Rejecting == {"drop", "markFailed", "tellFailed", "throw"}
Failing   == {s \in Slots : pc[s] \in Rejecting}

BeforeRun    == {"start", "billing", "preflight", "peek", "lock", "plan"}
BeforeCharge == BeforeRun \cup {"store", "unlock", "charge"}

\* Each plan that ran, or may run without a fault, but the first is paid for
\* by a fault, and so is each charge; an output that may come is charged.
BillFact(e) ==
    /\ ran[e] + Cardinality(At(e, BeforeRun)) + One(MayRun(e, Failing)) <= 1 + faults
    /\ charged[e] + Cardinality(At(e, BeforeCharge)) + One(MayRun(e, Failing)) <= 1 + faults
    /\ outputs[e] + Cardinality(At(e, {"output"})) <= charged[e]

\* A slot that moves changes the size of At by its own weight.
LEMMA AtStep ==
    ASSUME NEW s \in Slots, NEW e, NEW places, OnlyMoves(s)
    PROVE  /\ Cardinality(At(e, places)) \in Nat /\ Cardinality(At(e, places)') \in Nat
           /\ Cardinality(At(e, places)') = Cardinality(At(e, places))
                  - One(s \in At(e, places)) + One(s \in At(e, places)')
<1>1. At(e, places) \in SUBSET Slots
  BY DEF At
<1>2. IsFiniteSet(At(e, places))
  BY <1>1, FS_Subset, QueueAssumption DEF QueueAssumption
<1>3. At(e, places) \ {s} = At(e, places)' \ {s}
  BY DEF At, OnlyMoves
<1> QED BY <1>2, <1>3, SizeSwap

\* What slot s and the queue contribute to the three bills of execution e.
RunBill(s, e)    == ran[e] + One(s \in At(e, BeforeRun)) + One(MayRun(e, Failing)) - faults
ChargeBill(s, e) == charged[e] + One(s \in At(e, BeforeCharge)) + One(MayRun(e, Failing)) - faults
OutputBill(s, e) == outputs[e] + One(s \in At(e, {"output"})) - charged[e]

\* A step of slot s keeps the bills of an execution that it adds nothing to.
LEMMA BillStep ==
    ASSUME TypeOK, TypeOK', NEW s \in Slots, NEW e \in Jobs, BillFact(e), OnlyMoves(s),
           RunBill(s, e)' <= RunBill(s, e),
           ChargeBill(s, e)' <= ChargeBill(s, e),
           OutputBill(s, e)' <= OutputBill(s, e)
    PROVE  BillFact(e)'
<1>1. /\ ran[e] \in Nat /\ ran'[e] \in Nat /\ charged[e] \in Nat /\ charged'[e] \in Nat
      /\ outputs[e] \in Nat /\ outputs'[e] \in Nat /\ faults \in Nat /\ faults' \in Nat
  BY TaskAssumption DEF TypeOK, TaskAssumption
<1>2. \A p : One(p) \in {0, 1}
  BY DEF One
<1>3. /\ One(s \in At(e, BeforeRun)) \in Int /\ One(s \in At(e, BeforeRun)') \in Int
      /\ One(s \in At(e, BeforeCharge)) \in Int /\ One(s \in At(e, BeforeCharge)') \in Int
      /\ One(s \in At(e, {"output"})) \in Int /\ One(s \in At(e, {"output"})') \in Int
      /\ One(MayRun(e, Failing)) \in Int /\ One(MayRun(e, Failing)') \in Int
  BY <1>2
<1>4. ran'[e] + Cardinality(At(e, BeforeRun)') + One(MayRun(e, Failing)') <= 1 + faults'
  <2>1. /\ Cardinality(At(e, BeforeRun)) \in Nat /\ Cardinality(At(e, BeforeRun)') \in Nat
        /\ Cardinality(At(e, BeforeRun)') = Cardinality(At(e, BeforeRun))
               - One(s \in At(e, BeforeRun)) + One(s \in At(e, BeforeRun)')
    BY AtStep
  <2> QED BY <1>1, <1>3, <2>1 DEF RunBill, BillFact
<1>5. charged'[e] + Cardinality(At(e, BeforeCharge)') + One(MayRun(e, Failing)') <= 1 + faults'
  <2>1. /\ Cardinality(At(e, BeforeCharge)) \in Nat /\ Cardinality(At(e, BeforeCharge)') \in Nat
        /\ Cardinality(At(e, BeforeCharge)') = Cardinality(At(e, BeforeCharge))
               - One(s \in At(e, BeforeCharge)) + One(s \in At(e, BeforeCharge)')
    BY AtStep
  <2> QED BY <1>1, <1>3, <2>1 DEF ChargeBill, BillFact
<1>6. outputs'[e] + Cardinality(At(e, {"output"})') <= charged'[e]
  <2>1. /\ Cardinality(At(e, {"output"})) \in Nat /\ Cardinality(At(e, {"output"})') \in Nat
        /\ Cardinality(At(e, {"output"})') = Cardinality(At(e, {"output"}))
               - One(s \in At(e, {"output"})) + One(s \in At(e, {"output"})')
    BY AtStep
  <2> QED BY <1>1, <1>3, <2>1 DEF OutputBill, BillFact
<1> QED BY <1>4, <1>5, <1>6 DEF BillFact

\* A step of slot s that changes no bill of execution e itself, and gives it
\* another run only with a fault, keeps its bills if the slot lets go of it.
LEMMA LeaveBill ==
    ASSUME TypeOK, TypeOK', NEW s \in Slots, NEW e \in Jobs, BillFact(e), OnlyMoves(s),
           job'[s] # e, ran'[e] = ran[e], charged'[e] = charged[e], outputs'[e] = outputs[e],
           faults' \in {faults, faults + 1},
           MayRun(e, Failing)' => MayRun(e, Failing) \/ faults' = faults + 1
    PROVE  BillFact(e)'
<1>1. \A places : s \notin At(e, places)'
  BY DEF At
<1>2. faults \in Nat /\ ran[e] \in Nat /\ charged[e] \in Nat /\ outputs[e] \in Nat
  BY TaskAssumption DEF TypeOK, TaskAssumption
<1>3. One(MayRun(e, Failing))' - faults' <= One(MayRun(e, Failing)) - faults
  BY <1>2 DEF One
<1>4. \A p : One(p) \in {0, 1}
  BY DEF One
<1>5. /\ One(s \in At(e, BeforeRun)) >= 0 /\ One(s \in At(e, BeforeRun))' = 0
      /\ One(s \in At(e, BeforeCharge)) >= 0 /\ One(s \in At(e, BeforeCharge))' = 0
      /\ One(s \in At(e, {"output"})) >= 0 /\ One(s \in At(e, {"output"}))' = 0
      /\ One(s \in At(e, BeforeRun)) \in Int /\ One(s \in At(e, BeforeCharge)) \in Int
      /\ One(s \in At(e, {"output"})) \in Int
      /\ One(MayRun(e, Failing)) \in Int /\ One(MayRun(e, Failing))' \in Int
  BY <1>1, <1>4 DEF One
<1>6. RunBill(s, e)' <= RunBill(s, e)
  BY <1>2, <1>3, <1>5 DEF RunBill
<1>7. ChargeBill(s, e)' <= ChargeBill(s, e)
  BY <1>2, <1>3, <1>5 DEF ChargeBill
<1>8. OutputBill(s, e)' <= OutputBill(s, e)
  BY <1>2, <1>5 DEF OutputBill
<1> QED BY <1>6, <1>7, <1>8, BillStep

\* The queue gives execution e another run only if its own slot is going to
\* reject; the other slots do not count.
LEMMA OtherSlots ==
    ASSUME TypeOK, Facts, NEW s \in Slots, NEW e \in Jobs, OnlyMoves(s),
           jobs'[e] = jobs[e], lock'[e] = lock[e], lock[e] # s
    PROVE  MayRun(e, Failing)' <=> MayRun(e, Failing)
<1>1. lock[e] \in Slots \cup {NoSlot} /\ NoSlot \notin Slots
  BY QueueAssumption DEF TypeOK, QueueTypeOK, QueueAssumption
<1>2. lock[e] \in Failing <=> lock[e] \in Failing'
  BY <1>1 DEF Failing, OnlyMoves
<1> QED BY <1>2 DEF MayRun

\* The weights of an await in the bills of its execution
RunAt(at)    == One(at \in BeforeRun)
ChargeAt(at) == One(at \in BeforeCharge)
OutputAt(at) == One(at = "output")
FailAt(at)   == One(at \in Rejecting)

\* A step of slot s that leaves the queue alone and charges its execution no
\* more than a fault pays for keeps the bills.
LEMMA HandlerBill ==
    ASSUME TypeOK, TypeOK', Facts, \A e \in Jobs : BillFact(e), NEW s \in Slots,
           OnlyMoves(s), job' = job, pc[s] # "idle", UNCHANGED queueVars,
           faults' \in {faults, faults + 1},
           \A e \in Jobs : e # job[s] =>
               ran'[e] = ran[e] /\ charged'[e] = charged[e] /\ outputs'[e] = outputs[e],
           LET runs   == ran'[job[s]] - ran[job[s]]
               costs  == charged'[job[s]] - charged[job[s]]
               keeps  == outputs'[job[s]] - outputs[job[s]]
               fault  == faults' - faults
               fails  == FailAt(pc'[s]) - FailAt(pc[s])
           IN  /\ runs + RunAt(pc'[s]) - RunAt(pc[s]) <= fault
               /\ runs + RunAt(pc'[s]) - RunAt(pc[s]) + fails <= fault
               /\ costs + ChargeAt(pc'[s]) - ChargeAt(pc[s]) <= fault
               /\ costs + ChargeAt(pc'[s]) - ChargeAt(pc[s]) + fails <= fault
               /\ keeps + OutputAt(pc'[s]) - OutputAt(pc[s]) <= costs
    PROVE  \A e \in Jobs : BillFact(e)'
<1> SUFFICES ASSUME NEW e \in Jobs PROVE BillFact(e)'
  OBVIOUS
<1>1. /\ faults \in Nat /\ ran[e] \in Nat /\ charged[e] \in Nat /\ outputs[e] \in Nat
      /\ ran'[e] \in Nat /\ charged'[e] \in Nat /\ outputs'[e] \in Nat
  BY TaskAssumption DEF TypeOK, TaskAssumption
<1>q. jobs'[e] = jobs[e] /\ lock'[e] = lock[e]
  BY DEF queueVars
<1>2. CASE e # job[s]
  <2>1. lock[e] # s
    BY <1>2 DEF Facts, JobFact
  <2> QED BY <1>2, <1>q, <2>1, LeaveBill, OtherSlots
<1>3. CASE e = job[s]
  <2>1. /\ One(s \in At(e, BeforeRun)) = RunAt(pc[s])
        /\ One(s \in At(e, BeforeRun))' = RunAt(pc'[s])
        /\ One(s \in At(e, BeforeCharge)) = ChargeAt(pc[s])
        /\ One(s \in At(e, BeforeCharge))' = ChargeAt(pc'[s])
        /\ One(s \in At(e, {"output"})) = OutputAt(pc[s])
        /\ One(s \in At(e, {"output"}))' = OutputAt(pc'[s])
    BY <1>3 DEF At, RunAt, ChargeAt, OutputAt, One
  <2>2. \A at : /\ RunAt(at) \in Int /\ ChargeAt(at) \in Int /\ OutputAt(at) \in Int
                /\ FailAt(at) \in Int
    BY DEF RunAt, ChargeAt, OutputAt, FailAt, One
  <2>3. One(MayRun(e, Failing)) \in Int /\ One(MayRun(e, Failing))' \in Int
    BY DEF One
  <2>4. \/ One(MayRun(e, Failing))' = One(MayRun(e, Failing))
        \/ /\ One(MayRun(e, Failing)) = FailAt(pc[s])
           /\ One(MayRun(e, Failing))' = FailAt(pc'[s])
    <3>1. CASE lock[e] = s
      <4>1. jobs[e] = "active" /\ s # NoSlot
        BY <3>1, QueueAssumption DEF Facts, JobFact, QueueAssumption
      <4>2. (s \in Failing <=> pc[s] \in Rejecting) /\ (s \in Failing' <=> pc'[s] \in Rejecting)
        BY DEF Failing
      <4> QED BY <1>q, <3>1, <4>1, <4>2 DEF MayRun, One, FailAt
    <3>2. CASE lock[e] # s
      <4>1. MayRun(e, Failing)' <=> MayRun(e, Failing)
        BY <1>q, <3>2, OtherSlots
      <4> QED BY <4>1 DEF One
    <3> QED BY <3>1, <3>2
  <2>5. RunBill(s, e)' <= RunBill(s, e)
    BY <1>1, <1>3, <2>1, <2>2, <2>3, <2>4 DEF RunBill
  <2>6. ChargeBill(s, e)' <= ChargeBill(s, e)
    BY <1>1, <1>3, <2>1, <2>2, <2>3, <2>4 DEF ChargeBill
  <2>7. OutputBill(s, e)' <= OutputBill(s, e)
    BY <1>1, <1>3, <2>1, <2>2 DEF OutputBill
  <2> QED BY <2>5, <2>6, <2>7, BillStep
<1> QED BY <1>2, <1>3

\* A step that moves no slot keeps the bills if it gives no execution another
\* run without a fault.
LEMMA QuietBill ==
    ASSUME TypeOK, TypeOK', \A e \in Jobs : BillFact(e),
           UNCHANGED <<pc, job, ran, charged, outputs>>, faults' \in {faults, faults + 1},
           \A e \in Jobs : MayRun(e, Failing)' => MayRun(e, Failing) \/ faults' = faults + 1
    PROVE  \A e \in Jobs : BillFact(e)'
<1> SUFFICES ASSUME NEW e \in Jobs PROVE BillFact(e)'
  OBVIOUS
<1>1. \A places : At(e, places)' = At(e, places)
  BY DEF At
<1>2. \A places : Cardinality(At(e, places)) \in Nat
  <2> SUFFICES ASSUME NEW places PROVE Cardinality(At(e, places)) \in Nat
    OBVIOUS
  <2>1. At(e, places) \in SUBSET Slots
    BY DEF At
  <2> QED BY <2>1, FS_Subset, FS_CardinalityType, QueueAssumption DEF QueueAssumption
<1>3. /\ faults \in Nat /\ ran[e] \in Nat /\ charged[e] \in Nat /\ outputs[e] \in Nat
  BY TaskAssumption DEF TypeOK, TaskAssumption
<1>4. One(MayRun(e, Failing))' - faults' <= One(MayRun(e, Failing)) - faults
  BY <1>3 DEF One
<1>5. One(MayRun(e, Failing)) \in Int /\ One(MayRun(e, Failing))' \in Int
  BY DEF One
<1>6. Cardinality(At(e, BeforeRun)) \in Nat /\ Cardinality(At(e, BeforeCharge)) \in Nat
  BY <1>2
<1>7. BillFact(e)
  OBVIOUS
<1> QED BY <1>1, <1>3, <1>4, <1>5, <1>6, <1>7 DEF BillFact

\* The first await of a new handler weighs what the waiting job did.
LEMMA TakeBill ==
    ASSUME TypeOK, TypeOK', Facts, \A e \in Jobs : BillFact(e),
           NEW s \in Slots, NEW d \in Jobs, Take(s, d)
    PROVE  \A e \in Jobs : BillFact(e)'
<1> USE DEF historyVars, Goto
<1> SUFFICES ASSUME NEW e \in Jobs PROVE BillFact(e)'
  OBVIOUS
<1>1. /\ pc[s] = "idle" /\ job[s] = NoJob /\ pc'[s] = "start" /\ job'[s] = d /\ OnlyMoves(s)
      /\ jobs[d] = "waiting" /\ jobs'[d] = "active" /\ lock'[d] = s /\ NoJob \notin Jobs
      /\ UNCHANGED <<ran, charged, outputs, faults>>
      /\ e # d => jobs'[e] = jobs[e] /\ lock'[e] = lock[e]
  BY TaskAssumption DEF Take, Claim, OnlyMoves, TypeOK, QueueTypeOK, Facts, SlotFact, TaskAssumption
<1>2. CASE e # d
  <2>1. lock[e] # s
    BY <1>1 DEF Facts, JobFact
  <2> QED BY <1>1, <1>2, <2>1, LeaveBill, OtherSlots
<1>3. CASE e = d
  <2>1. /\ s \notin At(e, BeforeRun) /\ s \in At(e, BeforeRun)'
        /\ s \notin At(e, BeforeCharge) /\ s \in At(e, BeforeCharge)'
        /\ s \notin At(e, {"output"}) /\ s \notin At(e, {"output"})'
    BY <1>1, <1>3 DEF At, BeforeRun, BeforeCharge
  <2>2. MayRun(e, Failing)
    BY <1>1, <1>3 DEF MayRun
  <2>3. ~MayRun(e, Failing)'
    BY <1>1, <1>3, QueueAssumption DEF MayRun, Failing, Rejecting, QueueAssumption
  <2>4. /\ faults \in Nat /\ ran[e] \in Nat /\ charged[e] \in Nat /\ outputs[e] \in Nat
    BY TaskAssumption DEF TypeOK, TaskAssumption
  <2>5. RunBill(s, e)' <= RunBill(s, e) /\ ChargeBill(s, e)' <= ChargeBill(s, e)
    BY <1>1, <2>1, <2>2, <2>3, <2>4 DEF RunBill, ChargeBill, One
  <2>6. OutputBill(s, e)' <= OutputBill(s, e)
    BY <1>1, <2>1, <2>4 DEF OutputBill, One
  <2> QED BY <1>1, <2>5, <2>6, BillStep
<1> QED BY <1>2, <1>3

\* A handler that ends keeps the bills: its job gets another run only for a
\* rejection or a fault.
LEMMA ReleaseBill ==
    ASSUME TypeOK, TypeOK', Facts, \A e \in Jobs : BillFact(e), NEW s \in Slots, pc[s] # "idle",
           Release(s), UNCHANGED <<ran, charged, outputs>>, faults' \in {faults, faults + 1},
           \/ Complete(s, job[s])
           \/ Reject(s, job[s]) /\ pc[s] = "throw"
           \/ Abandon(s, job[s]) /\ faults' = faults + 1
    PROVE  \A e \in Jobs : BillFact(e)'
<1> SUFFICES ASSUME NEW e \in Jobs PROVE BillFact(e)'
  OBVIOUS
<1>1. /\ OnlyMoves(s) /\ job'[s] = NoJob /\ job[s] \in Jobs /\ NoJob \notin Jobs
      /\ jobs \in [Jobs -> JobStates] /\ lock \in [Jobs -> Slots \cup {NoSlot}]
  BY TaskAssumption DEF Release, Goto, Settle, OnlyMoves, TypeOK, QueueTypeOK, TaskAssumption
<1>2. MayRun(e, Failing)' => MayRun(e, Failing) \/ faults' = faults + 1
  <2>1. CASE lock[job[s]] = s /\ e = job[s]
    <3>1. jobs[e] = "active" /\ lock[e] = s
      BY <2>1 DEF Facts, JobFact
    <3>2. CASE Complete(s, job[s])
      BY <1>1, <2>1, <3>2 DEF Complete, MayRun
    <3>3. CASE Reject(s, job[s]) /\ pc[s] = "throw"
      BY <3>1, <3>3 DEF MayRun, Failing, Rejecting
    <3> QED BY <3>2, <3>3
  <2>2. CASE ~(lock[job[s]] = s /\ e = job[s])
    <3>1. jobs'[e] = jobs[e] /\ lock'[e] = lock[e]
      BY <1>1, <2>2 DEF Complete, Reject, Abandon
    <3>2. lock[e] # s
      BY <2>2 DEF Facts, JobFact
    <3> QED BY <1>1, <3>1, <3>2, OtherSlots
  <2> QED BY <2>1, <2>2
<1>3. job'[s] # e
  BY <1>1
<1> QED BY <1>1, <1>2, <1>3, LeaveBill

\* The initial state has nothing to pay.
LEMMA InitBill == Init => \A e \in Jobs : BillFact(e)
<1> SUFFICES ASSUME Init, NEW e \in Jobs PROVE BillFact(e)
  OBVIOUS
<1>1. \A places : At(e, places) = {}
  BY TaskAssumption DEF Init, At, TaskAssumption
<1>2. \A places : Cardinality(At(e, places)) = 0
  BY <1>1, FS_EmptySet
<1>3. One(MayRun(e, Failing)) \in {0, 1}
  BY DEF One
<1> QED BY <1>2, <1>3 DEF Init, BillFact

\* Every step keeps the bills.
LEMMA NextBill ==
    ASSUME TypeOK, TypeOK', Facts, \A e \in Jobs : BillFact(e), [Next]_vars
    PROVE  \A e \in Jobs : BillFact(e)'
<1> USE DEF historyVars, slotVars, planVars, Goto, Settle, Mark, Count, Reached, Tell, Trouble
<1>t. /\ faults \in Nat /\ pc \in [Slots -> PCs] /\ job \in [Slots -> Jobs \cup {NoJob}]
      /\ \A s \in Slots : pc[s] # "idle" => job[s] \in Jobs
      /\ ran \in [Jobs -> Nat] /\ charged \in [Jobs -> Nat] /\ outputs \in [Jobs -> Nat]
      /\ faults \in {faults, faults + 1}
  BY TaskAssumption DEF TypeOK, TaskAssumption
<1>q. ASSUME UNCHANGED <<pc, jobs, lock>> PROVE \A e \in Jobs : MayRun(e, Failing)' <=> MayRun(e, Failing)
  BY <1>q DEF MayRun, Failing
<1>1. ASSUME NEW d \in Jobs, Request(d) \/ KeyLapses(d) \/ StalledCheck(d)
      PROVE  \A e \in Jobs : BillFact(e)'
  <2>1. UNCHANGED <<pc, job, ran, charged, outputs>> /\ faults' \in {faults, faults + 1}
    BY <1>1, <1>t
       DEF Request, CreateExecution, Enqueue, Refuse, Accept, AcceptFails, LaunchLost,
           EnqueueTask, KeyLapses, StalledCheck
  <2>2. \/ UNCHANGED <<pc, jobs, lock>>
        \/ MayRun(d, Failing) /\ lock' = lock /\ \A e \in Jobs : e # d => jobs'[e] = jobs[e]
    <3>1. /\ Add(d) \/ Redeliver(d) => MayRun(d, Failing) /\ lock' = lock
          /\ Add(d) \/ Redeliver(d) => \A e \in Jobs : e # d => jobs'[e] = jobs[e]
      BY DEF Add, Redeliver, MayRun, TypeOK, QueueTypeOK
    <3> QED BY <1>1, <3>1
       DEF Request, CreateExecution, Enqueue, Refuse, Accept, AcceptFails, LaunchLost,
           EnqueueTask, KeyLapses, StalledCheck, queueVars
  <2>3. \A e \in Jobs : MayRun(e, Failing)' => MayRun(e, Failing)
    <3>1. CASE UNCHANGED <<pc, jobs, lock>>
      BY <3>1, <1>q
    <3>2. CASE MayRun(d, Failing) /\ lock' = lock /\ \A e \in Jobs : e # d => jobs'[e] = jobs[e]
      <4>1. Failing' = Failing
        BY <2>1 DEF Failing
      <4> QED BY <3>2, <4>1 DEF MayRun
    <3> QED BY <2>2, <3>1, <3>2
  <2> QED BY <2>1, <2>3, QuietBill
<1>2. ASSUME NEW s \in Slots, NEW d \in Jobs, Take(s, d) PROVE \A e \in Jobs : BillFact(e)'
  BY <1>2, TakeBill
<1>3. ASSUME NEW s \in Slots, Handle(s) PROVE \A e \in Jobs : BillFact(e)'
  <2>1. CASE \/ Start(s) \/ CheckBilling(s) \/ Block(s) \/ Preflight(s) \/ Peek(s)
             \/ Lock(s) \/ Locked(s) \/ StoreResult(s) \/ ReleasePlan(s) \/ Finish(s)
             \/ Announce(s) \/ MarkFailed(s) \/ AnnounceFailed(s)
    <3>1. /\ OnlyMoves(s) /\ job' = job /\ UNCHANGED <<queueVars, ran, charged, outputs, faults>>
          /\ pc[s] # "idle"
      BY <2>1, <1>t
         DEF Start, CheckBilling, Block, Preflight, Peek, Lock, Locked, StoreResult, ReleasePlan,
             Finish, Announce, MarkFailed, AnnounceFailed, OnlyMoves, TypeOK
    <3>2. \/ pc[s] \in BeforeRun /\ pc'[s] \in PCs \ {"output"}
          \/ pc[s] \in BeforeCharge \ BeforeRun /\ pc'[s] \in BeforeCharge \ BeforeRun
          \/ /\ pc[s] \in PCs \ (BeforeCharge \cup Rejecting \cup {"output"})
             /\ pc'[s] \in PCs \ (BeforeCharge \cup Rejecting \cup {"output"})
          \/ pc[s] \in Rejecting /\ pc'[s] \in Rejecting
      BY <2>1, <1>t
         DEF Start, CheckBilling, Block, Preflight, Peek, Lock, Locked, StoreResult, ReleasePlan,
             Finish, Announce, MarkFailed, AnnounceFailed, PCs, BeforeRun, BeforeCharge, Rejecting
    <3>3. /\ RunAt(pc'[s]) - RunAt(pc[s]) <= 0
          /\ RunAt(pc'[s]) - RunAt(pc[s]) + (FailAt(pc'[s]) - FailAt(pc[s])) <= 0
          /\ ChargeAt(pc'[s]) - ChargeAt(pc[s]) <= 0
          /\ ChargeAt(pc'[s]) - ChargeAt(pc[s]) + (FailAt(pc'[s]) - FailAt(pc[s])) <= 0
          /\ OutputAt(pc'[s]) - OutputAt(pc[s]) = 0
      <4>1. BeforeRun \subseteq PCs /\ BeforeCharge \subseteq PCs /\ Rejecting \subseteq PCs
            /\ BeforeRun \subseteq BeforeCharge /\ BeforeCharge \cap Rejecting = {}
            /\ "output" \notin BeforeCharge \cup Rejecting
        BY DEF BeforeRun, BeforeCharge, Rejecting, PCs
      <4>2. CASE pc[s] \in BeforeRun /\ pc'[s] \in PCs \ {"output"}
        <5>1. /\ RunAt(pc[s]) = 1 /\ ChargeAt(pc[s]) = 1 /\ FailAt(pc[s]) = 0 /\ OutputAt(pc[s]) = 0
              /\ OutputAt(pc'[s]) = 0
              /\ RunAt(pc'[s]) \in {0, 1} /\ ChargeAt(pc'[s]) \in {0, 1}
          BY <4>1, <4>2 DEF RunAt, ChargeAt, FailAt, OutputAt, One
        <5>2. /\ FailAt(pc'[s]) \in {0, 1}
              /\ FailAt(pc'[s]) = 1 => RunAt(pc'[s]) = 0 /\ ChargeAt(pc'[s]) = 0
          BY <4>1 DEF RunAt, ChargeAt, FailAt, One
        <5> QED BY <5>1, <5>2
      <4>3. CASE pc[s] \in BeforeCharge \ BeforeRun /\ pc'[s] \in BeforeCharge \ BeforeRun
        <5>1. /\ RunAt(pc[s]) = 0 /\ ChargeAt(pc[s]) = 1 /\ FailAt(pc[s]) = 0 /\ OutputAt(pc[s]) = 0
              /\ RunAt(pc'[s]) = 0 /\ ChargeAt(pc'[s]) = 1 /\ FailAt(pc'[s]) = 0
              /\ OutputAt(pc'[s]) = 0
          BY <4>1, <4>3 DEF RunAt, ChargeAt, FailAt, OutputAt, One
        <5> QED BY <5>1
      <4>4. CASE /\ pc[s] \in PCs \ (BeforeCharge \cup Rejecting \cup {"output"})
                 /\ pc'[s] \in PCs \ (BeforeCharge \cup Rejecting \cup {"output"})
        <5>1. /\ RunAt(pc[s]) = 0 /\ ChargeAt(pc[s]) = 0 /\ FailAt(pc[s]) = 0 /\ OutputAt(pc[s]) = 0
              /\ RunAt(pc'[s]) = 0 /\ ChargeAt(pc'[s]) = 0 /\ FailAt(pc'[s]) = 0
              /\ OutputAt(pc'[s]) = 0
          BY <4>1, <4>4 DEF RunAt, ChargeAt, FailAt, OutputAt, One
        <5> QED BY <5>1
      <4>5. CASE pc[s] \in Rejecting /\ pc'[s] \in Rejecting
        <5>1. /\ RunAt(pc[s]) = 0 /\ ChargeAt(pc[s]) = 0 /\ FailAt(pc[s]) = 1 /\ OutputAt(pc[s]) = 0
              /\ RunAt(pc'[s]) = 0 /\ ChargeAt(pc'[s]) = 0 /\ FailAt(pc'[s]) = 1
              /\ OutputAt(pc'[s]) = 0
          BY <4>1, <4>5 DEF RunAt, ChargeAt, FailAt, OutputAt, One
        <5> QED BY <5>1
      <4> QED BY <3>2, <4>2, <4>3, <4>4, <4>5
    <3>4. /\ faults' \in {faults, faults + 1} /\ faults' - faults = 0
          /\ ran'[job[s]] - ran[job[s]] = 0 /\ charged'[job[s]] - charged[job[s]] = 0
          /\ outputs'[job[s]] - outputs[job[s]] = 0
      BY <1>t, <3>1
    <3>5. /\ \A e \in Jobs : ran'[e] = ran[e] /\ charged'[e] = charged[e] /\ outputs'[e] = outputs[e]
          /\ UNCHANGED queueVars
      BY <3>1
    <3>6. /\ RunAt(pc[s]) \in Int /\ ChargeAt(pc[s]) \in Int /\ FailAt(pc[s]) \in Int
          /\ RunAt(pc'[s]) \in Int /\ ChargeAt(pc'[s]) \in Int /\ FailAt(pc'[s]) \in Int
          /\ OutputAt(pc[s]) \in Int /\ OutputAt(pc'[s]) \in Int
      BY DEF RunAt, ChargeAt, FailAt, OutputAt, One
    <3> QED BY <3>1, <3>3, <3>4, <3>5, <3>6, HandlerBill
  <2>2. CASE RunPlan(s)
    <3>1. /\ OnlyMoves(s) /\ job' = job /\ UNCHANGED <<queueVars, charged, outputs, faults>>
          /\ pc[s] = "plan" /\ job[s] \in Jobs
          /\ \/ pc'[s] = "store" /\ ran' = [ran EXCEPT ![job[s]] = @ + 1]
             \/ pc'[s] = "drop" /\ ran' = ran
      BY <2>2, <1>t DEF RunPlan, OnlyMoves, TypeOK
    <3>2. /\ ran[job[s]] \in Nat /\ charged[job[s]] \in Nat /\ outputs[job[s]] \in Nat
          /\ \A e \in Jobs : e # job[s] => ran'[e] = ran[e]
          /\ \/ pc'[s] = "store" /\ ran'[job[s]] = ran[job[s]] + 1
             \/ pc'[s] = "drop" /\ ran'[job[s]] = ran[job[s]]
      BY <1>t, <3>1
    <3>3. /\ RunAt(pc[s]) = 1 /\ ChargeAt(pc[s]) = 1 /\ FailAt(pc[s]) = 0 /\ OutputAt(pc[s]) = 0
          /\ RunAt(pc'[s]) = 0 /\ OutputAt(pc'[s]) = 0
          /\ pc'[s] = "store" => ChargeAt(pc'[s]) = 1 /\ FailAt(pc'[s]) = 0
          /\ pc'[s] = "drop" => ChargeAt(pc'[s]) = 0 /\ FailAt(pc'[s]) = 1
      BY <3>1 DEF RunAt, ChargeAt, FailAt, OutputAt, One, BeforeRun, BeforeCharge, Rejecting
    <3> QED BY <1>t, <3>1, <3>2, <3>3, HandlerBill
  <2>3. CASE Charge(s)
    <3>1. /\ OnlyMoves(s) /\ job' = job /\ UNCHANGED <<queueVars, ran, outputs, faults>>
          /\ pc[s] = "charge" /\ job[s] \in Jobs /\ pc'[s] = "output"
          /\ charged' = [charged EXCEPT ![job[s]] = @ + 1]
      BY <2>3, <1>t DEF Charge, OnlyMoves, TypeOK
    <3>2. /\ ran[job[s]] \in Nat /\ charged[job[s]] \in Nat /\ outputs[job[s]] \in Nat
          /\ \A e \in Jobs : e # job[s] => charged'[e] = charged[e]
          /\ charged'[job[s]] = charged[job[s]] + 1
      BY <1>t, <3>1
    <3>3. /\ RunAt(pc[s]) = 0 /\ ChargeAt(pc[s]) = 1 /\ FailAt(pc[s]) = 0 /\ OutputAt(pc[s]) = 0
          /\ RunAt(pc'[s]) = 0 /\ ChargeAt(pc'[s]) = 0 /\ FailAt(pc'[s]) = 0
          /\ OutputAt(pc'[s]) = 1
      BY <3>1 DEF RunAt, ChargeAt, FailAt, OutputAt, One, BeforeRun, BeforeCharge, Rejecting
    <3> QED BY <1>t, <3>1, <3>2, <3>3, HandlerBill
  <2>4. CASE CreateOutput(s)
    <3>1. /\ OnlyMoves(s) /\ job' = job /\ UNCHANGED <<queueVars, ran, charged, faults>>
          /\ pc[s] = "output" /\ job[s] \in Jobs /\ pc'[s] = "finish"
          /\ outputs' = [outputs EXCEPT ![job[s]] = @ + 1]
      BY <2>4, <1>t DEF CreateOutput, OnlyMoves, TypeOK
    <3>2. /\ ran[job[s]] \in Nat /\ charged[job[s]] \in Nat /\ outputs[job[s]] \in Nat
          /\ \A e \in Jobs : e # job[s] => outputs'[e] = outputs[e]
          /\ outputs'[job[s]] = outputs[job[s]] + 1
      BY <1>t, <3>1
    <3>3. /\ RunAt(pc[s]) = 0 /\ ChargeAt(pc[s]) = 0 /\ FailAt(pc[s]) = 0 /\ OutputAt(pc[s]) = 1
          /\ RunAt(pc'[s]) = 0 /\ ChargeAt(pc'[s]) = 0 /\ FailAt(pc'[s]) = 0
          /\ OutputAt(pc'[s]) = 0
      BY <3>1 DEF RunAt, ChargeAt, FailAt, OutputAt, One, BeforeRun, BeforeCharge, Rejecting
    <3> QED BY <1>t, <3>1, <3>2, <3>3, HandlerBill
  <2>5. CASE Done(s)
    <3>1. Complete(s, job[s]) /\ Release(s) /\ pc[s] # "idle" /\ UNCHANGED <<historyVars, faults>>
      BY <2>5 DEF Done
    <3> QED BY <1>t, <3>1, ReleaseBill
  <2>6. CASE Throw(s)
    <3>1. Reject(s, job[s]) /\ Release(s) /\ pc[s] = "throw" /\ UNCHANGED <<historyVars, faults>>
      BY <2>6 DEF Throw
    <3> QED BY <1>t, <3>1, ReleaseBill
  <2> QED BY <1>3, <2>1, <2>2, <2>3, <2>4, <2>5, <2>6 DEF Handle
<1>4. ASSUME NEW s \in Slots, Fault(s) PROVE \A e \in Jobs : BillFact(e)'
  <2>1. /\ OnlyMoves(s) /\ job' = job /\ UNCHANGED <<queueVars, ran, charged, outputs>>
        /\ pc[s] # "idle" /\ job[s] \in Jobs /\ faults' = faults + 1 /\ pc'[s] \in Rejecting
    BY <1>4, <1>t DEF Fault, OnlyMoves, TypeOK, Rejecting
  <2>2. /\ RunAt(pc'[s]) = 0 /\ ChargeAt(pc'[s]) = 0 /\ OutputAt(pc'[s]) = 0 /\ FailAt(pc'[s]) = 1
    BY <2>1 DEF RunAt, ChargeAt, FailAt, OutputAt, One, BeforeRun, BeforeCharge, Rejecting
  <2>3. /\ RunAt(pc[s]) \in {0, 1} /\ ChargeAt(pc[s]) \in {0, 1} /\ OutputAt(pc[s]) \in {0, 1}
        /\ FailAt(pc[s]) \in {0, 1}
    BY DEF RunAt, ChargeAt, FailAt, OutputAt, One
  <2>4. ran[job[s]] \in Nat /\ charged[job[s]] \in Nat /\ outputs[job[s]] \in Nat
    BY <1>t, <2>1
  <2> QED BY <1>t, <2>1, <2>2, <2>3, <2>4, HandlerBill
<1>5. ASSUME NEW s \in Slots, Crash(s) PROVE \A e \in Jobs : BillFact(e)'
  <2>1. /\ Abandon(s, job[s]) /\ Release(s) /\ pc[s] # "idle" /\ faults' = faults + 1
        /\ UNCHANGED historyVars
    BY <1>5 DEF Crash
  <2> QED BY <1>t, <2>1, ReleaseBill
<1>6. ASSUME NEW s \in Slots, LockExpires(s) PROVE \A e \in Jobs : BillFact(e)'
  <2>1. UNCHANGED <<pc, job, ran, charged, outputs>> /\ faults' = faults + 1
    BY <1>6 DEF LockExpires
  <2> QED BY <2>1, QuietBill
<1>7. CASE UNCHANGED vars
  <2>1. UNCHANGED <<pc, job, ran, charged, outputs, faults, jobs, lock>>
    BY <1>7 DEF vars, queueVars
  <2> QED BY <1>t, <2>1, <1>q, QuietBill
<1> QED BY <1>1, <1>2, <1>3, <1>4, <1>5, <1>6, <1>7 DEF Next

\* However retries, redeliveries, crashes, lost locks and expired keys
\* interleave, nobody is charged for a plan that did not run, no output is
\* kept uncharged, and a plan runs, and is charged, at most once more than
\* there were faults.
THEOREM ChargesAreEarned == Spec => []ChargesPaidFor
<1> DEFINE Bills == \A e \in Jobs : BillFact(e)
<1>1. TaskInv /\ Bills /\ [Next]_vars => (TaskInv /\ Bills)'
  <2> SUFFICES ASSUME TaskInv, Bills, [Next]_vars PROVE TaskInv' /\ Bills'
    OBVIOUS
  <2>1. TaskInv'
    BY NextInv
  <2>2. TypeOK /\ TypeOK' /\ Facts
    BY <2>1 DEF TaskInv, Facts
  <2>3. Bills'
    BY <2>2, NextBill
  <2> QED BY <2>1, <2>3
<1>2. TaskInv /\ Bills => ChargesPaidFor
  <2> SUFFICES ASSUME TaskInv, Bills, NEW e \in Jobs
               PROVE  /\ charged[e] > 0 => ran[e] > 0
                      /\ outputs[e] <= charged[e]
                      /\ charged[e] <= 1 + faults
                      /\ ran[e] <= 1 + faults
    BY DEF ChargesPaidFor
  <2>1. \A places : Cardinality(At(e, places)) \in Nat
    <3> SUFFICES ASSUME NEW places PROVE Cardinality(At(e, places)) \in Nat
      OBVIOUS
    <3>1. At(e, places) \in SUBSET Slots
      BY DEF At
    <3> QED BY <3>1, FS_Subset, FS_CardinalityType, QueueAssumption DEF QueueAssumption
  <2>2. /\ faults \in Nat /\ ran[e] \in Nat /\ charged[e] \in Nat /\ outputs[e] \in Nat
    BY TaskAssumption DEF TaskInv, TypeOK, TaskAssumption
  <2>3. One(MayRun(e, Failing)) \in {0, 1}
    BY DEF One
  <2>4. charged[e] > 0 => ran[e] > 0
    BY DEF TaskInv, JobFact
  <2>5. BillFact(e) /\ Cardinality(At(e, BeforeRun)) \in Nat
        /\ Cardinality(At(e, BeforeCharge)) \in Nat /\ Cardinality(At(e, {"output"})) \in Nat
    BY <2>1
  <2> QED BY <2>2, <2>3, <2>4, <2>5 DEF BillFact
<1>3. Init => Bills
  BY InitBill
<1> QED BY <1>1, <1>2, <1>3, InitInv, PTL DEF Spec
=============================================================================
