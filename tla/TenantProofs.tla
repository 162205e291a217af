---------------------------- MODULE TenantProofs ----------------------------
(***************************************************************************)
(* Safety of what one tenant keeps: of PackInstaller and the               *)
(* WorkflowCatalog it extends, for every number of workflows (finitely     *)
(* many), requests, packs and events, every set of canvases and all limits *)
(* of the plan; of Budgets, for every number of payers, every set of costs *)
(* and limits, every quota and every number of events; and of the two      *)
(* side by side with DagValidator, as TenantMC composes them.              *)
(***************************************************************************)
EXTENDS TenantMC, DagValidatorProofs, FiniteSetTheorems, TLAPS

\* What request r has read of the workflows, and what it still shows.
SavingFact(r) ==
    /\ saving[r].at = "create" => saving[r].seen < MaxFlows
    /\ saving[r].at = "save" => saving[r].flow \in Flows /\ flow[saving[r].flow] # NoFlow
    /\ saving[r].at = "schedule" => saving[r].flow \in Flows /\ saving[r].pattern \in Patterns

\* What request r has read of the agents: one that is to be created was
\* within the limit.
WorkFact(r) ==
    /\ work[r].at # "idle" => work[r].pack \in Packs
    /\ work[r].at = "install" /\ work[r].found = {} => work[r].seen < MaxAgents

\* Nothing that is about to be deleted has come into use unnoticed.
GoingUnused == \A w \in Active \ unguarded : flow[w].agents \cap Going = {}

CatalogInv ==
    /\ CatalogTypeOK
    /\ \A r \in Requests : SavingFact(r)
    /\ CronIsScheduled

TenantInv ==
    /\ TypeOK
    /\ CatalogInv
    /\ \A r \in Requests : WorkFact(r)
    /\ GoingUnused
    /\ DependenciesInstalled
    /\ PlanLimitsHold

-----------------------------------------------------------------------------
(* The workflows.                                                          *)

\* A request at rest is well typed.
LEMMA IdleType == Idle \in SavingRows
BY DEF Idle, SavingRows, Triggers

\* The workflows are finitely many.
LEMMA ActiveFinite == IsFiniteSet(Active) /\ Cardinality(Active) \in Nat
<1>1. IsFiniteSet(Active)
  BY CatalogAssumption, FS_Subset DEF CatalogAssumption, Active
<1> QED BY <1>1, FS_CardinalityType

\* The initial state satisfies the part of the invariant about workflows.
LEMMA InitCatalog == ASSUME NEW past \in 0 .. MaxEvents, CatalogInit(past) PROVE CatalogInv
<1>1. CatalogTypeOK
  BY IdleType, CatalogAssumption DEF CatalogAssumption, CatalogInit, CatalogTypeOK
<1> QED BY <1>1 DEF CatalogInit, CatalogInv, SavingFact, CronIsScheduled, Idle

\* What a request does after its transaction: it rests or adds the job.
LEMMA AfterwardsFact ==
    ASSUME NEW r \in Requests, NEW w \in Flows, NEW cron \in BOOLEAN, NEW row \in Rows,
           saving \in [Requests -> SavingRows], Afterwards(r, w, cron, row)
    PROVE  /\ saving' \in [Requests -> SavingRows]
           /\ \A q \in Requests : q # r => saving'[q] = saving[q]
           /\ saving'[r].at \in {"idle", "schedule"}
           /\ saving'[r].at = "schedule" => saving'[r].flow = w /\ saving'[r].pattern \in Patterns
           /\ cron /\ row.pattern # NoPattern =>
                 saving'[r].at = "schedule" /\ saving'[r].flow = w /\ saving'[r].pattern = row.pattern
<1>1. row.pattern \in Patterns \cup {NoPattern}
  BY DEF Rows
<1>2. [Idle EXCEPT !.at = "schedule", !.flow = w, !.pattern = row.pattern] \in SavingRows
  BY <1>1, IdleType DEF SavingRows
<1>3. CASE cron /\ row.pattern # NoPattern
  <2>1. saving'[r] = [Idle EXCEPT !.at = "schedule", !.flow = w, !.pattern = row.pattern]
    BY <1>3 DEF Afterwards
  <2>2. saving'[r].at = "schedule" /\ saving'[r].flow = w /\ saving'[r].pattern = row.pattern
    BY <2>1 DEF Idle
  <2> QED BY <1>1, <1>2, <1>3, <2>2 DEF Afterwards
<1>4. CASE ~(cron /\ row.pattern # NoPattern)
  BY <1>4, IdleType DEF Afterwards, Idle
<1> QED BY <1>3, <1>4

\* A workflow that no step has changed stays as well scheduled as it was, if
\* requests that were about to add a job add it or are remembered as failed.
LEMMA StillScheduled ==
    ASSUME CatalogInv, NEW w \in Flows,
           flow'[w] # NoFlow /\ flow'[w].trigger = "CRON" /\ flow'[w].pattern # NoPattern =>
               flow[w] # NoFlow /\ flow[w].trigger = "CRON" /\ flow'[w].pattern = flow[w].pattern,
           schedules \subseteq schedules', missed \subseteq missed',
           \A r \in Requests : saving[r].at = "schedule" =>
               \/ saving'[r] = saving[r]
               \/ <<saving[r].flow, saving[r].pattern>> \in schedules'
               \/ saving[r].flow \in missed'
    PROVE  flow'[w] # NoFlow /\ flow'[w].trigger = "CRON" /\ flow'[w].pattern # NoPattern =>
               \/ <<w, flow'[w].pattern>> \in schedules'
               \/ \E r \in Requests : /\ saving'[r].at = "schedule"
                                      /\ saving'[r].flow = w /\ saving'[r].pattern = flow'[w].pattern
               \/ w \in missed'
BY DEF CatalogInv, CronIsScheduled

\* Every step of the catalog preserves the part of the invariant about
\* workflows.
LEMMA CatalogStepInv ==
    ASSUME CatalogInv, CatalogStep
    PROVE  CatalogInv'
<1>t. CatalogTypeOK /\ CronIsScheduled /\ \A r \in Requests : SavingFact(r)
  BY DEF CatalogInv
<1>s. /\ saving \in [Requests -> SavingRows] /\ flow \in [Flows -> Rows \cup {NoFlow}]
      /\ schedules \subseteq Flows \X Patterns /\ missed \subseteq Flows /\ events \in 0 .. MaxEvents
  BY <1>t DEF CatalogTypeOK
<1>e. Event => events' \in 0 .. MaxEvents
  BY <1>s, CatalogAssumption DEF CatalogAssumption, Event
<1>u. ASSUME UNCHANGED <<flow, schedules>>, missed \subseteq missed',
             \A r \in Requests : saving[r].at = "schedule" =>
                 saving'[r] = saving[r] \/ saving[r].flow \in missed'
      PROVE  CronIsScheduled'
  BY <1>u, StillScheduled DEF CronIsScheduled
<1>1. ASSUME NEW r \in Requests, CountFlows(r)
      PROVE  CatalogInv'
  <2>1. [Idle EXCEPT !.at = "create", !.seen = Cardinality(Active)] \in SavingRows
    BY IdleType, ActiveFinite DEF SavingRows
  <2>2. CatalogTypeOK'
    BY <1>1, <1>s, <1>e, <2>1 DEF CountFlows, CatalogTypeOK
  <2>3. saving'[r].at = "create" /\ saving'[r].seen < MaxFlows
    BY <1>1, <1>s DEF CountFlows, Idle
  <2>4. \A q \in Requests : SavingFact(q)'
    BY <1>1, <1>t, <1>s, <2>3 DEF CountFlows, SavingFact
  <2>5. CronIsScheduled'
    BY <1>1, <1>u, <1>s DEF CountFlows
  <2> QED BY <2>2, <2>4, <2>5 DEF CatalogInv
<1>2. ASSUME NEW r \in Requests, NEW w \in Flows, CreateFlow(r, w)
      PROVE  CatalogInv'
  <2>1. PICK row \in Rows : flow' = [flow EXCEPT ![w] = row] /\ Afterwards(r, w, row.trigger = "CRON", row)
    BY <1>2 DEF CreateFlow
  <2>2. /\ saving' \in [Requests -> SavingRows]
        /\ \A q \in Requests : q # r => saving'[q] = saving[q]
        /\ saving'[r].at \in {"idle", "schedule"}
        /\ saving'[r].at = "schedule" => saving'[r].flow = w /\ saving'[r].pattern \in Patterns
        /\ row.trigger = "CRON" /\ row.pattern # NoPattern =>
              saving'[r].at = "schedule" /\ saving'[r].flow = w /\ saving'[r].pattern = row.pattern
    BY <1>s, <2>1, AfterwardsFact
  <2>3. CatalogTypeOK'
    BY <1>2, <1>s, <2>1, <2>2 DEF CreateFlow, CatalogTypeOK
  <2>4. \A q \in Requests : SavingFact(q)'
    BY <1>t, <1>s, <2>1, <2>2, NoFlowAssumption DEF NoFlowAssumption, SavingFact
  <2>5. CronIsScheduled'
    <3> SUFFICES ASSUME NEW v \in Flows, flow'[v] # NoFlow, flow'[v].trigger = "CRON",
                        flow'[v].pattern # NoPattern
                 PROVE  \/ <<v, flow'[v].pattern>> \in schedules'
                        \/ \E q \in Requests : /\ saving'[q].at = "schedule"
                                               /\ saving'[q].flow = v /\ saving'[q].pattern = flow'[v].pattern
                        \/ v \in missed'
      BY DEF CronIsScheduled
    <3>1. CASE v = w
      BY <1>s, <2>1, <2>2, <3>1
    <3>2. CASE v # w
      <4>1. saving[r].at # "schedule"
        BY <1>2 DEF CreateFlow
      <4>2. flow'[v] = flow[v] /\ UNCHANGED <<schedules, missed>>
        BY <1>2, <1>s, <2>1, <3>2 DEF CreateFlow
      <4> QED BY <2>2, <4>1, <4>2, StillScheduled
    <3> QED BY <3>1, <3>2
  <2> QED BY <2>3, <2>4, <2>5 DEF CatalogInv
<1>3. ASSUME NEW r \in Requests, NEW w \in Flows, ReadFlow(r, w)
      PROVE  CatalogInv'
  <2>1. flow[w].trigger \in Triggers
    BY <1>3, <1>s DEF ReadFlow, Rows
  <2>2. [Idle EXCEPT !.at = "save", !.flow = w, !.trigger = flow[w].trigger] \in SavingRows
    BY IdleType, <2>1 DEF SavingRows
  <2>3. CatalogTypeOK'
    BY <1>3, <1>s, <1>e, <2>2 DEF ReadFlow, CatalogTypeOK
  <2>4. saving'[r].at = "save" /\ saving'[r].flow = w
    BY <1>3, <1>s DEF ReadFlow, Idle
  <2>5. \A q \in Requests : SavingFact(q)'
    BY <1>3, <1>t, <1>s, <2>4 DEF ReadFlow, SavingFact
  <2>6. CronIsScheduled'
    BY <1>3, <1>u, <1>s DEF ReadFlow
  <2> QED BY <2>3, <2>5, <2>6 DEF CatalogInv
<1>4. ASSUME NEW r \in Requests, SaveFlow(r)
      PROVE  CatalogInv'
  <2> DEFINE w == saving[r].flow
  <2>w. w \in Flows /\ flow[w] \in Rows
    BY <1>4, <1>t, <1>s DEF SaveFlow, SavingFact
  <2>1. PICK status \in Statuses, trigger \in Triggers \cup {Keep},
             pattern \in Patterns \cup {flow[w].pattern}, canvas \in Canvases :
             LET row == [status |-> status, trigger |-> OrElse(trigger, flow[w].trigger),
                         pattern |-> pattern, agents |-> canvas]
             IN /\ flow' = [flow EXCEPT ![w] = row]
                /\ Afterwards(r, w, OrElse(trigger, saving[r].trigger) = "CRON", row)
                /\ missed' = IF Outdated(r, trigger) THEN missed \cup {w} ELSE missed
    BY <1>4 DEF SaveFlow
  <2> DEFINE row == [status |-> status, trigger |-> OrElse(trigger, flow[w].trigger),
                     pattern |-> pattern, agents |-> canvas]
             cron == OrElse(trigger, saving[r].trigger) = "CRON"
  <2>2. row \in Rows
    BY <2>w DEF Rows, OrElse
  <2>3. /\ flow' = [flow EXCEPT ![w] = row] /\ Afterwards(r, w, cron, row)
        /\ missed' = IF Outdated(r, trigger) THEN missed \cup {w} ELSE missed
    BY <2>1
  <2>4. row.trigger = "CRON" => cron \/ w \in missed'
    BY <2>3 DEF Outdated, OrElse
  <2> HIDE DEF row, cron
  <2>5. cron \in BOOLEAN
    BY DEF cron
  <2>6. /\ saving' \in [Requests -> SavingRows]
        /\ \A q \in Requests : q # r => saving'[q] = saving[q]
        /\ saving'[r].at \in {"idle", "schedule"}
        /\ saving'[r].at = "schedule" => saving'[r].flow = w /\ saving'[r].pattern \in Patterns
        /\ cron /\ row.pattern # NoPattern =>
              saving'[r].at = "schedule" /\ saving'[r].flow = w /\ saving'[r].pattern = row.pattern
    BY <1>s, <2>w, <2>2, <2>3, <2>5, AfterwardsFact
  <2>7. missed \subseteq missed' /\ missed' \subseteq Flows /\ UNCHANGED <<schedules, events>>
    BY <1>4, <1>s, <2>w, <2>3 DEF SaveFlow
  <2>8. CatalogTypeOK'
    BY <1>s, <2>w, <2>2, <2>3, <2>6, <2>7 DEF CatalogTypeOK
  <2>9. \A q \in Requests : SavingFact(q)'
    BY <1>t, <1>s, <2>w, <2>2, <2>3, <2>6, NoFlowAssumption DEF NoFlowAssumption, SavingFact
  <2>10. CronIsScheduled'
    <3> SUFFICES ASSUME NEW v \in Flows, flow'[v] # NoFlow, flow'[v].trigger = "CRON",
                        flow'[v].pattern # NoPattern
                 PROVE  \/ <<v, flow'[v].pattern>> \in schedules'
                        \/ \E q \in Requests : /\ saving'[q].at = "schedule"
                                               /\ saving'[q].flow = v /\ saving'[q].pattern = flow'[v].pattern
                        \/ v \in missed'
      BY DEF CronIsScheduled
    <3>1. CASE v = w
      <4>1. flow'[v] = row
        BY <1>s, <2>w, <2>3, <3>1
      <4> QED BY <2>4, <2>6, <3>1, <4>1
    <3>2. CASE v # w
      <4>1. saving[r].at # "schedule"
        BY <1>4 DEF SaveFlow
      <4>2. flow'[v] = flow[v]
        BY <1>s, <2>w, <2>3, <3>2
      <4> QED BY <2>6, <2>7, <4>1, <4>2, StillScheduled
    <3> QED BY <3>1, <3>2
  <2> QED BY <2>8, <2>9, <2>10 DEF CatalogInv
<1>5. ASSUME NEW r \in Requests, Schedule(r)
      PROVE  CatalogInv'
  <2>1. saving[r].flow \in Flows /\ saving[r].pattern \in Patterns
    BY <1>5, <1>t DEF Schedule, SavingFact
  <2>2. CatalogTypeOK'
    BY <1>5, <1>s, <2>1, IdleType DEF Schedule, CatalogTypeOK
  <2>3. \A q \in Requests : SavingFact(q)'
    BY <1>5, <1>t, <1>s DEF Schedule, SavingFact, Idle
  <2>4. CronIsScheduled'
    <3>1. \A q \in Requests : saving[q].at = "schedule" =>
              saving'[q] = saving[q] \/ <<saving[q].flow, saving[q].pattern>> \in schedules'
      BY <1>5, <1>s DEF Schedule
    <3>2. schedules \subseteq schedules' /\ UNCHANGED <<flow, missed>>
      BY <1>5 DEF Schedule
    <3> QED BY <3>1, <3>2, StillScheduled DEF CronIsScheduled
  <2> QED BY <2>2, <2>3, <2>4 DEF CatalogInv
<1>6. ASSUME NEW r \in Requests, SaveFails(r)
      PROVE  CatalogInv'
  <2>1. missed \subseteq missed' /\ missed' \subseteq Flows
    BY <1>6, <1>t, <1>s DEF SaveFails, SavingFact
  <2>2. CatalogTypeOK'
    BY <1>6, <1>s, <1>e, <2>1, IdleType DEF SaveFails, CatalogTypeOK
  <2>3. \A q \in Requests : SavingFact(q)'
    BY <1>6, <1>t, <1>s DEF SaveFails, SavingFact, Idle
  <2>4. \A q \in Requests : saving[q].at = "schedule" =>
            saving'[q] = saving[q] \/ saving[q].flow \in missed'
    BY <1>6, <1>s DEF SaveFails
  <2>5. CronIsScheduled'
    BY <1>6, <1>u, <2>1, <2>4 DEF SaveFails
  <2> QED BY <2>2, <2>3, <2>5 DEF CatalogInv
<1>7. ASSUME NEW w \in Flows, ArchiveFlow(w)
      PROVE  CatalogInv'
  <2>1. flow[w] \in Rows /\ flow' = [flow EXCEPT ![w] = [flow[w] EXCEPT !.status = "ARCHIVED"]]
    BY <1>7, <1>s DEF ArchiveFlow
  <2>2. /\ [flow[w] EXCEPT !.status = "ARCHIVED"] \in Rows
        /\ [flow[w] EXCEPT !.status = "ARCHIVED"].trigger = flow[w].trigger
        /\ [flow[w] EXCEPT !.status = "ARCHIVED"].pattern = flow[w].pattern
    BY <2>1 DEF Rows, Statuses
  <2>3. CatalogTypeOK'
    BY <1>7, <1>s, <1>e, <2>1, <2>2 DEF ArchiveFlow, CatalogTypeOK
  <2>4. \A q \in Requests : SavingFact(q)'
    BY <1>7, <1>t, <1>s, <2>1, <2>2, NoFlowAssumption DEF NoFlowAssumption, ArchiveFlow, SavingFact
  <2>5. \A v \in Flows : flow'[v] # NoFlow =>
            flow[v] # NoFlow /\ flow'[v].trigger = flow[v].trigger /\ flow'[v].pattern = flow[v].pattern
    BY <1>7, <1>s, <2>1, <2>2 DEF ArchiveFlow
  <2>6. CronIsScheduled'
    BY <1>7, <2>5, StillScheduled DEF ArchiveFlow, CronIsScheduled
  <2> QED BY <2>3, <2>4, <2>6 DEF CatalogInv
<1> QED BY <1>1, <1>2, <1>3, <1>4, <1>5, <1>6, <1>7 DEF CatalogStep

-----------------------------------------------------------------------------
(* The agents.                                                             *)

\* A request at rest is well typed.
LEMMA RestingType == Resting \in WorkRows
BY DEF Resting, WorkRows

\* The agents are finitely many, and fewer of them are not more.
LEMMA AgentsFinite ==
    ASSUME NEW S \in SUBSET (1 .. MaxIds)
    PROVE  /\ IsFiniteSet(S) /\ Cardinality(S) \in Nat
           /\ \A T \in SUBSET S : Cardinality(T) <= Cardinality(S)
<1>1. MaxIds \in Int
  BY InstallerAssumption DEF InstallerAssumption
<1>2. IsFiniteSet(1 .. MaxIds)
  BY <1>1, FS_Interval
<1> QED BY <1>2, FS_Subset, FS_CardinalityType

\* The initial state satisfies the invariant.
LEMMA InitTenant == ASSUME NEW past \in 0 .. MaxEvents, InitWith(past) PROVE TenantInv
<1>1. CatalogInit(past)
  BY DEF InitWith
<1>2. CatalogInv
  BY <1>1, InitCatalog
<1>3. TypeOK
  BY <1>2, RestingType DEF InitWith, CatalogInv, TypeOK
<1>4. Active = {}
  BY <1>1 DEF CatalogInit, Active
<1>5. PlanLimitsHold
  <2>1. Active \ pastFlows = {} /\ agents \ pastAgents = {}
    BY <1>4 DEF InitWith
  <2>2. Cardinality(Active \ pastFlows) = 0 /\ Cardinality(agents \ pastAgents) = 0
    BY <2>1, FS_EmptySet
  <2>3. MaxFlows \in Nat /\ MaxAgents \in Nat
    BY CatalogAssumption, InstallerAssumption DEF CatalogAssumption, InstallerAssumption
  <2> QED BY <2>2, <2>3 DEF PlanLimitsHold
<1> QED BY <1>2, <1>3, <1>4, <1>5
        DEF InitWith, TenantInv, WorkFact, Resting, GoingUnused, DependenciesInstalled

\* A step of a request on a workflow keeps within the plan's limit those that
\* did not join past it.
LEMMA FlowLimitKeeps ==
    ASSUME TenantInv, CatalogStep,
           pastFlows' = {w \in Active' : IF w \in Active THEN w \in pastFlows ELSE JoinsPast(w)}
    PROVE  Cardinality(Active' \ pastFlows') <= MaxFlows
<1>s. /\ saving \in [Requests -> SavingRows] /\ flow \in [Flows -> Rows \cup {NoFlow}]
      /\ \A r \in Requests : SavingFact(r)
      /\ Cardinality(Active \ pastFlows) <= MaxFlows
  BY DEF TenantInv, CatalogInv, TypeOK, CatalogTypeOK, PlanLimitsHold
<1>n. /\ IsFiniteSet(Active) /\ Cardinality(Active) \in Nat /\ MaxFlows \in Nat
      /\ \A S \in SUBSET Active : IsFiniteSet(S) /\ Cardinality(S) \in Nat
  BY ActiveFinite, CatalogAssumption, FS_Subset, FS_CardinalityType DEF CatalogAssumption
<1> DEFINE Alone(w) ==
               /\ \A v \in Flows : v # w => flow'[v] = flow[v]
               /\ Restored(w) \/ \E r \in Requests : CreateFlow(r, w)
<1>1. \/ UNCHANGED flow
      \/ \E w \in Flows : Alone(w)
  <2>1. ASSUME NEW r \in Requests, SaveFlow(r)
        PROVE  /\ saving[r].flow \in Flows /\ Restored(saving[r].flow)
               /\ \A v \in Flows : v # saving[r].flow => flow'[v] = flow[v]
    BY <1>s, <2>1 DEF SaveFlow, SavingFact, Restored
  <2>2. ASSUME NEW r \in Requests, NEW w \in Flows, CreateFlow(r, w)
        PROVE  \A v \in Flows : v # w => flow'[v] = flow[v]
    BY <1>s, <2>2 DEF CreateFlow
  <2>3. ASSUME NEW w \in Flows, ArchiveFlow(w)
        PROVE  Restored(w) /\ \A v \in Flows : v # w => flow'[v] = flow[v]
    BY <1>s, <2>3 DEF ArchiveFlow, Restored
  <2> QED BY <2>1, <2>2, <2>3 DEF CatalogStep, CountFlows, ReadFlow, Schedule, SaveFails
<1>2. ASSUME Active' \ pastFlows' \subseteq Active \ pastFlows
      PROVE  Cardinality(Active' \ pastFlows') <= MaxFlows
  <2>1. Cardinality(Active' \ pastFlows') <= Cardinality(Active \ pastFlows)
    BY <1>n, <1>2, FS_Subset
  <2>2. Cardinality(Active' \ pastFlows') \in Nat /\ Cardinality(Active \ pastFlows) \in Nat
    BY <1>n, <1>2
  <2> QED BY <1>s, <1>n, <2>1, <2>2
<1>3. CASE UNCHANGED flow
  BY <1>2, <1>3 DEF Active
<1>4. ASSUME NEW w \in Flows, Alone(w)
      PROVE  Cardinality(Active' \ pastFlows') <= MaxFlows
  <2>1. ASSUME NEW v \in Active', v # w PROVE v \in Active
    <3>1. v \in Flows
      BY DEF Active
    <3>2. flow'[v] = flow[v]
      BY <1>4, <2>1, <3>1
    <3> QED BY <3>1, <3>2 DEF Active
  <2>2. CASE ~(w \in Active' /\ w \notin Active /\ ~JoinsPast(w))
    <3>1. Active' \ pastFlows' \subseteq Active \ pastFlows
      BY <2>1, <2>2
    <3> QED BY <1>2, <3>1
  <2>3. CASE w \in Active' /\ w \notin Active /\ ~JoinsPast(w)
    <3>1. Cardinality(Active) < MaxFlows
      <4> SUFFICES ASSUME Cardinality(Active) >= MaxFlows PROVE JoinsPast(w)
        BY <1>n, <2>3
      <4>1. ASSUME NEW r \in Requests, CreateFlow(r, w)
            PROVE  OutdatedFlows(r)
        <5>1. PICK row \in Rows : Afterwards(r, w, row.trigger = "CRON", row)
          BY <4>1 DEF CreateFlow
        <5>2. saving'[r].at \in {"idle", "schedule"}
          BY <1>s, <5>1, AfterwardsFact
        <5>3. saving[r].seen < MaxFlows /\ saving[r].seen \in Nat
          BY <1>s, <4>1 DEF CreateFlow, SavingFact, SavingRows
        <5>4. saving[r].seen < Cardinality(Active)
          BY <1>n, <5>3
        <5> QED BY <4>1, <5>2, <5>4 DEF CreateFlow, OutdatedFlows
      <4> QED BY <1>4, <4>1 DEF JoinsPast
    <3>2. IsFiniteSet(Active \cup {w}) /\ Cardinality(Active \cup {w}) = Cardinality(Active) + 1
      BY <1>n, <2>3, FS_AddElement
    <3>3. Active' \ pastFlows' \subseteq Active \cup {w}
      BY <2>1
    <3>4. /\ Cardinality(Active' \ pastFlows') <= Cardinality(Active \cup {w})
          /\ Cardinality(Active' \ pastFlows') \in Nat
      BY <3>2, <3>3, FS_Subset, FS_CardinalityType
    <3> QED BY <1>n, <3>1, <3>2, <3>4
  <2> QED BY <2>2, <2>3
<1> HIDE DEF Alone
<1> QED BY <1>1, <1>3, <1>4

\* A step of a request on the agents keeps within the plan's limit those that
\* were not created past it.
LEMMA AgentLimitKeeps ==
    ASSUME TenantInv, InstallerStep,
           pastAgents' = {a \in agents' : IF a \in agents THEN a \in pastAgents ELSE AgentJoinsPast}
    PROVE  Cardinality(agents' \ pastAgents') <= MaxAgents
<1>s. /\ work \in [Requests -> WorkRows] /\ agents \subseteq 1 .. MaxIds
      /\ \A r \in Requests : WorkFact(r)
      /\ Cardinality(agents \ pastAgents) <= MaxAgents
  BY DEF TenantInv, TypeOK, PlanLimitsHold
<1>n. /\ IsFiniteSet(agents) /\ Cardinality(agents) \in Nat /\ MaxAgents \in Nat
      /\ \A S \in SUBSET agents : IsFiniteSet(S) /\ Cardinality(S) \in Nat
  BY <1>s, AgentsFinite, InstallerAssumption, FS_Subset, FS_CardinalityType DEF InstallerAssumption
<1>1. CASE agents' \ pastAgents' \subseteq agents \ pastAgents
  <2>1. /\ Cardinality(agents' \ pastAgents') <= Cardinality(agents \ pastAgents)
        /\ Cardinality(agents' \ pastAgents') \in Nat /\ Cardinality(agents \ pastAgents) \in Nat
    BY <1>n, <1>1, FS_Subset
  <2> QED BY <1>s, <1>n, <2>1
<1>2. CASE agents' \subseteq agents
  BY <1>1, <1>2
<1>3. ASSUME NEW r \in Requests, CreateAgent(r)
      PROVE  Cardinality(agents' \ pastAgents') <= MaxAgents
  <2>1. PICK a \in 1 .. MaxIds : agents' = agents \cup {a}
    BY <1>3 DEF CreateAgent
  <2>2. CASE a \in agents \/ AgentJoinsPast
    BY <1>1, <2>1, <2>2
  <2>3. CASE a \notin agents /\ ~AgentJoinsPast
    <3>1. Cardinality(agents) < MaxAgents
      <4> SUFFICES ASSUME Cardinality(agents) >= MaxAgents PROVE AgentJoinsPast
        BY <1>n, <2>3
      <4>1. work[r].at = "install" /\ work'[r] = Resting
        BY <1>s, <1>3 DEF CreateAgent, Rest
      <4>2. work[r].seen < MaxAgents /\ work[r].seen \in Nat
        BY <1>s, <1>3 DEF CreateAgent, WorkFact, WorkRows
      <4>3. work[r].seen < Cardinality(agents)
        BY <1>n, <4>2
      <4> QED BY <4>1, <4>3 DEF AgentJoinsPast, OutdatedAgents, Resting
    <3>2. IsFiniteSet(agents \cup {a}) /\ Cardinality(agents \cup {a}) = Cardinality(agents) + 1
      BY <1>n, <2>3, FS_AddElement
    <3>3. /\ Cardinality(agents' \ pastAgents') <= Cardinality(agents \cup {a})
          /\ Cardinality(agents' \ pastAgents') \in Nat
      BY <2>1, <3>2, FS_Subset, FS_CardinalityType
    <3> QED BY <1>n, <3>1, <3>2, <3>3
  <2> QED BY <2>2, <2>3
<1> QED BY <1>2, <1>3
        DEF InstallerStep, KeepAgent, CheckUse, DeleteAgents, WorkFails, ReadAgents, ReadPack, Begin

\* A step of a request on a workflow leaves the agents as they are and tells
\* which workflows it lets name an agent that is gone or going.
LEMMA CatalogStepKeeps ==
    ASSUME TenantInv, CatalogStep,
           unguarded' = {w \in Flows : IF flow'[w] = flow[w] THEN w \in unguarded ELSE Unguarded(w)},
           pastFlows' = {w \in Active' : IF w \in Active THEN w \in pastFlows ELSE JoinsPast(w)},
           UNCHANGED <<agents, packOf, work, pastAgents>>
    PROVE  TenantInv'
<1>1. CatalogInv'
  BY CatalogStepInv DEF TenantInv
<1>p. PlanLimitsHold'
  BY FlowLimitKeeps DEF TenantInv, PlanLimitsHold
<1>2. TypeOK'
  BY <1>1 DEF TenantInv, CatalogInv, TypeOK
<1>3. \A r \in Requests : WorkFact(r)'
  BY DEF TenantInv, WorkFact
<1>4. Going' = Going
  BY DEF Going
<1>5. ASSUME NEW w \in Active' \ unguarded'
      PROVE  flow'[w].agents \cap Going = {} /\ flow'[w].agents \subseteq agents
  <2>1. w \in Flows /\ flow'[w] # NoFlow /\ flow'[w].status # "ARCHIVED"
    BY <1>5 DEF Active
  <2>2. CASE flow'[w] = flow[w]
    <3>1. w \in Active \ unguarded
      BY <1>5, <2>1, <2>2 DEF Active
    <3> QED BY <2>2, <3>1 DEF TenantInv, GoingUnused, DependenciesInstalled
  <2>3. CASE flow'[w] # flow[w]
    BY <1>5, <2>1, <2>3 DEF Unguarded
  <2> QED BY <2>2, <2>3
<1> QED BY <1>1, <1>p, <1>2, <1>3, <1>4, <1>5 DEF TenantInv, GoingUnused, DependenciesInstalled

\* A step of a request on the agents.
LEMMA InstallerStepKeeps ==
    ASSUME TenantInv, InstallerStep,
           pastAgents' = {a \in agents' : IF a \in agents THEN a \in pastAgents ELSE AgentJoinsPast},
           UNCHANGED <<catalogVars, unguarded, pastFlows>>
    PROVE  TenantInv'
<1>t. TypeOK /\ CatalogInv /\ GoingUnused /\ DependenciesInstalled /\ \A r \in Requests : WorkFact(r)
  BY DEF TenantInv
<1>s. /\ agents \subseteq {a \in 1 .. MaxIds : packOf[a] # NoPack}
      /\ packOf \in [1 .. MaxIds -> Packs \cup {NoPack}]
      /\ work \in [Requests -> WorkRows] /\ events \in 0 .. MaxEvents
      /\ \A a, b \in agents : packOf[a] = packOf[b] => a = b
  BY <1>t DEF TypeOK, CatalogTypeOK
<1>e. Event => events' \in 0 .. MaxEvents
  BY <1>s, CatalogAssumption DEF CatalogAssumption, Event
<1>c. events' \in 0 .. MaxEvents => CatalogInv'
  BY <1>t DEF catalogVars, CatalogInv, CatalogTypeOK, CronIsScheduled, SavingFact
<1>a. Active' = Active /\ UNCHANGED <<flow, unguarded, pastFlows>>
  BY DEF catalogVars, Active
<1>p. PlanLimitsHold' /\ pastFlows' \subseteq Active' /\ pastAgents' \subseteq agents'
  BY <1>a, <1>t, AgentLimitKeeps DEF TenantInv, TypeOK, PlanLimitsHold
<1>k. ASSUME events' \in 0 .. MaxEvents, UNCHANGED <<agents, packOf>>, work' \in [Requests -> WorkRows],
             \A r \in Requests : WorkFact(r)',
             \A w \in Active \ unguarded, r \in Requests :
                 work'[r].at = "delete" => flow[w].agents \cap work'[r].found = {}
      PROVE  TenantInv'
  <2>1. TypeOK'
    BY <1>c, <1>k, <1>p, <1>t DEF CatalogInv, TypeOK, catalogVars
  <2>2. GoingUnused'
    BY <1>a, <1>k DEF GoingUnused, Going
  <2>3. DependenciesInstalled'
    BY <1>a, <1>k, <1>t DEF DependenciesInstalled
  <2> QED BY <1>c, <1>k, <1>p, <2>1, <2>2, <2>3 DEF TenantInv
<1>g. \A w \in Active \ unguarded, r \in Requests :
          work[r].at = "delete" => flow[w].agents \cap work[r].found = {}
  BY <1>t DEF GoingUnused, Going
<1>r. ASSUME NEW r \in Requests, Rest(r), events' \in 0 .. MaxEvents, UNCHANGED <<agents, packOf>>
      PROVE  TenantInv'
  BY <1>r, <1>s, <1>t, <1>g, <1>k, RestingType DEF Rest, WorkFact, Resting
<1>1. ASSUME NEW r \in Requests, NEW p \in Packs, ReadAgents(r, p) \/ ReadPack(r, p)
      PROVE  TenantInv'
  <2> DEFINE row(step) == [at |-> step, pack |-> p, found |-> AgentsOf(p), seen |-> Cardinality(agents)]
  <2>1. AgentsOf(p) \subseteq 1 .. MaxIds /\ Cardinality(agents) \in Nat
    BY <1>s, AgentsFinite DEF AgentsOf
  <2>2. row("install") \in WorkRows /\ row("check") \in WorkRows
    BY <2>1 DEF WorkRows
  <2>3. PICK step \in {"install", "check"} :
            /\ Begin(r, step, p)
            /\ step = "install" /\ AgentsOf(p) = {} => Cardinality(agents) < MaxAgents
    BY <1>1, <2>1, InstallerAssumption DEF InstallerAssumption, ReadAgents, ReadPack
  <2>4. work' = [work EXCEPT ![r] = row(step)]
    BY <2>3 DEF Begin
  <2>5. events' \in 0 .. MaxEvents /\ UNCHANGED <<agents, packOf>> /\ work' \in [Requests -> WorkRows]
    BY <1>e, <1>s, <2>2, <2>3, <2>4 DEF Begin
  <2>6. \A q \in Requests : WorkFact(q)'
    BY <1>s, <1>t, <2>3, <2>4 DEF WorkFact
  <2>7. \A w \in Active \ unguarded, q \in Requests :
            work'[q].at = "delete" => flow[w].agents \cap work'[q].found = {}
    BY <1>s, <1>g, <2>3, <2>4
  <2> QED BY <1>k, <2>5, <2>6, <2>7
<1>2. ASSUME NEW r \in Requests, KeepAgent(r)
      PROVE  TenantInv'
  BY <1>2, <1>r, <1>s DEF KeepAgent
<1>3. ASSUME NEW r \in Requests, WorkFails(r)
      PROVE  TenantInv'
  BY <1>3, <1>r, <1>e DEF WorkFails
<1>4. ASSUME NEW r \in Requests, CheckUse(r)
      PROVE  TenantInv'
  <2>1. CASE InUse(work[r].found)
    BY <1>4, <1>r, <1>s, <2>1 DEF CheckUse
  <2>2. CASE ~InUse(work[r].found)
    <3>1. work' = [work EXCEPT ![r] = [work[r] EXCEPT !.at = "delete"]] /\ UNCHANGED <<agents, packOf, events>>
      BY <1>4, <2>2 DEF CheckUse
    <3>2. [work[r] EXCEPT !.at = "delete"] \in WorkRows /\ work[r].at = "check"
      BY <1>4, <1>s DEF CheckUse, WorkRows
    <3>3. /\ work'[r].at = "delete" /\ work'[r].found = work[r].found /\ work'[r].pack = work[r].pack
          /\ \A q \in Requests : q # r => work'[q] = work[q]
      <4>1. work'[r] = [work[r] EXCEPT !.at = "delete"] /\ work[r] \in WorkRows
        BY <1>s, <3>1
      <4> QED BY <1>s, <3>1, <4>1 DEF WorkRows
    <3>4. work' \in [Requests -> WorkRows] /\ \A q \in Requests : WorkFact(q)'
      BY <1>s, <1>t, <3>1, <3>2, <3>3 DEF WorkFact
    <3>5. \A w \in Active : flow[w].agents \cap work[r].found = {}
      BY <2>2 DEF InUse
    <3>6. \A w \in Active \ unguarded, q \in Requests :
              work'[q].at = "delete" => flow[w].agents \cap work'[q].found = {}
      BY <1>g, <3>3, <3>5
    <3> QED BY <1>k, <1>s, <3>1, <3>4, <3>6
  <2> QED BY <2>1, <2>2
<1>5. ASSUME NEW r \in Requests, DeleteAgents(r)
      PROVE  TenantInv'
  <2>1. /\ agents' = agents \ work[r].found /\ UNCHANGED <<packOf, events>>
        /\ work' = [work EXCEPT ![r] = Resting] /\ work[r].at = "delete"
    BY <1>5 DEF DeleteAgents, Rest
  <2>2. TypeOK'
    BY <1>c, <1>p, <1>s, <2>1, <1>t, RestingType DEF CatalogInv, TypeOK, catalogVars
  <2>3. \A q \in Requests : WorkFact(q)'
    BY <1>s, <1>t, <2>1 DEF WorkFact, Resting
  <2>4. GoingUnused'
    BY <1>a, <1>g, <1>s, <2>1 DEF GoingUnused, Going, Resting
  <2>5. DependenciesInstalled'
    BY <1>a, <1>g, <1>t, <2>1 DEF DependenciesInstalled
  <2> QED BY <1>c, <1>p, <1>s, <2>1, <2>2, <2>3, <2>4, <2>5 DEF TenantInv
<1>6. ASSUME NEW r \in Requests, CreateAgent(r)
      PROVE  TenantInv'
  <2>1. PICK a \in 1 .. MaxIds :
            /\ packOf[a] = NoPack /\ agents' = agents \cup {a}
            /\ packOf' = [packOf EXCEPT ![a] = work[r].pack]
    BY <1>6 DEF CreateAgent
  <2>2. /\ AgentsOf(work[r].pack) = {} /\ work[r].pack \in Packs /\ a \notin agents
        /\ work' = [work EXCEPT ![r] = Resting] /\ UNCHANGED events
    BY <1>6, <1>s, <1>t, <2>1 DEF CreateAgent, Rest, WorkFact
  <2>3. /\ \A b \in agents' : b \in 1 .. MaxIds /\ packOf'[b] # NoPack
        /\ \A b, d \in agents' : packOf'[b] = packOf'[d] => b = d
    BY <1>s, <2>1, <2>2, InstallerAssumption DEF InstallerAssumption, AgentsOf
  <2>4. packOf' \in [1 .. MaxIds -> Packs \cup {NoPack}] /\ work' \in [Requests -> WorkRows]
    BY <1>s, <2>1, <2>2, RestingType
  <2>5. TypeOK'
    BY <1>c, <1>p, <1>s, <1>t, <2>2, <2>3, <2>4 DEF CatalogInv, TypeOK, catalogVars
  <2>6. \A q \in Requests : WorkFact(q)'
    BY <1>s, <1>t, <2>2 DEF WorkFact, Resting
  <2>7. GoingUnused'
    BY <1>a, <1>g, <1>s, <2>2 DEF GoingUnused, Going, Resting
  <2>8. DependenciesInstalled'
    BY <1>a, <1>t, <2>1 DEF DependenciesInstalled
  <2> QED BY <1>c, <1>p, <1>s, <2>2, <2>5, <2>6, <2>7, <2>8 DEF TenantInv
<1> QED BY <1>1, <1>2, <1>3, <1>4, <1>5, <1>6 DEF InstallerStep

\* The invariant is inductive.
LEMMA TenantKeeps == ASSUME TenantInv, [Next]_vars PROVE TenantInv'
<1>1. CASE Next
  BY <1>1, CatalogStepKeeps, InstallerStepKeeps DEF Next
<1>2. CASE UNCHANGED vars
  BY <1>2
  DEF vars, catalogVars, installerVars, TenantInv, TypeOK, CatalogInv, CatalogTypeOK, SavingFact,
      CronIsScheduled, WorkFact, GoingUnused, Going, Active, DependenciesInstalled, PlanLimitsHold
<1> QED BY <1>1, <1>2

LEMMA TenantInvariance == Spec => []TenantInv
<1>1. Init => TenantInv
  <2>1. 0 \in 0 .. MaxEvents
    BY CatalogAssumption DEF CatalogAssumption
  <2> QED BY <2>1, InitTenant DEF Init
<1>2. TenantInv /\ [Next]_vars => TenantInv'
  BY TenantKeeps
<1> QED BY <1>1, <1>2, PTL DEF Spec

-----------------------------------------------------------------------------
\* Workflows, agents and requests are well typed, and no pack is installed
\* twice, however requests interleave and fail.
THEOREM TenantTypeCorrect == Spec => []TypeOK
<1>1. TenantInv => TypeOK
  BY DEF TenantInv
<1> QED BY TenantInvariance, <1>1, PTL

\* A CRON workflow has the job of its pattern, or will have it, or adding it
\* failed, or a save decided from a trigger another save was changing.
THEOREM CronWorkflowsAreScheduled == Spec => []CronIsScheduled
<1>1. TenantInv => CronIsScheduled
  BY DEF TenantInv, CatalogInv
<1> QED BY TenantInvariance, <1>1, PTL

\* Removals spare the agents that drafts and published workflows use, unless
\* the workflow was saved or restored too late for the check to see it.
THEOREM DependenciesStay == Spec => []DependenciesInstalled
<1>1. TenantInv => DependenciesInstalled
  BY DEF TenantInv
<1> QED BY TenantInvariance, <1>1, PTL

\* But for the workflows restored with the limit reached, which nothing counts,
\* and those and the agents created from a count that had gone out of date, a
\* tenant stays within its plan's limits.
THEOREM LimitsAreKept == Spec => []PlanLimitsHold
<1>1. TenantInv => PlanLimitsHold
  BY DEF TenantInv
<1> QED BY TenantInvariance, <1>1, PTL

-----------------------------------------------------------------------------
(* The budgets.                                                            *)

\* What payment p has read, and what it may conclude from it: a charge was
\* let through by what its check had read, and while nobody else was charging
\* and nobody set a limit, the row it has read is the row there is.
PayerFact(p) ==
    /\ payer[p].at \in {"run", "charge"} =>
           payer[p].checked.consumed + payer[p].cost <= payer[p].checked.limit
    /\ payer[p].at = "submit" => payer[p].checked = payer[p].read
    /\ payer[p].at \in {"charge", "submit"} =>
           /\ payer[p].read.consumed <= spent
           /\ ~together => payer[p].read.consumed = budget.consumed
           /\ ~limitSet => payer[p].read.limit = budget.limit
    /\ payer[p].at = "step" => payer[p].month \in 1 .. Len(quota) /\ payer[p].seen < QuotaLimit

\* Two charges in progress are remembered.
AloneUnlessTogether ==
    ~together => \A p, q \in Payers : p \in Open /\ q \in Open => p = q

BudgetInv ==
    /\ BudgetTypeOK
    /\ BudgetBooks
    /\ AloneUnlessTogether
    /\ \A p \in Payers : PayerFact(p)

-----------------------------------------------------------------------------
\* A payment at rest is well typed.
LEMMA WaitingType == NewRow \in BudgetRows /\ Waiting \in PayerRows
<1>1. NewRow \in BudgetRows
  BY BudgetAssumption DEF BudgetAssumption, NewRow, BudgetRows, Alerts
<1> QED BY <1>1 DEF Waiting, PayerRows

\* The initial state satisfies the invariant.
LEMMA InitBudget == ASSUME NEW past \in 0 .. MaxSpending, BudgetInit(past) PROVE BudgetInv
<1>1. quota \in Seq(Nat)
  <2>1. <<>> \in Seq(Nat) /\ <<0>> = Append(<<>>, 0)
    OBVIOUS
  <2>2. Append(<<>>, 0) \in Seq(Nat)
    BY <2>1
  <2> QED BY <2>1, <2>2 DEF BudgetInit
<1>2. BudgetTypeOK
  <2>1. spendings \in 0 .. MaxSpending
    BY BudgetAssumption DEF BudgetAssumption, BudgetInit
  <2>2. payer \in [Payers -> PayerRows] /\ budget \in BudgetRows
    BY WaitingType DEF BudgetInit
  <2> QED BY <1>1, <2>1, <2>2 DEF BudgetInit, BudgetTypeOK
<1>3. ~Near(NewRow.consumed, NewRow.limit)
  BY BudgetAssumption DEF BudgetAssumption, NewRow, Near
<1>4. BudgetBooks
  BY <1>3 DEF BudgetInit, BudgetBooks, NewRow
<1> QED BY <1>2, <1>4
        DEF BudgetInit, BudgetInv, AloneUnlessTogether, Open, PayerFact, Waiting

\* What type correctness says of the numbers that are added and compared.
LEMMA Amounts ==
    ASSUME BudgetTypeOK
    PROVE  /\ spent \in Nat /\ budget.consumed \in Nat /\ budget.limit \in Nat
           /\ \A p \in Payers :
                 /\ payer[p].cost \in Nat
                 /\ payer[p].read.consumed \in Nat /\ payer[p].read.limit \in Nat
                 /\ payer[p].checked.consumed \in Nat /\ payer[p].checked.limit \in Nat
<1>n. Costs \subseteq Nat /\ Limits \subseteq Nat
  BY BudgetAssumption DEF BudgetAssumption
<1>1. \A row \in BudgetRows : row.consumed \in Nat /\ row.limit \in Nat
  BY <1>n DEF BudgetRows
<1>2. ASSUME NEW p \in Payers
      PROVE  payer[p].cost \in Nat /\ payer[p].read \in BudgetRows /\ payer[p].checked \in BudgetRows
  <2>1. payer[p] \in PayerRows
    BY DEF BudgetTypeOK
  <2>2. payer[p].cost \in Costs \cup {0} /\ payer[p].read \in BudgetRows /\ payer[p].checked \in BudgetRows
    BY <2>1 DEF PayerRows
  <2>3. 0 \in Nat
    OBVIOUS
  <2>4. payer[p].cost \in Nat
    BY <2>2, <2>3, <1>n, Zenon
  <2> QED BY <2>2, <2>4
<1> QED BY <1>1, <1>2 DEF BudgetTypeOK

\* Every step keeps the state well typed.
LEMMA BudgetTypeKeeps ==
    ASSUME BudgetInv, [BudgetNext]_budgetVars
    PROVE  BudgetTypeOK'
<1> USE DEF BudgetTypeOK
<1>t. BudgetTypeOK
  BY DEF BudgetInv
<1>n. Costs \subseteq Nat /\ Limits \subseteq Nat /\ MaxSpending \in Nat
  BY BudgetAssumption DEF BudgetAssumption
<1>e. Spending => spendings' \in 0 .. MaxSpending
  BY <1>t, <1>n DEF Spending
<1>r. ASSUME NEW p \in Payers, NEW row \in PayerRows, payer' = [payer EXCEPT ![p] = row]
      PROVE  payer' \in [Payers -> PayerRows]
  BY <1>t, <1>r
<1>b. /\ \A consumed \in Nat, alert \in Alerts :
             [budget EXCEPT !.consumed = consumed, !.alert = alert] \in BudgetRows
      /\ \A alert \in Alerts : [budget EXCEPT !.alert = alert] \in BudgetRows
      /\ \A limit \in Limits : [budget EXCEPT !.limit = limit] \in BudgetRows
  BY <1>t DEF BudgetRows
<1>l. \A consumed, limit : Level(consumed, limit) \in Alerts
  BY DEF Level, Alerts
<1>1. ASSUME NEW p \in Payers, BlockRun(p) \/ RefuseTask(p) \/ PaymentFails(p)
      PROVE  BudgetTypeOK'
  <2>1. payer' \in [Payers -> PayerRows]
    BY <1>1, <1>r, WaitingType DEF BlockRun, RefuseTask, PaymentFails
  <2>2. budget' \in BudgetRows
    BY <1>1, <1>t, <1>b DEF BlockRun, RefuseTask, PaymentFails, Alerts
  <2> QED BY <1>1, <1>t, <1>e, <2>1, <2>2 DEF BlockRun, RefuseTask, PaymentFails
<1>2. ASSUME NEW p \in Payers, ReadForCharge(p)
      PROVE  BudgetTypeOK'
  <2>1. [payer[p] EXCEPT !.at = "charge", !.read = budget] \in PayerRows
    BY <1>t DEF PayerRows
  <2> QED BY <1>t, <1>2, <1>r, <2>1 DEF ReadForCharge
<1>c. ASSUME NEW p \in Payers
      PROVE  /\ payer[p] \in PayerRows /\ payer[p].cost \in Nat
             /\ payer[p].read.consumed + payer[p].cost \in Nat
             /\ payer[p].read.alert \in Alerts
  <2>1. payer[p] \in PayerRows
    BY <1>t
  <2>2. payer[p].read.alert \in Alerts
    BY <2>1 DEF PayerRows, BudgetRows
  <2> QED BY <1>t, <2>1, <2>2, Amounts
<1>3. ASSUME NEW p \in Payers, Charge(p) \/ ChargeTask(p)
      PROVE  BudgetTypeOK'
  <2>1. budget' \in BudgetRows
    <3>1. CASE Charge(p)
      BY <3>1, <1>b, <1>c, <1>l DEF Charge
    <3>2. CASE ChargeTask(p)
      <4>1. budget.alert \in Alerts
        BY <1>t DEF BudgetRows
      <4> QED BY <3>2, <4>1, <1>b, <1>c, <1>l DEF ChargeTask
    <3> QED BY <1>3, <3>1, <3>2
  <2>2. payer' \in [Payers -> PayerRows]
    BY <1>3, <1>r, WaitingType DEF Charge, ChargeTask
  <2> QED BY <1>3, <1>t, <1>c, <2>1, <2>2 DEF Charge, ChargeTask
<1>4. ASSUME NEW p \in Payers, NEW cost \in Costs, Preflight(p, cost) \/ ReadForTask(p, cost)
      PROVE  BudgetTypeOK'
  <2>1. \A at \in {"run", "block"} :
            [Waiting EXCEPT !.at = at, !.cost = cost, !.checked = budget] \in PayerRows
    BY <1>t, WaitingType DEF PayerRows
  <2>2. [Waiting EXCEPT !.at = "submit", !.cost = cost, !.checked = budget, !.read = budget] \in PayerRows
    BY <1>t, WaitingType DEF PayerRows
  <2>3. payer' \in [Payers -> PayerRows]
    BY <1>4, <1>r, <2>1, <2>2 DEF Preflight, ReadForTask
  <2> QED BY <1>4, <1>t, <1>e, <2>3 DEF Preflight, ReadForTask
<1>5. ASSUME NEW p \in Payers, ReadQuota(p)
      PROVE  BudgetTypeOK'
  <2>1. Len(quota) \in 1 .. Len(quota)
    BY <1>5, <1>t DEF ReadQuota
  <2>2. quota[Len(quota)] \in Nat
    BY <2>1, <1>t
  <2>m. \A m, n \in Nat : [Waiting EXCEPT !.at = "step", !.month = m, !.seen = n] \in PayerRows
    BY WaitingType DEF PayerRows
  <2>3. [Waiting EXCEPT !.at = "step", !.month = Len(quota), !.seen = quota[Len(quota)]] \in PayerRows
    <3>1. Len(quota) \in Nat
      BY <1>t
    <3> QED BY <3>1, <2>2, <2>m
  <2> QED BY <1>5, <1>t, <1>e, <1>r, <2>3 DEF ReadQuota
<1>6. ASSUME NEW p \in Payers, CountStep(p)
      PROVE  BudgetTypeOK'
  <2>1. payer[p].month \in 1 .. Len(quota)
    BY <1>6 DEF BudgetInv, PayerFact, CountStep
  <2>2. quota' \in Seq(Nat)
    BY <1>t, <1>6, <2>1 DEF CountStep
  <2> QED BY <1>t, <1>6, <1>r, WaitingType, <2>2 DEF CountStep
<1>7. ASSUME NEW limit \in Limits, SetLimit(limit)
      PROVE  BudgetTypeOK'
  <2>1. budget' \in BudgetRows
    BY <1>7, <1>b, <1>t DEF SetLimit, BudgetRows
  <2> QED BY <1>t, <1>7, <1>e, <2>1 DEF SetLimit
<1>8. CASE NewMonth
  BY <1>t, <1>8, <1>e DEF NewMonth
<1>9. CASE UNCHANGED budgetVars
  BY <1>t, <1>9 DEF budgetVars
<1> QED BY <1>1, <1>2, <1>3, <1>4, <1>5, <1>6, <1>7, <1>8, <1>9 DEF BudgetNext

-----------------------------------------------------------------------------
\* A step in which one payment at most moves, and which leaves the budget and
\* its books alone, keeps what the invariant says of the other payments.
LEMMA OthersKeep ==
    ASSUME BudgetInv, NEW p \in Payers, NEW q \in Payers, p # q,
           payer'[q] = payer[q], UNCHANGED <<budget, spent, limitSet>>,
           together => together', Len(quota) <= Len(quota'), Len(quota') \in Nat
    PROVE  PayerFact(q)'
BY DEF BudgetInv, BudgetTypeOK, PayerFact

\* Every step preserves what the invariant says of the payments.
LEMMA PayersKeep ==
    ASSUME BudgetInv, [BudgetNext]_budgetVars
    PROVE  AloneUnlessTogether' /\ \A q \in Payers : PayerFact(q)'
<1>t. BudgetTypeOK /\ BudgetTypeOK' /\ BudgetBooks /\ Len(quota) \in Nat
  BY BudgetTypeKeeps DEF BudgetInv, BudgetTypeOK
<1>n. /\ spent \in Nat /\ budget.consumed \in Nat /\ budget.limit \in Nat
      /\ \A p \in Payers : payer[p].cost \in Nat /\ payer[p].read.consumed \in Nat
  BY <1>t, Amounts
<1>a. AloneUnlessTogether /\ \A q \in Payers : PayerFact(q)
  BY DEF BudgetInv
<1>i. ASSUME NEW p \in Payers, payer' = [payer EXCEPT ![p] = Waiting],
             UNCHANGED <<budget, spent, limitSet, together, quota>>
      PROVE  AloneUnlessTogether' /\ \A q \in Payers : PayerFact(q)'
  BY <1>t, <1>a, <1>i DEF BudgetTypeOK, AloneUnlessTogether, Open, PayerFact, Waiting
<1>1. ASSUME NEW p \in Payers, BlockRun(p)
      PROVE  AloneUnlessTogether' /\ \A q \in Payers : PayerFact(q)'
  <2>1. budget'.consumed = budget.consumed /\ budget'.limit = budget.limit
    BY <1>1, <1>t DEF BlockRun, BudgetTypeOK, BudgetRows
  <2> QED BY <1>t, <1>a, <1>1, <2>1
          DEF BlockRun, BudgetTypeOK, AloneUnlessTogether, Open, PayerFact, Waiting
<1>2. ASSUME NEW p \in Payers, RefuseTask(p) \/ PaymentFails(p)
      PROVE  AloneUnlessTogether' /\ \A q \in Payers : PayerFact(q)'
  BY <1>2, <1>i DEF RefuseTask, PaymentFails
<1>3. ASSUME NEW p \in Payers, ReadForCharge(p)
      PROVE  AloneUnlessTogether' /\ \A q \in Payers : PayerFact(q)'
  <2>1. payer'[p] = [payer[p] EXCEPT !.at = "charge", !.read = budget]
    BY <1>3, <1>t DEF ReadForCharge, BudgetTypeOK
  <2>2. \A q \in Payers : q # p => payer'[q] = payer[q]
    BY <1>3, <1>t DEF ReadForCharge, BudgetTypeOK
  <2>3. PayerFact(p)'
    <3>1. payer[p] \in PayerRows
      BY <1>t DEF BudgetTypeOK
    <3>2. /\ payer'[p].at = "charge" /\ payer'[p].read = budget
          /\ payer'[p].checked = payer[p].checked /\ payer'[p].cost = payer[p].cost
      BY <2>1, <3>1 DEF PayerRows
    <3> QED BY <1>a, <1>t, <1>3, <3>2 DEF ReadForCharge, PayerFact, BudgetBooks
  <2>4. \A q \in Payers : q # p => PayerFact(q)'
    BY <1>a, <1>3, <2>2 DEF ReadForCharge, PayerFact
  <2>5. AloneUnlessTogether'
    BY <1>a, <1>3, <2>2 DEF ReadForCharge, AloneUnlessTogether, Open
  <2> QED BY <2>3, <2>4, <2>5
<1>4. ASSUME NEW p \in Payers, Charge(p) \/ ChargeTask(p)
      PROVE  AloneUnlessTogether' /\ \A q \in Payers : PayerFact(q)'
  <2>1. p \in Open /\ payer'[p] = Waiting
    BY <1>4, <1>t DEF Charge, ChargeTask, Open, BudgetTypeOK
  <2>2. \A q \in Payers : q # p => payer'[q] = payer[q]
    BY <1>4, <1>t DEF Charge, ChargeTask, BudgetTypeOK
  <2>3. UNCHANGED <<together, limitSet, quota>> /\ spent' = spent + payer[p].cost /\ budget'.limit = budget.limit
    BY <1>4, <1>t DEF Charge, ChargeTask, BudgetTypeOK, BudgetRows
  <2>4. ASSUME NEW q \in Payers, q # p
        PROVE  PayerFact(q)'
    <3>1. ~together => q \notin Open
      BY <1>a, <2>1, <2>4 DEF AloneUnlessTogether
    <3>2. \A n \in Nat : n <= spent => n <= spent'
      BY <1>n, <2>3
    <3> QED BY <1>a, <1>n, <2>2, <2>3, <2>4, <3>1, <3>2 DEF PayerFact, Open
  <2>5. PayerFact(p)'
    BY <2>1 DEF PayerFact, Waiting
  <2>6. AloneUnlessTogether'
    BY <1>a, <2>1, <2>2, <2>3 DEF AloneUnlessTogether, Open, Waiting
  <2> QED BY <2>4, <2>5, <2>6
<1>5. ASSUME NEW p \in Payers, NEW cost \in Costs, Preflight(p, cost)
      PROVE  AloneUnlessTogether' /\ \A q \in Payers : PayerFact(q)'
  <2>1. /\ payer'[p].at \in {"run", "block"} /\ payer'[p].cost = cost /\ payer'[p].checked = budget
        /\ payer'[p].at = "run" => budget.consumed + cost <= budget.limit
    BY <1>5, <1>t DEF Preflight, BudgetTypeOK, Waiting
  <2>2. \A q \in Payers : q # p => payer'[q] = payer[q]
    BY <1>5, <1>t DEF Preflight, BudgetTypeOK
  <2> QED BY <1>a, <1>5, <2>1, <2>2 DEF Preflight, PayerFact, AloneUnlessTogether, Open
<1>6. ASSUME NEW p \in Payers, NEW cost \in Costs, ReadForTask(p, cost)
      PROVE  AloneUnlessTogether' /\ \A q \in Payers : PayerFact(q)'
  <2>1. payer'[p].at = "submit" /\ payer'[p].checked = budget /\ payer'[p].read = budget
    BY <1>6, <1>t DEF ReadForTask, BudgetTypeOK, Waiting
  <2>2. \A q \in Payers : q # p => payer'[q] = payer[q]
    BY <1>6, <1>t DEF ReadForTask, BudgetTypeOK
  <2>3. PayerFact(p)'
    BY <1>t, <1>6, <2>1 DEF ReadForTask, PayerFact, BudgetBooks
  <2>4. \A q \in Payers : q # p => PayerFact(q)'
    BY <1>a, <1>6, <2>2 DEF ReadForTask, PayerFact
  <2>5. AloneUnlessTogether'
    BY <1>a, <1>6, <2>2 DEF ReadForTask, AloneUnlessTogether, Open
  <2> QED BY <2>3, <2>4, <2>5
<1>7. ASSUME NEW p \in Payers, ReadQuota(p)
      PROVE  AloneUnlessTogether' /\ \A q \in Payers : PayerFact(q)'
  <2>1. payer'[p].at = "step" /\ payer'[p].month = Len(quota) /\ payer'[p].seen < QuotaLimit
    BY <1>7, <1>t DEF ReadQuota, BudgetTypeOK, Waiting
  <2>2. \A q \in Payers : q # p => payer'[q] = payer[q]
    BY <1>7, <1>t DEF ReadQuota, BudgetTypeOK
  <2>3. Len(quota) \in 1 .. Len(quota)
    BY <1>7, <1>t DEF ReadQuota, BudgetTypeOK
  <2> QED BY <1>a, <1>7, <2>1, <2>2, <2>3 DEF ReadQuota, PayerFact, AloneUnlessTogether, Open
<1>8. ASSUME NEW p \in Payers, CountStep(p)
      PROVE  AloneUnlessTogether' /\ \A q \in Payers : PayerFact(q)'
  <2>1. payer'[p] = Waiting /\ \A q \in Payers : q # p => payer'[q] = payer[q]
    BY <1>8, <1>t DEF CountStep, BudgetTypeOK
  <2>2. Len(quota') = Len(quota)
    BY <1>8, <1>t DEF CountStep, BudgetTypeOK
  <2> QED BY <1>a, <1>8, <2>1, <2>2 DEF CountStep, PayerFact, AloneUnlessTogether, Open, Waiting
<1>9. ASSUME NEW limit \in Limits, SetLimit(limit)
      PROVE  AloneUnlessTogether' /\ \A q \in Payers : PayerFact(q)'
  <2>1. budget'.consumed = budget.consumed
    BY <1>9, <1>t DEF SetLimit, BudgetTypeOK, BudgetRows
  <2> QED BY <1>a, <1>9, <2>1 DEF SetLimit, PayerFact, AloneUnlessTogether, Open
<1>10. CASE NewMonth
  <2>1. Len(quota') = Len(quota) + 1
    BY <1>10, <1>t DEF NewMonth, BudgetTypeOK
  <2> QED BY <1>a, <1>t, <1>10, <2>1 DEF NewMonth, PayerFact, AloneUnlessTogether, Open
<1>11. CASE UNCHANGED budgetVars
  BY <1>a, <1>11 DEF budgetVars, PayerFact, AloneUnlessTogether, Open
<1> QED BY <1>1, <1>2, <1>3, <1>4, <1>5, <1>6, <1>7, <1>8, <1>9, <1>10, <1>11 DEF BudgetNext

\* Every step keeps the books.
LEMMA BooksKeep ==
    ASSUME BudgetInv, [BudgetNext]_budgetVars
    PROVE  BudgetBooks'
<1>t. BudgetTypeOK /\ BudgetBooks /\ \A p \in Payers : PayerFact(p)
  BY DEF BudgetInv
<1>n. /\ spent \in Nat /\ budget.consumed \in Nat /\ budget.limit \in Nat
      /\ \A p \in Payers : payer[p].cost \in Nat /\ payer[p].read.consumed \in Nat
  BY <1>t, Amounts
<1>l. \A consumed, limit : Level(consumed, limit) # "none"
  BY DEF Level
<1>1. ASSUME NEW p \in Payers, BlockRun(p)
      PROVE  BudgetBooks'
  BY <1>1, <1>t DEF BlockRun, BudgetBooks, BudgetTypeOK, BudgetRows
<1>2. ASSUME NEW p \in Payers, Charge(p)
      PROVE  BudgetBooks'
  <2>1. /\ budget'.consumed = payer[p].read.consumed + payer[p].cost /\ budget'.limit = budget.limit
        /\ Near(budget'.consumed, payer[p].read.limit) => budget'.alert # "none"
    BY <1>2, <1>t, <1>l DEF Charge, BudgetTypeOK, BudgetRows
  <2>2. /\ payer[p].read.consumed <= spent
        /\ ~together => payer[p].read.consumed = budget.consumed
        /\ ~limitSet => payer[p].read.limit = budget.limit
    BY <1>2, <1>t DEF Charge, PayerFact
  <2> QED BY <1>2, <1>t, <1>n, <2>1, <2>2 DEF Charge, BudgetBooks
<1>3. ASSUME NEW p \in Payers, ChargeTask(p)
      PROVE  BudgetBooks'
  <2>1. /\ budget'.consumed = payer[p].read.consumed + payer[p].cost /\ budget'.limit = budget.limit
        /\ Near(budget'.consumed, budget.limit) => budget'.alert # "none"
    BY <1>3, <1>t, <1>l DEF ChargeTask, BudgetTypeOK, BudgetRows
  <2>2. /\ payer[p].read.consumed <= spent
        /\ ~together => payer[p].read.consumed = budget.consumed
    BY <1>3, <1>t DEF ChargeTask, PayerFact
  <2> QED BY <1>3, <1>t, <1>n, <2>1, <2>2 DEF ChargeTask, BudgetBooks
<1>4. ASSUME NEW limit \in Limits, SetLimit(limit)
      PROVE  BudgetBooks'
  BY <1>4, <1>t DEF SetLimit, BudgetBooks, BudgetTypeOK, BudgetRows
<1>5. ASSUME NEW p \in Payers,
             \/ ReadForCharge(p) \/ RefuseTask(p) \/ ReadQuota(p) \/ CountStep(p) \/ PaymentFails(p)
             \/ \E cost \in Costs : Preflight(p, cost) \/ ReadForTask(p, cost)
      PROVE  BudgetBooks'
  <2>1. UNCHANGED <<budget, spent, limitSet>>
    BY <1>5 DEF ReadForCharge, RefuseTask, ReadQuota, CountStep, PaymentFails, Preflight, ReadForTask
  <2>2. together => together'
    BY <1>5 DEF ReadForCharge, RefuseTask, ReadQuota, CountStep, PaymentFails, Preflight, ReadForTask
  <2> QED BY <1>t, <2>1, <2>2 DEF BudgetBooks
<1>6. CASE NewMonth \/ UNCHANGED budgetVars
  BY <1>6, <1>t DEF NewMonth, budgetVars, BudgetBooks
<1> QED BY <1>1, <1>2, <1>3, <1>4, <1>5, <1>6 DEF BudgetNext

\* The invariant is inductive.
LEMMA BudgetKeeps == ASSUME BudgetInv, [BudgetNext]_budgetVars PROVE BudgetInv'
BY BudgetTypeKeeps, PayersKeep, BooksKeep DEF BudgetInv

LEMMA BudgetInvariance == BudgetSpec => []BudgetInv
<1>1. BudgetInit(0) => BudgetInv
  <2>1. 0 \in 0 .. MaxSpending
    BY BudgetAssumption DEF BudgetAssumption
  <2> QED BY <2>1, InitBudget
<1>2. BudgetInv /\ [BudgetNext]_budgetVars => BudgetInv'
  BY BudgetKeeps
<1> QED BY <1>1, <1>2, PTL DEF BudgetSpec

\* The budget, its payments, the quotas and the books are well typed; a step
\* counts against a month that has a row.
THEOREM BudgetTypeCorrect == BudgetSpec => []BudgetTypeOK
<1>1. BudgetInv => BudgetTypeOK
  BY DEF BudgetInv
<1> QED BY BudgetInvariance, <1>1, PTL

\* The row never counts more than its events add up to, counts less only once
\* two charges were in progress at the same time, and has an alert when it is
\* near a limit that nobody has changed.
THEOREM BooksBalance == BudgetSpec => []BudgetBooks
<1>1. BudgetInv => BudgetBooks
  BY DEF BudgetInv
<1> QED BY BudgetInvariance, <1>1, PTL

\* A step that explains itself.
LEMMA OverspendStep ==
    ASSUME BudgetInv, [BudgetNext]_budgetVars
    PROVE  [OverspendExplained]_budgetVars
<1>t. BudgetTypeOK /\ \A p \in Payers : PayerFact(p)
  BY DEF BudgetInv
<1>n. /\ budget.consumed \in Nat /\ budget.limit \in Nat
      /\ \A p \in Payers :
            /\ payer[p].cost \in Nat
            /\ payer[p].read.consumed \in Nat /\ payer[p].read.limit \in Nat
            /\ payer[p].checked.consumed \in Nat /\ payer[p].checked.limit \in Nat
  BY <1>t, Amounts
<1>q. QuotaLimit \in Nat /\ Len(quota) \in Nat /\ \A m \in 1 .. Len(quota) : quota[m] \in Nat
  BY <1>t, BudgetAssumption DEF BudgetTypeOK, BudgetAssumption
<1>1. ASSUME NEW p \in Payers, Charge(p) \/ ChargeTask(p)
      PROVE  OverspendExplained
  <2>1. /\ budget'.consumed = payer[p].read.consumed + payer[p].cost /\ budget'.limit = budget.limit
        /\ payer'[p].at = "idle" /\ quota' = quota
    <3>1. CASE Charge(p)
      BY <3>1, <1>t DEF Charge, BudgetTypeOK, BudgetRows, Waiting
    <3>2. CASE ChargeTask(p)
      BY <3>2, <1>t DEF ChargeTask, BudgetTypeOK, BudgetRows, Waiting
    <3> QED BY <1>1, <3>1, <3>2
  <2>2. payer[p].checked.consumed = payer[p].read.consumed /\ payer[p].checked.limit = budget.limit
           => payer[p].read.consumed + payer[p].cost <= budget.limit
    <3>1. CASE Charge(p)
      BY <3>1, <1>t DEF Charge, PayerFact
    <3>2. CASE ChargeTask(p)
      BY <3>2, <1>t, <1>n DEF ChargeTask, Exceeds, PayerFact
    <3> QED BY <1>1, <3>1, <3>2
  <2>3. payer[p].at \in {"charge", "submit"}
    BY <1>1 DEF Charge, ChargeTask
  <2>4. budget'.consumed > budget'.limit => OutdatedCheck(p)
    BY <1>n, <2>1, <2>2, <2>3 DEF OutdatedCheck
  <2> QED BY <1>q, <2>1, <2>4 DEF OverspendExplained
<1>2. ASSUME NEW p \in Payers, CountStep(p)
      PROVE  OverspendExplained
  <2>1. payer[p].month \in 1 .. Len(quota) /\ payer[p].seen < QuotaLimit /\ payer[p].seen \in Nat
    BY <1>2, <1>t DEF CountStep, PayerFact, BudgetTypeOK, PayerRows
  <2>2. \A m \in 1 .. Len(quota) : m # payer[p].month => quota'[m] = quota[m]
    BY <1>2, <1>t, <2>1 DEF CountStep, BudgetTypeOK
  <2>3. ASSUME NEW m \in 1 .. Len(quota), quota'[m] > quota[m]
        PROVE  quota[m] < QuotaLimit \/ OutdatedCount(p, m)
    <3>1. m = payer[p].month
      BY <1>q, <2>2, <2>3
    <3> QED BY <1>2, <1>q, <2>1, <3>1 DEF CountStep, OutdatedCount
  <2> QED BY <1>2, <2>3 DEF CountStep, OverspendExplained
<1>3. ASSUME NEW p \in Payers,
             \/ BlockRun(p) \/ ReadForCharge(p) \/ RefuseTask(p) \/ ReadQuota(p) \/ PaymentFails(p)
             \/ \E cost \in Costs : Preflight(p, cost) \/ ReadForTask(p, cost)
      PROVE  OverspendExplained
  <2>1. budget'.consumed = budget.consumed /\ quota' = quota
    BY <1>3, <1>t DEF BlockRun, ReadForCharge, RefuseTask, ReadQuota, PaymentFails, Preflight,
                      ReadForTask, BudgetTypeOK, BudgetRows
  <2> QED BY <1>q, <2>1 DEF OverspendExplained
<1>4. ASSUME NEW limit \in Limits, SetLimit(limit)
      PROVE  OverspendExplained
  <2>1. budget'.consumed = budget.consumed /\ quota' = quota
    BY <1>4, <1>t DEF SetLimit, BudgetTypeOK, BudgetRows
  <2> QED BY <1>q, <2>1 DEF OverspendExplained
<1>5. CASE NewMonth
  <2>1. budget' = budget /\ \A m \in 1 .. Len(quota) : quota'[m] = quota[m]
    BY <1>5, <1>t DEF NewMonth, BudgetTypeOK
  <2> QED BY <1>q, <2>1 DEF OverspendExplained
<1> QED BY <1>1, <1>2, <1>3, <1>4, <1>5 DEF BudgetNext

\* Only a change between check and charge takes the budget past its limit,
\* only an outdated reading takes a month's count past the quota.
THEOREM OverspendingIsExplained == BudgetSpec => OverspendNeedsOverlap
BY BudgetInvariance, OverspendStep, PTL DEF BudgetSpec, OverspendNeedsOverlap

-----------------------------------------------------------------------------
(* Side by side.                                                           *)

\* Each of the three goes its own way: a step of one is a stutter of the
\* others.
LEMMA SideBySide ==
    ASSUME [MCNext]_<<vars, budgetVars, validatorVars>>
    PROVE  [Next]_vars /\ [BudgetNext]_budgetVars /\ [ValidatorNext]_validatorVars
<1>1. CASE MCNext
  BY <1>1, Zenon DEF MCNext
<1>2. CASE UNCHANGED <<vars, budgetVars, validatorVars>>
  BY <1>2, Zenon
<1> QED BY <1>1, <1>2, Zenon

\* The three invariants are one of the composition, also where a part of it
\* begins with all its events behind it.
LEMMA MCInvariance == MCSpec => [](TenantInv /\ BudgetInv /\ ValidatorInv)
<1>1. MCInit => TenantInv /\ BudgetInv /\ ValidatorInv
  <2> SUFFICES ASSUME MCInit PROVE TenantInv /\ BudgetInv /\ ValidatorInv
    OBVIOUS
  <2>1. /\ 0 \in 0 .. MaxEvents /\ MaxEvents \in 0 .. MaxEvents
        /\ 0 \in 0 .. MaxSpending /\ MaxSpending \in 0 .. MaxSpending
    BY CatalogAssumption, BudgetAssumption DEF CatalogAssumption, BudgetAssumption
  <2>2. PICK past \in 0 .. MaxEvents : InitWith(past)
    BY <2>1 DEF MCInit, Init
  <2>3. PICK paid \in 0 .. MaxSpending : BudgetInit(paid)
    BY <2>1 DEF MCInit
  <2>4. ValidatorInit
    BY DEF MCInit
  <2> QED BY <2>2, <2>3, <2>4, InitTenant, InitBudget, InitValidator
<1>2. TenantInv /\ BudgetInv /\ ValidatorInv /\ [MCNext]_<<vars, budgetVars, validatorVars>>
        => (TenantInv /\ BudgetInv /\ ValidatorInv)'
  BY SideBySide, TenantKeeps, BudgetKeeps, ValidatorKeeps
<1> QED BY <1>1, <1>2, PTL DEF MCSpec

\* The tenant's workflows, agents, budget and payments and the graph that is
\* validated are well typed together, and no pack is installed twice.
THEOREM MCTypeCorrect == MCSpec => []MCTypeOK
<1>1. TenantInv /\ BudgetInv /\ ValidatorInv => MCTypeOK
  BY DEF TenantInv, BudgetInv, ValidatorInv, MCTypeOK
<1> QED BY <1>1, MCInvariance, PTL

\* Side by side each keeps its promises: what the run of the composition
\* checks is true of it for any number of workflows, agents, payments and
\* graphs.
THEOREM SideBySideIsSafe ==
    MCSpec => /\ [](/\ CronIsScheduled /\ DependenciesInstalled /\ PlanLimitsHold
                   /\ BudgetBooks /\ ValidatorIsExact)
              /\ OverspendNeedsOverlap
<1>1. TenantInv /\ BudgetInv /\ ValidatorInv
        => /\ CronIsScheduled /\ DependenciesInstalled /\ PlanLimitsHold
           /\ BudgetBooks /\ ValidatorIsExact
  BY AcceptedIsCanvas
     DEF TenantInv, CatalogInv, BudgetInv, ValidatorInv, ThrownFact, ValidatorIsExact
<1>2. BudgetInv /\ [MCNext]_<<vars, budgetVars, validatorVars>> => [OverspendExplained]_budgetVars
  BY SideBySide, OverspendStep
<1> QED BY <1>1, <1>2, MCInvariance, PTL DEF MCSpec, OverspendNeedsOverlap
=============================================================================
