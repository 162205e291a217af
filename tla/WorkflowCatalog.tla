--------------------------- MODULE WorkflowCatalog --------------------------
(***************************************************************************)
(* The workflows of a tenant as the API's requests create, save and        *)
(* archive them, and the repeatable jobs that fire the CRON ones.          *)
(*                                                                         *)
(* A creation counts the workflows before its transaction.  A save reads   *)
(* the row before its transaction, and when it has committed decides from  *)
(* that reading and its input whether to add a repeatable job.  Nothing    *)
(* ever removes one.  A workflow is its row and, of its canvas, the agents *)
(* that AGENT_EXECUTE steps name.                                          *)
(***************************************************************************)
EXTENDS Naturals, FiniteSets

CONSTANTS
    Flows, NoFlow,
    Patterns, NoPattern,  \* cron expressions
    Canvases,   \* the canvases that pass validateDag, as sets of agents
    Requests,   \* requests in progress at a time
    MaxFlows,   \* the plan's limit on workflows
    Keep,       \* a trigger that a save does not give
    MaxEvents   \* bound: creations, saves, installations, removals, failures

ASSUME CatalogAssumption ==
    /\ MaxFlows \in Nat /\ MaxEvents \in Nat
    /\ IsFiniteSet(Flows)
    /\ NoPattern \notin Patterns /\ Keep \notin {"CRON", "MANUAL"}

VARIABLES
    flow,       \* flow[w]: the Workflow row, or NoFlow
    schedules,  \* the repeatable jobs: pairs of a workflow and a pattern
    saving,     \* saving[r]: where request r is and what it has read
    missed,     \* workflows that a failed or an overlapping save left unscheduled
    events      \* events so far

catalogVars == <<flow, schedules, saving, missed>>

Statuses == {"DRAFT", "PUBLISHED", "ARCHIVED"}
Triggers == {"CRON", "MANUAL"}
Rows     == [status : Statuses, trigger : Triggers, pattern : Patterns \cup {NoPattern},
             agents : Canvases]
SavingRows == [at : {"idle", "create", "save", "schedule"}, seen : Nat, flow : Flows \cup {NoFlow},
               trigger : Triggers \cup {Keep}, pattern : Patterns \cup {NoPattern}]

ASSUME NoFlowAssumption == NoFlow \notin Rows

Idle == [at |-> "idle", seen |-> 0, flow |-> NoFlow, trigger |-> Keep, pattern |-> NoPattern]

CatalogTypeOK ==
    /\ flow \in [Flows -> Rows \cup {NoFlow}]
    /\ schedules \subseteq Flows \X Patterns
    /\ saving \in [Requests -> SavingRows]
    /\ missed \subseteq Flows
    /\ events \in 0 .. MaxEvents

CatalogInit(past) ==
    /\ flow = [w \in Flows |-> NoFlow]
    /\ schedules = {} /\ missed = {}
    /\ saving = [r \in Requests |-> Idle]
    /\ events = past

Event  == events < MaxEvents /\ events' = events + 1
Active == {w \in Flows : flow[w] # NoFlow /\ flow[w].status # "ARCHIVED"}

(* Mutant of Afterwards: a workflow with a repeatable job gets no other. *)
AfterwardsOnce(r, w, cron, row) ==
    saving' = [saving EXCEPT ![r] = IF cron /\ row.pattern # NoPattern /\ \A p \in Patterns : <<w, p>> \notin schedules
                                    THEN [Idle EXCEPT !.at = "schedule", !.flow = w, !.pattern = row.pattern]
                                    ELSE Idle]

(* A request whose transaction has committed a row: add its repeatable job
   if the workflow is taken for a CRON one and the row has a pattern. *)
Afterwards(r, w, cron, row) ==
    saving' = [saving EXCEPT ![r] = IF cron /\ row.pattern # NoPattern
                                    THEN [Idle EXCEPT !.at = "schedule", !.flow = w, !.pattern = row.pattern]
                                    ELSE Idle]

-----------------------------------------------------------------------------
(* Mutant of CountFlows: the limit is reached one workflow late. *)
CountFlowsLate(r) ==
    /\ saving[r].at = "idle" /\ Event
    /\ Cardinality(Active) <= MaxFlows
    /\ saving' = [saving EXCEPT ![r] = [Idle EXCEPT !.at = "create", !.seen = Cardinality(Active)]]
    /\ UNCHANGED <<flow, schedules, missed>>

(* createWorkflow. *)
CountFlows(r) ==
    /\ saving[r].at = "idle" /\ Event
    /\ Cardinality(Active) < MaxFlows
    /\ saving' = [saving EXCEPT ![r] = [Idle EXCEPT !.at = "create", !.seen = Cardinality(Active)]]
    /\ UNCHANGED <<flow, schedules, missed>>

CreateFlow(r, w) ==
    /\ saving[r].at = "create" /\ flow[w] = NoFlow
    /\ \E row \in Rows :
          /\ flow' = [flow EXCEPT ![w] = row]
          /\ Afterwards(r, w, row.trigger = "CRON", row)
    /\ UNCHANGED <<schedules, missed, events>>

(* updateWorkflow: the row is read, then changed in a transaction.  To give a
   field the value it has is to keep it, but for the trigger, which the save
   looks at again. *)
ReadFlow(r, w) ==
    /\ saving[r].at = "idle" /\ flow[w] # NoFlow /\ Event
    /\ saving' = [saving EXCEPT ![r] = [Idle EXCEPT !.at = "save", !.flow = w, !.trigger = flow[w].trigger]]
    /\ UNCHANGED <<flow, schedules, missed>>

OrElse(given, present) == IF given = Keep THEN present ELSE given

(* What tells that the save decides from a reading that is out of date. *)
Outdated(r, trigger) == trigger = Keep /\ saving[r].trigger # flow[saving[r].flow].trigger

SaveFlow(r) ==
    /\ saving[r].at = "save"
    /\ LET w == saving[r].flow
       IN \E status \in Statuses, trigger \in Triggers \cup {Keep},
             pattern \in Patterns \cup {flow[w].pattern}, agents \in Canvases :
             LET row == [status |-> status, trigger |-> OrElse(trigger, flow[w].trigger),
                         pattern |-> pattern, agents |-> agents]
             IN /\ flow' = [flow EXCEPT ![w] = row]
                /\ Afterwards(r, w, OrElse(trigger, saving[r].trigger) = "CRON", row)
                /\ missed' = IF Outdated(r, trigger) THEN missed \cup {w} ELSE missed
    /\ UNCHANGED <<schedules, events>>

(* scheduleCronWorkflow: the same workflow and pattern make the same job. *)
Schedule(r) ==
    /\ saving[r].at = "schedule"
    /\ schedules' = schedules \cup {<<saving[r].flow, saving[r].pattern>>}
    /\ saving' = [saving EXCEPT ![r] = Idle]
    /\ UNCHANGED <<flow, missed, events>>

(* A call throws, or the process dies. *)
SaveFails(r) ==
    /\ saving[r].at # "idle" /\ Event
    /\ missed' = IF saving[r].at = "schedule" THEN missed \cup {saving[r].flow} ELSE missed
    /\ saving' = [saving EXCEPT ![r] = Idle]
    /\ UNCHANGED <<flow, schedules>>

ArchiveFlow(w) ==
    /\ flow[w] # NoFlow /\ Event
    /\ flow' = [flow EXCEPT ![w] = [@ EXCEPT !.status = "ARCHIVED"]]
    /\ UNCHANGED <<schedules, saving, missed>>

CatalogStep ==
    \/ \E r \in Requests :
          \/ CountFlows(r) \/ SaveFlow(r) \/ Schedule(r) \/ SaveFails(r)
          \/ \E w \in Flows : ReadFlow(r, w) \/ CreateFlow(r, w)
    \/ \E w \in Flows : ArchiveFlow(w)

-----------------------------------------------------------------------------
(* A CRON workflow has the repeatable job of its pattern, or a request is
   about to add it, unless adding it once failed or a save that gave no
   trigger decided from one that another save was changing. *)
CronIsScheduled ==
    \A w \in Flows :
        flow[w] # NoFlow /\ flow[w].trigger = "CRON" /\ flow[w].pattern # NoPattern =>
            \/ <<w, flow[w].pattern>> \in schedules
            \/ \E r \in Requests : /\ saving[r].at = "schedule"
                                   /\ saving[r].flow = w /\ saving[r].pattern = flow[w].pattern
            \/ w \in missed
=============================================================================
