---------------------------- MODULE PackInstaller ---------------------------
(***************************************************************************)
(* The agents a tenant has installed, next to the workflows that name them.*)
(*                                                                         *)
(* An installation counts the agents and looks for the pack's own before   *)
(* its transaction; a removal looks for the pack's agents, then for drafts *)
(* and published workflows that use them, and then deletes, three calls.   *)
(* A workflow names agents by id and nothing checks that they exist.       *)
(***************************************************************************)
EXTENDS WorkflowCatalog

CONSTANTS
    Packs, NoPack,
    MaxAgents,  \* the plan's limit on agents
    MaxIds      \* bound: agents ever created

ASSUME InstallerAssumption ==
    /\ NoPack \notin Packs /\ MaxAgents \in Nat /\ MaxIds \in Nat
    /\ \A canvas \in Canvases : canvas \subseteq 1 .. MaxIds

VARIABLES
    agents,     \* the Agent rows
    packOf,     \* packOf[a]: the pack of agent a, NoPack before it is created
    work,       \* work[r]: where request r is and what it has read
    unguarded,  \* workflows saved naming agents that are gone or going
    pastFlows,  \* workflows that joined the active ones with the limit reached,
                \* restored or created from a count that had gone out of date
    pastAgents  \* agents created so, from a count that had gone out of date

installerVars == <<agents, packOf, work, unguarded, pastFlows, pastAgents>>
vars == <<catalogVars, installerVars, events>>

Resting == [at |-> "idle", pack |-> NoPack, found |-> {}, seen |-> 0]

WorkRows == [at : {"idle", "install", "check", "delete"}, pack : Packs \cup {NoPack},
             found : SUBSET (1 .. MaxIds), seen : Nat]

TypeOK ==
    /\ CatalogTypeOK
    /\ agents \subseteq {a \in 1 .. MaxIds : packOf[a] # NoPack}
    /\ packOf \in [1 .. MaxIds -> Packs \cup {NoPack}]
    /\ work \in [Requests -> WorkRows]
    /\ unguarded \subseteq Flows
    /\ pastFlows \subseteq Active /\ pastAgents \subseteq agents
    /\ \A a, b \in agents : packOf[a] = packOf[b] => a = b

InitWith(past) ==
    /\ CatalogInit(past)
    /\ agents = {}
    /\ packOf = [a \in 1 .. MaxIds |-> NoPack]
    /\ work = [r \in Requests |-> Resting]
    /\ unguarded = {} /\ pastFlows = {} /\ pastAgents = {}
Init == InitWith(0)

AgentsOf(p) == {a \in agents : packOf[a] = p}
Rest(r)     == work' = [work EXCEPT ![r] = Resting]
Begin(r, step, p) ==
    /\ work[r].at = "idle" /\ saving[r].at = "idle" /\ Event
    /\ work' = [work EXCEPT ![r] = [at |-> step, pack |-> p, found |-> AgentsOf(p),
                                    seen |-> Cardinality(agents)]]
    /\ UNCHANGED <<agents, packOf>>

-----------------------------------------------------------------------------
(* installPackAtomic: the count, the agent already there, the limit. *)
ReadAgents(r, p) ==
    /\ Cardinality(agents) + (IF AgentsOf(p) = {} THEN 1 ELSE 0) <= MaxAgents
    /\ Begin(r, "install", p)

(* Mutant of CreateAgent: without the index on tenant and name. *)
CreateAnotherAgent(r) ==
    /\ work[r].at = "install" /\ work[r].found = {}
    /\ \E a \in 1 .. MaxIds :
          /\ packOf[a] = NoPack /\ \A b \in 1 .. (a - 1) : packOf[b] # NoPack
          /\ agents' = agents \cup {a}
          /\ packOf' = [packOf EXCEPT ![a] = work[r].pack]
    /\ Rest(r)
    /\ UNCHANGED events

(* The transaction updates the agent found, which throws when it is gone, or
   creates one, which throws when the tenant has one of that name. *)
CreateAgent(r) ==
    /\ work[r].at = "install" /\ work[r].found = {}
    /\ AgentsOf(work[r].pack) = {}
    /\ \E a \in 1 .. MaxIds :
          /\ packOf[a] = NoPack /\ \A b \in 1 .. (a - 1) : packOf[b] # NoPack
          /\ agents' = agents \cup {a}
          /\ packOf' = [packOf EXCEPT ![a] = work[r].pack]
    /\ Rest(r)
    /\ UNCHANGED events
KeepAgent(r) ==
    /\ work[r].at = "install"
    /\ work[r].found # {} \/ AgentsOf(work[r].pack) # {}
    /\ Rest(r)
    /\ UNCHANGED <<agents, packOf, events>>

(* Mutant of InUse: drafts do not count. *)
InUsePublished(found) ==
    \E w \in Active : flow[w].status = "PUBLISHED" /\ flow[w].agents \cap found # {}

(* uninstallPackAtomic. *)
ReadPack(r, p) ==
    /\ AgentsOf(p) # {}
    /\ Begin(r, "check", p)

InUse(found) == \E w \in Active : flow[w].agents \cap found # {}

CheckUse(r) ==
    /\ work[r].at = "check"
    /\ IF InUse(work[r].found) THEN Rest(r) ELSE work' = [work EXCEPT ![r] = [@ EXCEPT !.at = "delete"]]
    /\ UNCHANGED <<agents, packOf, events>>

DeleteAgents(r) ==
    /\ work[r].at = "delete"
    /\ agents' = agents \ work[r].found
    /\ Rest(r)
    /\ UNCHANGED <<packOf, events>>

WorkFails(r) ==
    /\ work[r].at # "idle" /\ Event
    /\ Rest(r)
    /\ UNCHANGED <<agents, packOf>>

InstallerStep ==
    \E r \in Requests :
        \/ CreateAgent(r) \/ KeepAgent(r) \/ CheckUse(r) \/ DeleteAgents(r) \/ WorkFails(r)
        \/ \E p \in Packs : ReadAgents(r, p) \/ ReadPack(r, p)

-----------------------------------------------------------------------------
(* Agents that a removal has found unused and is about to delete. *)
Going == UNION {work[r].found : r \in {q \in Requests : work[q].at = "delete"}}

(* Whether a workflow changed now names an agent that is gone or going. *)
Unguarded(w) == flow'[w].status # "ARCHIVED" /\ ~ (flow'[w].agents \subseteq agents \ Going)

(* Whether a workflow or an agent that joins goes past the plan's limit, and
   what then explains it: updateWorkflow restores archived workflows without
   counting, and a request may create long after it has counted. *)
OutdatedFlows(r) ==
    saving[r].at = "create" /\ saving'[r].at # "create" /\ saving[r].seen < Cardinality(Active)
OutdatedAgents(r) ==
    work[r].at = "install" /\ work'[r].at # "install" /\ work[r].seen < Cardinality(agents)

Restored(w) == flow[w] # NoFlow
JoinsPast(w) ==
    Cardinality(Active) >= MaxFlows /\ (Restored(w) \/ \E r \in Requests : OutdatedFlows(r))
AgentJoinsPast == Cardinality(agents) >= MaxAgents /\ \E r \in Requests : OutdatedAgents(r)

Next ==
    \/ /\ CatalogStep
       /\ \A r \in Requests : saving'[r] # saving[r] => work[r].at = "idle"
       /\ unguarded' = {w \in Flows : IF flow'[w] = flow[w] THEN w \in unguarded ELSE Unguarded(w)}
       /\ pastFlows' = {w \in Active' : IF w \in Active THEN w \in pastFlows ELSE JoinsPast(w)}
       /\ UNCHANGED <<agents, packOf, work, pastAgents>>
    \/ /\ InstallerStep
       /\ pastAgents' = {a \in agents' : IF a \in agents THEN a \in pastAgents ELSE AgentJoinsPast}
       /\ UNCHANGED <<catalogVars, unguarded, pastFlows>>

Spec == Init /\ [][Next]_vars

-----------------------------------------------------------------------------
(* The plan's limits.  A tenant is past a limit by no more than the workflows
   that were restored with the limit reached, which nothing counts, and the
   workflows and agents whose requests had counted before others created
   theirs: all the rest of what it has is within the limits. *)
PlanLimitsHold ==
    /\ Cardinality(Active \ pastFlows) <= MaxFlows
    /\ Cardinality(agents \ pastAgents) <= MaxAgents

(* A removal never takes an agent from a draft or a published workflow, but
   for one that was saved or restored after the agent had gone or while the
   removal was between its check and its deletion. *)
DependenciesInstalled ==
    \A w \in Active \ unguarded : flow[w].agents \subseteq agents
=============================================================================
