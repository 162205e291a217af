------------------------------ MODULE TenantMC ------------------------------
(* An instance for TLC of what one tenant keeps: its workflows and agents
   (PackInstaller), its budgets (Budgets), and the canvases that are
   validated (DagValidator).  The three share no state, so that a behaviour
   need only be about one of them: the others have no event left, or the
   empty graph was all there was to validate. *)
EXTENDS PackInstaller, Budgets, DagValidator, TLC

CONSTANTS n1, n2, n3, n4

(* A workflow that names no agent has none to lose. *)
OneAgent == {{i} : i \in 1 .. MaxIds}
Symmetry == Permutations(Requests) \cup Permutations(Flows) \cup Permutations(Patterns)
               \cup Permutations(Packs)

(* Every list of up to four edges on up to three nodes, one of which may be
   missing, repeated or unknown; every set of up to five edges on four. *)
SmallGraphs ==
    ({<<>>, <<n1>>, <<n1, n1>>} \X SeqOf({n1, n2} \X {n1, n2}, 2))
    \cup ({<<n1, n2>>, <<n1, n2, n3>>} \X SeqOf({n1, n2, n3} \X {n1, n2, n3}, 4))
    \cup ({<<n1, n2, n3, n4>>} \X {SetToSeq(A) : A \in {B \in SUBSET (NodeIds \X NodeIds) :
                                   Cardinality(B) <= 5 /\ \A e \in B : e[1] # e[2]}})

MCInit ==
    /\ ValidatorInit
    /\ \/ Init /\ BudgetInit(MaxSpending) /\ graph = <<<<>>, <<>>>>
       \/ InitWith(MaxEvents) /\ BudgetInit(0) /\ graph = <<<<>>, <<>>>>
       \/ InitWith(MaxEvents) /\ BudgetInit(MaxSpending)

MCNext ==
    \/ ValidatorNext /\ UNCHANGED <<vars, budgetVars>>
    \/ /\ stage \in {"done", "thrown"} /\ UNCHANGED validatorVars
       /\ \/ Next /\ UNCHANGED budgetVars
          \/ BudgetNext /\ UNCHANGED vars

MCSpec == MCInit /\ [][MCNext]_<<vars, budgetVars, validatorVars>>

MCTypeOK == TypeOK /\ BudgetTypeOK /\ ValidatorTypeOK
=============================================================================
