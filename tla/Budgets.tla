------------------------------ MODULE Budgets ------------------------------
(***************************************************************************)
(* What a tenant's agents may spend: the budget row of one agent, which    *)
(* the worker checks before a plan runs and charges after it and the API   *)
(* charges when a task is submitted, and the monthly quota that AGENT steps *)
(* of workflows count against.                                             *)
(*                                                                         *)
(* A charge reads the row and writes back what it read plus the cost, in a *)
(* transaction that holds no lock in between; the quota is read and then   *)
(* incremented, two calls.  Amounts are whole cents, so that rounding them *)
(* changes nothing.                                                        *)
(***************************************************************************)
EXTENDS Naturals, FiniteSets, Sequences

CONSTANTS
    Payers,       \* plans, submissions and steps that spend at a time
    Costs, Limits,
    DefaultLimit,
    QuotaLimit,
    MaxSpending   \* bound: payments begun, limits set, months, failures

ASSUME BudgetAssumption ==
    /\ Costs \subseteq Nat /\ Limits \subseteq Nat \ {0} /\ DefaultLimit \in Limits
    /\ QuotaLimit \in Nat /\ MaxSpending \in Nat

VARIABLES
    budget,      \* the AgentBudget row
    quota,       \* the counts of the QuotaUsage rows, one per month
    payer,       \* payer[p]: where payment p is and what it has read
    spent,       \* the sum of the CONSUME events of the budget
    together,    \* two charging transactions were open at the same time
    limitSet,    \* an administrator has set the limit
    spendings    \* events so far

budgetVars == <<budget, quota, payer, spent, together, limitSet, spendings>>

Alerts == {"none", "WARN_80", "BLOCK_100"}
BudgetRows == [consumed : Nat, limit : Limits, alert : Alerts]
NewRow == [consumed |-> 0, limit |-> DefaultLimit, alert |-> "none"]
PayerRows  == [at : {"idle", "run", "block", "charge", "submit", "step"}, cost : Costs \cup {0},
               checked : BudgetRows, read : BudgetRows, month : Nat, seen : Nat]
Waiting == [at |-> "idle", cost |-> 0, checked |-> NewRow, read |-> NewRow, month |-> 0, seen |-> 0]

BudgetTypeOK ==
    /\ budget \in BudgetRows
    /\ quota \in Seq(Nat)
    /\ payer \in [Payers -> PayerRows]
    /\ spent \in Nat /\ together \in BOOLEAN /\ limitSet \in BOOLEAN
    /\ spendings \in 0 .. MaxSpending

BudgetInit(past) ==
    /\ budget = NewRow
    /\ quota \in {<<>>, <<0>>}
    /\ payer = [p \in Payers |-> Waiting]
    /\ spent = 0 /\ together = FALSE /\ limitSet = FALSE
    /\ spendings = past

Spending == spendings < MaxSpending /\ spendings' = spendings + 1
Open     == {p \in Payers : payer[p].at \in {"charge", "submit"}}

Near(consumed, limit) == 10 * consumed >= 8 * limit
Level(consumed, limit) == IF consumed >= limit THEN "BLOCK_100" ELSE "WARN_80"

-----------------------------------------------------------------------------
(* Mutant of Preflight: the cost of the plan is not projected. *)
PreflightUnprojected(p, cost) ==
    /\ payer[p].at = "idle" /\ Spending
    /\ payer' = [payer EXCEPT ![p] = [Waiting EXCEPT
                     !.at = IF budget.consumed <= budget.limit THEN "run" ELSE "block",
                     !.cost = cost, !.checked = budget]]
    /\ UNCHANGED <<budget, quota, spent, together, limitSet>>

(* ensureBudgetHeadroom. *)
Preflight(p, cost) ==
    /\ payer[p].at = "idle" /\ Spending
    /\ payer' = [payer EXCEPT ![p] = [Waiting EXCEPT
                     !.at = IF budget.consumed + cost <= budget.limit THEN "run" ELSE "block",
                     !.cost = cost, !.checked = budget]]
    /\ UNCHANGED <<budget, quota, spent, together, limitSet>>

BlockRun(p) ==
    /\ payer[p].at = "block"
    /\ budget' = [budget EXCEPT !.alert = "BLOCK_100"]
    /\ payer' = [payer EXCEPT ![p] = Waiting]
    /\ UNCHANGED <<quota, spent, together, limitSet, spendings>>

(* Mutant of ReadForCharge: the charge starts from what the check read. *)
ReadForChargeAtCheck(p) ==
    /\ payer[p].at = "run"
    /\ payer' = [payer EXCEPT ![p] = [@ EXCEPT !.at = "charge", !.read = payer[p].checked]]
    /\ together' = (together \/ Open # {})
    /\ UNCHANGED <<budget, quota, spent, limitSet, spendings>>

(* consumeBudget of the worker, once the plan has run. *)
ReadForCharge(p) ==
    /\ payer[p].at = "run"
    /\ payer' = [payer EXCEPT ![p] = [@ EXCEPT !.at = "charge", !.read = budget]]
    /\ together' = (together \/ Open # {})
    /\ UNCHANGED <<budget, quota, spent, limitSet, spendings>>

Charge(p) ==
    /\ payer[p].at = "charge"
    /\ LET row == payer[p].read
           consumed == row.consumed + payer[p].cost
       IN budget' = [budget EXCEPT !.consumed = consumed,
                                   !.alert = IF Near(consumed, row.limit) THEN Level(consumed, row.limit)
                                             ELSE row.alert]
    /\ spent' = spent + payer[p].cost
    /\ payer' = [payer EXCEPT ![p] = Waiting]
    /\ UNCHANGED <<quota, together, limitSet, spendings>>

(* BudgetService.consumeBudget, when a task is submitted. *)
ReadForTask(p, cost) ==
    /\ payer[p].at = "idle" /\ Spending
    /\ payer' = [payer EXCEPT ![p] = [Waiting EXCEPT
                     !.at = "submit", !.cost = cost, !.checked = budget, !.read = budget]]
    /\ together' = (together \/ Open # {})
    /\ UNCHANGED <<budget, quota, spent, limitSet>>

Exceeds(p) == payer[p].read.consumed + payer[p].cost > payer[p].read.limit

(* The alert and its event are written and rolled back: the call throws
   inside its transaction. *)
RefuseTask(p) ==
    /\ payer[p].at = "submit" /\ Exceeds(p)
    /\ payer' = [payer EXCEPT ![p] = Waiting]
    /\ UNCHANGED <<budget, quota, spent, together, limitSet, spendings>>

(* The row as the update returned it decides on the alert. *)
ChargeTask(p) ==
    /\ payer[p].at = "submit" /\ ~Exceeds(p)
    /\ LET consumed == payer[p].read.consumed + payer[p].cost
       IN budget' = [budget EXCEPT !.consumed = consumed,
                                   !.alert = IF Near(consumed, budget.limit) /\ @ # "WARN_80"
                                             THEN Level(consumed, budget.limit) ELSE @]
    /\ spent' = spent + payer[p].cost
    /\ payer' = [payer EXCEPT ![p] = Waiting]
    /\ UNCHANGED <<quota, together, limitSet, spendings>>

SetLimit(limit) ==
    /\ Spending
    /\ budget' = [budget EXCEPT !.limit = limit]
    /\ limitSet' = TRUE
    /\ UNCHANGED <<quota, payer, spent, together>>

-----------------------------------------------------------------------------
(* consumeSharedAgentBudget: the newest row, and nothing if there is none. *)
ReadQuota(p) ==
    /\ payer[p].at = "idle" /\ Spending
    /\ quota # <<>> /\ quota[Len(quota)] < QuotaLimit
    /\ payer' = [payer EXCEPT ![p] = [Waiting EXCEPT
                     !.at = "step", !.month = Len(quota), !.seen = quota[Len(quota)]]]
    /\ UNCHANGED <<budget, quota, spent, together, limitSet>>

CountStep(p) ==
    /\ payer[p].at = "step"
    /\ quota' = [quota EXCEPT ![payer[p].month] = @ + 1]
    /\ payer' = [payer EXCEPT ![p] = Waiting]
    /\ UNCHANGED <<budget, spent, together, limitSet, spendings>>

(* quotaResetJob at the first midnight of a month. *)
NewMonth ==
    /\ Spending
    /\ quota' = Append(quota, 0)
    /\ UNCHANGED <<budget, payer, spent, together, limitSet>>

(* A plan that fails, a call that throws or a process that dies. *)
PaymentFails(p) ==
    /\ payer[p].at # "idle" /\ Spending
    /\ payer' = [payer EXCEPT ![p] = Waiting]
    /\ UNCHANGED <<budget, quota, spent, together, limitSet>>

BudgetNext ==
    \/ \E p \in Payers :
          \/ BlockRun(p) \/ ReadForCharge(p) \/ Charge(p) \/ RefuseTask(p) \/ ChargeTask(p)
          \/ ReadQuota(p) \/ CountStep(p) \/ PaymentFails(p)
          \/ \E cost \in Costs : Preflight(p, cost) \/ ReadForTask(p, cost)
    \/ \E limit \in Limits : SetLimit(limit)
    \/ NewMonth

BudgetSpec == BudgetInit(0) /\ [][BudgetNext]_budgetVars

-----------------------------------------------------------------------------
(* The row agrees with its events: it never counts more than they add up to,
   counts less only once two charges were in progress at the same time, and
   while its limit was never changed it has an alert when it is near it. *)
BudgetBooks ==
    /\ budget.consumed <= spent
    /\ ~together => budget.consumed = spent
    /\ ~limitSet /\ Near(budget.consumed, budget.limit) => budget.alert # "none"

(* Whoever takes the budget past its limit was let through by a consumption
   or a limit that had changed when it charged; whoever takes a month's count
   past the quota had read a smaller one. *)
OutdatedCheck(p) ==
    /\ payer[p].at \in {"charge", "submit"} /\ payer'[p].at = "idle"
    /\ \/ payer[p].checked.consumed # payer[p].read.consumed
       \/ payer[p].checked.limit # budget.limit
OutdatedCount(p, m) == payer[p].at = "step" /\ payer[p].month = m /\ payer[p].seen < quota[m]

OverspendExplained ==
    /\ budget'.consumed # budget.consumed /\ budget'.consumed > budget'.limit =>
           \E p \in Payers : OutdatedCheck(p)
    /\ \A m \in 1 .. Len(quota) : quota'[m] > quota[m] =>
           quota[m] < QuotaLimit \/ \E p \in Payers : OutdatedCount(p, m)
OverspendNeedsOverlap == [][OverspendExplained]_budgetVars
=============================================================================
