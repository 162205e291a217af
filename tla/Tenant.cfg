SPECIFICATION MCSpec
CONSTANTS
    n1 = n1
    n2 = n2
    n3 = n3
    n4 = n4
    NodeIds = {n1, n2, n3, n4}
    Graphs <- SmallGraphs
    Flows = {w1, w2}
    NoFlow = NoFlow
    Patterns = {p1, p2}
    NoPattern = NoPattern
    Canvases <- OneAgent
    Requests = {r1, r2}
    MaxFlows = 1
    Keep = Keep
    Packs = {k1, k2}
    NoPack = NoPack
    MaxAgents = 1
    MaxIds = 2
    MaxEvents = 4
    Payers = {y1, y2}
    Costs = {1, 4}
    Limits = {3, 5}
    DefaultLimit = 5
    QuotaLimit = 1
    MaxSpending = 4
SYMMETRY Symmetry
INVARIANTS
    MCTypeOK
    ValidatorIsExact
    CronIsScheduled
    DependenciesInstalled
    PlanLimitsHold
    BudgetBooks
PROPERTIES
    OverspendNeedsOverlap
CHECK_DEADLOCK FALSE
