\* Two events on two requests, the two cached copies, two faults.
SPECIFICATION FairSpec
CONSTANTS
    e1 = e1
    e2 = e2
    Events <- TwoEvents
    Histories <- PairsOfEvents
    Handlers = {h1, h2}
    Caches = {worker}
    NoEvent = NoEvent
    Free = Free
    Orphan = Orphan
    MaxFaults = 2
INVARIANTS
    TypeOK
    AckedWasApplied
    RepeatsNeedALapse
    AckedStaysProcessed
    RefusalsExplained
PROPERTIES
    EventuallyReconciled
    StaleVerdictsExpire
CHECK_DEADLOCK FALSE
