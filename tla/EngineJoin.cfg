\* One execution of a canvas that forks and joins, two slots, one fault.
SPECIFICATION Spec
CONSTANTS
    k0 = k0
    k1 = k1
    k2 = k2
    Keys <- JoinKeys
    Trigger = k0
    Transitions <- JoinTransitions
    OnError <- StopOnError
    Execs = {e1}
    Workers = {w1, w2}
    NoWorker = NoWorker
    NoJob = NoJob
    MaxAttempts = 1
    JobAttempts = 2
    MaxStalled = 1
    MaxDepth = 2
    MaxStamps = 3
    MaxFaults = 1
SYMMETRY SlotSymmetry
INVARIANTS
    TypeOK
    NoDuplicateFanOut
    DepthNeverOvercounts
    NoLostFollowUp
PROPERTIES
    ImplementsFlow
CHECK_DEADLOCK FALSE
