\* Two steps with retries, a failure branch and two faults.
SPECIFICATION Spec
CONSTANTS
    k0 = k0
    k1 = k1
    k2 = k2
    Keys <- PairKeys
    Trigger = k0
    Transitions <- PairTransitions
    OnError <- ContinueAtFirst
    Execs = {e1}
    Workers = {w1, w2}
    NoWorker = NoWorker
    NoJob = NoJob
    MaxAttempts = 2
    JobAttempts = 1
    MaxStalled = 1
    MaxDepth = 2
    MaxStamps = 3
    MaxFaults = 2
SYMMETRY SlotSymmetry
INVARIANTS
    AttemptsLinear
    NoLostFollowUp
PROPERTIES
    ImplementsFlow
CHECK_DEADLOCK FALSE
