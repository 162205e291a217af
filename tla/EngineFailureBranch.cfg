\* The canvas as the API stores it: a failure branch, and onError left at its default.
SPECIFICATION Spec
CONSTANTS
    k0 = k0
    k1 = k1
    k2 = k2
    Keys <- PairKeys
    Trigger = k0
    Transitions <- PairTransitions
    OnError <- StopOnError
    Execs = {e1}
    Workers = {w1}
    NoWorker = NoWorker
    NoJob = NoJob
    MaxAttempts = 2
    JobAttempts = 2
    MaxStalled = 1
    MaxDepth = 2
    MaxStamps = 3
    MaxFaults = 0
INVARIANTS
    FailureBranchTaken
CHECK_DEADLOCK FALSE
