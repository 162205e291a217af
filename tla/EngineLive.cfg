\* One execution, two slots, retries, one fault: what fair workers owe it.
SPECIFICATION FairSpec
CONSTANTS
    k0 = k0
    k1 = k1
    k2 = k2
    Keys <- PairKeys
    Trigger = k0
    Transitions <- PairTransitions
    OnError <- ContinueAtFirst
    Execs = {e1}
    Workers = {w1, w2}
    NoWorker = NoWorker
    NoJob = NoJob
    MaxAttempts = 2
    JobAttempts = 1
    MaxStalled = 1
    MaxDepth = 2
    MaxStamps = 2
    MaxFaults = 1
PROPERTIES
    EventuallyClosed
CHECK_DEADLOCK FALSE
