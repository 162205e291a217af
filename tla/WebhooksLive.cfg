\* Two deliveries on two slots, one fault: what fair workers owe them.
SPECIFICATION FairSpec
CONSTANTS
    Jobs = {j1, j2}
    Slots = {s1, s2}
    NoSlot = NoSlot
    NoJob = NoJob
    JobAttempts = 2
    MaxStalled = 1
    Threshold = 2
    MaxEdits = 0
    MaxFaults = 1
PROPERTIES
    EventuallyResolved
CHECK_DEADLOCK FALSE
