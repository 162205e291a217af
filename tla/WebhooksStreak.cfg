\* Two deliveries that fail at the same time, nothing else.
SPECIFICATION Spec
CONSTANTS
    Jobs = {j1, j2}
    Slots = {s1, s2}
    NoSlot = NoSlot
    NoJob = NoJob
    JobAttempts = 2
    MaxStalled = 1
    Threshold = 2
    MaxEdits = 0
    MaxFaults = 0
INVARIANTS
    StreakDisables
CHECK_DEADLOCK FALSE
