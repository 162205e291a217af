\* One redelivery is enough for a second charge.
SPECIFICATION Spec
CONSTANTS
    Jobs = {e1}
    Executions = {e1}
    Slots = {s1, s2}
    NoSlot = NoSlot
    NoJob = NoJob
    JobAttempts = 2
    MaxStalled = 1
    MaxFaults = 1
SYMMETRY Symmetry
INVARIANTS
    ChargedOnce
CHECK_DEADLOCK FALSE
