\* Two deliveries on two slots, one update of the endpoint, one fault.
SPECIFICATION Spec
CONSTANTS
    Jobs = {j1, j2}
    Slots = {s1, s2}
    NoSlot = NoSlot
    NoJob = NoJob
    JobAttempts = 2
    MaxStalled = 1
    Threshold = 2
    MaxEdits = 1
    MaxFaults = 1
SYMMETRY Symmetry
INVARIANTS
    TypeOK
    NothingLostQuietly
    OneRepetitionPerFault
    PenaltiesJustified
CHECK_DEADLOCK FALSE
