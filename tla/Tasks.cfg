\* One execution of any kind, two slots, two attempts, three faults.
SPECIFICATION FairSpec
CONSTANTS
    Jobs = {e1}
    Executions = {e1}
    Slots = {s1, s2}
    NoSlot = NoSlot
    NoJob = NoJob
    JobAttempts = 2
    MaxStalled = 1
    MaxFaults = 3
INVARIANTS
    TypeOK
    OneRunnerPerLease
    NothingCompletesSilently
    RowAgreesWithJob
    ChargesPaidFor
    OrphansNeedAFault
PROPERTIES
    EventuallySettled
CHECK_DEADLOCK FALSE
