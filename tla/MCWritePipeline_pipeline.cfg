SPECIFICATION Spec
CONSTANTS
    Account = {a, b}
    Unauthenticated = nobody
    FirstUser = {a}
    kMaxPendingWrites = 2
    MaxWrites = 3
    MayBreak = {2}
    MaxSwitches = 2
    MaxFaults = 1
INVARIANTS
    TypeOK
    PipelineIsQueueHead
    AssertionsHold
    SentByOwner
    OwnQueue
    LastWriteStored
PROPERTIES
    ImplementsContract
    Drained
CHECK_DEADLOCK FALSE
