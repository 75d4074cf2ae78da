SPECIFICATION Spec
CONSTANTS
    MaxPid = 3
    PoolSizes = {13}
    MonitorCount = 2
    ExitStatus = {0}
    PreemptHandoff = TRUE
    Null = Null
    Garbage = Garbage
INVARIANTS
    WaitReturnsStatus
CHECK_DEADLOCK FALSE
