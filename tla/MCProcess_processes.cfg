SPECIFICATION FairSpec
CONSTANTS
    MaxPid = 3
    PoolSizes = {7, 8, 13}
    MonitorCount = 2
    ExitStatus = {0}
    PreemptHandoff = FALSE
    Null = Null
    Garbage = Garbage
INVARIANTS
    PagesOwned
    ReportsToOwnMonitor
    WaitReturnsStatus
PROPERTIES
    CallsReturn
CHECK_DEADLOCK FALSE
