SPECIFICATION Spec
CONSTANTS
    main = main  idle_t = idle_t  a = a  b = b  c = c
    l1 = l1  l2 = l2  s1 = s1  c1 = c1  Null = Null
    Thread <- MCThread4
    Main = main
    Idle = idle_t
    PRI_MIN = 0  PRI_MAX = 2  PRI_DEFAULT = 1
    TIME_SLICE = 1
    MaxSleep = 0
    Calls <- PrimitiveCalls
    Lock = {l1}
    Semaphore = {s1}
    IrqSemaphore = {s1}
    Condition = {c1}
    CondLock <- MCCondLock
    LOCK_PRIORITY_LIMIT = 8
    MaxValue = 2
SYMMETRY MCSymmetry4
INVARIANTS
    SignalNotLost
    OneOwner
    NoLostWakeup
    DonationReturned
CHECK_DEADLOCK FALSE
