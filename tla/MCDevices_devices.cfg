SPECIFICATION DevicesSpec
CONSTANTS
    t1 = t1  t2 = t2  t3 = t3  t4 = t4
    Null = Null
    None = None
    Reader = {t1, t2}
    Writer = {t3, t4}
    INTQ_BUFSIZE = 2
    LineLength = 2
    MaxLines = 2
    MaxIrqBytes = 1
    MaxInput = 2
    Thread = {t1, t2}
    Size = 2
    Device <- MCDevice
    disk <- MCDisk
    start <- MCStart
    size <- MCSize
    type <- MCType
    Value = {0, 1}
    DiskFails = TRUE
INVARIANTS
    
    TransfersMatch
    CompletionsBalanced

    
CHECK_DEADLOCK FALSE
