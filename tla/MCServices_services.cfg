SPECIFICATION ServicesSpec
CONSTANTS
    t1 = t1  t2 = t2
    Freed = Freed  Null = Null
    Proc = {t1, t2}
    Programs <- MCPrograms
    PGSIZE = 2
    PHYS_BASE = 12
    TableSize = 3
    KernelPages = 5
    UserPages = 5
INVARIANTS
    HeapSound
    FramesOwned
    
    ContainersMatch
    
    AccessesChecked
    
    
CHECK_DEADLOCK FALSE
