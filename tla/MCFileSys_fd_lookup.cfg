SPECIFICATION Spec
CONSTANTS
    p1 = p1  p2 = p2  prog = prog  doc = doc  bad = bad  Null = Null
    Proc = {p1, p2}
    Name = {prog, doc}
    BadName = bad
    Program = prog
    SectorCount = 7
    BLOCK_SECTOR_SIZE = 2
    DirSlots = 2
    MaxFiles = 3
    CAPACITY = 1
    ReadSizes = {2}
    Sizes <- MCSizes
    Buffers <- MCBuffers
    Positions <- MCPositions
VIEW MCView
SYMMETRY MCSymmetry
INVARIANTS
    LookupFindsDescriptor
