SPECIFICATION FairSpec
CONSTANTS
    Procs = {p1, p2}
    Blocks = {b1, b2, b3}
    NBUF = 2
    MaxPinned = 1
    Vals = {0, 1}
    InitVal = 0
    None = None
CHECK_DEADLOCK FALSE
INVARIANTS
    CacheInv
    PanicOnlyWhenFull
PROPERTIES
    Served
