SPECIFICATION OwnSpec
CONSTANTS
    Procs = {p1, p2}
    init = p1
    Frames = {1, 2, 3, 4, 5, 6, 7, 8, 9, 10, 11, 12}
    PGSIZE = 2
    KERNBASE = 8
    NPTENTRIES = 2
    KPT = 1
    Programs <- MCPrograms
    Args = {1, 3}
    Grows <- MCGrows
    Slots = {1, 2}
    initproc = 1
    MaxTraps = 3
CHECK_DEADLOCK FALSE
INVARIANTS
    FramesInv
    MemoryIntact
    CountsInv
