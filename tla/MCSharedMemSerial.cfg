SPECIFICATION Spec
CONSTANTS
    Procs = {p1, p2}
    initproc = p1
    Keys = {k1, k2}
    Counts = {1, 2}
    Frames = {f1, f2, f3, f4}
    KERNBASE = 4
    MaxCli = 1
    MaxPreempt = 0
    None = None
SYMMETRY Interchangeable
CHECK_DEADLOCK FALSE
INVARIANTS
    PagesAccounted
    SameKeySamePages
    RefCountExact
    RemapOnlyHeap
