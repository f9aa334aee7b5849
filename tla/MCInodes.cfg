SPECIFICATION MCSpec
CONSTANTS
    Procs = {p1, p2}
    NINODES = 3
    NINODE = 3
    NFILE = 1
    NOFILE = 2
    NoProc = NoProc
    p1 = p1
    p2 = p2
    MaxNlink = 2
    Calls <- Workload
    Ops <- Simple
CHECK_DEADLOCK FALSE
INVARIANTS
    CacheExact
    LiveInodesAllocated
