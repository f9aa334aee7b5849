SPECIFICATION WaitSpec
CONSTANTS
    Procs = {p1, p2, p3}
    Blocks = {b1, b2, b3}
    Vals = {v0, v1}
    InitVal = v0
    MAXOPBLOCKS = 2
    LOGSIZE = 4
    nlog = 4
    OpBlocks = 2
    None = None
    p1 = p1
    p2 = p2
    p3 = p3
    b1 = b1
    b2 = b2
    b3 = b3
    v1 = v1
    u1 = u1
    u2 = u2
    u3 = u3
    Users = {u1, u2, u3}
    Sharing <- MCSharing
    PIPESIZE = 2
    Wrap = 4
    Msgs <- MCMsgs
    Counts = {1, 2}
    InitByte = 0
INVARIANTS
    LogInv
    PipeInv
PROPERTIES
    AtomicCommit
    BeginProgress
    Fifo
    CallsEnd
