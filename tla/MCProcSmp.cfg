SPECIFICATION Spec
CONSTANTS
    CPUs = {c0, c1}
    Cpu0 = c0
    NPROC = 2
    MaxPid = 3
    MaxSleep = 1
    KillPids = {1, 2, 3}
    Ticks = Ticks
    None = None
INVARIANTS
    RunsOnOneCpu
    NoLockPanic
    InterruptsRestored
    NoLostWakeup
    IInv
