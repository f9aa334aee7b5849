SPECIFICATION FairSpec
CONSTANTS
    CPUs = {c0}
    Cpu0 = c0
    NPROC = 2
    MaxPid = 3
    MaxSleep = 1
    KillPids = {2, 3}
    Ticks = Ticks
    None = None
PROPERTIES
    RunnableRuns
    CallsReturn
