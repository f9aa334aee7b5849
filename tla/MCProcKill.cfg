SPECIFICATION FairSpec
CONSTANTS
    CPUs = {c0}
    Cpu0 = c0
    NPROC = 3
    MaxPid = 3
    MaxSleep = 0
    KillPids = {2}
    Ticks = Ticks
    None = None
INVARIANTS
    ParentIsLive
PROPERTIES
    KilledExits
