SPECIFICATION Spec
CONSTANTS
    Clients = {"mqtt"}
    ServerCount = 2
    StaticIp = FALSE
    TicksPerSec = 2
    BootTime = 21
    MaxClock = 3
    MaxDelay = 2
    MaxDrops = 1
    MaxSyncs = 1
INVARIANTS
    AsleepIsRegistered
    TimestampsTrue
PROPERTIES
    EveryWaitEnds
    TimeIsSet
CHECK_DEADLOCK FALSE
