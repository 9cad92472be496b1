SPECIFICATION Spec
CONSTANTS
    Clients = {"mqtt"}
    ServerCount = 2
    StaticIp = FALSE
    TicksPerSec = 2
    BootTime = 21
    MaxClock = 5
    MaxDelay = 3
    MaxDrops = 2
    MaxSyncs = 2
PROPERTY
    LinkIsMadeAgain
CHECK_DEADLOCK FALSE
