SPECIFICATION FairSpec
CONSTANTS
    MaxSpawns = 2
    MaxLive = 1
    MaxRequests = 2
    MaxPis = 2
    MaxFaults = 1
    NotFoundThreshold = 1

PROPERTIES ShutdownExits
CHECK_DEADLOCK FALSE
