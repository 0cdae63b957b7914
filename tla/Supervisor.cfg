SPECIFICATION FairSpec
CONSTANTS
    MaxSpawns = 2
    MaxLive = 1
    MaxRequests = 2
    MaxPis = 2
    MaxFaults = 1
    NotFoundThreshold = 1
INVARIANTS TypeOK NoOrphan NoWaitOnDead FileAgrees NoGhost 
PROPERTIES Answered
CHECK_DEADLOCK FALSE
