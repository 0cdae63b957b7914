SPECIFICATION Spec
CONSTANTS
    t1 = t1
    none = none
    MaxWorkers = 2
    Tasks = {t1}
    None = none
    MaxCalls = 3
    MailboxSize = 1
    MaxFaults = 0
INVARIANTS OneWorkerPerTask
CHECK_DEADLOCK FALSE
