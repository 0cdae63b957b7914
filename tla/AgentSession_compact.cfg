SPECIFICATION Spec
CONSTANTS
    NoOne = NoOne
    Callers = {user, rpc}
    Prompters = {user}
    Msgs = {m1, m2}
    Bashes = {b1}
    MaxRetries = 1
    MaxRuns = 2
    ManualCompaction = TRUE
    PreflightCompaction = FALSE
    QueueClearing = FALSE
INVARIANT NoMessageLost
