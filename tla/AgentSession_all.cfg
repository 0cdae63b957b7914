SPECIFICATION FairSpec
CONSTANTS
    NoOne = NoOne
    Callers = {user, rpc}
    Prompters = {user, rpc}
    Msgs = {m1, m2}
    Bashes = {b1}
    MaxRetries = 1
    MaxRuns = 2
    ManualCompaction = TRUE
    PreflightCompaction = TRUE
    QueueClearing = TRUE
INVARIANTS NoBashLeftBehind EpochNeverStale
PROPERTY CallsReturn
