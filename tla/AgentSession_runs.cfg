SPECIFICATION FairSpec
CONSTANTS
    NoOne = NoOne
    Callers = {user, rpc}
    Prompters = {user}
    Msgs = {m1, m2, m3}
    Bashes = {b1}
    MaxRetries = 1
    MaxRuns = 3
    ManualCompaction = FALSE
    PreflightCompaction = FALSE
    QueueClearing = FALSE
INVARIANTS TypeOK NoMessageLost IdleMeansQuiet ShownIsPending
PROPERTIES BashKeepsCallsTogether
SYMMETRY Symmetry
