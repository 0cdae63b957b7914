SPECIFICATION Spec
CONSTANTS
    MaxEntries = 5
    MaxForks = 1
    MaxFaults = 0
    MaxLabels = 1
    MaxMoves = 1
    MovesWhileCompacting = FALSE
INVARIANTS NothingForgotten
CHECK_DEADLOCK FALSE
