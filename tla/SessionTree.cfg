SPECIFICATION Spec
CONSTANTS
    MaxEntries = 6
    MaxForks = 1
    MaxFaults = 1
    MaxLabels = 1
    MaxMoves = 1
    MovesWhileCompacting = TRUE
INVARIANTS TypeOK DamageBounded CutOnlyByDamage 
PROPERTIES RestartKeepsLeaf LabelsSurvive
CHECK_DEADLOCK FALSE
