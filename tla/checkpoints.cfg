SPECIFICATION Spec
CONSTANTS
    Every = 1
    KeepLast = 1
    MaxManual = 1
    None = None
    MaxBars = 3
    MaxPerBar = 1
    MaxLives = 2
INVARIANTS
    LoadIsOneMoment
    SnapshotKept
    ControllerKeepsItsPlace
CHECK_DEADLOCK FALSE
