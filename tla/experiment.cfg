SPECIFICATION Spec
CONSTANTS
    M = 3
    LastMinute = 17
    MaxMissing = 2
    StabilityWindow = 4
    MinWarmupBars = 3
    MaxWarmupBars = 13
    MaxPairs = 14
    MinRows = 2
INVARIANTS
    CalibrationPrecedesTrading
    StopsAtFirstStable
CHECK_DEADLOCK FALSE
