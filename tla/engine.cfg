SPECIFICATION Spec
CONSTANTS
    Ids <- MCIds
    Cap = 3
    None = None
    InitialPolicies <- MCPolicies
    Swappable <- MCSwappable
    MaxOpen = 1
    MaxPerMinute = 3
    BarMinutes = 1
    Warmup = 1
    Every = 2
    MaxBars = 3
    MaxActions = 2
    MaxCommands = 2
INVARIANTS
    OvershootBounded
    RateBound
    CheckpointsInTime
    OperatorHeard
PROPERTIES
    KillBypassNeedsMaxLoss
    Terminates
CHECK_DEADLOCK FALSE
