SPECIFICATION Spec
CONSTANTS
    Ids <- MCIds
    Cap = 3
    None = None
    InitialPolicies <- MCPolicies
    Swappable <- MCSwappable
    MaxOpen = 2
    MaxPerMinute = 2
    BarMinutes = 1
    Warmup = 0
    Every = 1
    MaxBars = 2
    MaxActions = 2
    MaxCommands = 1
PROPERTY KillBlocksOrders
CHECK_DEADLOCK FALSE
