SPECIFICATION Spec
CONSTANTS
    M = 2
    L = 1
    InventoryCap = 2
    NoStop = NoStop
    Unset = Unset
    StopLossLog = NoStop
    TieBreak = "pessimistic_sl_first"
    CostBase = 1
    CostSlip = 0
    DefaultTp = 2
    FullSize = 2
    MaxHoldBars = 0
    CloseLag = 1
    Minutes <- MCMinutes
    OpenOrders <- MCOpenOrders
    Stops <- MCStops
    Fractions <- MCFractions
    MaxBars = 2
    ActionBars = 2
    MaxPositions = 3
    MaxScaleIns = 1
INVARIANT ExitAfterEntry
CHECK_DEADLOCK FALSE
