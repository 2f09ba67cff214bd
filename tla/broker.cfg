SPECIFICATION Spec
CONSTANTS
    M = 2
    L = 1
    InventoryCap = 2
    NoStop = NoStop
    Unset = Unset
    StopLossLog = 2
    TieBreak = "probabilistic_hl_bridge"
    CostBase = 1
    CostSlip = 0
    DefaultTp = 2
    FullSize = 2
    MaxHoldBars = 1
    CloseLag = 2
    Minutes <- MCMinutes
    OpenOrders <- MCOpenOrders
    Stops <- MCStops
    Fractions <- MCFractions
    MaxBars = 3
    ActionBars = 2
    MaxPositions = 3
    MaxScaleIns = 1
INVARIANTS
    TypeOK
    InventoryBound
    LedgerAgreesWithPortfolio
    RealizedConserved
    SweepFollowsTakeProfit
    HighWaterHolds
    SurvivorsUntouched
    OwnBarrierAfterEntry
PROPERTIES
    ClosedIsFinal
    ImplementsBook
CHECK_DEADLOCK FALSE
