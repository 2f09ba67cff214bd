SPECIFICATION ProtocolSpec
CONSTANTS
    NaN = NaN
    Bins = 3
    Scale = 6
    Dispersed = 1000
    BarMinutes = 2
    NRows = 13
    NFolds = 3
    NTestFolds = 2
    Returns <- MCReturns
    Trades <- MCTrades
    Unit = 3
    Minutes = 4
    MaxBars = 4
    Window = 2
    MinPeriods = 4
    MaxChunks = 4
    MinCiFolds = 3
    MinNTrades = 4
    PredictsEffect = TRUE
    MinGap = 1
INVARIANTS
    PredictionScores
    TradeScores
    OverfitScore
    TestRowsReplayed
CHECK_DEADLOCK FALSE
