SPECIFICATION Spec
CONSTANTS
    Ids <- MCIds
    Cap = 2
    None = None
    Kinds <- MCKinds
    One = 512
    Seeds <- MCSeeds
    RStarInit = 128
    TauFloor = 290
    TauCeil = 330
    GammaInv = 4
    LambdaInv = 2
    DtauMax = 10
    RMin = 100
    RResume = 300
    TMax = 1
    MaxHoldBars = 2
    Probabilities <- MCProbabilities
    Warmup = 1
    MaxBars = 5
INVARIANTS
    PauseFollowsLabels
    SingleShot
    HoldAgeBounded
PROPERTIES
    TauMovesInRange
CHECK_DEADLOCK FALSE
