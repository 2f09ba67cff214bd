SPECIFICATION Spec
CONSTANTS
    M = 2
    MaxBuffer = 4
    Failures <- MCFailures
    MaxRows = 9
    None = None
INVARIANTS
    BarsAreContiguous
    LabelIsNextBar
    PredictThenLearn
    ControllerInStep
CHECK_DEADLOCK FALSE
