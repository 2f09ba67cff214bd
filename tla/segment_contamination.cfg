SPECIFICATION Spec
CONSTANTS
    NaN = NaN
    Torn = Torn
    Built <- MCBuilt
    Importance <- MCImportance
    Correlated <- MCCorrelated
    Dedupe = TRUE
    MaxBars = 3
    EnsembleN = 1
    Members = 1
    ParquetColumns <- MCParquetColumns
    NonFeature <- MCNonFeature
    MaxTrainings = 0
INVARIANT SegmentsApart
CHECK_DEADLOCK FALSE
