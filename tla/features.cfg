SPECIFICATION Spec
CONSTANTS
    NaN = NaN
    Torn = Torn
    Built <- MCBuilt
    Importance <- MCImportance
    Correlated <- MCCorrelated
    Dedupe = TRUE
    MaxBars = 4
    EnsembleN = 2
    Members = 2
    ParquetColumns <- MCParquetColumns
    NonFeature <- MCNonFeature
    MaxTrainings = 1
INVARIANTS
    FeaturesAsDefined
    EnsembleWhole
CHECK_DEADLOCK FALSE
