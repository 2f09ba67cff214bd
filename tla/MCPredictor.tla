---------------------------- MODULE MCPredictor ----------------------------
(* Values for the constants of Features and Predictor.                     *)
EXTENDS Predictor

F(name, kind, lag, window) ==
    [name |-> name, kind |-> kind, lag |-> lag, window |-> window]

MCBuilt == <<F("mean", "rolling", 1, 2), F("sum", "rolling", 1, 2),
             F("var", "rolling", 2, 1), F("lag", "lag", 2, 1),
             F("hurst", "batch", 1, 2), F("calendar", "identity", 0, 1)>>
MCImportance == [n \in {"sum", "hurst", "other"} |->
                    CASE n = "sum" -> 1 [] n = "hurst" -> 3 [] OTHER -> 2]
MCCorrelated == {{"mean", "sum"}, {"mean", "var"}}
MCParquetColumns == {"label", "hurst", "calendar", "absent"}
MCNonFeature == {"label"}
=============================================================================
