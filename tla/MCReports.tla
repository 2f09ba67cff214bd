------------------------------ MODULE MCReports ------------------------------
(* Values for the constants of Reports: a backtest that has filled orders  *)
(* and an inventory, and a cross-validation, which has no result.          *)
EXTENDS Reports

Backtest ==
    [hash |-> 2, metrics |-> {"sizes"},
     engine |-> {"fills", "fill_times"}]
CrossValidation == [hash |-> 1, metrics |-> {}, engine |-> {}]

MCRuns == {Backtest, CrossValidation}
MCRegistered == {"overview", "inventory"}
MCRetired == {}
MCStuck == {"figs", "manifest", "bundle"}
=============================================================================
