------------------------- MODULE MCAdaptiveStrategy -------------------------
(* Values for the constants of AdaptiveStrategy.  lambda_decay is 1/2, so  *)
(* that a few labels move the averages across the pause's two thresholds.  *)
EXTENDS AdaptiveStrategy

MCKinds == {"threshold_gate", "ev_calibrated_size", "composite_adaptive"}
MCIds == 1..3
MCSeeds == {300, 320, 340}
MCProbabilities == {0, 300, 310, 512}
=============================================================================
