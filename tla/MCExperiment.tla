---------------------------- MODULE MCExperiment ----------------------------
(* The instance of Experiment that is checked has no constant of its own.  *)
EXTENDS Experiment
=============================================================================
