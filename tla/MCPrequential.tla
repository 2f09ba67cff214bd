--------------------------- MODULE MCPrequential ---------------------------
(* Values for the constants of Prequential: every stage may fail.          *)
EXTENDS Prequential

MCFailures == {"feature", "update", "arf"}
=============================================================================
