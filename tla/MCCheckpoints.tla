--------------------------- MODULE MCCheckpoints ---------------------------
(* Runs of three bars with at most one decision in each, a checkpoint      *)
(* after every decision, and two processes on the directory in turn.       *)
EXTENDS Checkpoints
=============================================================================
