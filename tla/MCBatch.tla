------------------------------- MODULE MCBatch -------------------------------
(* Batch for TLC: the bounds are given in the .cfg files.                  *)
EXTENDS Batch
=============================================================================
