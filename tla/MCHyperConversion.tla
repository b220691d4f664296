-------------------------- MODULE MCHyperConversion --------------------------
(* HyperConversion for TLC: the bounds are given in the .cfg files.        *)
EXTENDS HyperConversion
=============================================================================
