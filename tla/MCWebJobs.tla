------------------------------ MODULE MCWebJobs ------------------------------
(* WebJobs for TLC: the bounds are given in the .cfg files.                *)
EXTENDS WebJobs
=============================================================================
