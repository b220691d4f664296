------------------------------ MODULE MCMigration ------------------------------
(* Migration for TLC: the bounds are given in the .cfg files.              *)
EXTENDS Migration, TLC

\* Processes are interchangeable.
Symmetry == Permutations(Procs)
=============================================================================
