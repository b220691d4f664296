------------------------------- MODULE MCDaemon -------------------------------
(* Daemon for TLC: the bounds are given in the .cfg files.                 *)
EXTENDS Daemon
=============================================================================
