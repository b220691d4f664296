----------------------------- MODULE MCWorkerApi -----------------------------
(* WorkerApi for TLC: two jobs, of which the urgent one is beyond the only *)
(* worker that polls.                                                      *)
EXTENDS WorkerApi, TLC

CONSTANTS j1, j2, w1

MCPriority == (j1 :> 1) @@ (j2 :> 5)
MCNeeds    == (j1 :> {"nbd"}) @@ (j2 :> {})
MCCaps     == (w1 :> {})
=============================================================================
