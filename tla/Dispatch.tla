------------------------------ MODULE Dispatch ------------------------------
(***************************************************************************)
(* What the worker job queue promises its clients, whatever the number of  *)
(* server processes and however often they are restarted: a job is taken   *)
(* in at most once, and handed to a worker at most once and only while it  *)
(* is open.  Open jobs may be dropped (cancelled, or lost in a crash), but *)
(* a job that was dropped or handed out never comes back.                  *)
(***************************************************************************)
EXTENDS Naturals

CONSTANT Jobs

VARIABLES taken,    \* jobs that have been taken in
          open,     \* of these, the ones a worker may still get
          handed    \* how often each job was given to a worker

dvars == <<taken, open, handed>>

DInit == taken = {} /\ open = {} /\ handed = [j \in Jobs |-> 0]

Take(j) ==
    /\ j \notin taken
    /\ taken' = taken \union {j} /\ open' = open \union {j}
    /\ UNCHANGED handed

Give(j) ==
    /\ j \in open
    /\ open' = open \ {j} /\ handed' = [handed EXCEPT ![j] = @ + 1]
    /\ UNCHANGED taken

Drop ==
    /\ open' \subseteq open
    /\ UNCHANGED <<taken, handed>>

DNext == Drop \/ \E j \in Jobs : Take(j) \/ Give(j)

DSpec == DInit /\ [][DNext]_dvars
=============================================================================
