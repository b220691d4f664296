---------------------------- MODULE DiskHandover ----------------------------
(***************************************************************************)
(* What one HyperConversion promises about its disk, whatever is stale,    *)
(* edited, lost or crashed behind it.  The disk is imported, then the      *)
(* fixer has it, then the virtual machine: each takes it over only after   *)
(* the one before is through with it, and readiness is only reported for a *)
(* machine that exists.  While the order stands, disk and machine stay.    *)
(* Once it is over (deleted, and the operator has seen that), nothing new  *)
(* is begun and everything may go, in any order.                           *)
(***************************************************************************)

VARIABLES life,     \* of the order: unborn, on, over
          disk,     \* none, importing, failed, imported, fixed
          fixer,    \* none, active, complete, failed
          machine,  \* does the virtual machine exist?
          ready     \* is the machine reported to the user?

hvars == <<life, disk, fixer, machine, ready>>

HInit ==
    /\ life = "unborn"
    /\ disk = "none" /\ fixer = "none" /\ machine = FALSE /\ ready = FALSE

Usable == disk \in {"imported", "fixed"}

Begin ==
    /\ life = "unborn" /\ life' = "on"
    /\ UNCHANGED <<disk, fixer, machine, ready>>

End ==
    /\ life = "on" /\ life' = "over"
    /\ UNCHANGED <<disk, fixer, machine, ready>>

StartImport ==
    /\ life = "on" /\ disk = "none"
    /\ disk' = "importing"
    /\ UNCHANGED <<life, fixer, machine, ready>>

FinishImport ==
    /\ disk = "importing"
    /\ disk' \in {"imported", "failed"}
    /\ UNCHANGED <<life, fixer, machine, ready>>

\* The fixer gets a disk that nobody else uses; it may get it again.
StartFixer ==
    /\ life = "on" /\ Usable /\ fixer = "none" /\ ~machine
    /\ fixer' = "active"
    /\ UNCHANGED <<life, disk, machine, ready>>

FinishFixer ==
    /\ fixer = "active"
    /\ \/ Usable /\ fixer' = "complete" /\ disk' = "fixed"
       \/ fixer' = "failed" /\ UNCHANGED disk
    /\ UNCHANGED <<life, machine, ready>>

\* A fixer that timed out is removed; so is, after a while, one that ended.
RemoveFixer ==
    /\ fixer # "none"
    /\ fixer' = "none"
    /\ UNCHANGED <<life, disk, machine, ready>>

\* The machine gets a disk that no fixer works on or has left half done.
Boot ==
    /\ life = "on" /\ Usable /\ fixer \in {"none", "complete"} /\ ~machine
    /\ machine' = TRUE
    /\ UNCHANGED <<life, disk, fixer, ready>>

Report ==
    /\ life = "on" /\ machine /\ ~ready
    /\ ready' = TRUE
    /\ UNCHANGED <<life, disk, fixer, machine>>

Clear ==
    /\ life = "over"
    /\ disk' \in {disk, "none"}
    /\ fixer' \in {fixer, "none"}
    /\ machine' \in {machine, FALSE}
    /\ ready' \in {ready, FALSE}
    /\ UNCHANGED life

HNext ==
    \/ Begin \/ End \/ StartImport \/ FinishImport \/ StartFixer \/ FinishFixer
    \/ RemoveFixer \/ Boot \/ Report \/ Clear

HSpec == HInit /\ [][HNext]_hvars
=============================================================================
