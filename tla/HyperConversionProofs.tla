------------------------ MODULE HyperConversionProofs ------------------------
(***************************************************************************)
(* Proofs about the operator, for every set of URLs and every bound on     *)
(* incarnations, edits, faults and crashes.                                *)
(*                                                                         *)
(* The argument is about copies.  FreshCopies says what the two freshness  *)
(* flags are worth: a fresh cache IS the stored object, and a fresh        *)
(* in-flight copy is a Successor of it.  FinalizerHolds says what even a   *)
(* STALE cache is worth: if it shows a finalizer and no deletion, the      *)
(* stored object is still that incarnation and still has the finalizer.    *)
(* Recorded says what the status fields of each copy owe to its phase.     *)
(***************************************************************************)
EXTENDS HyperConversion, TLAPS

\* What a handler may make of the object a: one step of the switch, and the
\* finalizer is only dropped from an object under deletion.
Successor(a, b) ==
    /\ a.uid # 0 /\ b.uid = a.uid /\ b.del = a.del
    /\ b.phase = a.phase \/ <<a.phase, b.phase>> \in PhaseEdges
    /\ a.fin /\ ~a.del => b.fin

FreshCopies ==
    /\ cacheFresh => cache = hc
    /\ snapFresh => pc = "commit" /\ cacheFresh /\ Successor(cache, snap)

FinalizerHolds ==
    cache.uid # 0 /\ cache.fin /\ ~cache.del => hc.uid = cache.uid /\ hc.fin

\* The status fields a phase implies.
Recorded(o) ==
    /\ o.phase \notin {"Pending", "Failed"} => o.dvn
    /\ o.phase \in {"Converting", "Fixing", "CreatingVM", "Ready"}
          => "DataVolumeReady" \in o.conds
    /\ o.phase \in {"Fixing", "CreatingVM", "Ready"}
          => "ConversionComplete" \in o.conds
    /\ o.phase \in {"CreatingVM", "Ready"} /\ o.jobn => "FixesComplete" \in o.conds
    /\ o.phase \in {"Pending", "Uploading", "Converting"} => ~o.jobn
    /\ o.phase # "Ready" => ~o.vmn
    /\ o.vmn <=> "VMReady" \in o.conds

AllRecorded == Recorded(hc) /\ Recorded(cache) /\ Recorded(snap)

IInv == TypeOK /\ FreshCopies /\ FinalizerHolds /\ AllRecorded

-----------------------------------------------------------------------------
(* The handlers: each one writes a copy that is a successor of the cache.  *)

KidsTyped ==
    /\ dv \in DVObj /\ job \in JobObj /\ jobCache \in JobObj /\ vm \in VMObj
    /\ late \in SUBSET {"import", "job"}
    /\ faults \in 0..MaxFaults

\* A step of a handler that goes on to write, whatever it does to the children.
Handled ==
    /\ Enter
    /\ pc' = "commit" /\ queued' = FALSE /\ snapFresh' = cacheFresh
    /\ ret' \in [ok : BOOLEAN, err : BOOLEAN]
    /\ UNCHANGED <<objVars, cache, cacheFresh, edits, crashes>>
    /\ snap' \in HCObj /\ Successor(cache, snap') /\ Recorded(snap')
    /\ KidsTyped'

\* A handler's step keeps the inductive invariant: only the in-flight copy
\* changes, and it is as fresh as the cache it was made from.
LEMMA HandledKeeps == IInv /\ Handled => IInv'
<1> SUFFICES ASSUME IInv, Handled PROVE IInv'
    OBVIOUS
<1>1. TypeOK'
    BY DEF IInv, TypeOK, Handled, Enter, KidsTyped, objVars
<1>2. FreshCopies'
    BY DEF IInv, TypeOK, FreshCopies, Handled, objVars
<1>3. FinalizerHolds'
    BY DEF IInv, FinalizerHolds, Handled, objVars
<1>4. AllRecorded'
    BY DEF IInv, AllRecorded, Recorded, Handled, objVars
<1> QED BY <1>1, <1>2, <1>3, <1>4 DEF IInv

\* The absent object and the absent children have the types of present ones.
LEMMA AbsentTyped ==
    /\ NoHC \in HCObj /\ Recorded(NoHC)
    /\ NoDV \in DVObj /\ NoJob \in JobObj /\ NoVM \in VMObj
<1>1. AnyUrl \in Urls
    BY ConstantsAssumption DEF AnyUrl
<1>2. 0 \in Uids
    BY ConstantsAssumption DEF Uids
<1> QED
    BY <1>1, <1>2 DEF NoHC, NoDV, NoJob, NoVM, Posted, HCObj, DVObj, JobObj,
                      VMObj, Phases, Conds, Recorded

\* Children created by a handler are well typed.
LEMMA NewTyped ==
    TypeOK => NewDV \in DVObj /\ NewJob \in JobObj /\ NewVM \in VMObj
BY DEF TypeOK, NewDV, NewJob, NewVM, HCObj, DVObj, JobObj, VMObj

\* Deleting a child keeps its type.
LEMMA DeletedTyped ==
    /\ \A c \in DVObj : Deleted(c) \in DVObj
    /\ \A c \in JobObj : Deleted(c) \in JobObj
    /\ \A c \in VMObj : Deleted(c) \in VMObj
BY DEF Deleted, DVObj, JobObj, VMObj

\* The initial state satisfies the inductive invariant.
LEMMA InitInv == Init => IInv
<1> SUFFICES ASSUME Init PROVE IInv
    OBVIOUS
<1>1. TypeOK
  <2>1. ret \in [ok : BOOLEAN, err : BOOLEAN]
      BY DEF Init
  <2>2. gen \in Uids /\ edits \in 0..MaxEdits /\ faults \in 0..MaxFaults
        /\ crashes \in 0..MaxCrashes
      BY ConstantsAssumption DEF Init, Uids
  <2> QED BY <2>1, <2>2, AbsentTyped DEF Init, TypeOK
<1>2. FreshCopies
    BY DEF Init, FreshCopies
<1>3. FinalizerHolds
    BY DEF Init, FinalizerHolds, NoHC, Posted
<1>4. AllRecorded
    BY AbsentTyped DEF Init, AllRecorded
<1> QED BY <1>1, <1>2, <1>3, <1>4 DEF IInv

\* The fault budget is respected.
LEMMA FaultTyped == TypeOK /\ (Fault \/ NoFault) => faults' \in 0..MaxFaults
BY ConstantsAssumption DEF TypeOK, Fault, NoFault

\* Every handler of Reconcile keeps the inductive invariant.
LEMMA HandlerKeeps == IInv /\ Handler => IInv'
<1> SUFFICES ASSUME IInv, Handler PROVE IInv'
    OBVIOUS
<1> USE ConstantsAssumption
<1>t. TypeOK /\ cache \in HCObj /\ Recorded(cache)
    BY DEF IInv, TypeOK, AllRecorded
<1>k. KidsTyped
    BY DEF IInv, TypeOK, KidsTyped
<1>1. CASE ReconcileNothing
  <2>1. Return(FALSE) /\ NoFault
      BY <1>1 DEF ReconcileNothing
  <2>2. TypeOK' /\ FreshCopies'
      BY <2>1 DEF Return, NoFault, IInv, TypeOK, FreshCopies, objVars, kidVars
  <2>3. FinalizerHolds' /\ AllRecorded'
      BY <2>1 DEF Return, IInv, FinalizerHolds, AllRecorded, Recorded, objVars
  <2> QED BY <2>2, <2>3 DEF IInv
<1>g. CASE GetFails
    BY <1>g DEF GetFails, Live, Enter, Return, Fault, IInv, TypeOK, FreshCopies,
                FinalizerHolds, AllRecorded, Recorded, objVars, kidVars
<1>2. CASE AddFinalizer
    BY <1>2, <1>t, <1>k, HandledKeeps
       DEF AddFinalizer, Enter, Write, NoFault, Handled, KidsTyped, kidVars,
           HCObj, Successor, Recorded
<1>3. CASE PendingOk
    BY <1>3, <1>t, <1>k, NewTyped, HandledKeeps
       DEF PendingOk, Live, Enter, Write, NoFault, Handled, KidsTyped,
           HCObj, Successor, PhaseEdges, Recorded, Phases, Conds
<1>4. CASE PendingFails
  <2>1. KidsTyped'
      BY <1>4, <1>t, <1>k, NewTyped, AbsentTyped, FaultTyped
         DEF PendingFails, KidsTyped
  <2> QED
      BY <1>4, <1>t, <2>1, HandledKeeps
         DEF PendingFails, Live, Enter, Write, Handled, HCObj, Successor,
             PhaseEdges, Recorded, Phases, Conds, Fail
<1>5. CASE HandleUploading
    BY <1>5, <1>t, <1>k, HandledKeeps
       DEF HandleUploading, UploadingStatus, Live, Enter, Write, NoFault, Handled,
           KidsTyped, kidVars, HCObj, Successor, PhaseEdges, Recorded, Phases,
           Conds, Fail
<1>6. CASE HandleConverting
    BY <1>6, <1>t, <1>k, HandledKeeps
       DEF HandleConverting, ConvertingStatus, Live, Enter, Write, NoFault, Handled,
           KidsTyped, kidVars, HCObj, Successor, PhaseEdges, Recorded, Phases,
           Conds
<1>7. CASE FixingStart
    BY <1>7, <1>t, <1>k, NewTyped, HandledKeeps
       DEF FixingStart, Live, Enter, Write, NoFault, Handled, KidsTyped,
           HCObj, Successor, PhaseEdges, Recorded, Phases, Conds, Fail
<1>8. CASE FixingStartFails
    BY <1>8, <1>t, <1>k, NewTyped, HandledKeeps
       DEF FixingStartFails, Live, Enter, Write, Fault, Handled, KidsTyped,
           HCObj, Successor, PhaseEdges, Recorded, Phases, Conds, Fail
<1>9. CASE FixingWatch
  <2> DEFINE o == FixingStatus(cache, jobCache)
  <2>1. KidsTyped'
    <3>1. job' \in JobObj
        BY <1>9, <1>k, DeletedTyped DEF FixingWatch, KidsTyped
    <3>2. faults' \in 0..MaxFaults
        BY <1>9, <1>t, FaultTyped DEF FixingWatch
    <3> QED BY <1>9, <1>k, <3>1, <3>2 DEF FixingWatch, KidsTyped
  <2>2. Write(o, o.phase # "Failed", o.phase # "Failed") /\ Live("Fixing")
      BY <1>9 DEF FixingWatch
  <2>3. o \in HCObj /\ Successor(cache, o) /\ Recorded(o)
      BY <1>t, <2>2 DEF FixingStatus, Live, Enter, HCObj, Successor, PhaseEdges,
                        Recorded, Phases, Conds, Fail
  <2> QED
      BY <2>1, <2>2, <2>3, HandledKeeps DEF Live, Enter, Write, Handled
<1>10. CASE CreatingVMOk
    BY <1>10, <1>t, <1>k, NewTyped, HandledKeeps
       DEF CreatingVMOk, VMDone, Live, Enter, Write, NoFault, Handled, KidsTyped,
           HCObj, Successor, PhaseEdges, Recorded, Phases, Conds
<1>11. CASE CreatingVMFails
  <2>1. KidsTyped'
      BY <1>11, <1>t, <1>k, NewTyped, AbsentTyped, FaultTyped
         DEF CreatingVMFails, KidsTyped
  <2> QED
      BY <1>11, <1>t, <2>1, HandledKeeps
         DEF CreatingVMFails, Live, Enter, Write, Handled, HCObj, Successor,
             PhaseEdges, Recorded, Phases, Conds, Fail
<1>12. CASE HandleDeletion
  <2>1. dv' \in DVObj /\ job' \in JobObj /\ vm' \in VMObj
      BY <1>12, <1>k, DeletedTyped DEF HandleDeletion, KidsTyped
  <2>2. faults' \in 0..MaxFaults
      BY <1>12, <1>t, FaultTyped DEF HandleDeletion
  <2>3. KidsTyped'
      BY <1>12, <1>k, <2>1, <2>2 DEF HandleDeletion, KidsTyped
  <2> QED
      BY <1>12, <1>t, <2>3, HandledKeeps
         DEF HandleDeletion, Enter, Write, Handled, HCObj, Successor, Recorded
<1> QED BY <1>1, <1>g, <1>2, <1>3, <1>4, <1>5, <1>6, <1>7, <1>8, <1>9, <1>10,
           <1>11, <1>12 DEF Handler

-----------------------------------------------------------------------------
(* Writes of the stored object, and everything else.                       *)

\* A commit keeps the inductive invariant: it only succeeds on a fresh copy,
\* so what it stores is a successor of what it replaces.
LEMMA CommitKeeps == IInv /\ Commit => IInv'
<1> SUFFICES ASSUME IInv, Commit PROVE IInv'
    OBVIOUS
<1>1. CASE snapFresh /\ Store(snap)
  <2>1. hc' \in HCObj /\ Recorded(hc')
      BY <1>1, AbsentTyped DEF Store, Stored, IInv, TypeOK, AllRecorded
  <2>2. TypeOK'
    <3>1. late' \in SUBSET {"import", "job"}
        BY <1>1 DEF Commit, CommitOk, CommitConflict, CommitFails, RestartClock,
                    IInv, TypeOK, Store
    <3>2. faults' \in 0..MaxFaults
        BY FaultTyped DEF Commit, CommitOk, CommitConflict, CommitFails, IInv
    <3>3. \E r \in BOOLEAN : EndReconcile(r)
        BY DEF Commit, CommitOk, CommitConflict, CommitFails, IInv, TypeOK
    <3>4. ret' \in [ok : BOOLEAN, err : BOOLEAN] /\ queued' \in BOOLEAN
        BY <3>3 DEF EndReconcile, IInv, TypeOK
    <3> QED BY <1>1, <2>1, <3>1, <3>2, <3>3, <3>4, AbsentTyped
               DEF Store, EndReconcile, IInv, TypeOK
  <2>3. FreshCopies'
      BY <1>1 DEF Store, FreshCopies
  <2>4. cache' = cache /\ snap' = NoHC
      BY DEF Commit, CommitOk, CommitConflict, CommitFails, EndReconcile
  <2>5. FinalizerHolds'
      BY <1>1, <2>4 DEF Store, Stored, IInv, TypeOK, HCObj, FreshCopies, Successor,
                        FinalizerHolds
  <2>6. AllRecorded'
      BY <2>1, <2>4, AbsentTyped DEF IInv, AllRecorded, Recorded
  <2> QED BY <2>2, <2>3, <2>5, <2>6 DEF IInv
<1>2. CASE UNCHANGED <<hc, cacheFresh, late>> /\ snapFresh' = FALSE
  <2>1. faults' \in 0..MaxFaults
      BY FaultTyped DEF Commit, CommitOk, CommitConflict, CommitFails, IInv
  <2>2. \E r \in BOOLEAN : EndReconcile(r)
      BY DEF Commit, CommitOk, CommitConflict, CommitFails, IInv, TypeOK
  <2>3. TypeOK'
    <3>1. ret' \in [ok : BOOLEAN, err : BOOLEAN] /\ queued' \in BOOLEAN
        BY <2>2 DEF EndReconcile, IInv, TypeOK
    <3> QED BY <1>2, <2>1, <2>2, <3>1, AbsentTyped DEF EndReconcile, IInv, TypeOK
  <2>4. FreshCopies' /\ FinalizerHolds'
      BY <1>2, <2>2 DEF EndReconcile, IInv, FreshCopies, FinalizerHolds
  <2>5. AllRecorded'
      BY <1>2, <2>2, AbsentTyped DEF EndReconcile, IInv, AllRecorded, Recorded
  <2> QED BY <2>3, <2>4, <2>5 DEF IInv
<1> QED BY <1>1, <1>2 DEF Commit, CommitOk, CommitConflict, CommitFails, IInv, TypeOK

\* Crashes, restarts and informer events keep the inductive invariant.
LEMMA ProcessKeeps == IInv /\ Process => IInv'
<1> SUFFICES ASSUME IInv, Process PROVE IInv'
    OBVIOUS
<1>1. TypeOK'
  <2>1. CASE Crash
    <3>1. ret' \in [ok : BOOLEAN, err : BOOLEAN] /\ crashes' \in 0..MaxCrashes
        BY <2>1, ConstantsAssumption DEF Crash, IInv, TypeOK
    <3> QED BY <2>1, <3>1, AbsentTyped DEF Crash, IInv, TypeOK, objVars, kidVars
  <2>2. CASE Restart \/ SyncHC \/ SyncJob \/ Resync
      BY <2>2 DEF Restart, SyncHC, SyncJob, Resync, IInv, TypeOK,
                  objVars, kidVars, bndVars
  <2> QED BY <2>1, <2>2 DEF Process
<1>2. FreshCopies'
    BY DEF Process, Crash, Restart, SyncHC, SyncJob, Resync, IInv, TypeOK,
           FreshCopies, objVars, Successor
<1>3. FinalizerHolds'
    BY DEF Process, Crash, Restart, SyncHC, SyncJob, Resync, IInv,
           FinalizerHolds, objVars
<1>4. AllRecorded'
    BY AbsentTyped
       DEF Process, Crash, Restart, SyncHC, SyncJob, Resync, IInv, AllRecorded,
           Recorded, objVars
<1> QED BY <1>1, <1>2, <1>3, <1>4 DEF IInv

\* What users do to the stored object keeps the inductive invariant: an object
\* with the finalizer survives its deletion, and re-creation needs it gone.
LEMMA UserKeeps == IInv /\ User => IInv'
<1> SUFFICES ASSUME IInv, User PROVE IInv'
    OBVIOUS
<1>0. /\ UNCHANGED <<cache, snap, pc, ret, queued, kidVars, faults, crashes>>
      /\ cacheFresh' = FALSE /\ snapFresh' = FALSE
    BY DEF User, UserCreate, UserDelete, UserEdit, Touch, Store, bndVars
<1>1. hc' \in HCObj /\ Recorded(hc') /\ gen' \in Uids /\ edits' \in 0..MaxEdits
  <2>1. CASE UserCreate
      BY <2>1, ConstantsAssumption
         DEF UserCreate, Touch, Store, Stored, Posted, IInv, TypeOK, HCObj, Phases,
             Uids, Recorded, bndVars
  <2>2. CASE UserDelete
    <3> DEFINE o == [hc EXCEPT !.del = TRUE]
    <3>1. o \in HCObj /\ Recorded(o)
        BY DEF IInv, TypeOK, HCObj, Recorded, AllRecorded
    <3>2. hc' \in {o, NoHC}
        BY <2>2 DEF UserDelete, Touch, Store, Stored
    <3> QED BY <2>2, <3>1, <3>2, AbsentTyped DEF UserDelete, IInv, TypeOK, bndVars
  <2>3. CASE UserEdit
    <3>1. PICK url \in Urls, fixes \in BOOLEAN, wantVM \in BOOLEAN :
             Touch([hc EXCEPT !.url = url, !.fixes = fixes, !.vm = wantVM])
        BY <2>3 DEF UserEdit
    <3> DEFINE o == [hc EXCEPT !.url = url, !.fixes = fixes, !.vm = wantVM]
    <3>2. o \in HCObj /\ Recorded(o)
        BY DEF IInv, TypeOK, HCObj, Recorded, AllRecorded
    <3>3. hc' \in {o, NoHC}
        BY <3>1 DEF Touch, Store, Stored
    <3>4. gen' \in Uids /\ edits' \in 0..MaxEdits
        BY <2>3, ConstantsAssumption DEF UserEdit, IInv, TypeOK
    <3> QED BY <3>2, <3>3, <3>4, AbsentTyped
  <2> QED BY <2>1, <2>2, <2>3 DEF User
<1>2. TypeOK'
    BY <1>0, <1>1 DEF IInv, TypeOK, kidVars
<1>3. FreshCopies'
    BY <1>0 DEF FreshCopies
<1>4. FinalizerHolds'
  <2>1. CASE UserCreate
      BY <1>0, <2>1 DEF UserCreate, IInv, FinalizerHolds
  <2>2. CASE UserDelete
      BY <1>0, <2>2 DEF UserDelete, Touch, Store, Stored, IInv, TypeOK, HCObj,
                        FinalizerHolds
  <2>3. CASE UserEdit
    <3>1. PICK url \in Urls, fixes \in BOOLEAN, wantVM \in BOOLEAN :
             Touch([hc EXCEPT !.url = url, !.fixes = fixes, !.vm = wantVM])
        BY <2>3 DEF UserEdit
    <3> DEFINE o == [hc EXCEPT !.url = url, !.fixes = fixes, !.vm = wantVM]
    <3>2. o.uid = hc.uid /\ o.fin = hc.fin /\ o.del = hc.del
        BY DEF IInv, TypeOK, HCObj
    <3>3. hc' = IF o.del /\ ~o.fin THEN NoHC ELSE o
        BY <3>1 DEF Touch, Store, Stored
    <3> QED BY <1>0, <3>2, <3>3 DEF IInv, FinalizerHolds
  <2> QED BY <2>1, <2>2, <2>3 DEF User
<1>5. AllRecorded'
    BY <1>0, <1>1 DEF IInv, AllRecorded, Recorded
<1> QED BY <1>2, <1>3, <1>4, <1>5 DEF IInv

\* The rest of the cluster only touches the children and the clock.
LEMMA ClusterKeeps == IInv /\ Cluster => IInv'
<1> SUFFICES ASSUME IInv, Cluster PROVE IInv'
    OBVIOUS
<1>0. /\ UNCHANGED <<hc, gen, cache, cacheFresh, snap, snapFresh, pc, ret, jobCache,
                     edits, faults, crashes>>
      /\ queued' \in BOOLEAN
    BY DEF Cluster, ImportEnds, CollectDV, CollectJob, CollectVM, JobStarts,
           JobEnds, JobExpires, ImportLate, JobLate, NotifyDV, FrameDV, FrameKid,
           objVars, ctlVars, bndVars, IInv, TypeOK
<1>1. dv' \in DVObj
    BY AbsentTyped
       DEF Cluster, ImportEnds, CollectDV, CollectJob, CollectVM, JobStarts,
           JobEnds, JobExpires, ImportLate, JobLate, IInv, TypeOK, DVObj
<1>2. job' \in JobObj
    BY AbsentTyped
       DEF Cluster, ImportEnds, CollectDV, CollectJob, CollectVM, JobStarts,
           JobEnds, JobExpires, ImportLate, JobLate, FrameDV, IInv, TypeOK, JobObj
<1>3. vm' \in VMObj
    BY AbsentTyped
       DEF Cluster, ImportEnds, CollectDV, CollectJob, CollectVM, JobStarts,
           JobEnds, JobExpires, ImportLate, JobLate, FrameDV, IInv, TypeOK
<1>4. late' \in SUBSET {"import", "job"}
    BY DEF Cluster, ImportEnds, CollectDV, CollectJob, CollectVM, JobStarts,
           JobEnds, JobExpires, ImportLate, JobLate, FrameDV, IInv, TypeOK
<1>5. TypeOK'
    BY <1>0, <1>1, <1>2, <1>3, <1>4 DEF IInv, TypeOK
<1>6. FreshCopies' /\ FinalizerHolds' /\ AllRecorded'
    BY <1>0 DEF IInv, FreshCopies, FinalizerHolds, AllRecorded, Recorded, Successor
<1> QED BY <1>5, <1>6 DEF IInv

\* The inductive invariant holds in every reachable state: what a copy of the
\* object is worth, fresh or stale, and what its phase implies.
THEOREM InductiveInvariant == Spec => []IInv
<1>1. IInv /\ [Next]_vars => IInv'
  <2> SUFFICES ASSUME IInv, [Next]_vars PROVE IInv'
      OBVIOUS
  <2>1. CASE Next
      BY <2>1, HandlerKeeps, CommitKeeps, ProcessKeeps, UserKeeps, ClusterKeeps
         DEF Next
  <2>2. CASE UNCHANGED vars
      BY <2>2 DEF vars, objVars, ctlVars, kidVars, bndVars, IInv, TypeOK,
                  FreshCopies, FinalizerHolds, AllRecorded, Recorded, Successor
  <2> QED BY <2>1, <2>2
<1> QED BY <1>1, InitInv, PTL DEF Spec

\* Every reachable state is well typed.
THEOREM TypeCorrect == Spec => []TypeOK
BY InductiveInvariant, PTL DEF IInv

\* The stored phase only moves along the edges of Reconcile's switch, however
\* stale the cache a reconcile worked from.
THEOREM PhaseSafety == Spec => PhaseFollowsSwitch
<1> DEFINE Step == hc.uid = hc'.uid /\ hc.phase # hc'.phase
                      => <<hc.phase, hc'.phase>> \in PhaseEdges
<1>1. IInv /\ [Next]_vars => [Step]_vars
  <2> SUFFICES ASSUME IInv, Next, hc.uid = hc'.uid, hc.phase # hc'.phase
               PROVE  <<hc.phase, hc'.phase>> \in PhaseEdges
      OBVIOUS
  <2>1. CASE Handler
      BY <2>1 DEF Handler, ReconcileNothing, AddFinalizer, PendingOk, PendingFails,
                  HandleUploading, HandleConverting, FixingStart, FixingStartFails,
                  FixingWatch, CreatingVMOk, CreatingVMFails, GetFails,
                  HandleDeletion, Write, Return, objVars
  <2>2. CASE Commit
    <3>1. snapFresh /\ hc' = Stored(snap)
        BY <2>2 DEF Commit, CommitOk, CommitConflict, CommitFails, Store
    <3>2. cache = hc /\ Successor(hc, snap)
        BY <3>1 DEF IInv, FreshCopies
    <3>3. hc' = snap
        BY <3>1, <3>2 DEF Stored, Successor, NoHC, Posted
    <3> QED BY <3>2, <3>3 DEF Successor
  <2>3. CASE Process \/ Cluster
      BY <2>3 DEF Process, Crash, Restart, SyncHC, SyncJob, Resync, Cluster,
                  ImportEnds, CollectDV, CollectJob, CollectVM, JobStarts, JobEnds,
                  JobExpires, ImportLate, JobLate, FrameDV, FrameKid, objVars
  <2>4. CASE User
    <3>1. CASE UserCreate
      <4>1. hc'.uid = gen + 1 /\ hc.uid = 0
          BY <3>1 DEF UserCreate, Touch, Store, Stored, Posted
      <4> QED BY <4>1, ConstantsAssumption DEF IInv, TypeOK, Uids
    <3>2. CASE UserDelete
        BY <3>2 DEF UserDelete, Touch, Store, Stored, NoHC, Posted, IInv, TypeOK, HCObj
    <3>3. CASE UserEdit
      <4>1. PICK url \in Urls, fixes \in BOOLEAN, wantVM \in BOOLEAN :
               Touch([hc EXCEPT !.url = url, !.fixes = fixes, !.vm = wantVM])
          BY <3>3 DEF UserEdit
      <4>2. hc.uid # 0 /\ NoHC.uid = 0
          BY <3>3 DEF UserEdit, NoHC, Posted
      <4> QED BY <4>1, <4>2 DEF Touch, Store, Stored, IInv, TypeOK, HCObj
    <3> QED BY <2>4, <3>1, <3>2, <3>3 DEF User
  <2> QED BY <2>1, <2>2, <2>3, <2>4 DEF Next
<1> QED BY <1>1, InductiveInvariant, PTL DEF Spec, PhaseFollowsSwitch

\* No child is created for an object that is gone or has lost its finalizer.
THEOREM FinalizerSafety == Spec => ChildrenUnderFinalizer
<1> DEFINE Step == /\ Created(dv, dv')   => hc.fin /\ hc.uid = dv'.own
                   /\ Created(job, job') => hc.fin /\ hc.uid = job'.own
                   /\ Created(vm, vm')   => hc.fin /\ hc.uid = vm'.own
<1>1. IInv /\ [Next]_vars => [Step]_vars
  <2> SUFFICES ASSUME IInv, Next PROVE Step
      OBVIOUS
  <2>0. NoDV.st = "none" /\ NoJob.st = "none" /\ NoVM.st = "none"
      BY DEF NoDV, NoJob, NoVM
  <2>1. Created(dv, dv') => hc.fin /\ hc.uid = dv'.own
    <3> SUFFICES ASSUME Created(dv, dv') PROVE hc.fin /\ hc.uid = dv'.own
        OBVIOUS
    <3>1. dv' = NewDV /\ (PendingOk \/ PendingFails)
      <4>1. CASE Handler
          BY <2>0, <4>1
             DEF Created, Handler, ReconcileNothing, AddFinalizer, PendingOk,
                 PendingFails, HandleUploading, HandleConverting, FixingStart,
                 FixingStartFails, FixingWatch, CreatingVMOk, CreatingVMFails,
                 GetFails, HandleDeletion, Return, Deleted, kidVars
      <4>2. CASE Commit \/ Process \/ User \/ Cluster
          BY <2>0, <4>2
             DEF Created, Commit, CommitOk, CommitConflict, CommitFails,
                 EndReconcile, Process, Crash, Restart, SyncHC, SyncJob, Resync,
                 User, UserCreate, UserDelete, UserEdit, Cluster, ImportEnds,
                 CollectDV, CollectJob, CollectVM, JobStarts, JobEnds, JobExpires,
                 ImportLate, JobLate, IInv, TypeOK, DVObj, kidVars
      <4> QED BY <4>1, <4>2 DEF Next
    <3>2. hc.fin /\ hc.uid = cache.uid
        BY <3>1 DEF PendingOk, PendingFails, Live, Enter, IInv, FinalizerHolds
    <3> QED BY <3>1, <3>2 DEF NewDV
  <2>2. Created(job, job') => hc.fin /\ hc.uid = job'.own
    <3> SUFFICES ASSUME Created(job, job') PROVE hc.fin /\ hc.uid = job'.own
        OBVIOUS
    <3>1. job' = NewJob /\ (FixingStart \/ FixingStartFails)
      <4>1. CASE Handler
          BY <2>0, <4>1
             DEF Created, Handler, ReconcileNothing, AddFinalizer, PendingOk,
                 PendingFails, HandleUploading, HandleConverting, FixingStart,
                 FixingStartFails, FixingWatch, CreatingVMOk, CreatingVMFails,
                 GetFails, HandleDeletion, Return, Deleted, kidVars
      <4>2. CASE Commit \/ Process \/ User \/ Cluster
          BY <2>0, <4>2
             DEF Created, Commit, CommitOk, CommitConflict, CommitFails,
                 EndReconcile, Process, Crash, Restart, SyncHC, SyncJob, Resync,
                 User, UserCreate, UserDelete, UserEdit, Cluster, ImportEnds,
                 CollectDV, CollectJob, CollectVM, JobStarts, JobEnds, JobExpires,
                 ImportLate, JobLate, FrameDV, IInv, TypeOK, JobObj, kidVars
      <4> QED BY <4>1, <4>2 DEF Next
    <3>2. hc.fin /\ hc.uid = cache.uid
        BY <3>1 DEF FixingStart, FixingStartFails, Live, Enter, IInv, FinalizerHolds
    <3> QED BY <3>1, <3>2 DEF NewJob
  <2>3. Created(vm, vm') => hc.fin /\ hc.uid = vm'.own
    <3> SUFFICES ASSUME Created(vm, vm') PROVE hc.fin /\ hc.uid = vm'.own
        OBVIOUS
    <3>1. vm' = NewVM /\ (CreatingVMOk \/ CreatingVMFails)
      <4>1. CASE Handler
          BY <2>0, <4>1
             DEF Created, Handler, ReconcileNothing, AddFinalizer, PendingOk,
                 PendingFails, HandleUploading, HandleConverting, FixingStart,
                 FixingStartFails, FixingWatch, CreatingVMOk, CreatingVMFails,
                 GetFails, HandleDeletion, Return, Deleted, kidVars
      <4>2. CASE Commit \/ Process \/ User \/ Cluster
          BY <2>0, <4>2
             DEF Created, Commit, CommitOk, CommitConflict, CommitFails,
                 EndReconcile, Process, Crash, Restart, SyncHC, SyncJob, Resync,
                 User, UserCreate, UserDelete, UserEdit, Cluster, ImportEnds,
                 CollectDV, CollectJob, CollectVM, JobStarts, JobEnds, JobExpires,
                 ImportLate, JobLate, FrameDV, IInv, TypeOK, VMObj, kidVars
      <4> QED BY <4>1, <4>2 DEF Next
    <3>2. hc.fin /\ hc.uid = cache.uid
        BY <3>1 DEF CreatingVMOk, CreatingVMFails, Live, Enter, IInv, FinalizerHolds
    <3> QED BY <3>1, <3>2 DEF NewVM
  <2> QED BY <2>1, <2>2, <2>3
<1> QED BY <1>1, InductiveInvariant, PTL DEF Spec, ChildrenUnderFinalizer

\* An object that reports Ready has on record what Ready stands for, for every
\* interleaving of stale reconciles, crashes, lost writes and user edits.
THEOREM ReadyEvidence == Spec => []ReadyHasEvidence
<1>1. IInv => ReadyHasEvidence
    BY DEF IInv, AllRecorded, Recorded, ReadyHasEvidence
<1> QED BY <1>1, InductiveInvariant, PTL

=============================================================================
