--------------------- MODULE HyperConversionChildProofs ---------------------
(***************************************************************************)
(* What the operator's children owe each other, for the first object of a  *)
(* name: the VirtualMachine is created on a finished disk, the fixer Job   *)
(* never runs beside it, and a Ready object's VirtualMachine exists.       *)
(*                                                                         *)
(* No handler checks any of this: createVirtualMachine looks at neither    *)
(* the DataVolume nor the Job.  It follows from the order of the phases,   *)
(* read through a cache that may be one write behind the stored object.    *)
(* OneBehind says how far behind; Numbered, who can own a child; Requeued, *)
(* that an object still without its Job is always in the queue, which is   *)
(* what keeps a finished Job from expiring before it is recorded.  The     *)
(* rest holds for the first incarnation: until it is Gone, whatever phase  *)
(* a copy shows has been Earned by the children, the children are in step  *)
(* with the phases, and the Job is never started twice under one watch.    *)
(***************************************************************************)
EXTENDS HyperConversionProofs

AtFixing == {"Fixing", "CreatingVM", "Ready", "Failed"}
AtVM     == {"CreatingVM", "Ready", "Failed"}

\* createFixerJob may still be called for an object that reads like o.
CanStart(o) == o.uid # 0 /\ ~o.del /\ o.phase = "Fixing" /\ ~o.jobn

\* Past Pending an object has the finalizer until it is deleted.
Finalized(o) == o.phase # "Pending" /\ ~o.del => o.fin

\* b is what one write, and any number of user edits, have made of a.
Behind(a, b) ==
    /\ a.del => b.del
    /\ a.jobn => b.jobn
    /\ a.vmn => b.vmn
    /\ a.del /\ b.vmn => a.vmn
    /\ a.phase \in AtFixing => b.phase \in AtFixing
    /\ a.phase \in AtVM => b.phase \in AtVM
    /\ a.phase = "Fixing" /\ b.phase \in {"CreatingVM", "Ready"} => b.jobn
    /\ CanStart(b) => CanStart(a) \/ a.phase = "Converting"
    /\ Finalized(b)

OneBehind ==
    /\ cache.uid # 0 /\ cache.uid = hc.uid => Behind(cache, hc)
    /\ snapFresh => Behind(cache, snap)

\* A child that exists is owned by an incarnation that was created.
Owned(c) ==
    /\ c.own <= gen
    /\ c.st # "none" => c.own # 0
    /\ c.term => c.st # "none"

Numbered ==
    /\ hc.uid <= gen /\ cache.uid <= gen
    /\ hc.uid = 0 => hc.phase = "Pending"
    /\ cache.uid = 0 => cache.phase = "Pending"
    /\ Finalized(hc) /\ Finalized(cache)
    /\ Owned(dv) /\ Owned(job) /\ Owned(jobCache) /\ Owned(vm)
    /\ dv.fixed => dv.st = "succeeded"

\* While the operator runs, an object without its Job is queued or will be,
\* whatever becomes of the write in flight.
Requeued ==
    CanStart(cache) => /\ pc = "idle" => queued
                       /\ pc = "commit" => queued \/ (ret.ok /\ ret.err)

GInv == IInv /\ OneBehind /\ Numbered /\ Requeued

\* No Job is at work, and none has left the disk half done.
JobIdle == job.st \in {"none", "complete"}

\* The children justify what the copy o reports.
Earned(o) ==
    /\ o.phase \in {"Converting", "Fixing", "CreatingVM", "Ready"}
          => dv.st = "succeeded"
    /\ o.phase \in {"CreatingVM", "Ready"} => JobIdle /\ (o.jobn => dv.fixed)
    /\ o.vmn => vm.st = "up"

AllEarned == Earned(hc) /\ Earned(cache) /\ (snapFresh => Earned(snap))

\* The phases have gone as far as the children have.
InStep ==
    /\ job.st # "none" \/ jobCache.st # "none"
          => hc.phase \in AtFixing /\ cache.phase \in AtFixing
    /\ vm.st = "up" => hc.phase \in AtVM /\ cache.phase \in AtVM
    /\ job.st = "complete" \/ jobCache.st = "complete" => dv.fixed
    /\ ~dv.term /\ ~vm.term

\* While a Job can be started, none has been seen to end or has been deleted,
\* and a Job that a write in flight records still exists.
OneJob ==
    /\ job.term => ~CanStart(cache)
    /\ pc # "down" /\ jobCache.st = "complete" => JobIdle
    /\ pc # "down" /\ CanStart(cache) /\ job.st = "none"
          => jobCache.st = "none" /\ ~hc.jobn
    /\ snapFresh /\ CanStart(cache) /\ snap.jobn => job.st # "none"

NoFixerBesideVM == vm.st = "up" => JobIdle

FirstInv == FirstUse => /\ ~Gone => AllEarned /\ InStep
                        /\ OneJob
                        /\ NoFixerBesideVM

CInv == GInv /\ FirstInv

-----------------------------------------------------------------------------
(* What holds for every incarnation.                                       *)

\* The parts of the invariant hold initially: nothing exists.
LEMMA InitChildren == Init => CInv
<1> SUFFICES ASSUME Init PROVE CInv
    OBVIOUS
<1>1. OneBehind /\ Numbered /\ Requeued
    BY ConstantsAssumption
       DEF Init, OneBehind, Numbered, Owned, Finalized, Requeued, CanStart, NoHC,
           Posted, NoDV, NoJob, NoVM
<1>2. FirstInv
    BY DEF Init, FirstInv, Gone, CacheLive, OneJob, NoFixerBesideVM, JobIdle,
           CanStart, NoHC, Posted, NoJob, NoVM
<1> QED BY <1>1, <1>2, InitInv DEF CInv, GInv

\* What every step of a handler leaves alone.
LEMMA HandlerFrame ==
    Handler => /\ UNCHANGED <<hc, gen, cache, cacheFresh, jobCache>>
               /\ pc = "idle"
BY DEF Handler, ReconcileNothing, AddFinalizer, PendingOk, PendingFails,
       HandleUploading, HandleConverting, FixingStart, FixingStartFails,
       FixingWatch, CreatingVMOk, CreatingVMFails, GetFails, HandleDeletion,
       Live, Enter, Write, Return, objVars, kidVars

\* A handler that writes leaves a copy that is one write ahead of the cache.
LEMMA HandlerOneAhead == IInv /\ Handler /\ snapFresh' => Behind(cache, snap')
<1> SUFFICES ASSUME IInv, Handler, snapFresh' PROVE Behind(cache, snap')
    OBVIOUS
<1> USE DEF Behind, CanStart, AtFixing, AtVM, Finalized
<1>t. cache \in HCObj /\ Recorded(cache)
    BY DEF IInv, TypeOK, AllRecorded
<1>1. CASE ReconcileNothing \/ GetFails
    BY <1>1 DEF ReconcileNothing, GetFails, Live, Enter, Return, IInv, FreshCopies
<1>2. CASE AddFinalizer \/ HandleDeletion
    BY <1>2, <1>t DEF AddFinalizer, HandleDeletion, Write, HCObj
<1>3. CASE PendingOk \/ PendingFails
    BY <1>3, <1>t DEF PendingOk, PendingFails, Live, Write, HCObj, Fail
<1>4. CASE HandleUploading
    BY <1>4, <1>t DEF HandleUploading, UploadingStatus, Live, Write, HCObj, Fail
<1>5. CASE HandleConverting
    BY <1>5, <1>t DEF HandleConverting, ConvertingStatus, Live, Write, HCObj
<1>6. CASE FixingStart \/ FixingStartFails
    BY <1>6, <1>t DEF FixingStart, FixingStartFails, Live, Enter, Write, HCObj, Fail
<1>7. CASE FixingWatch
  <2>1. /\ snap' = FixingStatus(cache, jobCache)
        /\ cache.phase = "Fixing" /\ cache.jobn /\ cache.fin
      BY <1>7 DEF FixingWatch, Live, Write
  <2> QED BY <1>t, <2>1 DEF FixingStatus, HCObj, Fail
<1>8. CASE CreatingVMOk \/ CreatingVMFails
    BY <1>8, <1>t DEF CreatingVMOk, CreatingVMFails, VMDone, Live, Write, HCObj, Fail
<1> QED BY <1>1, <1>2, <1>3, <1>4, <1>5, <1>6, <1>7, <1>8 DEF Handler

\* The cache is never more than one write behind the stored object: a second
\* write needs a fresh copy, and catching up is the only way to get one.
LEMMA OneBehindKeeps == IInv /\ Numbered /\ OneBehind /\ Next => OneBehind'
<1> SUFFICES ASSUME IInv, Numbered, OneBehind, Next PROVE OneBehind'
    OBVIOUS
<1>t. hc \in HCObj /\ cache \in HCObj /\ snap \in HCObj /\ gen \in Nat
    BY ConstantsAssumption DEF IInv, TypeOK, Uids
<1>1. CASE Handler
    BY <1>1, HandlerFrame, HandlerOneAhead DEF OneBehind, Behind, CanStart, Finalized
<1>2. CASE Commit
  <2>1. cache' = cache /\ ~snapFresh'
      BY <1>2 DEF Commit, CommitOk, CommitConflict, CommitFails, EndReconcile, Store,
                  IInv, TypeOK
  <2>2. CASE hc' = hc
      BY <2>1, <2>2 DEF OneBehind, Behind, CanStart, Finalized
  <2>3. CASE snapFresh /\ hc' = Stored(snap)
    <3>1. hc' = snap \/ hc'.uid = 0
        BY <2>3 DEF Stored, NoHC, Posted
    <3> QED BY <2>1, <2>3, <3>1 DEF OneBehind, Behind, CanStart, Finalized
  <2> QED BY <1>2, <2>2, <2>3 DEF Commit, CommitOk, CommitConflict, CommitFails, Store
<1>3. CASE Process
  <2>1. hc' = hc /\ (cache' = cache \/ cache' = hc)
      BY <1>3 DEF Process, Crash, Restart, SyncHC, SyncJob, Resync, objVars
  <2>2. snapFresh' => snapFresh /\ snap' = snap /\ cache' = cache
      BY <1>3 DEF Process, Crash, Restart, SyncHC, SyncJob, Resync, IInv, FreshCopies
  <2>3. Behind(hc, hc)
      BY DEF Behind, CanStart, AtFixing, AtVM, Numbered
  <2> QED BY <2>1, <2>2, <2>3 DEF OneBehind, Behind, CanStart, Finalized
<1>4. CASE User
  <2>1. cache' = cache /\ ~snapFresh'
      BY <1>4 DEF User, UserCreate, UserDelete, UserEdit, Touch, Store
  <2>2. CASE UserCreate
      BY <2>1, <2>2, <1>t DEF UserCreate, Touch, Store, Stored, Posted, Numbered,
                              OneBehind, NoHC, HCObj, Uids
  <2>3. CASE UserDelete
    <3> DEFINE o == [hc EXCEPT !.del = TRUE]
    <3>1. hc' = o \/ hc'.uid = 0
        BY <2>3 DEF UserDelete, Touch, Store, Stored, NoHC, Posted
    <3>2. Behind(cache, hc) => Behind(cache, o)
        BY <1>t DEF Behind, CanStart, HCObj, Finalized
    <3>3. o.uid = hc.uid
        BY <1>t DEF HCObj
    <3> QED BY <2>1, <3>1, <3>2, <3>3 DEF OneBehind, Behind, CanStart, Finalized
  <2>4. CASE UserEdit
    <3>1. PICK url \in Urls, fixes \in BOOLEAN, wantVM \in BOOLEAN :
             Touch([hc EXCEPT !.url = url, !.fixes = fixes, !.vm = wantVM])
        BY <2>4 DEF UserEdit
    <3> DEFINE o == [hc EXCEPT !.url = url, !.fixes = fixes, !.vm = wantVM]
    <3>2. hc' = o \/ hc'.uid = 0
        BY <3>1 DEF Touch, Store, Stored, NoHC, Posted
    <3>3. Behind(cache, hc) => Behind(cache, o)
        BY <1>t DEF Behind, CanStart, HCObj, Finalized
    <3>4. o.uid = hc.uid
        BY <1>t DEF HCObj
    <3> QED BY <2>1, <3>2, <3>3, <3>4 DEF OneBehind, Behind, CanStart, Finalized
  <2> QED BY <1>4, <2>2, <2>3, <2>4 DEF User
<1>5. CASE Cluster
  <2>1. UNCHANGED <<hc, cache, snap, snapFresh>>
      BY <1>5 DEF Cluster, ImportEnds, CollectDV, CollectJob, CollectVM, JobStarts,
           JobEnds, JobExpires, ImportLate, JobLate, FrameDV, FrameKid, objVars, ctlVars
  <2> QED BY <2>1 DEF OneBehind, Behind, CanStart, Finalized
<1> QED BY <1>1, <1>2, <1>3, <1>4, <1>5 DEF Next

\* The children a handler may leave behind belong to an incarnation that exists.
LEMMA HandlerOwned ==
    IInv /\ Numbered /\ Handler
      => Owned(dv') /\ Owned(job') /\ Owned(vm') /\ (dv'.fixed => dv'.st = "succeeded")
<1> SUFFICES ASSUME IInv, Numbered, Handler
             PROVE  Owned(dv') /\ Owned(job') /\ Owned(vm')
                    /\ (dv'.fixed => dv'.st = "succeeded")
    OBVIOUS
<1>t. /\ gen \in Nat /\ cache \in HCObj
      /\ dv \in DVObj /\ job \in JobObj /\ vm \in VMObj
    BY ConstantsAssumption DEF IInv, TypeOK, Uids
<1>0. Owned(NoDV) /\ Owned(NoVM) /\ ~NoDV.fixed
    BY <1>t DEF Owned, NoDV, NoVM
<1>1. cache.uid # 0 => Owned(NewDV) /\ Owned(NewJob) /\ Owned(NewVM) /\ ~NewDV.fixed
    BY DEF Owned, NewDV, NewJob, NewVM, Numbered
<1>2. /\ Owned(Deleted(dv)) /\ Owned(Deleted(job)) /\ Owned(Deleted(vm))
      /\ Deleted(dv).fixed => Deleted(dv).st = "succeeded"
    BY <1>t DEF Owned, Deleted, DVObj, JobObj, VMObj, Numbered
<1>3. /\ Owned(dv) /\ Owned(job) /\ Owned(vm)
      /\ dv.fixed => dv.st = "succeeded"
    BY DEF Numbered
<1>4. dv' \in {dv, NoDV, Deleted(dv)} \/ (dv' = NewDV /\ cache.uid # 0)
    BY DEF Handler, ReconcileNothing, AddFinalizer, PendingOk, PendingFails,
           HandleUploading, HandleConverting, FixingStart, FixingStartFails,
           FixingWatch, CreatingVMOk, CreatingVMFails, GetFails, HandleDeletion,
           Live, Enter, Return, kidVars
<1>5. job' \in {job, Deleted(job)} \/ (job' = NewJob /\ cache.uid # 0)
    BY DEF Handler, ReconcileNothing, AddFinalizer, PendingOk, PendingFails,
           HandleUploading, HandleConverting, FixingStart, FixingStartFails,
           FixingWatch, CreatingVMOk, CreatingVMFails, GetFails, HandleDeletion,
           Live, Enter, Return, kidVars
<1>6. vm' \in {vm, NoVM, Deleted(vm)} \/ (vm' = NewVM /\ cache.uid # 0)
    BY DEF Handler, ReconcileNothing, AddFinalizer, PendingOk, PendingFails,
           HandleUploading, HandleConverting, FixingStart, FixingStartFails,
           FixingWatch, CreatingVMOk, CreatingVMFails, GetFails, HandleDeletion,
           Live, Enter, Return, kidVars
<1>7. Owned(dv') /\ (dv'.fixed => dv'.st = "succeeded")
    BY <1>0, <1>1, <1>2, <1>3, <1>4
<1>8. Owned(job')
    BY <1>1, <1>2, <1>3, <1>5
<1>9. Owned(vm')
    BY <1>0, <1>1, <1>2, <1>3, <1>6
<1> QED BY <1>7, <1>8, <1>9

\* Nothing is owned by, or a copy of, an object that was never created.
LEMMA NumberedKeeps == IInv /\ Numbered /\ OneBehind /\ Next => Numbered'
<1> SUFFICES ASSUME IInv, Numbered, OneBehind, Next PROVE Numbered'
    OBVIOUS
<1>t. /\ gen \in Nat /\ hc \in HCObj /\ cache \in HCObj /\ snap \in HCObj
      /\ dv \in DVObj /\ job \in JobObj /\ vm \in VMObj /\ jobCache \in JobObj
      /\ hc.uid \in Nat /\ cache.uid \in Nat /\ dv.own \in Nat /\ job.own \in Nat
      /\ jobCache.own \in Nat /\ vm.own \in Nat
    BY ConstantsAssumption DEF IInv, TypeOK, Uids, HCObj, DVObj, JobObj, VMObj
<1>0. /\ NoHC.uid = 0 /\ NoHC.phase = "Pending"
      /\ NoDV.own = 0 /\ NoDV.st = "none" /\ ~NoDV.fixed /\ ~NoDV.term
      /\ NoJob.own = 0 /\ NoJob.st = "none" /\ ~NoJob.term
      /\ NoVM.own = 0 /\ NoVM.st = "none" /\ ~NoVM.term
    BY DEF NoHC, Posted, NoDV, NoJob, NoVM
<1>1. CASE Handler
    BY <1>1, HandlerFrame, HandlerOwned DEF Numbered, Owned
<1>2. CASE Commit
  <2>1. UNCHANGED <<gen, cache, dv, job, vm, jobCache>>
      BY <1>2 DEF Commit, CommitOk, CommitConflict, CommitFails, EndReconcile
  <2>2. hc' \in {hc, NoHC} \/ (hc' = snap /\ snapFresh)
      BY <1>2 DEF Commit, CommitOk, CommitConflict, CommitFails, Store, Stored
  <2>3. snapFresh => snap.uid = cache.uid /\ cache.uid # 0 /\ Finalized(snap)
      BY DEF IInv, FreshCopies, Successor, OneBehind, Behind
  <2> QED BY <1>0, <1>t, <2>1, <2>2, <2>3 DEF Numbered, Owned, Finalized
<1>3. CASE Process
    BY <1>3 DEF Process, Crash, Restart, SyncHC, SyncJob, Resync, Numbered, Owned,
                objVars, kidVars
<1>4. CASE User
  <2>1. UNCHANGED <<cache, dv, job, vm, jobCache>>
      BY <1>4 DEF User, UserCreate, UserDelete, UserEdit, Touch, Store, kidVars
  <2>2. CASE UserCreate
      BY <1>t, <2>1, <2>2 DEF UserCreate, Touch, Store, Stored, Posted, Numbered, Owned,
                              Finalized
  <2>3. CASE UserDelete
      BY <1>0, <1>t, <2>1, <2>3 DEF UserDelete, Touch, Store, Stored, HCObj, Numbered,
                                    Owned, Finalized
  <2>4. CASE UserEdit
    <3>1. PICK url \in Urls, fixes \in BOOLEAN, wantVM \in BOOLEAN :
             Touch([hc EXCEPT !.url = url, !.fixes = fixes, !.vm = wantVM])
        BY <2>4 DEF UserEdit
    <3>2. \/ hc' = NoHC
          \/ /\ hc'.uid = hc.uid /\ hc'.phase = hc.phase
             /\ hc'.fin = hc.fin /\ hc'.del = hc.del
        BY <1>t, <3>1 DEF Touch, Store, Stored, HCObj
    <3> QED BY <1>0, <1>t, <2>1, <2>4, <3>2 DEF UserEdit, Numbered, Owned, Finalized
  <2> QED BY <1>4, <2>2, <2>3, <2>4 DEF User
<1>5. CASE Cluster
  <2>1. UNCHANGED <<hc, gen, cache, jobCache>>
      BY <1>5 DEF Cluster, ImportEnds, CollectDV, CollectJob, CollectVM, JobStarts,
           JobEnds, JobExpires, ImportLate, JobLate, FrameDV, FrameKid, objVars, ctlVars
  <2>2. Owned(dv)' /\ (dv'.fixed => dv'.st = "succeeded")
      BY <1>0, <1>5, <1>t, <2>1
         DEF Cluster, ImportEnds, CollectDV, CollectJob, CollectVM, JobStarts, JobEnds,
             JobExpires, ImportLate, JobLate, DVObj, Numbered, Owned
  <2>3. Owned(job)'
      BY <1>0, <1>5, <1>t, <2>1
         DEF Cluster, ImportEnds, CollectDV, CollectJob, CollectVM, JobStarts, JobEnds,
             JobExpires, ImportLate, JobLate, FrameDV, JobObj, Numbered, Owned
  <2>4. Owned(vm)'
      BY <1>0, <1>5, <1>t, <2>1
         DEF Cluster, ImportEnds, CollectDV, CollectJob, CollectVM, JobStarts, JobEnds,
             JobExpires, ImportLate, JobLate, FrameDV, Numbered, Owned
  <2> QED BY <2>1, <2>2, <2>3, <2>4 DEF Numbered, Owned
<1> QED BY <1>1, <1>2, <1>3, <1>4, <1>5 DEF Next

\* An object that still waits for its Job stays in the work queue.
LEMMA RequeuedKeeps == IInv /\ Requeued /\ Next => Requeued'
<1> SUFFICES ASSUME IInv, Requeued, Next PROVE Requeued'
    OBVIOUS
<1>t. /\ queued \in BOOLEAN /\ ret \in [ok : BOOLEAN, err : BOOLEAN]
      /\ pc \in {"idle", "commit", "down"} /\ cache \in HCObj
    BY DEF IInv, TypeOK
<1>1. CASE Handler
  <2> SUFFICES ASSUME CanStart(cache)
               PROVE  pc' = "commit" /\ ret' = [ok |-> TRUE, err |-> TRUE]
      BY <1>1, HandlerFrame DEF Requeued, CanStart
  <2> QED
      BY <1>1, <1>t
         DEF CanStart, Handler, ReconcileNothing, AddFinalizer, PendingOk, PendingFails,
             HandleUploading, HandleConverting, FixingStart, FixingStartFails,
             FixingWatch, CreatingVMOk, CreatingVMFails, GetFails, HandleDeletion,
             Live, Enter, Write, Terminal
<1>2. CASE Commit
  <2>1. cache' = cache /\ pc = "commit" /\ pc' = "idle"
      BY <1>2 DEF Commit, CommitOk, CommitConflict, CommitFails, EndReconcile
  <2>2. queued \/ (ret.ok /\ ret.err) => queued'
      BY <1>2, <1>t DEF Commit, CommitOk, CommitConflict, CommitFails, EndReconcile
  <2> QED BY <2>1, <2>2 DEF Requeued, CanStart
<1>3. CASE Process
    BY <1>3, <1>t DEF Process, Crash, Restart, SyncHC, SyncJob, Resync, Requeued, CanStart
<1>4. CASE User
  <2>1. UNCHANGED <<cache, pc, queued, ret>>
      BY <1>4 DEF User, UserCreate, UserDelete, UserEdit, Touch
  <2> QED BY <2>1 DEF Requeued, CanStart
<1>5. CASE Cluster
  <2>1. UNCHANGED <<cache, pc, ret>> /\ (queued' = queued \/ queued' = (pc # "down"))
      BY <1>5 DEF Cluster, ImportEnds, CollectDV, CollectJob, CollectVM, JobStarts,
           JobEnds, JobExpires, ImportLate, JobLate, FrameDV, FrameKid, NotifyDV, ctlVars
  <2> QED BY <1>t, <2>1 DEF Requeued, CanStart
<1> QED BY <1>1, <1>2, <1>3, <1>4, <1>5 DEF Next

\* What holds for every incarnation is preserved by every step.
LEMMA GeneralKeeps == GInv /\ [Next]_vars => GInv'
<1>1. GInv /\ Next => GInv'
    BY HandlerKeeps, CommitKeeps, ProcessKeeps, UserKeeps, ClusterKeeps,
       OneBehindKeeps, NumberedKeeps, RequeuedKeeps DEF GInv, Next
<1>2. GInv /\ UNCHANGED vars => GInv'
    BY DEF vars, objVars, ctlVars, kidVars, bndVars, GInv, IInv, TypeOK, FreshCopies,
           FinalizerHolds, AllRecorded, Recorded, Successor, OneBehind, Behind,
           CanStart, Numbered, Owned, Requeued
<1> QED BY <1>1, <1>2

-----------------------------------------------------------------------------
(* The first incarnation.                                                  *)

\* With one incarnation the cache and the store hold the same object, and every
\* child that exists is that object's.
LEMMA SameObject ==
    ASSUME GInv, FirstUse
    PROVE  /\ cache.uid # 0 /\ hc.uid # 0 => cache.uid = hc.uid /\ Behind(cache, hc)
           /\ CacheLive => hc.uid # 0
           /\ hc.uid # 0 => /\ dv.st # "none" => dv.own = hc.uid
                            /\ job.st # "none" => job.own = hc.uid
                            /\ vm.st # "none" => vm.own = hc.uid
<1>t. /\ gen \in Nat /\ hc.uid \in Nat /\ cache.uid \in Nat /\ dv.own \in Nat
      /\ job.own \in Nat /\ vm.own \in Nat
    BY ConstantsAssumption DEF GInv, IInv, TypeOK, Uids, HCObj, DVObj, JobObj, VMObj
<1>1. cache.uid # 0 /\ hc.uid # 0 => cache.uid = hc.uid
    BY <1>t DEF GInv, Numbered, FirstUse
<1>2. CacheLive => hc.uid # 0
    BY DEF CacheLive, GInv, IInv, FinalizerHolds
<1>3. hc.uid # 0 => /\ dv.st # "none" => dv.own = hc.uid
                    /\ job.st # "none" => job.own = hc.uid
                    /\ vm.st # "none" => vm.own = hc.uid
    BY <1>t DEF GInv, Numbered, Owned, FirstUse
<1> QED BY <1>1, <1>2, <1>3 DEF GInv, OneBehind

\* Until the object is gone nothing but a Job past its timeout is collected.
LEMMA NothingToCollect ==
    ASSUME CInv, FirstUse, ~Gone
    PROVE  /\ hc.uid # 0 /\ ~Collectable(dv) /\ ~Collectable(vm)
           /\ Collectable(job) => job.term
<1>1. hc.uid # 0
    BY SameObject DEF CInv, Gone
<1>2. ~dv.term /\ ~vm.term
    BY DEF CInv, FirstInv, InStep
<1> QED BY <1>1, <1>2, SameObject DEF CInv, Collectable

\* A handler that leaves the children as they are.
LEMMA QuietHandler ==
    ASSUME CInv, FirstUse, Handler, UNCHANGED <<dv, job, vm>>,
           ~Gone /\ snapFresh' => Earned(snap'),
           snapFresh' /\ CanStart(cache) /\ snap'.jobn => job.st # "none",
           pc' # "down"
    PROVE  FirstInv'
<1>0. UNCHANGED <<hc, gen, cache, jobCache>> /\ pc = "idle"
    BY HandlerFrame
<1>1. Gone' = Gone
    BY <1>0 DEF Gone, CacheLive
<1>2. ~Gone => AllEarned' /\ InStep'
    BY <1>0 DEF CInv, FirstInv, AllEarned, InStep, Earned, JobIdle
<1>3. OneJob' /\ NoFixerBesideVM'
    BY <1>0 DEF CInv, FirstInv, OneJob, NoFixerBesideVM, CanStart, JobIdle
<1> QED BY <1>1, <1>2, <1>3 DEF FirstInv

\* The handlers that only read the children.
LEMMA ReadersFirst ==
    CInv /\ FirstUse
    /\ (ReconcileNothing \/ GetFails \/ AddFinalizer \/ HandleUploading \/ HandleConverting)
      => FirstInv'
<1> SUFFICES ASSUME CInv, FirstUse,
                    ReconcileNothing \/ GetFails \/ AddFinalizer \/ HandleUploading
                      \/ HandleConverting
             PROVE  FirstInv'
    OBVIOUS
<1>h. Handler
    BY DEF Handler
<1>t. cache \in HCObj /\ Recorded(cache)
    BY DEF CInv, GInv, IInv, TypeOK, AllRecorded
<1>e. ~Gone => Earned(cache)
    BY DEF CInv, FirstInv, AllEarned
<1>1. CASE ReconcileNothing \/ GetFails
  <2>1. UNCHANGED <<dv, job, vm, snapFresh, pc>> /\ pc = "idle"
      BY <1>1 DEF ReconcileNothing, GetFails, Live, Enter, Return, kidVars
  <2>2. ~snapFresh'
      BY <2>1 DEF CInv, GInv, IInv, FreshCopies, TypeOK
  <2> QED BY <1>h, <2>1, <2>2, QuietHandler
<1>2. CASE AddFinalizer
  <2>1. UNCHANGED <<dv, job, vm>> /\ pc' = "commit" /\ snap' = [cache EXCEPT !.fin = TRUE]
      BY <1>2 DEF AddFinalizer, Write, kidVars
  <2>2. ~Gone => Earned(snap')
      BY <1>e, <1>t, <2>1 DEF Earned, HCObj
  <2>3. ~(CanStart(cache) /\ snap'.jobn)
      BY <1>t, <2>1 DEF CanStart, HCObj
  <2> QED BY <1>h, <2>1, <2>2, <2>3, QuietHandler
<1>3. CASE HandleUploading
  <2>1. /\ UNCHANGED <<dv, job, vm>> /\ pc' = "commit"
        /\ snap' = UploadingStatus(cache, dv) /\ cache.phase = "Uploading"
      BY <1>3 DEF HandleUploading, Live, Write, kidVars
  <2>2. ~Gone => Earned(snap')
      BY <1>e, <1>t, <2>1 DEF Earned, HCObj, UploadingStatus, Fail
  <2> QED BY <1>h, <2>1, <2>2, QuietHandler DEF CanStart
<1>4. CASE HandleConverting
  <2>1. /\ UNCHANGED <<dv, job, vm>> /\ pc' = "commit"
        /\ snap' = ConvertingStatus(cache) /\ cache.phase = "Converting"
      BY <1>4 DEF HandleConverting, Live, Write, kidVars
  <2>2. ~Gone => job.st = "none"
      BY <2>1 DEF CInv, FirstInv, InStep, AtFixing
  <2>3. ~Gone => Earned(snap')
      BY <1>e, <1>t, <2>1, <2>2 DEF Earned, HCObj, ConvertingStatus, Recorded, JobIdle
  <2> QED BY <1>h, <2>1, <2>3, QuietHandler DEF CanStart
<1> QED BY <1>1, <1>2, <1>3, <1>4

\* A phase handler runs on a live cache: the object is there and not gone.
LEMMA LiveFacts ==
    ASSUME CInv, FirstUse, CacheLive
    PROVE  /\ ~Gone /\ AllEarned /\ InStep /\ hc.uid # 0 /\ Behind(cache, hc)
           /\ ~Collectable(dv) /\ ~Collectable(vm)
<1>1. ~Gone
    BY DEF Gone
<1>2. hc.uid # 0 /\ Behind(cache, hc)
    BY SameObject DEF CInv, CacheLive
<1> QED BY <1>1, <1>2, NothingToCollect DEF CInv, FirstInv

\* handlePending never disturbs a disk a later phase relies on.
LEMMA PendingFirst == CInv /\ FirstUse /\ (PendingOk \/ PendingFails) => FirstInv'
<1> SUFFICES ASSUME CInv, FirstUse, PendingOk \/ PendingFails PROVE FirstInv'
    OBVIOUS
<1>1. CacheLive /\ cache.phase = "Pending"
    BY DEF PendingOk, PendingFails, Live, Enter, CacheLive
<1>2. /\ ~Gone /\ AllEarned /\ InStep /\ hc.uid # 0 /\ Behind(cache, hc)
      /\ ~Collectable(dv)
    BY <1>1, LiveFacts
<1>3. /\ UNCHANGED <<hc, gen, cache, jobCache, job, vm>> /\ pc = "idle" /\ pc' = "commit"
      /\ dv' = dv \/ (dv.st = "none" /\ dv' = NewDV)
    BY <1>2 DEF PendingOk, PendingFails, Live, Enter, Write, objVars
<1>4. snap'.phase \in {"Uploading", "Failed"} /\ snap'.vmn = cache.vmn /\ ~cache.vmn
    BY <1>1 DEF PendingOk, PendingFails, Write, Fail, CInv, GInv, IInv, TypeOK, HCObj,
                AllRecorded, Recorded
<1>5. dv.st = "none" => job.st # "complete" /\ jobCache.st # "complete" /\ ~dv.fixed
    BY <1>2 DEF InStep, CInv, GInv, Numbered
<1>6. AllEarned'
    BY <1>2, <1>3, <1>4, <1>5 DEF AllEarned, Earned, JobIdle, NewDV
<1>7. InStep'
    BY <1>2, <1>3, <1>5 DEF InStep, NewDV
<1>8. OneJob' /\ NoFixerBesideVM'
    BY <1>1, <1>3 DEF CInv, FirstInv, OneJob, NoFixerBesideVM, CanStart, JobIdle
<1> QED BY <1>6, <1>7, <1>8 DEF FirstInv

\* createFixerJob: a Job is only created while no copy has gone past Fixing and
\* no VirtualMachine exists.
LEMMA FixingStartFirst ==
    CInv /\ FirstUse /\ (FixingStart \/ FixingStartFails) => FirstInv'
<1> SUFFICES ASSUME CInv, FirstUse, FixingStart \/ FixingStartFails PROVE FirstInv'
    OBVIOUS
<1>1. CacheLive /\ CanStart(cache) /\ pc = "idle"
    BY DEF FixingStart, FixingStartFails, Live, Enter, CacheLive, CanStart
<1>2. ~Gone /\ AllEarned /\ InStep /\ hc.uid # 0 /\ Behind(cache, hc)
    BY <1>1, LiveFacts
<1>3. /\ UNCHANGED <<hc, gen, cache, jobCache, dv, vm>> /\ pc' = "commit"
      /\ job' = job \/ (job.st = "none" /\ job' = NewJob)
    BY DEF FixingStart, FixingStartFails, Live, Enter, Write, objVars
<1>4. /\ snap'.phase \in {"Fixing", "Failed"} /\ snap'.vmn = cache.vmn
      /\ snap'.jobn => job'.st # "none"
    BY <1>1 DEF FixingStart, FixingStartFails, Write, Fail, CInv, GInv, IInv, TypeOK,
                HCObj, CanStart, NewJob
<1>5. job.st = "none" => /\ jobCache.st = "none"
                         /\ hc.phase \notin {"CreatingVM", "Ready"}
  <2>1. job.st = "none" => jobCache.st = "none" /\ ~hc.jobn
      BY <1>1 DEF CInv, FirstInv, OneJob
  <2> QED BY <1>1, <1>2, <2>1 DEF Behind, CanStart
<1>6. vm.st # "up" /\ cache.phase = "Fixing"
    BY <1>1, <1>2 DEF InStep, CanStart, AtVM
<1>7. AllEarned'
    BY <1>2, <1>3, <1>4, <1>5, <1>6 DEF AllEarned, Earned, JobIdle
<1>8. InStep'
    BY <1>2, <1>3, <1>5, <1>6 DEF InStep, NewJob, Behind, AtFixing
<1>9. OneJob'
    BY <1>1, <1>3, <1>4, <1>5 DEF CInv, FirstInv, OneJob, CanStart, JobIdle, NewJob
<1>10. NoFixerBesideVM'
    BY <1>3, <1>6 DEF NoFixerBesideVM
<1> QED BY <1>7, <1>8, <1>9, <1>10 DEF FirstInv

\* handleFixing leaves Fixing only for a Job that ended, and the disk is fixed.
LEMMA FixingWatchFirst == CInv /\ FirstUse /\ FixingWatch => FirstInv'
<1> SUFFICES ASSUME CInv, FirstUse, FixingWatch PROVE FirstInv'
    OBVIOUS
<1>1. CacheLive /\ cache.phase = "Fixing" /\ cache.jobn /\ pc = "idle"
    BY DEF FixingWatch, Live, Enter, CacheLive
<1>2. ~Gone /\ AllEarned /\ InStep
    BY <1>1, LiveFacts
<1>3. /\ UNCHANGED <<hc, gen, cache, jobCache, dv, vm>> /\ pc' = "commit"
      /\ job' \in {job, Deleted(job)} /\ snap' = FixingStatus(cache, jobCache)
    BY DEF FixingWatch, Live, Enter, Write, objVars
<1>4. job'.st = job.st
    BY <1>3 DEF Deleted, CInv, GInv, IInv, TypeOK, JobObj
<1>5. /\ snap'.vmn = cache.vmn
      /\ snap'.phase \in {"CreatingVM", "Ready"} => jobCache.st = "complete"
    BY <1>1, <1>3 DEF FixingStatus, Fail, CInv, GInv, IInv, TypeOK, HCObj
<1>6. jobCache.st = "complete" => JobIdle /\ dv.fixed
    BY <1>1, <1>2 DEF InStep, CInv, FirstInv, OneJob
<1>7. Earned(cache) /\ dv.st = "succeeded"
    BY <1>1, <1>2 DEF AllEarned, Earned
<1>8. Earned(snap)'
    BY <1>3, <1>4, <1>5, <1>6, <1>7 DEF Earned, JobIdle
<1>9. AllEarned'
    BY <1>2, <1>3, <1>4, <1>8 DEF AllEarned, Earned, JobIdle
<1>10. InStep'
    BY <1>2, <1>3, <1>4 DEF InStep
<1>11. OneJob' /\ NoFixerBesideVM'
    BY <1>1, <1>3, <1>4 DEF CInv, FirstInv, OneJob, NoFixerBesideVM, CanStart, JobIdle
<1> QED BY <1>9, <1>10, <1>11 DEF FirstInv

\* createVirtualMachine: the phase vouches for the disk and for the Job.
LEMMA CreatingVMFirst ==
    CInv /\ FirstUse /\ (CreatingVMOk \/ CreatingVMFails) => FirstInv'
<1> SUFFICES ASSUME CInv, FirstUse, CreatingVMOk \/ CreatingVMFails PROVE FirstInv'
    OBVIOUS
<1>1. CacheLive /\ cache.phase = "CreatingVM" /\ pc = "idle"
    BY DEF CreatingVMOk, CreatingVMFails, Live, Enter, CacheLive
<1>2. /\ ~Gone /\ AllEarned /\ InStep /\ Behind(cache, hc) /\ ~Collectable(vm)
    BY <1>1, LiveFacts
<1>3. /\ UNCHANGED <<hc, gen, cache, jobCache, dv, job>> /\ pc' = "commit"
      /\ vm' = vm \/ (vm.st = "none" /\ vm' = NewVM)
    BY <1>2 DEF CreatingVMOk, CreatingVMFails, Live, Enter, Write, objVars
<1>4. Earned(cache) /\ JobIdle /\ dv.st = "succeeded" /\ ~cache.vmn
    BY <1>1, <1>2 DEF AllEarned, Earned, CInv, GInv, IInv, AllRecorded, Recorded
<1>5. snap'.jobn = cache.jobn /\ (snap'.vmn => vm'.st = "up")
  <2>1. cache \in HCObj /\ vm.st \in {"none", "up"} /\ NewVM.st = "up"
      BY DEF CInv, GInv, IInv, TypeOK, VMObj, NewVM
  <2>2. CASE CreatingVMOk
      BY <1>4, <2>1, <2>2 DEF CreatingVMOk, Write, VMDone, HCObj
  <2>3. CASE CreatingVMFails
      BY <1>4, <2>1, <2>3 DEF CreatingVMFails, Write, Fail, HCObj
  <2> QED BY <2>2, <2>3
<1>6. Earned(snap)'
    BY <1>1, <1>3, <1>4, <1>5 DEF Earned, JobIdle
<1>7. AllEarned'
    BY <1>2, <1>3, <1>6 DEF AllEarned, Earned, JobIdle, NewVM
<1>8. InStep'
    BY <1>1, <1>2, <1>3 DEF InStep, Behind, AtVM, NewVM
<1>9. OneJob' /\ NoFixerBesideVM'
    BY <1>1, <1>3, <1>4 DEF CInv, FirstInv, OneJob, NoFixerBesideVM, CanStart, JobIdle
<1> QED BY <1>7, <1>8, <1>9 DEF FirstInv

\* handleDeletion only runs once the object is gone for good.
LEMMA DeletionFirst == CInv /\ FirstUse /\ HandleDeletion => FirstInv'
<1> SUFFICES ASSUME CInv, FirstUse, HandleDeletion PROVE FirstInv'
    OBVIOUS
<1>1. cache.uid # 0 /\ cache.del /\ pc = "idle"
    BY DEF HandleDeletion, Enter
<1>2. Gone
    BY <1>1, SameObject DEF Gone, CacheLive, Behind, CInv
<1>3. /\ UNCHANGED <<hc, gen, cache, jobCache>> /\ pc' = "commit"
      /\ job' \in {job, Deleted(job)} /\ vm' \in {vm, Deleted(vm)}
    BY DEF HandleDeletion, Enter, Write, objVars
<1>4. job'.st = job.st /\ vm'.st = vm.st
    BY <1>3 DEF Deleted, CInv, GInv, IInv, TypeOK, JobObj, VMObj
<1>5. Gone'
    BY <1>2, <1>3 DEF Gone, CacheLive
<1>6. OneJob' /\ NoFixerBesideVM'
    BY <1>1, <1>3, <1>4 DEF CInv, FirstInv, OneJob, NoFixerBesideVM, CanStart, JobIdle
<1> QED BY <1>5, <1>6 DEF FirstInv

\* A commit stores what the children have earned.
LEMMA CommitFirst == CInv /\ FirstUse /\ Commit => FirstInv'
<1> SUFFICES ASSUME CInv, FirstUse, Commit PROVE FirstInv'
    OBVIOUS
<1>1. /\ UNCHANGED <<gen, cache, jobCache, dv, job, vm>> /\ ~snapFresh'
      /\ pc = "commit" /\ pc' = "idle"
    BY DEF Commit, CommitOk, CommitConflict, CommitFails, EndReconcile, Store, CInv,
           GInv, IInv, TypeOK
<1>2. CASE hc' = hc
  <2>1. Gone' = Gone
      BY <1>1, <1>2 DEF Gone, CacheLive
  <2> QED BY <1>1, <1>2, <2>1 DEF CInv, FirstInv, AllEarned, Earned, InStep, OneJob,
                                  NoFixerBesideVM, CanStart, JobIdle
<1>3. CASE snapFresh /\ hc' = Stored(snap)
  <2>1. /\ cache = hc /\ hc.uid # 0 /\ snap.uid = hc.uid /\ snap.del = hc.del
        /\ Behind(cache, snap)
      BY <1>3 DEF CInv, GInv, IInv, FreshCopies, Successor, OneBehind
  <2>2. hc' = snap \/ (hc'.uid = 0 /\ snap.del)
      BY <1>3 DEF Stored, NoHC, Posted
  <2>3. ~Gone' => ~Gone /\ hc' = snap
    <3>1. hc.del => ~CacheLive
        BY <2>1 DEF CacheLive
    <3> QED BY <1>1, <2>1, <2>2, <3>1 DEF Gone, CacheLive
  <2>4. ~Gone' => AllEarned' /\ InStep'
    <3> SUFFICES ASSUME ~Gone' PROVE AllEarned' /\ InStep'
        OBVIOUS
    <3>1. AllEarned'
        BY <1>1, <1>3, <2>3 DEF CInv, FirstInv, AllEarned, Earned, JobIdle
    <3>2. InStep'
        BY <1>1, <2>1, <2>3 DEF CInv, FirstInv, InStep, Behind
    <3> QED BY <3>1, <3>2
  <2>5. OneJob'
    <3>1. CanStart(cache) /\ job.st = "none" => ~hc'.jobn
        BY <1>3, <2>2 DEF CInv, FirstInv, OneJob, Stored, NoHC, Posted
    <3> QED BY <1>1, <3>1 DEF CInv, FirstInv, OneJob, CanStart, JobIdle
  <2>6. NoFixerBesideVM'
      BY <1>1 DEF CInv, FirstInv, NoFixerBesideVM, JobIdle
  <2> QED BY <2>4, <2>5, <2>6 DEF FirstInv
<1> QED BY <1>2, <1>3 DEF Commit, CommitOk, CommitConflict, CommitFails, Store

\* When the cache catches up with an object that can start a Job although a Job
\* is known, the cache could start one already: nothing new becomes possible.
LEMMA NoNewStart ==
    ASSUME CInv, FirstUse, CanStart(hc), job.st # "none" \/ jobCache.st # "none"
    PROVE  CanStart(cache) /\ ~Gone
<1>1. hc.uid # 0 /\ ~Gone
    BY DEF CanStart, Gone
<1>2. cache.phase \in AtFixing
    BY <1>1 DEF CInv, FirstInv, InStep
<1>3. cache.uid # 0 /\ cache.phase # "Converting"
    BY <1>2 DEF CInv, GInv, Numbered, AtFixing
<1> QED BY <1>1, <1>3, SameObject DEF CInv, Behind

\* Crashes, restarts and watch events.
LEMMA ProcessFirst == CInv /\ FirstUse /\ Process => FirstInv'
<1> SUFFICES ASSUME CInv, FirstUse, Process PROVE FirstInv'
    OBVIOUS
<1>0. UNCHANGED <<hc, gen, dv, job, vm>>
    BY DEF Process, Crash, Restart, SyncHC, SyncJob, Resync, objVars, kidVars
<1>n. NoFixerBesideVM'
    BY <1>0 DEF CInv, FirstInv, NoFixerBesideVM, JobIdle
<1>1. CASE Crash \/ SyncJob \/ Resync
  <2>1. /\ cache' = cache /\ (jobCache' = jobCache \/ jobCache' = job)
        /\ snapFresh' => snapFresh /\ snap' = snap
        /\ pc' # "down" => pc # "down"
      BY <1>1 DEF Crash, SyncJob, Resync, kidVars
  <2>2. Gone' = Gone
      BY <1>0, <2>1 DEF Gone, CacheLive
  <2>3. ~Gone => AllEarned' /\ InStep'
    <3>1. ~Gone => AllEarned'
        BY <1>0, <2>1 DEF CInv, FirstInv, AllEarned, Earned, JobIdle
    <3>2. ~Gone => InStep'
        BY <1>0, <2>1 DEF CInv, FirstInv, InStep
    <3> QED BY <3>1, <3>2
  <2>4. OneJob'
      BY <1>0, <2>1 DEF CInv, FirstInv, OneJob, CanStart, JobIdle
  <2> QED BY <1>n, <2>2, <2>3, <2>4 DEF FirstInv
<1>2. CASE Restart \/ SyncHC
  <2>1. /\ cache' = hc /\ ~snapFresh' /\ pc' # "down"
        /\ (jobCache' = job \/ (jobCache' = jobCache /\ pc # "down"))
      BY <1>2 DEF Restart, SyncHC, CInv, GInv, IInv, TypeOK, FreshCopies, kidVars
  <2>2. ~Gone' => ~Gone
      BY <1>0, <2>1 DEF Gone, CacheLive
  <2>3. ~Gone' => AllEarned'
      BY <1>0, <2>1, <2>2 DEF CInv, FirstInv, AllEarned, Earned, JobIdle
  <2>4. ~Gone' => InStep'
      BY <1>0, <2>1, <2>2 DEF CInv, FirstInv, InStep
  <2>5. OneJob'
    <3>1. job.term => ~CanStart(hc)
        BY NoNewStart DEF CInv, FirstInv, OneJob, GInv, Numbered, Owned
    <3>2. jobCache'.st = "complete" => JobIdle
        BY <2>1 DEF CInv, FirstInv, OneJob, JobIdle
    <3>3. CanStart(hc) /\ job.st = "none" => jobCache'.st = "none" /\ ~hc.jobn
      <4> SUFFICES ASSUME CanStart(hc), job.st = "none", jobCache'.st # "none"
                   PROVE  FALSE
          BY DEF CanStart
      <4>1. jobCache.st # "none" /\ pc # "down"
          BY <2>1
      <4> QED BY <4>1, NoNewStart DEF CInv, FirstInv, OneJob
    <3> QED BY <1>0, <2>1, <3>1, <3>2, <3>3 DEF OneJob, CanStart, JobIdle
  <2> QED BY <1>n, <2>3, <2>4, <2>5 DEF FirstInv
<1> QED BY <1>1, <1>2 DEF Process

\* What users do: the first object finds nothing under its name, and a deleted
\* one does not come back.
LEMMA UserFirst == CInv /\ User => FirstInv'
<1> SUFFICES ASSUME CInv, User, FirstUse' PROVE FirstInv'
    BY DEF FirstInv
<1>0. UNCHANGED <<cache, pc, dv, job, vm, jobCache>> /\ ~snapFresh'
    BY DEF User, UserCreate, UserDelete, UserEdit, Touch, Store, kidVars
<1>t. gen \in Nat /\ hc \in HCObj /\ cache.uid \in Nat
    BY ConstantsAssumption DEF CInv, GInv, IInv, TypeOK, Uids, HCObj
<1>1. CASE UserCreate
  <2>1. gen = 0
      BY <1>1, <1>t DEF UserCreate, FirstUse
  <2>2. /\ dv.own \in Nat /\ job.own \in Nat /\ vm.own \in Nat /\ jobCache.own \in Nat
      BY ConstantsAssumption DEF CInv, GInv, IInv, TypeOK, Uids, DVObj, JobObj, VMObj
  <2>3. /\ cache.uid = 0 /\ cache.phase = "Pending"
        /\ dv.st = "none" /\ job.st = "none" /\ vm.st = "none" /\ jobCache.st = "none"
      BY <1>t, <2>1, <2>2 DEF CInv, GInv, Numbered, Owned
  <2>4. ~dv.term /\ ~vm.term /\ ~job.term
      BY <2>3 DEF CInv, GInv, Numbered, Owned
  <2>5. hc'.phase = "Pending" /\ ~hc'.jobn /\ ~hc'.vmn
      BY <1>1 DEF UserCreate, Touch, Store, Stored, Posted
  <2>6. ~cache.vmn
      BY <2>3 DEF CInv, GInv, IInv, AllRecorded, Recorded
  <2>7. AllEarned' /\ InStep'
      BY <1>0, <2>3, <2>4, <2>5, <2>6 DEF AllEarned, Earned, InStep
  <2>8. OneJob' /\ NoFixerBesideVM'
      BY <1>0, <2>3, <2>5 DEF OneJob, NoFixerBesideVM, JobIdle, CanStart
  <2> QED BY <2>7, <2>8 DEF FirstInv
<1>2. CASE UserDelete \/ UserEdit
  <2>1. /\ gen' = gen /\ hc.uid # 0
        /\ \/ hc'.uid = 0 /\ ~hc'.jobn
           \/ /\ hc'.uid = hc.uid /\ (hc.del => hc'.del)
              /\ hc'.phase = hc.phase /\ hc'.jobn = hc.jobn /\ hc'.vmn = hc.vmn
    <3>0. NoHC.uid = 0 /\ ~NoHC.jobn
        BY DEF NoHC, Posted
    <3>1. CASE UserDelete
        BY <1>t, <3>0, <3>1 DEF UserDelete, Touch, Store, Stored, HCObj
    <3>2. CASE UserEdit
      <4>1. PICK url \in Urls, fixes \in BOOLEAN, wantVM \in BOOLEAN :
               Touch([hc EXCEPT !.url = url, !.fixes = fixes, !.vm = wantVM])
          BY <3>2 DEF UserEdit
      <4>2. gen' = gen /\ hc.uid # 0
          BY <3>2 DEF UserEdit
      <4> QED BY <1>t, <3>0, <4>1, <4>2 DEF Touch, Store, Stored, HCObj
    <3> QED BY <1>2, <3>1, <3>2
  <2>2. FirstUse
      BY <2>1 DEF FirstUse
  <2>3. ~Gone' => ~Gone /\ hc'.uid # 0
    <3>1. CacheLive => hc'.uid # 0
        BY UserKeeps, <1>0 DEF CacheLive, CInv, GInv, IInv, FinalizerHolds
    <3> QED BY <1>0, <2>1, <3>1 DEF Gone, CacheLive
  <2>4. ~Gone' => AllEarned' /\ InStep'
    <3>1. ~Gone' => AllEarned'
        BY <1>0, <2>1, <2>2, <2>3 DEF CInv, FirstInv, AllEarned, Earned, JobIdle
    <3>2. ~Gone' => InStep'
        BY <1>0, <2>1, <2>2, <2>3 DEF CInv, FirstInv, InStep
    <3> QED BY <3>1, <3>2
  <2>5. OneJob' /\ NoFixerBesideVM'
      BY <1>0, <2>1, <2>2 DEF CInv, FirstInv, OneJob, NoFixerBesideVM, CanStart, JobIdle
  <2> QED BY <2>4, <2>5 DEF FirstInv
<1> QED BY <1>1, <1>2 DEF User

\* The cluster: children come to their ends, are collected or expire.
LEMMA ClusterFirst == CInv /\ FirstUse /\ Cluster => FirstInv'
<1> SUFFICES ASSUME CInv, FirstUse, Cluster PROVE FirstInv'
    OBVIOUS
<1>0. UNCHANGED <<hc, gen, cache, cacheFresh, snap, snapFresh, pc, jobCache>>
    BY DEF Cluster, ImportEnds, CollectDV, CollectJob, CollectVM, JobStarts, JobEnds,
           JobExpires, ImportLate, JobLate, FrameDV, FrameKid, objVars, ctlVars
<1>t. dv \in DVObj /\ job \in JobObj
    BY DEF CInv, GInv, IInv, TypeOK
<1>g. Gone' = Gone
    BY <1>0 DEF Gone, CacheLive
<1>n. NoJob.st = "none" /\ ~NoJob.term /\ NoVM.st = "none"
    BY DEF NoJob, NoVM
<1>1. CASE ImportEnds \/ CollectDV
  <2>1. job' = job /\ vm' = vm
      BY <1>1 DEF ImportEnds, CollectDV, FrameDV
  <2>2. OneJob' /\ NoFixerBesideVM'
      BY <1>0, <2>1 DEF CInv, FirstInv, OneJob, NoFixerBesideVM, CanStart, JobIdle
  <2>3. ~Gone => AllEarned' /\ InStep'
    <3> SUFFICES ASSUME ~Gone PROVE AllEarned' /\ InStep'
        OBVIOUS
    <3>1. ImportEnds
        BY <1>1, NothingToCollect DEF CollectDV
    <3>2. dv.st = "importing" /\ dv'.term = dv.term /\ dv'.fixed = dv.fixed
        BY <1>t, <3>1 DEF ImportEnds, DVObj
    <3>3. AllEarned'
        BY <1>0, <2>1, <3>2 DEF CInv, FirstInv, AllEarned, Earned, JobIdle
    <3>4. InStep'
        BY <1>0, <2>1, <3>2 DEF CInv, FirstInv, InStep
    <3> QED BY <3>3, <3>4
  <2> QED BY <1>g, <2>2, <2>3 DEF FirstInv
<1>2. CASE CollectVM
  <2>1. dv' = dv /\ job' = job /\ vm'.st = "none"
      BY <1>2, <1>n DEF CollectVM
  <2>2. Gone
      BY <1>2, NothingToCollect DEF CollectVM
  <2> QED BY <1>0, <1>g, <2>1, <2>2 DEF CInv, FirstInv, OneJob, NoFixerBesideVM,
                                        CanStart, JobIdle
<1>3. CASE CollectJob \/ JobExpires
  <2>1. dv' = dv /\ vm' = vm /\ job' = NoJob
      BY <1>3 DEF CollectJob, JobExpires
  <2>2. ~Gone => AllEarned' /\ InStep'
    <3>1. ~Gone => AllEarned'
        BY <1>0, <1>n, <2>1 DEF CInv, FirstInv, AllEarned, Earned, JobIdle
    <3>2. ~Gone => InStep'
        BY <1>0, <1>n, <2>1 DEF CInv, FirstInv, InStep
    <3> QED BY <3>1, <3>2
  <2>3. pc # "down" => ~CanStart(cache)
    <3> SUFFICES ASSUME pc # "down", CanStart(cache) PROVE FALSE
        OBVIOUS
    <3>1. CASE JobExpires
        BY <3>1 DEF JobExpires, CInv, GInv, Requeued
    <3>2. CASE CollectJob
      <4>1. Collectable(job) /\ ~job.term
          BY <3>2 DEF CollectJob, CInv, FirstInv, OneJob
      <4>2. CacheLive
          BY DEF CanStart, CacheLive, CInv, GInv, Numbered, Finalized
      <4> QED BY <4>1, <4>2, NothingToCollect, LiveFacts
    <3> QED BY <1>3, <3>1, <3>2
  <2>4. snapFresh => pc # "down"
      BY DEF CInv, GInv, IInv, FreshCopies
  <2>5. OneJob' /\ NoFixerBesideVM'
      BY <1>0, <1>n, <2>1, <2>3, <2>4 DEF CInv, FirstInv, OneJob, NoFixerBesideVM,
                                          CanStart, JobIdle
  <2> QED BY <1>g, <2>2, <2>5 DEF FirstInv
<1>4. CASE JobStarts \/ JobEnds
  <2>1. /\ vm' = vm /\ job'.term = job.term /\ job.st # "none" /\ job'.st # "none"
        /\ ~JobIdle /\ dv'.st = dv.st /\ dv'.term = dv.term /\ (dv.fixed => dv'.fixed)
        /\ job'.st = "complete" => dv'.fixed
      BY <1>4, <1>t DEF JobStarts, JobEnds, JobObj, DVObj, JobIdle
  <2>2. ~Gone => AllEarned' /\ InStep'
    <3>1. ~Gone => AllEarned'
        BY <1>0, <2>1 DEF CInv, FirstInv, AllEarned, Earned
    <3>2. ~Gone => InStep'
        BY <1>0, <2>1 DEF CInv, FirstInv, InStep
    <3> QED BY <3>1, <3>2
  <2>3. OneJob' /\ NoFixerBesideVM'
      BY <1>0, <2>1 DEF CInv, FirstInv, OneJob, NoFixerBesideVM, CanStart
  <2> QED BY <1>g, <2>2, <2>3 DEF FirstInv
<1>5. CASE ImportLate \/ JobLate
  <2>1. UNCHANGED <<dv, job, vm>>
      BY <1>5 DEF ImportLate, JobLate
  <2> QED BY <1>0, <1>g, <2>1 DEF CInv, FirstInv, AllEarned, Earned, InStep, OneJob,
                                  NoFixerBesideVM, CanStart, JobIdle
<1> QED BY <1>1, <1>2, <1>3, <1>4, <1>5 DEF Cluster

-----------------------------------------------------------------------------
(* The results.                                                            *)

\* Every step keeps what the children owe each other.
LEMMA FirstKeeps == CInv /\ [Next]_vars => FirstInv'
<1> SUFFICES ASSUME CInv, [Next]_vars, FirstUse' PROVE FirstInv'
    BY DEF FirstInv
<1>1. CASE UNCHANGED vars
    BY <1>1 DEF vars, objVars, ctlVars, kidVars, CInv, FirstInv, FirstUse, Gone,
                CacheLive, AllEarned, Earned, InStep, OneJob, NoFixerBesideVM,
                CanStart, JobIdle
<1>2. CASE User
    BY <1>2, UserFirst
<1>3. CASE Handler \/ Commit \/ Process \/ Cluster
  <2>1. gen' = gen
      BY <1>3, HandlerFrame
         DEF Commit, CommitOk, CommitConflict, CommitFails, EndReconcile, Process,
             Crash, Restart, SyncHC, SyncJob, Resync, Cluster, ImportEnds, CollectDV,
             CollectJob, CollectVM, JobStarts, JobEnds, JobExpires, ImportLate, JobLate,
             FrameDV, FrameKid, objVars
  <2>2. FirstUse
      BY <2>1 DEF FirstUse
  <2> QED
      BY <1>3, <2>2, ReadersFirst, PendingFirst, FixingStartFirst, FixingWatchFirst,
         CreatingVMFirst, DeletionFirst, CommitFirst, ProcessFirst, ClusterFirst
         DEF Handler
<1> QED BY <1>1, <1>2, <1>3 DEF Next

\* The invariant about the children holds in every reachable state.
THEOREM ChildrenInvariant == Spec => []CInv
<1>1. CInv /\ [Next]_vars => CInv'
    BY GeneralKeeps, FirstKeeps DEF CInv
<1> QED BY <1>1, InitChildren, PTL DEF Spec

\* The fixer Job and the VirtualMachine never have the disk at the same time,
\* whatever the caches show and wherever the operator crashes.
THEOREM FixerSafety == Spec => []FixerNeverBesideVM
<1>1. CInv => FixerNeverBesideVM
    BY DEF CInv, FirstInv, NoFixerBesideVM, JobIdle, FixerNeverBesideVM
<1> QED BY <1>1, ChildrenInvariant, PTL

\* The VirtualMachine and the disk a Ready object stands for exist and are its own.
THEOREM ReadySafety == Spec => []ReadyVMExists
<1>1. CInv => ReadyVMExists
  <2> SUFFICES ASSUME CInv, FirstUse, hc.phase = "Ready", hc.vmn, ~hc.del
               PROVE  /\ vm.st = "up" /\ vm.own = hc.uid
                      /\ dv.st = "succeeded" /\ dv.own = hc.uid
      BY DEF ReadyVMExists
  <2>1. hc.uid # 0
      BY DEF CInv, GInv, Numbered
  <2>2. Earned(hc)
      BY <2>1 DEF CInv, FirstInv, Gone, AllEarned
  <2> QED BY <2>1, <2>2, SameObject DEF Earned, CInv
<1> QED BY <1>1, ChildrenInvariant, PTL

\* A VirtualMachine is only created on a disk whose import has succeeded and
\* which has been fixed, if the object went through Fixing.
THEOREM DiskSafety == Spec => VMOnFinishedDisk
<1> DEFINE Step == FirstUse /\ Created(vm, vm') => /\ dv.st = "succeeded"
                                                   /\ cache.jobn => dv.fixed
<1>1. CInv /\ [Next]_vars => [Step]_vars
  <2> SUFFICES ASSUME CInv, Next, FirstUse, Created(vm, vm')
               PROVE  dv.st = "succeeded" /\ (cache.jobn => dv.fixed)
      OBVIOUS
  <2>0. NoVM.st = "none"
      BY DEF NoVM
  <2>1. CreatingVMOk \/ CreatingVMFails
    <3>1. CASE Handler
        BY <2>0, <3>1
           DEF Created, Handler, ReconcileNothing, AddFinalizer, PendingOk,
               PendingFails, HandleUploading, HandleConverting, FixingStart,
               FixingStartFails, FixingWatch, GetFails, HandleDeletion, Return,
               Deleted, kidVars
    <3>2. CASE Commit \/ Process \/ User \/ Cluster
        BY <2>0, <3>2
           DEF Created, Commit, CommitOk, CommitConflict, CommitFails, EndReconcile,
               Process, Crash, Restart, SyncHC, SyncJob, Resync, User, UserCreate,
               UserDelete, UserEdit, Cluster, ImportEnds, CollectDV, CollectJob,
               CollectVM, JobStarts, JobEnds, JobExpires, ImportLate, JobLate, FrameDV,
               kidVars
    <3> QED BY <3>1, <3>2 DEF Next
  <2>2. CacheLive /\ cache.phase = "CreatingVM"
      BY <2>1 DEF CreatingVMOk, CreatingVMFails, Live, Enter, CacheLive
  <2> QED BY <2>2, LiveFacts DEF AllEarned, Earned
<1> QED BY <1>1, ChildrenInvariant, PTL DEF Spec, VMOnFinishedDisk

=============================================================================
