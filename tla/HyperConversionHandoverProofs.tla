------------------- MODULE HyperConversionHandoverProofs -------------------
(***************************************************************************)
(* The operator implements DiskHandover, for every set of URLs and every   *)
(* bound.  The invariant is that of HyperConversionChildProofs; the steps  *)
(* of the two specifications correspond as follows.                        *)
(*                                                                         *)
(*    first UserCreate                       Begin                         *)
(*    UserDelete, SyncHC, Restart            End, when the deletion is     *)
(*                                           seen, and else nothing        *)
(*    PendingOk, PendingFails                StartImport, or nothing       *)
(*    ImportEnds                             FinishImport                  *)
(*    FixingStart, FixingStartFails          StartFixer, or nothing        *)
(*    JobEnds                                FinishFixer                   *)
(*    CollectJob, JobExpires                 RemoveFixer                   *)
(*    CreatingVMOk, CreatingVMFails          Boot, or nothing              *)
(*    CommitOk, CommitFails                  Report, Clear or nothing      *)
(*    CollectDV, CollectVM, a second                                       *)
(*    UserCreate                             Clear                         *)
(***************************************************************************)
EXTENDS HyperConversionChildProofs

\* A step the abstract specification does not see.
Same == UNCHANGED <<Life, Disk, Fixer, Machine, Reported>>

\* While there is no second object, the mapping is that of the children.
Mapping ==
    /\ Disk = IF dv.st # "succeeded" THEN dv.st
              ELSE IF dv.fixed THEN "fixed" ELSE "imported"
    /\ Fixer = IF job.st \in {"created", "running"} THEN "active" ELSE job.st
    /\ Machine = (vm.st = "up")
    /\ Reported = hc.vmn
    /\ Life = IF gen = 0 THEN "unborn" ELSE IF Gone THEN "over" ELSE "on"
    /\ gen = 0 => hc.uid = 0 /\ cache.uid = 0
    /\ CacheLive => Life = "on"

\* Nothing exists and nothing has been ordered.
LEMMA HandoverInit == Init => Handover!HInit
BY DEF Init, Handover!HInit, Life, Disk, Fixer, Machine, Reported, FirstUse, NoHC,
       Posted, NoDV, NoJob, NoVM

\* The mapping of the first object, in a state and in its successor.
LEMMA FirstMapping == CInv /\ FirstUse => Mapping
<1> SUFFICES ASSUME CInv, FirstUse PROVE Mapping
    OBVIOUS
<1>1. vm.st \in {"none", "up"} /\ hc.vmn \in BOOLEAN /\ gen \in Nat
    BY ConstantsAssumption DEF CInv, GInv, IInv, TypeOK, VMObj, HCObj, Uids
<1>2. gen = 0 => hc.uid = 0 /\ cache.uid = 0
    BY ConstantsAssumption DEF CInv, GInv, IInv, TypeOK, HCObj, Uids, Numbered
<1> QED BY <1>1, <1>2 DEF Mapping, Disk, Fixer, Machine, Reported, Life, FirstUse, Gone,
                          CacheLive

LEMMA NextMapping == CInv' /\ FirstUse' => Mapping'
BY FirstMapping, PTL

\* With a second object there is nothing left to see.
LEMMA LaterStep == ASSUME CInv, ~FirstUse, Next PROVE Same
<1>1. gen \in Nat /\ gen' \in Nat /\ gen' >= gen
  <2>1. gen \in Nat
      BY ConstantsAssumption DEF CInv, GInv, IInv, TypeOK, Uids
  <2>2. gen' = gen \/ gen' = gen + 1
      BY HandlerFrame
         DEF Next, Commit, CommitOk, CommitConflict, CommitFails, EndReconcile, Process,
             Crash, Restart, SyncHC, SyncJob, Resync, User, UserCreate, UserDelete,
             UserEdit, Cluster, ImportEnds, CollectDV, CollectJob, CollectVM, JobStarts,
             JobEnds, JobExpires, ImportLate, JobLate, FrameDV, FrameKid, objVars
  <2> QED BY <2>1, <2>2
<1>2. ~FirstUse' /\ gen # 0 /\ gen' # 0
    BY <1>1 DEF FirstUse
<1> QED BY <1>2 DEF Same, Life, Disk, Fixer, Machine, Reported

\* A step that keeps the object and the stages of its children is not seen.
LEMMA SameStages ==
    ASSUME UNCHANGED <<gen, hc, cache>>,
           dv'.st = dv.st, dv'.fixed = dv.fixed, job'.st = job.st, vm'.st = vm.st
    PROVE  Same
BY DEF Same, Life, Disk, Fixer, Machine, Reported, FirstUse, Gone, CacheLive

\* A handler starts the import, the fixer or the machine, in that order, or
\* nothing: a live cache means that the order still stands.
LEMMA HandlerHandover ==
    ASSUME CInv, CInv', FirstUse, Handler
    PROVE  Handover!HNext \/ Same
<1>0. UNCHANGED <<hc, gen, cache>> /\ FirstUse'
    BY HandlerFrame DEF FirstUse
<1>m. Mapping /\ Mapping'
    BY <1>0, FirstMapping, NextMapping
<1>1. Life' = Life /\ Reported' = Reported
    BY <1>0 DEF Life, Reported, FirstUse, Gone, CacheLive
<1>t. dv \in DVObj /\ job \in JobObj /\ vm \in VMObj
    BY DEF CInv, GInv, IInv, TypeOK
<1>2. CASE ReconcileNothing \/ AddFinalizer \/ HandleUploading \/ HandleConverting
             \/ GetFails
  <2>1. UNCHANGED <<dv, job, vm>>
      BY <1>2 DEF ReconcileNothing, AddFinalizer, HandleUploading, HandleConverting,
                  GetFails, Return, kidVars
  <2> QED BY <1>0, <2>1, SameStages
<1>3. CASE FixingWatch \/ HandleDeletion
  <2>1. /\ dv'.st = dv.st /\ dv'.fixed = dv.fixed
        /\ job'.st = job.st /\ vm'.st = vm.st
      BY <1>3, <1>t DEF FixingWatch, HandleDeletion, Deleted, DVObj, JobObj, VMObj
  <2> QED BY <1>0, <2>1, SameStages
<1>4. CASE PendingOk \/ PendingFails
  <2>1. CacheLive
      BY <1>4 DEF PendingOk, PendingFails, Live, Enter, CacheLive
  <2>2. ~Collectable(dv)
      BY <2>1, LiveFacts
  <2>3. UNCHANGED <<job, vm>> /\ (dv' = dv \/ (dv.st = "none" /\ dv' = NewDV))
      BY <1>4, <2>2 DEF PendingOk, PendingFails
  <2>4. CASE dv' = dv
      BY <1>0, <2>3, <2>4, SameStages
  <2>5. CASE dv.st = "none" /\ dv' = NewDV
    <3>1. Handover!StartImport
        BY <1>1, <1>m, <2>1, <2>3, <2>5 DEF Handover!StartImport, Mapping, NewDV
    <3> QED BY <3>1 DEF Handover!HNext
  <2> QED BY <2>3, <2>4, <2>5
<1>5. CASE FixingStart \/ FixingStartFails
  <2>1. CacheLive /\ cache.phase = "Fixing"
      BY <1>5 DEF FixingStart, FixingStartFails, Live, Enter, CacheLive
  <2>2. dv.st = "succeeded" /\ vm.st # "up"
      BY <2>1, LiveFacts DEF AllEarned, Earned, InStep, AtVM
  <2>3. UNCHANGED <<dv, vm>> /\ (job' = job \/ (job.st = "none" /\ job' = NewJob))
      BY <1>5 DEF FixingStart, FixingStartFails
  <2>4. CASE job' = job
      BY <1>0, <2>3, <2>4, SameStages
  <2>5. CASE job.st = "none" /\ job' = NewJob
    <3>1. Handover!StartFixer
        BY <1>1, <1>m, <2>1, <2>2, <2>3, <2>5
           DEF Handover!StartFixer, Handover!Usable, Mapping, NewJob
    <3> QED BY <3>1 DEF Handover!HNext
  <2> QED BY <2>3, <2>4, <2>5
<1>6. CASE CreatingVMOk \/ CreatingVMFails
  <2>1. CacheLive /\ cache.phase = "CreatingVM"
      BY <1>6 DEF CreatingVMOk, CreatingVMFails, Live, Enter, CacheLive
  <2>2. dv.st = "succeeded" /\ JobIdle /\ ~Collectable(vm)
      BY <2>1, LiveFacts DEF AllEarned, Earned
  <2>3. UNCHANGED <<dv, job>> /\ (vm' = vm \/ (vm.st = "none" /\ vm' = NewVM))
      BY <1>6, <2>2 DEF CreatingVMOk, CreatingVMFails
  <2>4. CASE vm' = vm
      BY <1>0, <2>3, <2>4, SameStages
  <2>5. CASE vm.st = "none" /\ vm' = NewVM
    <3>1. Handover!Boot
        BY <1>1, <1>m, <2>1, <2>2, <2>3, <2>5
           DEF Handover!Boot, Handover!Usable, Mapping, NewVM, JobIdle
    <3> QED BY <3>1 DEF Handover!HNext
  <2> QED BY <2>3, <2>4, <2>5
<1> QED BY <1>2, <1>3, <1>4, <1>5, <1>6 DEF Handler

\* A commit stores the report of a machine that exists, or clears it.
LEMMA CommitHandover ==
    ASSUME CInv, CInv', FirstUse, Commit
    PROVE  Handover!HNext \/ Same
<1>0. UNCHANGED <<gen, cache, dv, job, vm>> /\ FirstUse'
    BY DEF Commit, CommitOk, CommitConflict, CommitFails, EndReconcile, FirstUse
<1>m. Mapping /\ Mapping'
    BY <1>0, FirstMapping, NextMapping
<1>1. Disk' = Disk /\ Fixer' = Fixer /\ Machine' = Machine
    BY <1>0 DEF Disk, Fixer, Machine, FirstUse
<1>2. CASE hc' = hc
    BY <1>0, <1>2, SameStages
<1>3. CASE snapFresh /\ hc' = Stored(snap)
  <2>1. /\ cache = hc /\ hc.uid # 0 /\ snap.uid = hc.uid /\ snap.del = hc.del
        /\ Behind(cache, snap)
      BY <1>3 DEF CInv, GInv, IInv, FreshCopies, Successor, OneBehind
  <2>2. hc' = snap \/ (hc'.uid = 0 /\ ~hc'.vmn /\ snap.del)
      BY <1>3 DEF Stored, NoHC, Posted
  <2>t. hc.vmn \in BOOLEAN /\ hc'.vmn \in BOOLEAN /\ gen # 0
      BY <1>m, <2>1 DEF CInv, GInv, IInv, TypeOK, HCObj, Mapping
  <2>3. CASE hc.del
    <3>1. Gone /\ Gone'
        BY <1>0, <2>1, <2>2, <2>3 DEF Gone, CacheLive
    <3>2. hc'.vmn => hc.vmn
        BY <2>1, <2>2, <2>3 DEF Behind
    <3>3. Life = "over" /\ Life' = "over" /\ Reported' \in {Reported, FALSE}
        BY <1>0, <1>m, <2>t, <3>1, <3>2 DEF Mapping
    <3>4. Handover!Clear
        BY <1>1, <3>3 DEF Handover!Clear
    <3> QED BY <3>4 DEF Handover!HNext
  <2>4. CASE ~hc.del
    <3>1. hc' = snap /\ ~Gone /\ ~Gone'
        BY <1>0, <2>1, <2>2, <2>4 DEF Gone
    <3>2. Life = "on" /\ Life' = "on"
        BY <1>0, <1>m, <2>t, <3>1 DEF Mapping
    <3>3. CASE hc'.vmn = hc.vmn
        BY <1>1, <1>m, <3>2, <3>3 DEF Same, Mapping
    <3>4. CASE hc'.vmn /\ ~hc.vmn
      <4>1. vm.st = "up"
          BY <1>3, <3>1, <3>4 DEF CInv, FirstInv, AllEarned, Earned
      <4>2. Handover!Report
          BY <1>1, <1>m, <3>2, <3>4, <4>1 DEF Handover!Report, Mapping
      <4> QED BY <4>2 DEF Handover!HNext
    <3> QED BY <2>1, <2>t, <3>1, <3>3, <3>4 DEF Behind
  <2> QED BY <2>3, <2>4
<1> QED BY <1>2, <1>3 DEF Commit, CommitOk, CommitConflict, CommitFails, Store

\* The order ends when the operator learns of the deletion.
LEMMA ProcessHandover ==
    ASSUME CInv, CInv', FirstUse, Process
    PROVE  Handover!HNext \/ Same
<1>0. UNCHANGED <<hc, gen, dv, job, vm>> /\ FirstUse'
    BY DEF Process, Crash, Restart, SyncHC, SyncJob, Resync, objVars, kidVars, FirstUse
<1>m. Mapping /\ Mapping'
    BY <1>0, FirstMapping, NextMapping
<1>1. UNCHANGED <<Disk, Fixer, Machine, Reported>>
    BY <1>0 DEF Disk, Fixer, Machine, Reported, FirstUse
<1>2. cache' = cache \/ cache' = hc
    BY DEF Process, Crash, Restart, SyncHC, SyncJob, Resync
<1>3. Gone => Gone'
    BY <1>0, <1>2 DEF Gone, CacheLive
<1>4. Life' = Life \/ (Life = "on" /\ Life' = "over")
    BY <1>0, <1>3, <1>m DEF Mapping
<1>5. CASE Life' = Life
    BY <1>1, <1>5 DEF Same
<1>6. CASE Life = "on" /\ Life' = "over"
  <2>1. Handover!End
      BY <1>1, <1>6 DEF Handover!End
  <2> QED BY <2>1 DEF Handover!HNext
<1> QED BY <1>4, <1>5, <1>6

\* Users begin the order and may end it; a second object clears what is left.
LEMMA UserHandover ==
    ASSUME CInv, CInv', FirstUse, User
    PROVE  Handover!HNext \/ Same
<1>0. UNCHANGED <<cache, dv, job, vm>>
    BY DEF User, UserCreate, UserDelete, UserEdit, Touch, Store, kidVars
<1>m. Mapping
    BY FirstMapping
<1>t. /\ gen \in Nat /\ hc \in HCObj /\ hc.vmn \in BOOLEAN
      /\ hc.uid # 0 => gen # 0
    BY <1>m, ConstantsAssumption DEF CInv, GInv, IInv, TypeOK, Uids, HCObj, Mapping
<1>n. NoHC.uid = 0 /\ NoHC.vmn = FALSE
    BY DEF NoHC, Posted
<1>v. hc.uid = 0 \/ ~hc.fin => ~CacheLive
    BY DEF CacheLive, CInv, GInv, IInv, FinalizerHolds
<1>1. CASE UserCreate
  <2>1. /\ hc.uid = 0 /\ gen' = gen + 1 /\ hc'.uid = gen + 1 /\ ~hc'.del
        /\ hc'.vmn = FALSE
      BY <1>1 DEF UserCreate, Touch, Store, Stored, Posted
  <2>2. hc.vmn = FALSE
      BY <1>t, <2>1 DEF CInv, GInv, Numbered, IInv, AllRecorded, Recorded
  <2>3. CASE gen = 0
    <3>1. FirstUse'
        BY <2>1, <2>3 DEF FirstUse
    <3>2. Mapping' /\ ~Gone' /\ gen' # 0
        BY <2>1, <2>3, <3>1, NextMapping DEF Gone
    <3>3. Handover!Begin
        BY <1>0, <1>m, <2>1, <2>2, <2>3, <3>2 DEF Handover!Begin, Mapping
    <3> QED BY <3>3 DEF Handover!HNext
  <2>4. CASE gen # 0
    <3>1. ~FirstUse' /\ gen' # 0
        BY <1>t, <2>1, <2>4 DEF FirstUse
    <3>2. Gone
        BY <1>v, <2>1 DEF Gone
    <3>3. Life = "over"
        BY <1>m, <2>4, <3>2 DEF Mapping
    <3>4. /\ Life' = "over" /\ Disk' = "none" /\ Fixer' = "none"
          /\ Machine' = FALSE /\ Reported' = FALSE
        BY <3>1 DEF Life, Disk, Fixer, Machine, Reported
    <3>5. Handover!Clear
        BY <3>3, <3>4 DEF Handover!Clear
    <3> QED BY <3>5 DEF Handover!HNext
  <2> QED BY <2>3, <2>4
<1>2. CASE UserDelete \/ UserEdit
  <2>1. /\ gen' = gen /\ hc.uid # 0
        /\ \/ hc' = NoHC /\ ~hc.fin
           \/ hc'.uid = hc.uid /\ (hc.del => hc'.del) /\ hc'.vmn = hc.vmn
    <3>1. CASE UserDelete
        BY <1>t, <3>1 DEF UserDelete, Touch, Store, Stored, HCObj
    <3>2. CASE UserEdit
      <4>1. PICK url \in Urls, fixes \in BOOLEAN, wantVM \in BOOLEAN :
               Touch([hc EXCEPT !.url = url, !.fixes = fixes, !.vm = wantVM])
          BY <3>2 DEF UserEdit
      <4>2. gen' = gen /\ hc.uid # 0
          BY <3>2 DEF UserEdit
      <4> QED BY <1>t, <4>1, <4>2 DEF Touch, Store, Stored, HCObj
    <3> QED BY <1>2, <3>1, <3>2
  <2>2. Mapping' /\ FirstUse' /\ gen # 0
      BY <1>t, <2>1, NextMapping DEF FirstUse
  <2>3. UNCHANGED <<Disk, Fixer, Machine>>
      BY <1>0, <2>1 DEF Disk, Fixer, Machine, FirstUse
  <2>4. Gone => Gone'
      BY <1>0, <1>n, <2>1 DEF Gone, CacheLive
  <2>5. CASE Gone
    <3>1. Reported' \in {Reported, FALSE}
        BY <1>m, <1>n, <1>t, <2>1, <2>2 DEF Mapping
    <3>2. Life = "over" /\ Life' = "over"
        BY <1>m, <2>1, <2>2, <2>4, <2>5 DEF Mapping
    <3>3. Handover!Clear
        BY <2>3, <3>1, <3>2 DEF Handover!Clear
    <3> QED BY <3>3 DEF Handover!HNext
  <2>6. CASE ~Gone
    <3>1. ~hc.fin => hc.vmn = FALSE
        BY <1>t, <1>v, <2>6 DEF Gone, CInv, GInv, Numbered, Finalized, IInv, AllRecorded,
                          Recorded
    <3>2. Reported' = Reported
        BY <1>m, <1>n, <1>t, <2>1, <2>2, <3>1 DEF Mapping
    <3>3. Life = "on" /\ Life' \in {"on", "over"}
        BY <1>m, <2>1, <2>2, <2>6 DEF Mapping
    <3>4. CASE Life' = "on"
        BY <2>3, <3>2, <3>3, <3>4 DEF Same
    <3>5. CASE Life' = "over"
      <4>1. Handover!End
          BY <2>3, <3>2, <3>3, <3>5 DEF Handover!End
      <4> QED BY <4>1 DEF Handover!HNext
    <3> QED BY <3>3, <3>4, <3>5
  <2> QED BY <2>5, <2>6
<1> QED BY <1>1, <1>2 DEF User

\* The cluster finishes what was started, and collects what is over.
LEMMA ClusterHandover ==
    ASSUME CInv, CInv', FirstUse, Cluster
    PROVE  Handover!HNext \/ Same
<1>0. UNCHANGED <<hc, gen, cache>> /\ FirstUse'
    BY DEF Cluster, ImportEnds, CollectDV, CollectJob, CollectVM, JobStarts, JobEnds,
           JobExpires, ImportLate, JobLate, FrameDV, FrameKid, objVars, ctlVars, FirstUse
<1>m. Mapping /\ Mapping'
    BY <1>0, FirstMapping, NextMapping
<1>t. dv \in DVObj /\ job \in JobObj /\ vm \in VMObj
    BY DEF CInv, GInv, IInv, TypeOK
<1>n. NoDV.st = "none" /\ NoJob.st = "none" /\ NoVM.st = "none"
    BY DEF NoDV, NoJob, NoVM
<1>1. Life' = Life /\ Reported' = Reported
    BY <1>0 DEF Life, Reported, FirstUse, Gone, CacheLive
<1>2. CASE ImportEnds
  <2>1. /\ UNCHANGED <<job, vm>> /\ dv.st = "importing"
        /\ dv'.st \in {"succeeded", "failed"} /\ dv'.fixed = dv.fixed
      BY <1>2, <1>t DEF ImportEnds, FrameDV, DVObj
  <2>2. ~dv.fixed
      BY <2>1 DEF CInv, GInv, Numbered
  <2>3. Handover!FinishImport
      BY <1>1, <1>m, <2>1, <2>2 DEF Handover!FinishImport, Mapping
  <2> QED BY <2>3 DEF Handover!HNext
<1>3. CASE CollectDV \/ CollectVM
  <2>1. Gone
      BY <1>3, NothingToCollect DEF CollectDV, CollectVM
  <2>2. gen # 0
    <3>1. dv.own \in Nat /\ vm.own \in Nat
        BY <1>t, ConstantsAssumption DEF DVObj, VMObj, Uids
    <3> QED BY <1>3, <3>1 DEF CollectDV, CollectVM, Collectable, CInv, GInv, Numbered,
                              Owned
  <2>3. Life = "over"
      BY <1>m, <2>1, <2>2 DEF Mapping
  <2>4. CASE CollectDV
    <3>1. UNCHANGED <<job, vm>> /\ dv'.st = "none"
        BY <1>n, <2>4 DEF CollectDV, FrameDV
    <3>2. Disk' = "none" /\ Fixer' = Fixer /\ Machine' = Machine
        BY <1>m, <3>1 DEF Mapping
    <3>3. Handover!Clear
        BY <1>1, <2>3, <3>2 DEF Handover!Clear
    <3> QED BY <3>3 DEF Handover!HNext
  <2>5. CASE CollectVM
    <3>1. UNCHANGED <<dv, job>> /\ vm'.st = "none"
        BY <1>n, <2>5 DEF CollectVM
    <3>2. Disk' = Disk /\ Fixer' = Fixer /\ Machine' = FALSE
        BY <1>m, <3>1 DEF Mapping
    <3>3. Handover!Clear
        BY <1>1, <2>3, <3>2 DEF Handover!Clear
    <3> QED BY <3>3 DEF Handover!HNext
  <2> QED BY <1>3, <2>4, <2>5
<1>4. CASE CollectJob \/ JobExpires
  <2>1. UNCHANGED <<dv, vm>> /\ job.st # "none" /\ job'.st = "none"
      BY <1>4, <1>n DEF CollectJob, JobExpires, Collectable
  <2>2. Handover!RemoveFixer
      BY <1>1, <1>m, <2>1 DEF Handover!RemoveFixer, Mapping
  <2> QED BY <2>2 DEF Handover!HNext
<1>5. CASE JobStarts
  <2>1. UNCHANGED <<dv, vm>> /\ job.st = "created" /\ job'.st = "running"
      BY <1>5, <1>t DEF JobStarts, JobObj
  <2> QED BY <1>1, <1>m, <2>1 DEF Same, Mapping
<1>6. CASE JobEnds
  <2>1. /\ vm' = vm /\ job.st = "running"
        /\ \/ /\ dv.st = "succeeded" /\ job'.st = "complete"
              /\ dv'.st = "succeeded" /\ dv'.fixed
           \/ job'.st = "failed" /\ dv' = dv
      BY <1>6, <1>t DEF JobEnds, JobObj, DVObj
  <2>2. Handover!FinishFixer
      BY <1>1, <1>m, <2>1 DEF Handover!FinishFixer, Handover!Usable, Mapping
  <2> QED BY <2>2 DEF Handover!HNext
<1>7. CASE ImportLate \/ JobLate
  <2>1. UNCHANGED <<dv, job, vm>>
      BY <1>7 DEF ImportLate, JobLate
  <2> QED BY <1>0, <2>1, SameStages
<1> QED BY <1>2, <1>3, <1>4, <1>5, <1>6, <1>7 DEF Cluster

\* Every step of the operator and its cluster is a step of the handover.
LEMMA HandoverStep ==
    ASSUME CInv, CInv', [Next]_vars
    PROVE  [Handover!HNext]_(Handover!hvars)
<1>1. Same => UNCHANGED Handover!hvars
    BY DEF Same, Handover!hvars
<1>2. CASE UNCHANGED vars
    BY <1>1, <1>2, SameStages DEF vars, objVars, ctlVars, kidVars
<1>3. CASE Next /\ ~FirstUse
    BY <1>1, <1>3, LaterStep
<1>4. CASE Next /\ FirstUse
    BY <1>1, <1>4, HandlerHandover, CommitHandover, ProcessHandover, UserHandover,
       ClusterHandover DEF Next
<1> QED BY <1>2, <1>3, <1>4

\* The operator implements DiskHandover: the disk goes from the import to the
\* fixer to the virtual machine, each in its turn, whatever the caches show.
THEOREM ImplementsHandover == Spec => HandsOver
<1>1. CInv /\ CInv' /\ [Next]_vars => [Handover!HNext]_(Handover!hvars)
    BY HandoverStep
<1> QED BY <1>1, HandoverInit, ChildrenInvariant, PTL
           DEF Spec, HandsOver, Handover!HSpec

=============================================================================
