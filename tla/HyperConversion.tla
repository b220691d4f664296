--------------------------- MODULE HyperConversion ---------------------------
(***************************************************************************)
(* The Kubernetes operator that carries one HyperConversion object from    *)
(* Pending to Ready (operator/controllers/hyperconversion_controller.go).  *)
(*                                                                         *)
(* One worker reconciles one object.  A reconcile reads the object from    *)
(* the informer CACHE, calls the API server for the children (DataVolume,  *)
(* fixer Job, VirtualMachine), mutates its in-memory copy and ends with a  *)
(* single optimistic write of that copy.  The write loses to any write     *)
(* that happened after the version the cache held, so a reconcile is two   *)
(* steps here: a handler (read and child calls) and a Commit.  Everything  *)
(* else - users, CDI, the Job controller, the garbage collector, watch     *)
(* events, a crash of the operator - happens before, between or after.     *)
(*                                                                         *)
(* resourceVersion is not a number: cacheFresh and snapFresh say whether   *)
(* the copy still has the version of the stored object, and every write    *)
(* of the stored object clears both.  DataVolume and VirtualMachine are    *)
(* unstructured and read live; HyperConversion and Job are typed and read  *)
(* from informer caches.  Messages, progress, events, metrics, times and   *)
(* the contents of the specs built for the children are left out.          *)
(***************************************************************************)
EXTENDS Naturals, FiniteSets

CONSTANTS Urls,        \* spec.source.url values
          MaxUid,      \* how many times the object is created
          MaxEdits,    \* bound on user edits of the spec
          MaxFaults,   \* bound on API calls that fail transiently
          MaxCrashes,  \* bound on operator crashes
          Resyncs      \* is the informer's periodic resync modelled?

ASSUME ConstantsAssumption ==
    /\ Urls # {}
    /\ MaxUid \in Nat \ {0}
    /\ MaxEdits \in Nat
    /\ MaxFaults \in Nat
    /\ MaxCrashes \in Nat
    /\ Resyncs \in BOOLEAN

VARIABLES hc,          \* the stored HyperConversion
          gen,         \* incarnations created so far
          cache,       \* the informer's copy
          cacheFresh,  \* the copy has the stored object's resourceVersion
          snap,        \* the copy a reconcile in flight has mutated
          snapFresh,   \* its resourceVersion is still current
          pc,          \* the worker: idle, about to commit, or down
          ret,         \* does the reconcile requeue, by outcome of its write?
          queued,      \* the request is in the work queue
          dv, job, vm, \* the children, as the API server stores them
          jobCache,    \* the informer's copy of the Job
          late,        \* which of the two timeouts have elapsed
          edits, faults, crashes

objVars  == <<hc, gen>>
ctlVars  == <<cache, cacheFresh, snap, snapFresh, pc, ret, queued>>
kidVars  == <<dv, job, vm, jobCache, late>>
bndVars  == <<edits, faults, crashes>>
vars     == <<objVars, ctlVars, kidVars, bndVars>>

Phases == {"Pending", "Uploading", "Converting", "Fixing", "CreatingVM",
           "Ready", "Failed"}
Terminal == {"Ready", "Failed"}
Conds  == {"DataVolumeReady", "ConversionComplete", "FixesComplete", "VMReady"}
Uids   == 0..MaxUid

HCObj == [uid : Uids, fin : BOOLEAN, del : BOOLEAN,
          url : Urls, fixes : BOOLEAN, vm : BOOLEAN,
          phase : Phases, dvn : BOOLEAN, jobn : BOOLEAN, vmn : BOOLEAN,
          conds : SUBSET Conds]
DVObj  == [st : {"none", "importing", "succeeded", "failed"}, own : Uids,
           term : BOOLEAN, url : Urls, fixed : BOOLEAN]
JobObj == [st : {"none", "created", "running", "complete", "failed"},
           own : Uids, term : BOOLEAN]
VMObj  == [st : {"none", "up"}, own : Uids, term : BOOLEAN]

AnyUrl == CHOOSE u \in Urls : TRUE

\* A HyperConversion as the user posts it: no finalizer, empty status.
Posted(u, url, fixes, wantVM) ==
    [uid |-> u, fin |-> FALSE, del |-> FALSE,
     url |-> url, fixes |-> fixes, vm |-> wantVM,
     phase |-> "Pending", dvn |-> FALSE, jobn |-> FALSE, vmn |-> FALSE,
     conds |-> {}]

NoHC  == Posted(0, AnyUrl, FALSE, FALSE)
NoDV  == [st |-> "none", own |-> 0, term |-> FALSE, url |-> AnyUrl, fixed |-> FALSE]
NoJob == [st |-> "none", own |-> 0, term |-> FALSE]
NoVM  == [st |-> "none", own |-> 0, term |-> FALSE]

Init ==
    /\ hc = NoHC /\ gen = 0
    /\ cache = NoHC /\ cacheFresh = TRUE
    /\ snap = NoHC /\ snapFresh = FALSE
    /\ pc = "idle" /\ ret = [ok |-> FALSE, err |-> FALSE] /\ queued = FALSE
    /\ dv = NoDV /\ job = NoJob /\ vm = NoVM /\ jobCache = NoJob
    /\ late = {}
    /\ edits = 0 /\ faults = 0 /\ crashes = 0

-----------------------------------------------------------------------------
(* The frame of a reconcile.                                               *)

\* Reconcile got the request and the cache holds the object.
Enter == pc = "idle" /\ queued /\ cache.uid # 0

\* Mutant: the phase switch does not depend on the finalizer.
LiveMutant(phase) == Enter /\ ~cache.del /\ cache.phase = phase

\* The phase switch is reached: finalizer present, no deletionTimestamp.
Live(phase) == Enter /\ cache.fin /\ ~cache.del /\ cache.phase = phase

\* The handler goes on to write o, and requeues as the code returns.
Write(o, onOk, onErr) ==
    /\ pc' = "commit"
    /\ queued' = FALSE
    /\ snap' = o
    /\ snapFresh' = cacheFresh
    /\ ret' = [ok |-> onOk, err |-> onErr]
    /\ UNCHANGED <<objVars, cache, cacheFresh, edits, crashes>>

\* The handler returns without writing the object.
Return(requeue) ==
    /\ queued' = requeue
    /\ UNCHANGED <<objVars, cache, cacheFresh, snap, snapFresh, pc, ret,
                   kidVars, edits, crashes>>

\* An API call fails with an error other than NotFound, AlreadyExists, Conflict.
Fault == faults < MaxFaults /\ faults' = faults + 1

NoFault == faults' = faults

\* Reconcile: the object is not in the cache, or there is nothing to do for it.
ReconcileNothing ==
    /\ pc = "idle" /\ queued
    /\ \/ cache.uid = 0
       \/ cache.uid # 0 /\ ~cache.fin /\ cache.del
       \/ cache.uid # 0 /\ cache.fin /\ ~cache.del /\ cache.phase \in Terminal
    /\ Return(FALSE) /\ NoFault

\* Reconcile: add the finalizer, Update, requeue.
AddFinalizer ==
    /\ Enter /\ ~cache.fin /\ ~cache.del
    /\ Write([cache EXCEPT !.fin = TRUE], TRUE, TRUE) /\ NoFault
    /\ UNCHANGED kidVars

-----------------------------------------------------------------------------
(* The handlers of the phases.                                             *)

\* Delete: the object goes once its finalizers and dependents allow it.
Deleted(c) == IF c.st = "none" THEN c ELSE [c EXCEPT !.term = TRUE]

\* An object is collected when it is being deleted or its owner is gone; an
\* object without an owner reference (own = 0) is nobody's to collect.
Collectable(c) == c.st # "none" /\ (c.term \/ c.own \notin {0, hc.uid})

Fail(o) == [o EXCEPT !.phase = "Failed"]

\* The child createDataVolume posts: owned by the object the cache shows.
NewDV  == [st |-> "importing", own |-> cache.uid, term |-> FALSE,
           url |-> cache.url, fixed |-> FALSE]
NewJob == [st |-> "created", own |-> cache.uid, term |-> FALSE]

\* Mutant: the owner reference is not set.
NewVMMutant == [st |-> "up", own |-> 0, term |-> FALSE]

NewVM  == [st |-> "up", own |-> cache.uid, term |-> FALSE]

\* handlePending, DataVolume created or found under its name and adopted.
PendingOk ==
    /\ Live("Pending")
    /\ dv' = IF dv.st = "none" THEN NewDV ELSE dv
    /\ Write([cache EXCEPT !.phase = "Uploading", !.dvn = TRUE,
                           !.conds = @ \ {"DataVolumeReady"}], TRUE, TRUE)
    /\ NoFault
    /\ UNCHANGED <<job, vm, jobCache, late>>

\* handlePending, Create failed (it may have taken effect all the same), or the
\* DataVolume it collided with was gone when it was read back: the object is
\* written as Failed and the error is returned, so it is requeued.
PendingFails ==
    /\ Live("Pending")
    /\ \/ Fault /\ dv' \in IF dv.st = "none" THEN {dv, NewDV} ELSE {dv}
       \/ NoFault /\ Collectable(dv) /\ dv' = NoDV
    /\ Write([Fail(cache) EXCEPT !.conds = @ \ {"DataVolumeReady"}], TRUE, TRUE)
    /\ UNCHANGED <<job, vm, jobCache, late>>

\* Mutants: the timeout is not checked; a phase CDI does not report is written;
\* an import that failed is taken for one that ended.
UploadingStatusNoTimeout(o, d) ==
    IF ~o.dvn \/ d.st = "none" THEN Fail(o)
    ELSE IF d.st = "succeeded"
           THEN [o EXCEPT !.phase = "Converting",
                          !.conds = @ \union {"DataVolumeReady"}]
           ELSE IF d.st = "failed" THEN Fail(o) ELSE o

UploadingStatusMisspelt(o, d) ==
    IF ~o.dvn \/ d.st = "none" THEN Fail(o) ELSE [o EXCEPT !.phase = d.st]

UploadingStatusAnyEnd(o, d) ==
    IF ~o.dvn \/ d.st = "none" THEN Fail(o)
    ELSE IF d.st = "importing" THEN o
    ELSE [o EXCEPT !.phase = "Converting", !.conds = @ \union {"DataVolumeReady"}]

\* What handleUploading makes of the object o when it reads DataVolume d.
UploadingStatus(o, d) ==
    IF ~o.dvn \/ d.st = "none" \/ "import" \in late THEN Fail(o)
    ELSE CASE d.st = "succeeded" ->
                [o EXCEPT !.phase = "Converting",
                          !.conds = @ \union {"DataVolumeReady"}]
           [] d.st = "failed" ->
                [Fail(o) EXCEPT !.conds = @ \ {"DataVolumeReady"}]
           [] OTHER -> o

\* Every branch that ends in Failed drops the error of its write and does not
\* requeue; the others requeue whatever the write does.
HandleUploading ==
    /\ Live("Uploading")
    /\ LET o == UploadingStatus(cache, dv)
       IN  Write(o, o.phase # "Failed", o.phase # "Failed")
    /\ NoFault
    /\ UNCHANGED kidVars

\* Mutant: the condition is only set on the way to Fixing.
ConvertingStatusMutant(o) ==
    IF o.fixes
      THEN [o EXCEPT !.conds = @ \union {"ConversionComplete"}, !.phase = "Fixing"]
      ELSE [o EXCEPT !.phase = IF o.vm THEN "CreatingVM" ELSE "Ready"]

\* What handleConverting makes of the object o.
ConvertingStatus(o) ==
    [o EXCEPT !.conds = @ \union {"ConversionComplete"},
              !.phase = IF o.fixes THEN "Fixing"
                        ELSE IF o.vm THEN "CreatingVM" ELSE "Ready"]

HandleConverting ==
    /\ Live("Converting")
    /\ LET o == ConvertingStatus(cache) IN Write(o, o.phase # "Ready", TRUE)
    /\ NoFault
    /\ UNCHANGED kidVars

\* handleFixing without a recorded Job: createFixerJob.  On AlreadyExists the
\* Job is read back from the cache, which may not have it yet.
FixingStart ==
    /\ Live("Fixing") /\ ~cache.jobn
    /\ LET created == cache.dvn /\ job.st = "none"
           found   == cache.dvn /\ job.st # "none" /\ jobCache.st # "none"
       IN  /\ job' = IF created THEN NewJob ELSE job
           /\ late' = IF created THEN late \ {"job"} ELSE late
           /\ Write(IF created \/ found THEN [cache EXCEPT !.jobn = TRUE]
                                        ELSE Fail(cache), TRUE, TRUE)
    /\ NoFault
    /\ UNCHANGED <<dv, vm, jobCache>>

FixingStartFails ==
    /\ Live("Fixing") /\ ~cache.jobn
    /\ Fault
    /\ job' \in IF job.st = "none" /\ cache.dvn THEN {job, NewJob} ELSE {job}
    /\ late' = IF job' = job THEN late ELSE late \ {"job"}
    /\ Write(Fail(cache), TRUE, TRUE)
    /\ UNCHANGED <<dv, vm, jobCache>>

\* Mutant: a Job that has started is taken for a Job that has completed.
FixingStatusMutant(o, j) ==
    CASE j.st \in {"running", "complete"} ->
            [o EXCEPT !.conds = @ \union {"FixesComplete"},
                      !.phase = IF o.vm THEN "CreatingVM" ELSE "Ready"]
      [] j.st \in {"failed", "none"} -> Fail(o)
      [] OTHER -> o

\* Mutant: a Job that has failed does not stop the conversion.
FixingStatusLenient(o, j) ==
    CASE j.st \in {"complete", "failed"} ->
            [o EXCEPT !.conds = @ \union {"FixesComplete"},
                      !.phase = IF o.vm THEN "CreatingVM" ELSE "Ready"]
      [] j.st = "none" -> Fail(o)
      [] OTHER -> o

\* What handleFixing makes of the object o when it reads Job j.
FixingStatus(o, j) ==
    CASE j.st = "complete" ->
            [o EXCEPT !.conds = @ \union {"FixesComplete"},
                      !.phase = IF o.vm THEN "CreatingVM" ELSE "Ready"]
      [] j.st = "failed" -> [Fail(o) EXCEPT !.conds = @ \ {"FixesComplete"}]
      [] j.st = "none" -> Fail(o)
      [] j.st = "running" /\ "job" \in late -> Fail(o)
      [] OTHER -> o

\* handleFixing with a recorded Job: read it from the cache; a Job past its
\* timeout is deleted.  Failed branches do not requeue.
FixingWatch ==
    /\ Live("Fixing") /\ cache.jobn
    /\ LET o == FixingStatus(cache, jobCache)
           timedOut == jobCache.st = "running" /\ "job" \in late
       IN  /\ Write(o, o.phase # "Failed", o.phase # "Failed")
           /\ \/ NoFault /\ job' = IF timedOut THEN Deleted(job) ELSE job
              \/ timedOut /\ Fault /\ UNCHANGED job
    /\ UNCHANGED <<dv, vm, jobCache, late>>

\* The object as handleCreatingVM leaves it once a VirtualMachine exists.
VMDone(o) == [o EXCEPT !.phase = "Ready", !.vmn = TRUE,
                       !.conds = @ \union {"VMReady"}]

\* Mutant: Ready is written without creating the VirtualMachine.
CreatingVMOkMutant ==
    /\ Live("CreatingVM")
    /\ Write(IF cache.vm THEN VMDone(cache) ELSE [cache EXCEPT !.phase = "Ready"],
             FALSE, TRUE)
    /\ NoFault
    /\ UNCHANGED kidVars

\* handleCreatingVM: nothing to create; or the VirtualMachine is recorded and
\* exists (this write's error is dropped); or it is created or adopted.
CreatingVMOk ==
    /\ Live("CreatingVM")
    /\ LET recorded == cache.vm /\ cache.vmn /\ vm.st # "none"
       IN  Write(IF cache.vm THEN VMDone(cache) ELSE [cache EXCEPT !.phase = "Ready"],
                 FALSE, ~recorded)
    /\ vm' = IF cache.vm /\ vm.st = "none" THEN NewVM ELSE vm
    /\ NoFault
    /\ UNCHANGED <<dv, job, jobCache, late>>

CreatingVMFails ==
    /\ Live("CreatingVM") /\ cache.vm
    /\ \/ Fault /\ vm' \in IF vm.st = "none" THEN {vm, NewVM} ELSE {vm}
       \/ NoFault /\ Collectable(vm) /\ vm' = NoVM
    /\ Write([Fail(cache) EXCEPT !.conds = @ \ {"VMReady"}], TRUE, TRUE)
    /\ UNCHANGED <<dv, job, jobCache, late>>

\* handleUploading: the live Get of the DataVolume failed; the error is returned.
GetFails ==
    /\ Live("Uploading") /\ cache.dvn
    /\ Fault
    /\ Return(TRUE)

\* Mutant: the finalizer is only removed when there was nothing to delete.
HandleDeletionMutant ==
    /\ Enter /\ cache.fin /\ cache.del
    /\ dv' = IF cache.dvn THEN Deleted(dv) ELSE dv
    /\ vm' = IF cache.vmn THEN Deleted(vm) ELSE vm
    /\ Write([cache EXCEPT !.fin = cache.dvn], FALSE, TRUE)
    /\ NoFault
    /\ UNCHANGED <<job, jobCache, late>>

\* handleDeletion: delete every child whose name is in the status, ignoring
\* errors (lost is what was not deleted), then remove the finalizer.
HandleDeletion ==
    /\ Enter /\ cache.fin /\ cache.del
    /\ \E lost \in SUBSET {"dv", "job", "vm"} :
        /\ IF lost = {} THEN NoFault ELSE Fault
        /\ dv' = IF cache.dvn /\ "dv" \notin lost THEN Deleted(dv) ELSE dv
        /\ job' = IF cache.jobn /\ jobCache.st # "none" /\ "job" \notin lost
                    THEN Deleted(job) ELSE job
        /\ vm' = IF cache.vmn /\ "vm" \notin lost THEN Deleted(vm) ELSE vm
    /\ Write([cache EXCEPT !.fin = FALSE], FALSE, TRUE)
    /\ UNCHANGED <<jobCache, late>>

-----------------------------------------------------------------------------
(* The write that ends a reconcile.                                        *)

\* The API server removes an object under deletion without finalizers.
Stored(o) == IF o.del /\ ~o.fin THEN NoHC ELSE o

\* A write of the stored object makes every other copy stale.
Store(o) ==
    /\ hc' = Stored(o)
    /\ cacheFresh' = FALSE
    /\ snapFresh' = FALSE

EndReconcile(requeue) ==
    /\ pc' = "idle"
    /\ queued' = (queued \/ requeue)
    /\ snap' = NoHC
    /\ ret' = [ok |-> FALSE, err |-> FALSE]
    /\ UNCHANGED <<gen, cache, dv, job, vm, jobCache, edits, crashes>>

\* StartTime is set by the write that leaves Pending: the clock starts then.
RestartClock == late' = IF snap.phase = "Uploading" /\ hc.phase = "Pending"
                          THEN late \ {"import"} ELSE late

\* Mutant: the write does not carry the resourceVersion it was based on.
CommitOkMutant ==
    /\ pc = "commit"
    /\ Store(snap)
    /\ RestartClock
    /\ EndReconcile(ret.ok) /\ NoFault

CommitOk ==
    /\ pc = "commit" /\ snapFresh
    /\ Store(snap)
    /\ RestartClock
    /\ EndReconcile(ret.ok) /\ NoFault

\* The stored object has changed since the cache read it: Conflict or NotFound.
CommitConflict ==
    /\ pc = "commit" /\ ~snapFresh
    /\ EndReconcile(ret.err) /\ NoFault
    /\ UNCHANGED <<hc, cacheFresh, snapFresh, late>>

\* The call fails in transit, before or after the API server applied it.
CommitFails ==
    /\ pc = "commit" /\ snapFresh
    /\ Fault
    /\ \/ Store(snap) /\ RestartClock
       \/ snapFresh' = FALSE /\ UNCHANGED <<hc, cacheFresh, late>>
    /\ EndReconcile(ret.err)

-----------------------------------------------------------------------------
(* The operator process and its watches.                                   *)

\* A crash loses the queue and the reconcile in flight, never the cluster.
Crash ==
    /\ pc # "down" /\ crashes < MaxCrashes
    /\ crashes' = crashes + 1
    /\ pc' = "down" /\ queued' = FALSE
    /\ snap' = NoHC /\ snapFresh' = FALSE /\ ret' = [ok |-> FALSE, err |-> FALSE]
    /\ UNCHANGED <<objVars, cache, cacheFresh, kidVars, edits, faults>>

\* The manager starts: informers list, every listed object is enqueued.
Restart ==
    /\ pc = "down"
    /\ pc' = "idle" /\ queued' = TRUE
    /\ cache' = hc /\ cacheFresh' = TRUE /\ jobCache' = job
    /\ UNCHANGED <<objVars, snap, snapFresh, ret, dv, job, vm, late, bndVars>>

\* For(HyperConversion): the informer catches up and enqueues.
SyncHC ==
    /\ pc # "down" /\ ~cacheFresh
    /\ cache' = hc /\ cacheFresh' = TRUE /\ queued' = TRUE
    /\ UNCHANGED <<objVars, snap, snapFresh, pc, ret, kidVars, bndVars>>

\* Owns(Job).
SyncJob ==
    /\ pc # "down" /\ jobCache # job
    /\ jobCache' = job /\ queued' = TRUE
    /\ UNCHANGED <<objVars, cache, cacheFresh, snap, snapFresh, pc, ret,
                   dv, job, vm, late, bndVars>>

\* The informer's periodic resync enqueues what the cache holds.
Resync ==
    /\ Resyncs /\ pc # "down" /\ ~queued /\ cache.uid # 0
    /\ queued' = TRUE
    /\ UNCHANGED <<objVars, cache, cacheFresh, snap, snapFresh, pc, ret,
                   kidVars, bndVars>>

-----------------------------------------------------------------------------
(* The cluster around the operator.                                        *)

Touch(o) == Store(o) /\ UNCHANGED <<cache, snap, pc, ret, queued>>

UserCreate ==
    /\ hc.uid = 0 /\ gen < MaxUid
    /\ gen' = gen + 1
    /\ \E url \in Urls, fixes, wantVM \in BOOLEAN :
          Touch(Posted(gen + 1, url, fixes, wantVM))
    /\ UNCHANGED <<kidVars, bndVars>>

UserDelete ==
    /\ hc.uid # 0 /\ ~hc.del
    /\ Touch([hc EXCEPT !.del = TRUE])
    /\ UNCHANGED <<gen, kidVars, bndVars>>

\* The webhook's ValidateUpdate freezes source.url once a DataVolume is
\* recorded; conversion and vm stay editable.
UserEdit ==
    /\ hc.uid # 0 /\ edits < MaxEdits
    /\ edits' = edits + 1
    /\ \E url \in Urls, fixes, wantVM \in BOOLEAN :
        /\ hc.dvn => url = hc.url
        /\ <<url, fixes, wantVM>> # <<hc.url, hc.fixes, hc.vm>>
        /\ Touch([hc EXCEPT !.url = url, !.fixes = fixes, !.vm = wantVM])
    /\ UNCHANGED <<gen, kidVars, faults, crashes>>

\* Owns(DataVolume): an event of the DataVolume enqueues the object.
NotifyDV == queued' = (pc # "down")

FrameDV == UNCHANGED <<objVars, cache, cacheFresh, snap, snapFresh, pc, ret,
                       job, vm, jobCache, late, bndVars>>

ImportEnds ==
    /\ dv.st = "importing"
    /\ \E st \in {"succeeded", "failed"} : dv' = [dv EXCEPT !.st = st]
    /\ NotifyDV /\ FrameDV

CollectDV == Collectable(dv) /\ dv' = NoDV /\ NotifyDV /\ FrameDV

FrameKid == UNCHANGED <<objVars, ctlVars, jobCache, bndVars>>

CollectJob == Collectable(job) /\ job' = NoJob /\ FrameKid /\ UNCHANGED <<dv, vm, late>>

CollectVM == Collectable(vm) /\ vm' = NoVM /\ FrameKid /\ UNCHANGED <<dv, job, late>>

\* The Job controller sets startTime; the pod mounts the DataVolume's claim.
JobStarts ==
    /\ job.st = "created"
    /\ job' = [job EXCEPT !.st = "running"]
    /\ FrameKid /\ UNCHANGED <<dv, vm, late>>

\* The fixer script ends; when it succeeds the disk is fixed.
JobEnds ==
    /\ job.st = "running"
    /\ \/ /\ dv.st = "succeeded"
          /\ job' = [job EXCEPT !.st = "complete"]
          /\ dv' = [dv EXCEPT !.fixed = TRUE]
       \/ /\ job' = [job EXCEPT !.st = "failed"]
          /\ UNCHANGED dv
    /\ FrameKid /\ UNCHANGED <<vm, late>>

\* ttlSecondsAfterFinished = 600: far longer than a watch lags or a request
\* waits, so a finished Job only goes when the operator is down or quiescent.
JobExpires ==
    /\ job.st \in {"complete", "failed"}
    /\ \/ pc = "down"
       \/ pc = "idle" /\ ~queued /\ cacheFresh /\ jobCache = job
    /\ job' = NoJob
    /\ FrameKid /\ UNCHANGED <<dv, vm, late>>

ImportLate ==
    /\ hc.phase = "Uploading" /\ "import" \notin late
    /\ late' = late \union {"import"}
    /\ FrameKid /\ UNCHANGED <<dv, job, vm>>

JobLate ==
    /\ job.st = "running" /\ "job" \notin late
    /\ late' = late \union {"job"}
    /\ FrameKid /\ UNCHANGED <<dv, job, vm>>

-----------------------------------------------------------------------------

Handler ==
    \/ ReconcileNothing \/ AddFinalizer \/ PendingOk \/ PendingFails
    \/ HandleUploading \/ HandleConverting \/ FixingStart \/ FixingStartFails
    \/ FixingWatch \/ CreatingVMOk \/ CreatingVMFails \/ GetFails
    \/ HandleDeletion

Commit == CommitOk \/ CommitConflict \/ CommitFails

Process == Crash \/ Restart \/ SyncHC \/ SyncJob \/ Resync

User == UserCreate \/ UserDelete \/ UserEdit

Cluster ==
    \/ ImportEnds \/ CollectDV \/ CollectJob \/ CollectVM \/ JobStarts
    \/ JobEnds \/ JobExpires \/ ImportLate \/ JobLate

Next == Handler \/ Commit \/ Process \/ User \/ Cluster

Spec == Init /\ [][Next]_vars

\* Fairness.  The worker runs while its queue is not empty and its calls
\* return; the kubelet restarts the operator; informers catch up and resync;
\* time passes; the Job controller and the garbage collector do their work.
\* Neither CDI nor the fixer is trusted to finish: the timeouts are.
Fairness ==
    /\ WF_vars(Handler)
    /\ WF_vars(Commit)
    /\ WF_vars(Restart)
    /\ WF_vars(SyncHC)
    /\ WF_vars(SyncJob)
    /\ WF_vars(Resync)
    /\ WF_vars(JobStarts)
    /\ WF_vars(ImportLate)
    /\ WF_vars(JobLate)
    /\ WF_vars(CollectDV)
    /\ WF_vars(CollectJob)
    /\ WF_vars(CollectVM)

FairSpec == Spec /\ Fairness

-----------------------------------------------------------------------------
(* Properties.                                                             *)

\* Every record has its fields' types; this is the only shape property.
TypeOK ==
    /\ hc \in HCObj /\ cache \in HCObj /\ snap \in HCObj
    /\ gen \in Uids
    /\ cacheFresh \in BOOLEAN /\ snapFresh \in BOOLEAN
    /\ pc \in {"idle", "commit", "down"}
    /\ ret \in [ok : BOOLEAN, err : BOOLEAN]
    /\ queued \in BOOLEAN
    /\ dv \in DVObj /\ job \in JobObj /\ jobCache \in JobObj /\ vm \in VMObj
    /\ late \in SUBSET {"import", "job"}
    /\ edits \in 0..MaxEdits /\ faults \in 0..MaxFaults /\ crashes \in 0..MaxCrashes

\* The phase changes a handler may write (hyperconversion_types.go, Phase*).
PhaseEdges ==
    { <<"Pending", "Uploading">>, <<"Uploading", "Converting">>,
      <<"Converting", "Fixing">>, <<"Converting", "CreatingVM">>,
      <<"Converting", "Ready">>, <<"Fixing", "CreatingVM">>,
      <<"Fixing", "Ready">>, <<"CreatingVM", "Ready">>,
      <<"Pending", "Failed">>, <<"Uploading", "Failed">>,
      <<"Fixing", "Failed">>, <<"CreatingVM", "Failed">> }

\* The stored phase of one incarnation only moves along the edges of Reconcile's
\* switch, so Ready and Failed are final: a reconcile that works from a stale
\* cache, or is overtaken by a user's edit or by a crash, never rewinds it.
PhaseFollowsSwitch ==
    [][hc.uid = hc'.uid /\ hc.phase # hc'.phase
         => <<hc.phase, hc'.phase>> \in PhaseEdges]_vars

\* The finalizer protocol: a child is only ever created while the stored
\* object that owns it exists and still carries the finalizer, however stale
\* the cache is, so the operator never rebuilds children of a deleted object.
Created(c, d) == c.st = "none" /\ d.st # "none"

ChildrenUnderFinalizer ==
    [][/\ Created(dv, dv')   => hc.fin /\ hc.uid = dv'.own
       /\ Created(job, job') => hc.fin /\ hc.uid = job'.own
       /\ Created(vm, vm')   => hc.fin /\ hc.uid = vm'.own]_vars

\* The name is used for the first time: no child of an earlier object of the
\* same name can be in the way.  createDataVolume, createFixerJob and
\* createVirtualMachine take whatever has the name, so that what the children
\* owe each other is only stated for this case (see RecreatedImportsNewSource).
FirstUse == gen <= 1

\* A VirtualMachine is only created on an imported disk, and on a fixed one if
\* the object went through Fixing (createVirtualMachine never looks at either).
VMOnFinishedDisk ==
    [][FirstUse /\ Created(vm, vm') => /\ dv.st = "succeeded"
                                       /\ cache.jobn => dv.fixed]_vars

\* The fixer Job writes the disk the VirtualMachine boots from: the two never
\* exist side by side unless the VirtualMachine is being deleted.
FixerNeverBesideVM ==
    FirstUse /\ vm.st = "up" /\ ~vm.term => job.st \notin {"created", "running"}

\* Ready is only reported with the evidence on record: import and conversion,
\* the fixes when a fixer Job was started, and the VirtualMachine under its name.
ReadyHasEvidence ==
    hc.phase = "Ready" =>
        /\ hc.dvn
        /\ {"DataVolumeReady", "ConversionComplete"} \subseteq hc.conds
        /\ hc.jobn => "FixesComplete" \in hc.conds
        /\ hc.vmn <=> "VMReady" \in hc.conds

\* While a Ready object that names a VirtualMachine is not being deleted, that
\* VirtualMachine and its disk exist and are its own.
ReadyVMExists ==
    FirstUse /\ hc.phase = "Ready" /\ hc.vmn /\ ~hc.del =>
        /\ vm.st = "up" /\ vm.own = hc.uid
        /\ dv.st = "succeeded" /\ dv.own = hc.uid

\* The object is deleted, or about to be, and the cache knows it.
CacheLive == cache.uid # 0 /\ cache.fin /\ ~cache.del
Gone      == (hc.uid = 0 \/ hc.del) /\ ~CacheLive

\* The order that DiskHandover describes, as the first object of the name and
\* its children show it; with a second object the order is over and cleared.
Life ==
    IF gen = 0 THEN "unborn" ELSE IF FirstUse /\ ~Gone THEN "on" ELSE "over"

Disk ==
    IF ~FirstUse THEN "none"
    ELSE IF dv.st # "succeeded" THEN dv.st
    ELSE IF dv.fixed THEN "fixed" ELSE "imported"

Fixer ==
    IF ~FirstUse THEN "none"
    ELSE IF job.st \in {"created", "running"} THEN "active" ELSE job.st

Machine  == FirstUse /\ vm.st = "up"
Reported == FirstUse /\ hc.vmn

Handover == INSTANCE DiskHandover
    WITH life <- Life, disk <- Disk, fixer <- Fixer, machine <- Machine,
         ready <- Reported

\* The reconciles of one object, with their caches, conflicts and crashes, are
\* together the handover of one disk from import to fixer to virtual machine.
HandsOver == Handover!HSpec

\* Every object is driven to Ready or Failed unless the user deletes it.
Settles ==
    \A u \in 1..MaxUid :
        hc.uid = u ~> hc.uid # u \/ hc.del \/ hc.phase \in Terminal

\* A deleted object goes away: the finalizer is removed in the end.
DeletionCompletes ==
    \A u \in 1..MaxUid : hc.uid = u /\ hc.del ~> hc.uid # u

\* No child outlives its owner for good: what handleDeletion did not delete is
\* collected through the owner references set at creation.
ChildrenGoWithOwner ==
    hc.uid = 0 ~> \/ hc.uid # 0
                  \/ dv.st = "none" /\ job.st = "none" /\ vm.st = "none"

\* hyperconversion_webhook.go:172 "to change the source URL, delete this
\* HyperConversion and create a new one": the new object uses a DataVolume
\* imported from its own source, never the one the deleted object left behind.
RecreatedImportsNewSource ==
    gen > 1 /\ hc.dvn /\ dv.st # "none" => dv.url = hc.url

=============================================================================
