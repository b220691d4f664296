-------------------------------- MODULE Batch --------------------------------
(***************************************************************************)
(* Batch conversion with checkpoint and resume                             *)
(* (h2kvm/orchestration/manifest/batch_orchestrator.py and                 *)
(* checkpoint_manager.py).                                                 *)
(*                                                                         *)
(* A run loads the checkpoint, skips the VMs it names, converts the others *)
(* one by one or in a thread pool, and saves the checkpoint after every    *)
(* VM the main thread collects.  A crash loses everything but the          *)
(* checkpoint and what has been converted; the user starts the batch       *)
(* again.  The order in which the manifest lists the VMs, durations,       *)
(* reports and the progress file are left out; save_checkpoint replaces    *)
(* the file atomically, so a save is one step.                             *)
(***************************************************************************)
EXTENDS Naturals, FiniteSets

CONSTANTS VMs,         \* the VMs of the manifest
          Limits,      \* values of parallel_limit
          MaxRuns,     \* bound on how often the batch is started
          MaxFaults    \* bound on saves, report writes and removals that fail

ASSUME ConstantsAssumption ==
    /\ VMs # {} /\ IsFiniteSet(VMs)
    /\ Limits \subseteq Nat \ {0}
    /\ MaxRuns \in Nat /\ MaxFaults \in Nat

VARIABLES limit,      \* parallel_limit of the manifest
          onError,    \* continue_on_error of the manifest
          pc,         \* the main thread
          mode,       \* which of the two loops this run takes
          todo,       \* VMs of this run not yet started
          running,    \* VMs being converted
          ended,      \* conversions the main thread has not collected
          collected,  \* results_dict of the parallel loop
          item,       \* the VM whose result the parallel loop is saving, if any
          results,    \* self.results
          disk,       \* the checkpoint file
          converted,  \* VMs that have been converted, in whatever run
          runs, faults

vars == <<limit, onError, pc, mode, todo, running, ended, collected, item,
          results, disk, converted, runs, faults>>

NoResults == [ok |-> {}, bad |-> {}]
Results   == [ok : SUBSET VMs, bad : SUBSET VMs]
NoFile    == [exists |-> FALSE, ok |-> {}, bad |-> {}]

\* A list of results with one more; a VM has one result.
Add(r, v, good) == [ok  |-> IF good THEN r.ok \union {v} ELSE r.ok \ {v},
                    bad |-> IF good THEN r.bad \ {v} ELSE r.bad \union {v}]
All(r) == r.ok \union r.bad

Init ==
    /\ limit \in Limits /\ onError \in BOOLEAN
    /\ pc = "off" /\ mode = "sequential"
    /\ todo = {} /\ running = {} /\ ended = NoResults
    /\ collected = NoResults /\ results = NoResults /\ item = {}
    /\ disk = NoFile /\ converted = {}
    /\ runs = 0 /\ faults = 0

-----------------------------------------------------------------------------
(* The conversion of a VM, in the main thread or in the pool.              *)

\* Is a worker free?  The sequential loop also waits for the save.
Free == IF mode = "parallel" THEN Cardinality(running) < limit
                             ELSE running = {} /\ All(ended) = {}

\* The steps of the main thread during which the pool's threads take VMs.
Open == {"loop", "save", "resave", "cancel", "drain", "unwind"}

\* Mutant: a VM that is being converted can be picked again.
StartMutant(v) ==
    /\ pc \in Open /\ v \in todo /\ Free
    /\ running' = running \union {v}
    /\ UNCHANGED <<limit, onError, pc, mode, todo, ended, collected, item, results,
                   disk, converted, runs, faults>>

\* _process_single_vm begins.  The pool does not wait for the main thread: it takes
\* the next VM while a result is being saved and while the others are cancelled.
\* Leaving the with-block ("drain" after a break, "unwind" after an exception)
\* does not stop it either: it still runs what was submitted and not cancelled.
Start(v) ==
    /\ pc \in Open /\ v \in todo /\ Free
    /\ todo' = todo \ {v}
    /\ running' = running \union {v}
    /\ UNCHANGED <<limit, onError, pc, mode, ended, collected, item, results, disk,
                   converted, runs, faults>>

\* _process_single_vm returns: its exceptions are turned into a failed result.
Finish(v) ==
    /\ v \in running
    /\ running' = running \ {v}
    /\ \E good \in BOOLEAN :
        /\ ended' = Add(ended, v, good)
        /\ converted' = IF good THEN converted \union {v} ELSE converted
    /\ UNCHANGED <<limit, onError, pc, mode, todo, collected, item, results, disk, runs,
                   faults>>

-----------------------------------------------------------------------------
(* The main thread.                                                        *)

\* Mutant: a resumed run starts from an empty list of results.
RestoredMutant == NoResults

\* Mutant: the failed VMs are restored without their identifiers.
RestoredAnonymous ==
    [ok |-> disk.ok, bad |-> IF disk.bad = {} THEN {} ELSE {"unknown"}]

\* _restore_previous_results: one result per VM of the checkpoint.
Restored == [ok |-> disk.ok, bad |-> disk.bad]

\* VMs the checkpoint does not name.
Remaining == VMs \ All(disk)

\* run: load, filter, restore; nothing to do if every VM is in the checkpoint.
Begin ==
    /\ pc = "off" /\ runs < MaxRuns
    /\ runs' = runs + 1
    /\ results' = Restored
    /\ collected' = NoResults
    /\ IF Remaining = {} THEN pc' = "off" /\ UNCHANGED <<todo, mode>>
       ELSE /\ pc' = "loop"
            /\ todo' = Remaining
            /\ mode' = IF limit > 1 /\ Cardinality(Remaining) > 1
                         THEN "parallel" ELSE "sequential"
    /\ UNCHANGED <<limit, onError, running, ended, item, disk, converted, faults>>

\* Mutant: the checkpoint is written before the VM's result is known.
SavedMutant(r) == [exists |-> TRUE, ok |-> r.ok \union running, bad |-> r.bad]

\* _save_checkpoint_state, as the file reads afterwards.
Saved(r) == [exists |-> TRUE, ok |-> r.ok, bad |-> r.bad]

Fault == faults < MaxFaults /\ faults' = faults + 1

\* The loop goes on after a result, or stops at the first failure.
GoesOn(good) == good \/ onError

\* _process_vms_sequential: append, save, perhaps stop.
CollectSequential(v) ==
    /\ pc = "loop" /\ mode = "sequential" /\ v \in All(ended)
    /\ LET good == v \in ended.ok
           r == Add(results, v, good)
       IN  /\ ended' = NoResults
           /\ results' = r
           /\ \/ /\ disk' = Saved(r)
                 /\ pc' = IF GoesOn(good) THEN "loop" ELSE "report"
                 /\ todo' = IF GoesOn(good) THEN todo ELSE {}
                 /\ UNCHANGED faults
              \/ /\ Fault                      \* the save raises: so does run
                 /\ pc' = "off" /\ todo' = {}
                 /\ UNCHANGED disk
    /\ UNCHANGED <<limit, onError, mode, running, collected, item, converted, runs>>

\* _process_vms_parallel, one round of as_completed: results_dict gets the result,
\* and results is REPLACED by what this run has collected.
CollectParallel(v) ==
    /\ pc = "loop" /\ mode = "parallel" /\ v \in All(ended)
    /\ ended' = [ok |-> ended.ok \ {v}, bad |-> ended.bad \ {v}]
    /\ collected' = Add(collected, v, v \in ended.ok) /\ results' = collected'
    /\ item' = {v} /\ pc' = "save"
    /\ UNCHANGED <<limit, onError, mode, todo, running, disk, converted, runs, faults>>

\* The checkpoint is written, then the loop goes on or begins to cancel.  If the
\* save raises, the same VM is recorded as failed and saved again ("resave"); if
\* that raises too, the pool is unwound.
SaveParallel(v) ==
    /\ pc \in {"save", "resave"} /\ v \in item
    /\ \/ /\ disk' = Saved(results)
          /\ pc' = IF GoesOn(v \in collected.ok) THEN "loop" ELSE "cancel"
          /\ item' = {}
          /\ UNCHANGED <<collected, results, faults>>
       \/ /\ Fault /\ pc = "save" /\ pc' = "resave"
          /\ collected' = Add(collected, v, FALSE) /\ results' = collected'
          /\ UNCHANGED <<item, disk>>
       \/ /\ Fault /\ pc = "resave" /\ pc' = "unwind"
          /\ item' = {}
          /\ UNCHANGED <<collected, results, disk>>
    /\ UNCHANGED <<limit, onError, mode, todo, running, ended, converted, runs>>

\* f.cancel() for one future after the other: it works on those not started.
Cancel(v) ==
    /\ pc = "cancel" /\ v \in todo
    /\ todo' = todo \ {v}
    /\ UNCHANGED <<limit, onError, pc, mode, running, ended, collected, item, results,
                   disk, converted, runs, faults>>

\* Mutant: the loop breaks without having cancelled every future.
BreakMutant ==
    /\ pc = "cancel"
    /\ pc' = "drain"
    /\ UNCHANGED <<limit, onError, mode, todo, running, ended, collected, item, results,
                   disk, converted, runs, faults>>

\* Every future has been cancelled or had started: break.
Break ==
    /\ pc = "cancel" /\ todo = {}
    /\ pc' = "drain"
    /\ UNCHANGED <<limit, onError, mode, todo, running, ended, collected, item, results,
                   disk, converted, runs, faults>>

\* Mutant: after a break the main thread waits for results it never collects.
LoopEndsMutant ==
    /\ running = {} /\ todo = {}
    /\ pc \in {"loop", "drain", "unwind"}
    /\ All(ended) = {}
    /\ pc' = IF pc = "unwind" THEN "off" ELSE "report"
    /\ results' = IF mode = "parallel" THEN collected ELSE results
    /\ ended' = NoResults
    /\ UNCHANGED <<limit, onError, mode, todo, running, collected, item, disk,
                   converted, runs, faults>>

\* The loop is over.  Leaving the with-block waits for the workers; what they did
\* after a break or an exception is not collected.
LoopEnds ==
    /\ running = {} /\ todo = {}
    /\ \/ pc = "loop" /\ All(ended) = {} /\ pc' = "report"
       \/ pc = "drain" /\ pc' = "report"
       \/ pc = "unwind" /\ pc' = "off"
    /\ results' = IF mode = "parallel" THEN collected ELSE results
    /\ ended' = NoResults
    /\ UNCHANGED <<limit, onError, mode, todo, running, collected, item, disk,
                   converted, runs, faults>>

\* Mutant: the checkpoint is removed whenever a report is written.
ReportMutant ==
    /\ pc = "report"
    /\ pc' = "off"
    /\ disk' = NoFile
    /\ UNCHANGED <<limit, onError, mode, todo, running, ended, collected, item,
                   results, converted, runs, faults>>

\* The report is written; the checkpoint goes if no result is a failure.  It stays
\* if writing the report raises (so does run) or if unlink does (only logged).
Report ==
    /\ pc = "report"
    /\ pc' = "off"
    /\ \/ disk' = (IF results.bad = {} THEN NoFile ELSE disk) /\ UNCHANGED faults
       \/ Fault /\ UNCHANGED disk
    /\ UNCHANGED <<limit, onError, mode, todo, running, ended, collected, item,
                   results, converted, runs>>

\* The process is killed.
Crash ==
    /\ pc # "off"
    /\ pc' = "off"
    /\ todo' = {} /\ running' = {} /\ ended' = NoResults /\ item' = {}
    /\ results' = NoResults /\ collected' = NoResults
    /\ UNCHANGED <<limit, onError, mode, disk, converted, runs, faults>>

-----------------------------------------------------------------------------

MainStep ==
    \/ Break \/ LoopEnds \/ Report
    \/ \E v \in VMs : \/ CollectSequential(v) \/ CollectParallel(v)
                     \/ SaveParallel(v) \/ Cancel(v)

WorkerStep == \E v \in VMs : Start(v) \/ Finish(v)

Next == Begin \/ MainStep \/ WorkerStep \/ Crash

Spec == Init /\ [][Next]_vars

\* The main thread and the workers run, and every conversion ends.
FairSpec == Spec /\ WF_vars(MainStep) /\ WF_vars(WorkerStep)

-----------------------------------------------------------------------------
(* Properties.                                                             *)

\* The types of the variables.
TypeOK ==
    /\ limit \in Limits /\ onError \in BOOLEAN
    /\ pc \in {"off", "report"} \union Open
    /\ mode \in {"sequential", "parallel"}
    /\ todo \in SUBSET VMs /\ running \in SUBSET VMs /\ item \in SUBSET VMs
    /\ converted \in SUBSET VMs
    /\ ended \in Results /\ collected \in Results /\ results \in Results
    /\ disk \in [exists : BOOLEAN, ok : SUBSET VMs, bad : SUBSET VMs]
    /\ runs \in 0..MaxRuns /\ faults \in 0..MaxFaults

\* The checkpoint, and the report, name a VM as completed only if it has been
\* converted, through every crash, resume and failed save.
CompletedIsConverted ==
    disk.ok \union results.ok \union collected.ok \subseteq converted

\* No VM is converted by two workers, and none is both waiting and done.
OneWorkerPerVM ==
    /\ todo \intersect running = {}
    /\ (todo \union running) \intersect (All(ended) \union All(collected)) = {}

\* The sequential loop never forgets: a VM the checkpoint names stays in it until
\* the checkpoint is removed, over any number of crashes and resumes.
SequentialNeverForgets ==
    [][limit = 1 /\ disk.exists /\ disk'.exists
         => disk.ok \subseteq disk'.ok /\ disk.bad \subseteq disk'.bad]_vars

\* The sequential loop only removes the checkpoint when every VM is converted.
CleanupStep == disk.exists /\ ~disk'.exists => converted = VMs

SequentialCleanup == [][limit = 1 => CleanupStep]_vars

\* With continue_on_error a report covers the whole batch: always in sequential
\* mode, and in parallel mode as long as the run was not a resumed one.
ReportCoversBatch ==
    pc = "report" /\ onError /\ (limit = 1 \/ runs = 1) => All(results) = VMs

\* Without continue_on_error a failure the main thread has seen stops the run.  The
\* n-th run of a sequential batch starts a VM with at most n - 1 failures on record,
\* one for each run before it.  The pool collects one failure and no more; after it
\* VMs are started only until the main thread has saved the checkpoint and cancelled
\* the futures one by one, or if both saves raise and the pool is unwound.
StopsOnError ==
    [][~onError /\ ~(running' \subseteq running)
         => /\ collected.bad = {} \/ pc \in {"save", "resave", "cancel", "unwind"}
            /\ \A v, w \in collected.bad : v = w
            /\ limit = 1 => Cardinality(results.bad) < runs]_vars

\* A run always comes to its end: cancelling, draining and unwinding the pool
\* never leave the main thread waiting.
RunEnds == pc # "off" ~> pc = "off"

\* batch_orchestrator.py:195 "Cleanup checkpoint on successful completion": the
\* checkpoint is only removed when every VM of the batch is converted.
CleanupOnSuccess == [][CleanupStep]_vars

=============================================================================
