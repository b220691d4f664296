# A TLA+ verification project for h2kvm

h2kvm converts virtual machines from other hypervisors to KVM. This directory
models the parts of it that keep state across steps, failures and threads:
the Kubernetes operator, the web server's job manager and process runner, batch
conversion with its checkpoint, the job queue behind the worker API, the
directory watcher, and a migration with its recovery checkpoints. `PROJECT.json`
lists the components, the TLC runs, the map from definitions to source lines,
the hazards, the findings and the theorems.

Run a configuration with `tlc -config X.cfg MCModule`, check proofs with
`tlapm ModuleProofs.tla`.

## Inventory

| part | state | operations | what is hard |
|---|---|---|---|
| HyperConversion operator (`operator/controllers/hyperconversion_controller.go`, webhook, types) | the object's status in the API server, informer caches, children DataVolume / Job / VirtualMachine | `Reconcile` and one handler per phase, `handleDeletion`, `ValidateUpdate` | stale caches, optimistic writes, dropped write errors, crashes between creating a child and recording it, deletion and re-creation under one name |
| Web job manager and runner (`web/internal/jobs`, `web/internal/runner`) | jobs map, processes map, event channel | `Submit`, `execute`, `processEvents`, `Cancel`, `Run`, `Stop` | four threads of control per job, cancel against start and exit, a bounded channel, a delayed kill |
| Batch conversion (`h2kvm/orchestration/manifest/batch_orchestrator.py`, `checkpoint_manager.py`) | results in memory, checkpoint on disk | `run`, the sequential and the parallel loop, save, restore, cleanup | crash and resume, failing saves, a pool stopped half-way |
| Worker API (`h2kvm/runtime/worker/api.py`, `scheduler.py`, `state_machine.py`) | per process: queue and state machines; shared: one state file and one queue file per job | submit, dequeue, cancel, lookup, start and stop | processes that load each other's files, state that is saved once and then only changed in memory, crashes between two files |
| Daemon watcher (`h2kvm/runtime/daemon/daemon_watcher.py`, `deduplicator.py`, `stats.py`, `control.py`) | three directories, deduplication table, queue, retry entries, statistics | scan, observe, convert, archive, retry, pause, stop | scan against observer, two workers with one file, a kill between recording and moving, locks |
| Validation controller (`operator/controllers/validation_controller.go`) | Validation status, a pod | reconcile | as the first controller |
| Recovery manager (`h2kvm/core/recovery_manager.py`), orchestrator and disk processor (`h2kvm/orchestration`) | lock, checkpoints and pointer on disk; completed disks, BusLogic copies | lock, load, save, complete, clean up; prepare, flatten, fix, convert per disk | two invocations at once, a kill between two files, names with one-second resolution, a field shared by threads |
| Fixers, converters, providers, libvirt, LUKS, CLI, configuration, HTTP handlers | guest images, remote systems, parsed input | sequential tools | content and I/O, not protocol |

The parts meet as follows. The web server starts `h2kvmctl` subprocesses; each
is one conversion, or one batch. The batch orchestrator runs the manifest
pipeline per VM. The directory watcher runs the main orchestrator in its worker
threads, or `h2kvmctl` for a configuration. The operator does not call the Python code: it creates a fixer
Job whose image runs `h2kvmctl` on the imported disk.

What makes the modelled parts correct: the operator never rewinds or rebuilds
what it has finished, never reports Ready without what Ready stands for, never
lets the fixer and the VM use a disk together, and always comes to an end; the
job manager reports outcomes only after the process is gone, notices every
exit, and kills what it was told to stop; a batch records only what was
converted, in sequence forgets nothing over crashes, and when a failure stops it
starts no VM any more once the others are cancelled; a job of the worker queue is
handed out once, and not after the process that queued it has cancelled it; the
watcher takes no input away that was not converted, and queues a file that is on
record as converted again only if it looked it up before its copy was complete; a
migration has the output directory to itself, records true progress, and with
`to_output` ends well only with an image of every disk.

## Modules

### HyperConversion

One object, one worker, one fault-prone API server.

* `hc` is the stored object, `cache` the informer's copy, `snap` the copy that a
  reconcile in flight has changed. Resource versions appear as `cacheFresh` and
  `snapFresh`: does the copy still have the version of the stored object? Every
  write of the stored object clears both.
* A reconcile is two steps: a handler (read the cache, call the API server for
  the children) and a commit of `snap`, which succeeds only if it is fresh.
  `ret` keeps what the code returns for either outcome: several branches drop
  the error of their write and do not requeue. Between the two steps anything
  else may happen.
* `dv`, `job`, `vm` are the children; DataVolume and VirtualMachine are read
  live (unstructured objects), the Job through an informer (`jobCache`).
* One action per outcome of each handler: `AddFinalizer`, `PendingOk/Fails`,
  `HandleUploading`, `GetFails`, `HandleConverting`, `FixingStart(Fails)`,
  `FixingWatch`, `CreatingVMOk/Fails`, `HandleDeletion`, `ReconcileNothing`.
  What a handler makes of the object is an operator (`UploadingStatus`,
  `ConvertingStatus`, `FixingStatus`, `VMDone`).
* Environment: users create, edit (through the webhook's rule) and delete; CDI,
  the Job controller, the garbage collector, watch events and resyncs, crash
  and restart. `late` holds the timeouts that have elapsed.

Left out: what is in the specs of the children, messages, progress, metrics,
events; VMs in a foreign namespace, which fail at the owner reference and so
take the path of `CreatingVMFails`. Children are deleted by the operator, their
controllers and the garbage collector, never by hand; children under the same name
that the operator did not create are not modelled either.

`DiskHandover` says what all this promises about the disk of one object: it is
imported, then the fixer has it, then the virtual machine; each takes it over
only when the one before is through with it and has not failed; a machine is
only reported that exists; while the order stands, disk and machine stay; once it
is over (deleted, and the cache shows it) nothing new is begun. `HandsOver` is this
specification under the mapping `Life`, `Disk`, `Fixer`, `Machine`, `Reported`, which follows the
first object of a name: with a second one the order is over and cleared.

### WebJobs

Per job: `status`, the execute goroutine `exec`, the runner's goroutine
`stream`, the process `proc`, the entry `reg` in `Runner.processes`, the channel
`chan`, Cancel calls `cancel` between their unlock and `Runner.Stop`, and the
kill `timer`. Each critical section of a mutex is one step. Before `Done` the
content of events does not matter, so a channel is a count and an optional
`Done`; broadcasts are left out. `Close` follows `Unregister` because
deferred calls run last first. The model assumes the deployment as root: with
sudo in between, SIGKILL reaches sudo and not h2kvmctl. The end of the process
is assumed to close its output pipe.

### Batch

`pc` is the main thread, `mode` the loop it takes, `todo`, `running`, `ended`
where the VMs are, `collected` the `results_dict` of the pool, `results` the
instance's list and `disk` the checkpoint. `converted` is a history variable:
what has really been converted, in any run. In the pool a round of the main
thread is several steps: the result is recorded (`CollectParallel`), the
checkpoint is written (`save`, and `resave` in the exception handler, for the VM in
`item`), the futures are cancelled one by one (`cancel`), and the loop is left;
the threads of the pool take VMs between any two of them (`Open`). `drain` is the
executor's with-block after a break, `unwind` after an exception. Saves replace the file
atomically and are one step. A pool smaller than `parallel_limit` (few CPUs)
only removes interleavings.

The order of the VMs, the progress file and the content of the report are left
out; checkpointing is enabled, which is the default.

### WorkerApi and Dispatch

`Dispatch` is the abstract specification: jobs are `taken` in once, are `open`
until they are given to a worker or dropped, and are `handed` out at most once.

`WorkerApi` has, per server process, `sm` (the registry of state machines),
`queue` and the handler in progress (`op`, `job`); `stateFile` and `queueFiles`
are the directories the processes share. Handlers run on the event loop without
awaiting, so one process runs one at a time; between their accesses to the disk
other processes run, and any process may stop. A graceful stop and a crash are
the same action, because the `load_all`, `load` and `save` that the lifespan
calls do not exist. `OpenJobs` is the refinement mapping: a job is open while
the process that accepted it has it as QUEUED, in its queue or in the hands of
its dequeue handler.

The order of jobs of the same priority, workers' registration and heartbeats,
and event streams are left out. That a `job_id` is submitted once is an
assumption on the clients (`schemas.py:114`, "Unique job identifier (UUID)").

### Daemon

Three directories (`inWatch`, `inErrors`, `inDone`), the table `dedup`, the
main thread `mode` (scan, run, stop by signal or by the control socket), the
observer `obs` with its pending `events`, the `queue`, and one `pc` and `file`
per worker. A worker goes through `_process_file` in the order of the code:
wait while paused, `job_started`, convert, record, archive; or on an exception
`should_retry`, `record_retry` or record and move; then `job_completed` in the
`finally`. `stuck` is a worker that waits in `save` for the lock it holds;
nobody gets past the statistics then (`StatsFree`). A retry is `tasks`: a call
submitted to a pool all of whose threads run worker loops, so that it starts
only after they have left. `unrecorded` is a history variable for writes of the
table that were lost.

A file stands for its name and full size, which is the key of the table. It is
moved in, or copied in: then it is `growing` until `Copied`, and whoever looks it
up, or records it, does so with the size it has at that moment. The observer asks
the table before it waits for a stable size and not again, the scan does not wait
(`Duplicate`); rows for another size than the full one are `stubs`, and `early` is a
history variable for files that were looked up while they grew. Totals,
notifications, error reports and metrics are left out, and so is the order of
the queue.

### Migration

Processes are invocations of `h2kvmctl --enable-recovery` with one output
directory. `lock` is the flock, `files` the checkpoints of the stage
disk_processing (run, second, completed or not, disks and images), `latest` the
pointer. Saving progress is three steps: write the file, mark it complete,
write the pointer. Disks go through `Prepare`, `Flatten`, `Fix`, `Convert`,
`Clean` and `Untrack`, one at a time and in order, or in threads. `dirs` are the
BusLogic copies on disk and `tracked` is the one field that names the copy to
remove; it is set even if copying fails and the original is used. `run_id` is the
time of the start: two processes that start within one
second share their checkpoints, others do not.

Other stages write checkpoints that nothing completes and so no reader accepts;
they, the index and `run.json` are left out.

## Runs

| run | bounds | shows |
|---|---|---|
| `operator_single` | one incarnation, one edit, one fault, one crash, resync | `FixerNeverBesideVM`, `ReadyHasEvidence`, `ReadyVMExists`, `VMOnFinishedDisk`, `PhaseFollowsSwitch`, `ChildrenUnderFinalizer`, and `HandsOver`, the refinement of `DiskHandover` |
| `operator_live` | one incarnation, one fault, one crash, resync, fairness | `Settles`, `DeletionCompletes`, `ChildrenGoWithOwner` |
| `operator_recreate` | two URLs, two incarnations | finding: a new object adopts the old one's DataVolume |
| `web_live` | one job, channel of 2, 3 lines, 2 cancels, fairness | `OutcomeMeansExited`, `EndedMeansSettled`, `ExitIsNoticed`, `StopKills` |
| `batch_resume` | 3 VMs, limits 1 and 2, 3 runs, 2 failing writes, fairness | `CompletedIsConverted`, `OneWorkerPerVM`, `ReportCoversBatch`, `SequentialNeverForgets`, `SequentialCleanup`, `StopsOnError`, `RunEnds` |
| `batch_cleanup` | 3 VMs, 3 runs, no failing write | finding: a resumed parallel run removes the checkpoint of an unfinished batch |
| `worker_dispatch` | 2 processes, 4 starts, 2 jobs, 1 worker, failing writes, fairness | `AtMostOnce`, `FileMeansUnhanded`, `CancelHolds`, `CapableDrains`, and `Dispatches`, the refinement of `Dispatch` |
| `worker_restart` | 1 process, 4 starts, 2 jobs, no failing write | finding: a job that was reloaded cannot be assigned |
| `daemon_files` | 1 file moved or copied in twice, 2 workers, 2 runs, 1 fault, 2 retries, fairness | `NewFileOnce`, `KnownNotQueued`, `RecordedBeforeMoved`, `UnconvertedKept`, `NoGhostJobs`, `WorkersDrain` |
| `daemon_stats` | as above | finding: `job_completed` waits for its own lock |
| `migration_recover` | 2 processes, 2 disks, 2 seconds | `OneAtATime`, `ProgressTrue`, `EveryDiskHasImage`, `SequentialCopyKept` |
| `migration_parallel` | as above | finding: a thread removes the copy another one needs |

Four of the passing runs also check the type invariant `TypeOK` of their
module; those of `Daemon` and `Migration` are proved instead.

Why the bounds are enough.

* Operator: its faults act through one write or one call each, so one fault and
  one crash, at every point of every interleaving, meet each recovery path. Two
  incarnations are needed for leftovers, and more than two share a name with at
  most one predecessor. What the children owe each other (`FixerNeverBesideVM`,
  `ReadyVMExists`, `VMOnFinishedDisk`) is stated for the first use of a name
  (`FirstUse`): with leftovers of an earlier object TLC finds all three violated,
  for the reason of finding 1. `HandsOver` follows the first object, too.
  `PhaseFollowsSwitch` and `ChildrenUnderFinalizer` are
  proved for any number of incarnations.
* Web: jobs do not share state except the two maps, keyed by job, so one job is
  enough; a channel of 2 with 3 lines and `Done` fills and blocks; two cancels
  are the most that can be accepted before the job ends.
* Batch: three VMs and a pool of two leave one VM waiting, one running and one
  collected at once; two failing writes are what it takes to raise out of the
  pool.
* Worker: two processes and four starts let each start again while the other
  has the job in memory. The urgent job is beyond the only worker, so that it
  stays at the head of the queue while the other must get past it.
* Daemon: the table, the sets and the queue are keyed by file, and files meet
  only in the pool and in the statistics lock, so one file with several drops
  and two workers has every case of a file that is queued twice, moved away
  under a worker, put back, or found again after a restart.
* Migration: two processes race for the lock or follow each other; two disks are
  one that is done and one that is not; two seconds are within and across the
  resolution of names. Processes are interchangeable (symmetry, safety only).

The theorems remove these bounds for what they state.

Deadlock is not checked: a settled object, a finished job, batch or migration
and a server without clients have nothing left to do.

### Fairness

* Operator: the worker takes requests and its calls return (controller-runtime
  runs the queue); the kubelet restarts the pod; informers deliver and resync
  (the manager sets no `SyncPeriod`, so controller-runtime's default of about
  ten hours applies); time passes, so timeouts elapse; the Job controller and
  the garbage collector work. CDI and the fixer are not trusted to finish: the
  timeouts of the code are what `Settles` rests on. A branch that drops the
  error of its write is only retried by a watch event or by the resync.
* Web: goroutines are scheduled, timers fire, a Cancel call that began goes on,
  and a cancelled context kills. The process is not trusted to exit.
* Batch: the main thread and the workers run, every conversion ends. Neither
  crashes nor restarts are required.
* Worker: a handler that has begun goes on, and workers poll every process
  again and again, as their loop does. Neither clients nor restarts are
  required.
* Daemon: the main thread, the observer and each worker go on when they can;
  every conversion ends. Users, signals, the clock and retries owe nothing.
* Migration: no liveness is claimed.

## Findings

1. `operator_recreate`: the webhook advises to delete and create again to change
   the URL; the new object may adopt the DataVolume that is being deleted.
2. `batch_cleanup`: the parallel loop replaces restored results, so the report of
   a resumed run leaves out earlier failures and the checkpoint is removed.
3. `worker_restart`: "Priority job queue with persistence". The state file says
   VALIDATED for ever, and a job that a restarted server loads from its queue
   file cannot go to ASSIGNED; dequeue has removed it by then. The same flaw is
   what keeps jobs from being handed out twice: `AtMostOnce` rests on it, so
   saving QUEUED without more would trade a loss for a duplicate.
4. `daemon_stats`: `job_completed` calls `save` under the non-reentrant lock that
   `save` takes; from the first minute on, the first worker to complete a job
   stops, and with it everything that asks for the statistics.
5. `migration_parallel`: the clean-up of one disk removes the BusLogic copy that
   was tracked last, which may be the input of another thread.

Further observations, without a run of their own:

* The webhook says source fields are immutable once a DataVolume has been
  created (`hyperconversion_webhook.go:169`), but tests the status that is
  written after it: an edit in between is accepted, and the object adopts the
  disk of the old URL.
* The job manager broadcasts every outcome but Failed as `job_completed`
  (`manager.go:252`), a cancelled job, too; and the test "Keep cancelled status if
  already set" (`manager.go:236`) follows an assignment that makes it false.
* A first failure of the daemon leaves the file in the watch directory, where no
  retry looks; a retry that is submitted waits behind the worker loops until the
  daemon stops (`daemon_watcher.py:683`). The user guide promises automatic
  retries (`docs/features/daemon-user-guide.md:403`).
* The control command drain sets a flag nobody reads (`control.py:162`).
* `stop` in the main thread does not return: `save` calls `get_summary`, which
  takes the lock `save` holds (`stats.py:206`).
* `run_id` is the time of the start (`recovery_manager.py:359`), so that a
  migration started again does not resume (`docs/runbooks/crash-recovery.md:167`
  says it does) unless it starts within the same second.
* Without `to_output` the result of a BusLogic disk is the copy that the
  clean-up removes (`disk_processor.py:839-842`), and a resumed run drops what no
  longer exists from its list of images without a word (`orchestrator.py:470`).
  `EveryDiskHasImage` excepts these disks; without the exception TLC finds it
  violated.
* Without `continue_on_error`, VMs of a pool may start after a failure was seen:
  it is recorded (`batch_orchestrator.py:275`) and saved (`:286`) before the futures
  are cancelled (`:290`). If the save raises twice, leaving the with-block starts
  all the others. `StopsOnError` says how far this goes.
* A cancellation works in the process that queued the job. Another process of the
  same server reads VALIDATED from the state file, answers "Job cancelled
  successfully" (`api.py:509`) and changes its own memory only: the job is still
  handed out. `CancelHolds` is about the process that queued the job.
* `submit_job` does not look whether the `job_id` is known (`api.py:347-360`): a
  repeated POST queues the job again and it is handed out twice. `AtMostOnce`
  assumes that an id is submitted once.
* A file on record that is copied in again with `cp`, the way the user guide
  recommends (`daemon-user-guide.md:94`), is looked up when the copy begins
  (`daemon_watcher.py:152`, before the wait at `:163`) and is converted again. The
  guide says of the same `cp` "Skipped (duplicate detected)" (`:1220`). Moved in
  with `mv`, it is skipped.
* The user guide says of a file that is moved from `.errors` back to the queue
  "Daemon will process as new file" (`daemon-user-guide.md:528`). The row with
  status failed that `mark_processed` wrote before the move makes it a duplicate,
  and it is skipped.
* An error while the table is written is only logged (`deduplicator.py:152`), and
  the file is moved all the same: no query lists it, and put back it is converted
  again. `RecordedBeforeMoved` excepts these files.
* The scan queues a file without waiting until it is complete
  (`daemon_watcher.py:717`), so a daemon that starts during a copy converts a part
  of it.

## Proofs

`HyperConversionProofs`, for every set of URLs and all bounds. The invariant
`IInv` adds to the types what copies are worth. `FreshCopies`: a fresh cache is
the stored object and a fresh in-flight copy is a legal successor of it, so a
commit is one edge of the switch. `FinalizerHolds`: even a stale cache that shows
the finalizer and no deletion guarantees that the stored object is the same
incarnation and has the finalizer, because only this worker removes it. `Recorded`:
which status fields each phase implies, for each of the three copies. From it:
`PhaseSafety`, `FinalizerSafety`, `ReadyEvidence`, `TypeCorrect`.

`HyperConversionChildProofs`, what the children owe each other. No handler checks
it: `createVirtualMachine` looks at neither the DataVolume nor the Job, so it rests
on the order of the phases, read through caches that lag. The invariant `CInv` has
two layers. For every incarnation: `OneBehind`, the cache is at most one write of
the operator (and any number of user edits) behind the stored object, because a
second write needs a fresh copy; `Numbered`, whatever exists is owned by an object
that was created; `Requeued`, an object still without its Job is in the work queue
or will be whatever becomes of the write in flight, so that a finished Job cannot
expire, while the operator runs, before it is recorded. For the first object of a
name: until it is `Gone`, each copy that may still be acted on has `Earned` its
phase (an imported disk, a fixed one, no Job at work or failed, a machine), and the
children are `InStep` with the phases: a Job exists only from Fixing on, a machine
only from CreatingVM on. `OneJob`: while a Job can be started none has been seen to
end, so the Job that was watched is the Job that exists; it must hold beyond
`Gone`. From it: `FixerSafety`, `ReadySafety`, `DiskSafety`.

`HyperConversionHandoverProofs`, on the same invariant: `ImplementsHandover`. Its
header lists which step maps to which. Most of the work is in what does not
happen: no step begins anything once the order is over, a handler that runs on a
stale cache only repeats what the children already show, and a report stored once
is not taken back while the order stands (two more conjuncts of `Behind`).

`WebJobsProofs`, for every set of jobs, every channel capacity and any number of
cancels. `Handover` follows the exit code from the process into the channel and
into the status, and says what the two goroutines have done by then. From it:
`OutcomeSafety`, `EndSafety`, `TypeCorrect`.

`BatchProofs`, for every set of VMs, every limit and any number of runs, crashes
and failing writes. `Truth`: recorded successes were converted. `Places`: a VM is
in one place. `OneAtATime`: the sequential loop has one VM in hand. `Ledger`: with
limit 1 the results extend the checkpoint, and with what is left to do cover the
batch. `Covering`: with continue_on_error the results of the loop that runs and
what is left to do cover the batch, in the pool of a first run, too. `Stopping`:
without continue_on_error the pool goes back to its loop only without a failure, so
that there is one at most; the loop is left with nothing waiting; and in sequence
the failures on record are at most as many as the runs, which takes the library's
theorems on cardinality. From it:
`CompletedSafety`, `WorkerSafety`, `CheckpointMonotone`, `CleanupSafety`,
`ReportSafety`, `StopSafety`, `TypeCorrect`.

`WorkerApiProofs`, for any number of processes, workers, jobs and restarts.
`DiskStates`: state files say VALIDATED. `OneOwner`: at most one process has a job
as QUEUED or ASSIGNED, and while it is QUEUED nobody has got it. `AcceptedFirst`:
what is in queues, files and hands was accepted. `CancelFinal`: nobody owns a job
that was cancelled as QUEUED. From it: `DeliveredAtMostOnce`, `NoFileOnceHanded`,
`CancelIsFinal`, `Typed`, and `ImplementsDispatch`: the initial state maps to that of
`Dispatch`, `Enqueue` to `Take`, `Hand` of a QUEUED job to `Give`, and every other step
to `Drop` or to a stutter.

`DaemonProofs`, for any files, finitely many workers and any number of runs,
drops and faults. `ConvertedInv`: a worker that archives has converted. `RowInv`: a
worker that is about to move a file has a row for it, of whatever size, or its
write was lost. `KnownInv`: rows stay, and a daemon that is off has nothing in its
pipeline. `OnceInv`: a file the scan has not seen is in one place and
in `processing` while it is past the observer. `OffInv`: no worker runs before the
scan is over. From it: `NothingLost`, `RowBeforeMove`, `KnownSkipped`, `JobsAreReal`,
`GivenOutOnce`, `Typed`.

`MigrationProofs`, for any number of processes, disks and seconds. `LockInv`: a
process past the lock holds it. `DoneInv`: what counts as done was converted.
`ImageInv`: and has an image in the same list, or one that was a copy in place.
`MadeInv`: images in lists and files are those of disks nobody works on any more, so
that a copy that was dropped from a list stays one that was a copy. `OneDisk`: in sequence one disk is in
the pipeline. `Fresh`: a disk that was not begun has no copy. From it: `Exclusive`,
`ProgressIsTrue`, `AllImages`, `SequentialSafe`, `Typed`.

The assumptions are the named `ConstantsAssumption` of each module: bounds are
naturals, sets are not empty where the code needs one, the workers of a pool are
finitely many.

Every invariant, action property and refinement that a passing run checks is a
theorem. Only model-checked are the liveness properties, whose proofs need fairness
and ENABLED, which are outside the prover's reach: `Settles`, `DeletionCompletes`,
`ChildrenGoWithOwner`, `ExitIsNoticed`, `StopKills`, `RunEnds`, `CapableDrains`,
`WorkersDrain`.

## Plan

1. Validation controller, sharing the reconcile frame of HyperConversion.
2. An abstract specification of a job that WebJobs implements, as DiskHandover is
   one of a conversion.
3. The workflow daemons, as variants of Daemon with a processing directory.

## Not modelled

Content transformations (fixers, converters, domain XML), network clients,
HTTP handlers, command line and configuration: no protocol state, or state that
is a disk image. They are by far the larger part of the source, some 145,000 of
148,000 lines, so that the map stays a small share of it: what a fixer writes
into a registry hive or a boot loader configuration, what a VMware client sends,
how an option is parsed are values that no state machine of this kind says
anything about, and their failures appear in the models as steps that may fail.
The progress file of a batch: write-only and best-effort. The worker engine: one
thread that executes one job; no entry point connects it to the job
queue. The Validation controller repeats the protocol of the first controller on
a smaller scale. `PROJECT.json` gives the reason for each component.
