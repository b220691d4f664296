-------------------------------- MODULE Daemon --------------------------------
(***************************************************************************)
(* The directory watcher (h2kvm/runtime/daemon/daemon_watcher.py with      *)
(* deduplicator.py, stats.py and control.py).                              *)
(*                                                                         *)
(* Files dropped into the watch directory are noticed by the observer      *)
(* thread, or by the scan of the main thread when the daemon starts, and   *)
(* put into a queue; worker threads convert them and move them to          *)
(* .processed or .errors.  The daemon may be killed at any point: the      *)
(* directories and the deduplication table survive, all else is memory.    *)
(*                                                                         *)
(* A file stands for its name and full size, the key of the table; while   *)
(* it is being copied in it has a smaller size (growing).  The order of    *)
(* the queue, totals, notifications, error reports and the conversion      *)
(* itself are left out; archive_processed and deduplication are on, their  *)
(* default.  Time is two choices: whether a retry is due, and whether a    *)
(* minute has passed since the statistics were last saved.                 *)
(***************************************************************************)
EXTENDS Integers, FiniteSets

CONSTANTS Files, NoFile,
          Workers,
          MaxRetries,   \* retry_policy.max_retries
          Minutes,      \* whether the daemon lives long enough to save
          MaxDrops, MaxRuns, MaxFaults   \* bounds on the environment

ASSUME ConstantsAssumption ==
    /\ NoFile \notin Files
    /\ IsFiniteSet(Workers)
    /\ MaxRetries \in Nat /\ Minutes \in BOOLEAN
    /\ MaxDrops \in Nat /\ MaxRuns \in Nat /\ MaxFaults \in Nat

VARIABLES configs,      \* the files that are YAML configurations
          inWatch, inErrors, inDone,  \* the three directories
          growing,      \* files that are still being copied
          dedup,        \* row for a name and its full size, "none": no row
          stubs,        \* names with a row for another size
          mode,         \* the main thread
          toScan,       \* files that were there when the scan began
          scanned,      \* files the scan has looked at
          queue,        \* how often each file is in the queue
          events,       \* inotify events the observer has not handled
          obs,          \* the file the observer waits for to be stable
          early,        \* files this process looked up before they were complete
          processing, processed,   \* sets of VMFileHandler
          attempts,     \* RetryManager.retry_queue, -1: no entry
          tasks,        \* retries submitted to the executor
          paused,       \* pause_event
          minute,       \* a minute since _last_save
          pc, file,     \* worker threads
          current,      \* DaemonStatistics.current_jobs
          converted,    \* files that were converted successfully, ever
          known,        \* files on record as a success when this process started
          unrecorded,   \* files a write of the table was lost for
          drops, runs, faults

dirs  == <<inWatch, inErrors, inDone, growing>>
table == <<dedup, stubs>>
feed  == <<toScan, scanned, events, obs, early>>
ctl   == <<mode, paused, minute>>
book  == <<processing, processed>>
hist  == <<configs, known, unrecorded, drops, runs, faults>>
vars  == <<dirs, table, feed, ctl, queue, book, attempts, tasks, pc, file,
           current, converted, hist>>

Stopping == mode \in {"signal", "control", "hung"}
Row(f)   == dedup[f] # "none"

\* is_duplicate looks the file up by its name and the size it has now.  One that
\* is still being copied is found only if some row happens to have that size: a
\* row written while the file was as long as now, or, with size 0, while it was gone.
Duplicate(f) == IF f \in growing THEN {FALSE, (f \in stubs)} ELSE {Row(f)}

\* DaemonStatistics.lock is free: no thread is caught in save.
StatsFree == \A w \in Workers : pc[w] # "stuck"

Fault == faults < MaxFaults /\ faults' = faults + 1

Forgotten ==   \* what is left in memory after the process has ended
    /\ toScan' = {} /\ scanned' = {} /\ obs' = NoFile /\ early' = {}
    /\ events' = [f \in Files |-> 0] /\ queue' = [f \in Files |-> 0]
    /\ processing' = {} /\ processed' = {} /\ tasks' = {} /\ current' = {}
    /\ attempts' = [f \in Files |-> -1]
    /\ paused' = FALSE /\ minute' = FALSE
    /\ pc' = [w \in Workers |-> "off"] /\ file' = [w \in Workers |-> NoFile]

Init ==
    /\ configs \in SUBSET Files
    /\ inWatch = {} /\ inErrors = {} /\ inDone = {} /\ growing = {}
    /\ dedup = [f \in Files |-> "none"] /\ stubs = {}
    /\ mode = "off" /\ toScan = {} /\ scanned = {} /\ obs = NoFile /\ early = {}
    /\ events = [f \in Files |-> 0] /\ queue = [f \in Files |-> 0]
    /\ processing = {} /\ processed = {} /\ tasks = {} /\ current = {}
    /\ attempts = [f \in Files |-> -1]
    /\ paused = FALSE /\ minute = FALSE
    /\ pc = [w \in Workers |-> "off"] /\ file = [w \in Workers |-> NoFile]
    /\ converted = {} /\ known = {} /\ unrecorded = {}
    /\ drops = 0 /\ runs = 0 /\ faults = 0

-----------------------------------------------------------------------------
(* Users and the main thread                                               *)

\* A user moves a file into the watch directory, or begins to copy it there.
Arrive(f, how) ==
    /\ f \notin inWatch /\ drops < MaxDrops
    /\ drops' = drops + 1 /\ inWatch' = inWatch \union {f}
    /\ growing' = IF how = "cp" THEN growing \union {f} ELSE growing \ {f}
    /\ events' = IF mode \in {"scan", "run"} THEN [events EXCEPT ![f] = @ + 1]
                                             ELSE events
    /\ UNCHANGED <<inErrors, inDone, table, toScan, scanned, obs, early, ctl, queue,
                   book, attempts, tasks, pc, file, current, converted, known,
                   unrecorded, runs, faults, configs>>

\* The copy is complete, wherever the file has been moved to meanwhile.
Copied(f) ==
    /\ f \in growing
    /\ growing' = growing \ {f}
    /\ UNCHANGED <<inWatch, inErrors, inDone, table, feed, ctl, queue, book,
                   attempts, tasks, pc, file, current, converted, hist>>

\* run, up to the start of the observer: it watches before the scan begins.
Start ==
    /\ mode = "off" /\ runs < MaxRuns
    /\ mode' = "scan" /\ runs' = runs + 1
    /\ toScan' = inWatch
    /\ known' = {f \in Files : dedup[f] = "success"}
    /\ UNCHANGED <<dirs, table, scanned, events, obs, early, paused, minute, queue,
                   book, attempts, tasks, pc, file, current, converted,
                   unrecorded, drops, faults, configs>>

\* Mutant: the scan does not ask the deduplicator.
ScanMutant(f) ==
    /\ mode = "scan" /\ f \in inWatch \ scanned
    /\ scanned' = scanned \union {f}
    /\ early' = early \union ({f} \intersect growing)
    /\ queue' = [queue EXCEPT ![f] = @ + 1]
    /\ processing' = processing \union {f}
    /\ UNCHANGED <<dirs, table, toScan, events, obs, ctl, processed, attempts,
                   tasks, pc, file, current, converted, hist>>

\* _scan_existing_files looks at f.  It does not ask whether the observer has
\* seen the file, and does not wait until it is complete.
Scan(f) ==
    /\ mode = "scan" /\ f \in inWatch \ scanned
    /\ scanned' = scanned \union {f}
    /\ early' = early \union ({f} \intersect growing)
    /\ \E duplicate \in Duplicate(f) :
         IF duplicate
         THEN UNCHANGED <<queue, processing>>
         ELSE /\ queue' = [queue EXCEPT ![f] = @ + 1]
              /\ processing' = processing \union {f}
    /\ UNCHANGED <<dirs, table, toScan, events, obs, ctl, processed, attempts,
                   tasks, pc, file, current, converted, hist>>

\* The scan is over and the worker loops are submitted.
Ready ==
    /\ mode = "scan" /\ toScan \subseteq scanned
    /\ mode' = "run" /\ pc' = [w \in Workers |-> "get"] /\ toScan' = {}
    /\ UNCHANGED <<dirs, table, scanned, events, obs, early, paused, minute, queue,
                   book, attempts, tasks, file, current, converted, hist>>

\* _process_retries: files in .errors whose retry is due move back, and a
\* call is submitted to the executor, behind the worker loops.
Retry(f) ==
    /\ mode = "run" /\ attempts[f] \in 0..(MaxRetries - 1) /\ f \in inErrors
    /\ inErrors' = inErrors \ {f} /\ inWatch' = inWatch \union {f}
    /\ events' = [events EXCEPT ![f] = @ + 1]
    /\ tasks' = tasks \union {f}
    /\ UNCHANGED <<inDone, growing, table, toScan, scanned, obs, early, ctl, queue, book,
                   attempts, pc, file, current, converted, hist>>

\* Commands of the control socket.
Pause(b) ==
    /\ mode # "off" /\ paused # b
    /\ paused' = b
    /\ UNCHANGED <<dirs, table, feed, mode, minute, queue, book, attempts,
                   tasks, pc, file, current, converted, hist>>

\* stop, by a signal (in the main thread) or by the control thread: the stop
\* event is set and the observer stopped; it leaves the events it has not handled.
Stop(how) ==
    /\ mode \in {"scan", "run"}
    /\ mode' = how /\ events' = [f \in Files |-> 0]
    /\ UNCHANGED <<dirs, table, toScan, scanned, obs, early, paused, minute, queue,
                   book, attempts, tasks, pc, file, current, converted, hist>>

Drained == (\A w \in Workers : pc[w] = "off") /\ tasks = {}

\* After executor.shutdown.  In the main thread stop goes on to queue.join,
\* which nobody serves any more, or to stats.save, which waits for its own
\* lock: it does not return.
StopHangs ==
    /\ mode = "signal" /\ Drained
    /\ mode' = "hung"
    /\ UNCHANGED <<dirs, table, feed, paused, minute, queue, book, attempts,
                   tasks, pc, file, current, converted, hist>>

\* In the control thread control.stop joins itself and raises, the rest of
\* stop is skipped and the main loop ends the process.
Exit ==
    /\ mode = "control" /\ Drained
    /\ mode' = "off" /\ Forgotten
    /\ UNCHANGED <<dirs, table, converted, hist>>

\* The process is killed.
Kill ==
    /\ mode # "off"
    /\ mode' = "off" /\ Forgotten
    /\ UNCHANGED <<dirs, table, converted, hist>>

\* From now on every job_completed wants to save the statistics.
Minute ==
    /\ Minutes /\ mode # "off" /\ ~minute
    /\ minute' = TRUE
    /\ UNCHANGED <<dirs, table, feed, mode, paused, queue, book, attempts,
                   tasks, pc, file, current, converted, hist>>

-----------------------------------------------------------------------------
(* The observer thread                                                     *)

\* Mutant: a file that is being processed is valid.
NoticeMutant(f) ==
    /\ mode \in {"scan", "run"} /\ obs = NoFile /\ events[f] > 0
    /\ events' = [events EXCEPT ![f] = @ - 1]
    /\ obs' = IF f \in inWatch \ processed /\ ~Row(f) THEN f ELSE NoFile
    /\ UNCHANGED <<dirs, table, toScan, scanned, early, ctl, queue, book, attempts,
                   tasks, pc, file, current, converted, hist>>

\* _queue_file up to the wait: _is_valid_file, then is_duplicate, with the size
\* the file has by now.  It is not asked again after the wait.
Notice(f) ==
    /\ mode \in {"scan", "run"} /\ obs = NoFile /\ events[f] > 0
    /\ events' = [events EXCEPT ![f] = @ - 1]
    /\ LET valid == f \in inWatch /\ f \notin processing \union processed IN
       \E duplicate \in Duplicate(f) :
         /\ processed' = IF valid /\ duplicate THEN processed \union {f}
                                               ELSE processed
         /\ obs' = IF valid /\ ~duplicate THEN f ELSE NoFile
         /\ early' = IF valid THEN early \union ({f} \intersect growing) ELSE early
    /\ UNCHANGED <<dirs, table, toScan, scanned, ctl, queue, processing,
                   attempts, tasks, pc, file, current, converted, hist>>

\* _queue_file after the wait.  A file that still grows when the time is over,
\* or that is gone, is left alone; a copy that stalls for three seconds is stable.
Put(size) ==
    /\ mode # "off" /\ obs # NoFile
    /\ obs' = NoFile
    /\ IF size = "stable"
       THEN /\ obs \in inWatch
            /\ processing' = processing \union {obs}
            /\ queue' = [queue EXCEPT ![obs] = @ + 1]
       ELSE UNCHANGED <<processing, queue>>
    /\ UNCHANGED <<dirs, table, toScan, scanned, events, early, ctl, processed,
                   attempts, tasks, pc, file, current, converted, hist>>

-----------------------------------------------------------------------------
(* The worker threads                                                      *)

Step(w, from, to) == pc[w] = from /\ pc' = [pc EXCEPT ![w] = to]

\* _worker_loop takes a file; a get that has begun ignores the stop event.
Get(w, f) ==
    /\ queue[f] > 0 /\ Step(w, "get", "begin")
    /\ queue' = [queue EXCEPT ![f] = @ - 1]
    /\ file' = [file EXCEPT ![w] = f]
    /\ UNCHANGED <<dirs, table, feed, ctl, book, attempts, tasks, current,
                   converted, hist>>

\* _worker_loop sees the stop event.
Leave(w) ==
    /\ Stopping /\ Step(w, "get", "off")
    /\ UNCHANGED <<dirs, table, feed, ctl, queue, book, attempts, tasks, file,
                   current, converted, hist>>

\* Mutant: the pause loop does not look at the stop event.
BeginMutant(w) ==
    /\ ~paused
    /\ \/ Stopping /\ Step(w, "begin", "record") /\ UNCHANGED current
       \/ ~Stopping /\ file[w] \notin inWatch
          /\ Step(w, "begin", "fail") /\ UNCHANGED current
       \/ ~Stopping /\ file[w] \in inWatch /\ StatsFree
          /\ Step(w, "begin", "convert")
          /\ current' = current \union {file[w]}
    /\ UNCHANGED <<dirs, table, feed, ctl, queue, book, attempts, tasks, file,
                   converted, hist>>

\* _process_file waits while paused; a stop ends it; a file that is gone
\* raises; otherwise job_started records it.
Begin(w) ==
    /\ \/ Stopping /\ Step(w, "begin", "record") /\ UNCHANGED current
       \/ ~Stopping /\ ~paused /\ file[w] \notin inWatch
          /\ Step(w, "begin", "fail") /\ UNCHANGED current
       \/ ~Stopping /\ ~paused /\ file[w] \in inWatch /\ StatsFree
          /\ Step(w, "begin", "convert")
          /\ current' = current \union {file[w]}
    /\ UNCHANGED <<dirs, table, feed, ctl, queue, book, attempts, tasks, file,
                   converted, hist>>

\* Mutant: a failed conversion is archived, too.
ConvertMutant(w) ==
    /\ \/ Step(w, "convert", "mark") /\ converted' = converted \union {file[w]}
       \/ Step(w, "convert", "archive") /\ UNCHANGED converted
    /\ UNCHANGED <<dirs, table, feed, ctl, queue, book, attempts, tasks, file,
                   current, hist>>

\* orchestrator.run, or h2kvmctl for a configuration, succeeds or raises.
Convert(w) ==
    /\ \/ /\ Step(w, "convert", IF file[w] \in configs THEN "archive" ELSE "mark")
          /\ converted' = converted \union {file[w]}
       \/ Step(w, "convert", "fail") /\ UNCHANGED converted
    /\ UNCHANGED <<dirs, table, feed, ctl, queue, book, attempts, tasks, file,
                   current, hist>>

\* deduplicator.mark_processed records the size the file has now: 0 if it is gone,
\* less than the full size if it is still being copied.  An error of the data base
\* is logged.
MarkAs(f, status) ==
    /\ \/ /\ f \in inWatch \ growing /\ dedup' = [dedup EXCEPT ![f] = status]
          /\ UNCHANGED <<stubs, unrecorded, faults>>
       \/ /\ f \notin inWatch \ growing /\ stubs' = stubs \union {f}
          /\ UNCHANGED <<dedup, unrecorded, faults>>
       \/ /\ Fault /\ unrecorded' = unrecorded \union {f}
          /\ UNCHANGED table
    /\ UNCHANGED <<configs, known, drops, runs>>

Mark(w) ==
    /\ Step(w, "mark", "archive") /\ MarkAs(file[w], "success")
    /\ UNCHANGED <<dirs, feed, ctl, queue, book, attempts, tasks, file,
                   current, converted>>

\* clear_retry, then the file is renamed into .processed; rename raises if
\* the file is gone, and may fail.
Archive(w) ==
    LET f == file[w] IN
    /\ pc[w] = "archive"
    /\ attempts' = IF f \in configs THEN attempts ELSE [attempts EXCEPT ![f] = -1]
    /\ \/ /\ f \in inWatch /\ Step(w, "archive", "record")
          /\ inWatch' = inWatch \ {f} /\ inDone' = inDone \union {f}
          /\ UNCHANGED faults
       \/ /\ Step(w, "archive", "fail") /\ UNCHANGED <<inWatch, inDone>>
          /\ IF f \in inWatch THEN Fault ELSE UNCHANGED faults
    /\ UNCHANGED <<inErrors, growing, table, feed, ctl, queue, book, tasks, file,
                   current, converted, known, unrecorded, drops, runs, configs>>

\* Mutant: a file that is given up is moved without being recorded.
ShouldRetryMutant(w, delay) ==
    LET f   == file[w]
        yes == attempts[f] = -1 \/ (attempts[f] < MaxRetries /\ delay = "over")
    IN
    /\ Step(w, "fail", IF yes THEN "again" ELSE "move")
    /\ attempts' = IF attempts[f] = -1 THEN [attempts EXCEPT ![f] = 0] ELSE attempts
    /\ UNCHANGED <<dirs, table, feed, ctl, queue, book, tasks, file, current,
                   converted, hist>>

\* RetryManager.should_retry: the first failure of a file always is retried.
ShouldRetry(w, delay) ==
    LET f   == file[w]
        yes == attempts[f] = -1 \/ (attempts[f] < MaxRetries /\ delay = "over")
    IN
    /\ Step(w, "fail", IF yes THEN "again" ELSE "giveup")
    /\ attempts' = IF attempts[f] = -1 THEN [attempts EXCEPT ![f] = 0] ELSE attempts
    /\ UNCHANGED <<dirs, table, feed, ctl, queue, book, tasks, file, current,
                   converted, hist>>

\* Mutant: the early return skips job_completed.
RecordRetryMutant(w) ==
    LET f == file[w] IN
    /\ Step(w, "again", "done")
    /\ attempts' = [attempts EXCEPT ![f] = @ + 1]
    /\ UNCHANGED <<dirs, table, feed, ctl, queue, book, tasks, file, current,
                   converted, hist>>

\* record_retry; the file is left where it is.
RecordRetry(w) ==
    LET f == file[w] IN
    /\ Step(w, "again", "record")
    /\ attempts' = IF attempts[f] = -1 THEN attempts
                                       ELSE [attempts EXCEPT ![f] = @ + 1]
    /\ UNCHANGED <<dirs, table, feed, ctl, queue, book, tasks, file, current,
                   converted, hist>>

MarkFailed(w) ==
    /\ Step(w, "giveup", "move") /\ MarkAs(file[w], "failed")
    /\ UNCHANGED <<dirs, feed, ctl, queue, book, attempts, tasks, file,
                   current, converted>>

\* The file moves to .errors if it is still there; a failure is logged.
MoveToErrors(w) ==
    LET f == file[w] IN
    /\ Step(w, "move", "record")
    /\ \/ /\ f \in inWatch
          /\ inWatch' = inWatch \ {f} /\ inErrors' = inErrors \union {f}
          /\ UNCHANGED faults
       \/ /\ IF f \in inWatch THEN Fault ELSE UNCHANGED faults
          /\ UNCHANGED <<inWatch, inErrors>>
    /\ UNCHANGED <<inDone, growing, table, feed, ctl, queue, book, attempts, tasks,
                   file, current, converted, known, unrecorded, drops, runs,
                   configs>>

\* job_completed under the statistics lock.  When a minute has passed it
\* calls save, which asks for the same lock.
Recorded(w, f, to) ==
    /\ StatsFree
    /\ current' = current \ {f}
    /\ pc' = [pc EXCEPT ![w] = IF f \in current /\ minute THEN "stuck" ELSE to]

Record(w) ==
    /\ pc[w] = "record" /\ Recorded(w, file[w], "done")
    /\ UNCHANGED <<dirs, table, feed, ctl, queue, book, attempts, tasks, file,
                   converted, hist>>

\* mark_completed, always with success, and task_done.
Done(w) ==
    LET f == file[w] IN
    /\ Step(w, "done", "get")
    /\ processing' = processing \ {f} /\ processed' = processed \union {f}
    /\ file' = [file EXCEPT ![w] = NoFile]
    /\ UNCHANGED <<dirs, table, feed, ctl, queue, attempts, tasks, current,
                   converted, hist>>

\* A thread of the pool whose loop has ended runs a submitted retry: the stop
\* event is set, so _process_file only calls job_completed.
RunTask(w, f) ==
    /\ Stopping /\ pc[w] = "off" /\ f \in tasks
    /\ tasks' = tasks \ {f} /\ Recorded(w, f, "off")
    /\ UNCHANGED <<dirs, table, feed, ctl, queue, book, attempts, file,
                   converted, hist>>

Work(w) ==
    \/ \E f \in Files : Get(w, f) \/ RunTask(w, f)
    \/ Leave(w) \/ Begin(w) \/ Convert(w) \/ Mark(w) \/ Archive(w)
    \/ \E delay \in {"over", "running"} : ShouldRetry(w, delay)
    \/ RecordRetry(w) \/ MarkFailed(w) \/ MoveToErrors(w)
    \/ Record(w) \/ Done(w)

Observe == (\E f \in Files : Notice(f)) \/ \E size \in {"stable", "growing"} : Put(size)

Main == Ready \/ StopHangs \/ Exit \/ \E f \in Files : Scan(f) \/ Retry(f)

Environment ==
    \/ Start \/ Kill \/ Minute
    \/ \E f \in Files : Copied(f) \/ \E how \in {"mv", "cp"} : Arrive(f, how)
    \/ \E b \in BOOLEAN : Pause(b)
    \/ \E how \in {"signal", "control"} : Stop(how)

Next == Main \/ Observe \/ Environment \/ \E w \in Workers : Work(w)

Spec == Init /\ [][Next]_vars

\* Threads that can go on do; users, signals and the clock owe nothing.
FairSpec == Spec /\ WF_vars(Main) /\ WF_vars(Observe)
                 /\ \A w \in Workers : WF_vars(Work(w))

-----------------------------------------------------------------------------
(* Properties                                                              *)

PCs == {"off", "get", "begin", "convert", "mark", "archive", "fail", "again",
        "giveup", "move", "record", "stuck", "done"}

\* Types.
TypeOK ==
    /\ configs \subseteq Files
    /\ inWatch \subseteq Files /\ inErrors \subseteq Files /\ inDone \subseteq Files
    /\ growing \subseteq Files /\ stubs \subseteq Files /\ early \subseteq Files
    /\ dedup \in [Files -> {"none", "success", "failed"}]
    /\ mode \in {"off", "scan", "run", "signal", "control", "hung"}
    /\ toScan \subseteq Files /\ scanned \subseteq Files
    /\ queue \in [Files -> Nat] /\ events \in [Files -> Nat]
    /\ obs \in Files \union {NoFile}
    /\ processing \subseteq Files /\ processed \subseteq Files
    /\ attempts \in [Files -> Nat \union {-1}]
    /\ tasks \subseteq Files /\ current \subseteq Files
    /\ paused \in BOOLEAN /\ minute \in BOOLEAN
    /\ pc \in [Workers -> PCs]
    /\ file \in [Workers -> Files \union {NoFile}]
    /\ \A w \in Workers : pc[w] \notin {"off", "get", "stuck"} => file[w] \in Files
    /\ converted \subseteq Files /\ known \subseteq Files
    /\ unrecorded \subseteq Files
    /\ drops \in Nat /\ runs \in Nat /\ faults \in Nat

\* The workers that have f, other than ones that are about to leave it.
Holders(f) == {w \in Workers : file[w] = f}

\* A file that arrives after the scan is given out once: however many events
\* name it and whatever becomes of it, it is in one place of the pipeline
\* (observer, queue, one worker), so no two conversions of it run at once.
NewFileOnce ==
    \A f \in Files \ scanned :
        queue[f] + Cardinality(Holders(f)) + (IF obs = f THEN 1 ELSE 0) <= 1

\* What was on record as converted when the daemon was last started is not
\* converted again, also when it was killed between recording a file and moving
\* it, and however often the file is put back: unless it was looked up before it
\* was complete, by the size it had at that moment.
KnownNotQueued ==
    \A f \in known \ early : queue[f] = 0 /\ Holders(f) = {} /\ obs # f

\* A disk image leaves the watch directory only after the table names it, so that
\* the queries of the table list whatever was moved: also when two workers have
\* the file and one finds it gone, when it is put back meanwhile, and when the
\* daemon is killed in between.  A write of the table that fails is only logged;
\* it is the one way to a file that no row names.
RecordedBeforeMoved ==
    \A f \in (inErrors \union inDone) \ configs :
        Row(f) \/ f \in stubs \union unrecorded

\* No input is taken away unconverted: a file is in .processed only if some
\* attempt at what was there of it ended well, also when two workers have the
\* same file and the second finds it gone, or a move fails.
UnconvertedKept == inDone \subseteq converted

\* The statistics list as running only what a worker has in hand.
NoGhostJobs ==
    \A f \in current : \E w \in Workers :
        file[w] = f /\ pc[w] \notin {"off", "get", "begin", "done", "stuck"}

\* stop gets the workers to leave, from whatever they are doing and also when
\* the daemon is paused, unless one is caught in the statistics.
WorkersDrain ==
    (mode \in {"signal", "control"}) ~> (mode \in {"hung", "off"} \/ ~StatsFree)

\* "Thread-safe implementation for concurrent access" (stats.py:44): a call
\* of job_completed returns.
CompletionReturns ==
    \A w \in Workers : (pc[w] = "record") ~> (pc[w] \notin {"record", "stuck"})
=============================================================================
