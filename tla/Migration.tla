------------------------------- MODULE Migration -------------------------------
(***************************************************************************)
(* One migration with --enable-recovery: Orchestrator.run with             *)
(* _process_disks (h2kvm/orchestration/orchestrator.py), the               *)
(* DiskProcessor it drives (disk_processor.py) and the RecoveryManager     *)
(* that keeps checkpoints below the output directory                       *)
(* (h2kvm/core/recovery_manager.py).                                       *)
(*                                                                         *)
(* Processes are invocations of h2kvmctl with the same output directory:   *)
(* at the same time, or one after the crash of another.  The recovery      *)
(* directory and the BusLogic copies survive a crash.                      *)
(*                                                                         *)
(* Time is the clock of U.now_ts, in seconds; any number of steps may      *)
(* happen within a second.  Checkpoints of the stages disks_discovered,    *)
(* start and mounted are left out: nothing ever completes them, so no      *)
(* reader of checkpoints takes one into account.  Nor are the JSONL index, *)
(* which is never read, and run.json, whose status nobody changes.  Guest  *)
(* repair and conversion succeed or raise.                                 *)
(***************************************************************************)
EXTENDS Integers, FiniteSets

CONSTANTS Procs, NoProc,
          N,             \* disks of the VM, in the order of self.disks
          MaxTime        \* bound on the clock

ASSUME ConstantsAssumption ==
    NoProc \notin Procs /\ N \in Nat \ {0} /\ MaxTime \in Nat \ {0}

Disks == 1..N
NoTs  == 0

VARIABLES mode,        \* parallel_processing
          target,      \* whether to_output is given
          now,
          lock,        \* holder of the flock on .lock
          files,       \* checkpoint files of stage disk_processing
          latest,      \* latest_completed.json
          dirs,        \* BusLogic copies that exist: <<process, disk>>
          converted,   \* disks that went through the pipeline, ever
          pc, run_id,
          done, images,    \* completed_disks, fixed_images
          ts,          \* timestamp of the checkpoint being written
          stage,       \* stage of process_single_disk, per disk
          copied,      \* disks whose working image is the BusLogic copy
          tracked      \* _buslogic_temp_dir: the disk it belongs to, or 0

conf == <<mode, target>>
dir  == <<lock, files, latest>>
prog == <<run_id, done, images, ts>>
bus  == <<dirs, copied, tracked>>
vars == <<conf, now, dir, bus, converted, pc, prog, stage>>

Ended == {"success", "failed", "killed"}

Idle == [d \in Disks |-> "idle"]

Init ==
    /\ mode \in {"sequential", "parallel"} /\ target \in {"output", "in_place"}
    /\ now = 1
    /\ lock = NoProc
    /\ files = {} /\ latest = <<0, NoTs>>
    /\ dirs = {} /\ converted = {}
    /\ pc = [p \in Procs |-> "off"] /\ run_id = [p \in Procs |-> 0]
    /\ done = [p \in Procs |-> {}] /\ images = [p \in Procs |-> {}]
    /\ ts = [p \in Procs |-> NoTs]
    /\ stage = [p \in Procs |-> Idle]
    /\ copied = [p \in Procs |-> {}] /\ tracked = [p \in Procs |-> 0]

Step(p, from, to) == pc[p] = from /\ pc' = [pc EXCEPT ![p] = to]

\* The process is gone, and with it its lock, its threads and its memory.
Ends(p, how) ==
    /\ pc' = [pc EXCEPT ![p] = how]
    /\ lock' = IF lock = p THEN NoProc ELSE lock
    /\ stage' = [stage EXCEPT ![p] = Idle]
    /\ tracked' = [tracked EXCEPT ![p] = 0] /\ ts' = [ts EXCEPT ![p] = NoTs]
    /\ done' = [done EXCEPT ![p] = {}] /\ images' = [images EXCEPT ![p] = {}]
    /\ UNCHANGED <<conf, now, files, latest, dirs, copied, converted, run_id>>

-----------------------------------------------------------------------------
(* RecoveryManager                                                         *)

\* The constructor, up to run.json: no run_id is passed to it, so that it is
\* the time.
Start(p) ==
    /\ Step(p, "off", "lock")
    /\ run_id' = [run_id EXCEPT ![p] = now]
    /\ UNCHANGED <<conf, now, lock, files, latest, bus, converted, done,
                   images, ts, stage>>

\* Mutant: no flock.
LockMutant(p) ==
    /\ Step(p, "lock", "load") /\ lock' = p
    /\ UNCHANGED <<conf, now, files, latest, bus, converted, prog, stage>>

\* _acquire_lock: the flock does not wait.
Lock(p) ==
    /\ \/ lock = NoProc /\ lock' = p /\ Step(p, "lock", "load")
       \/ lock # NoProc /\ UNCHANGED lock /\ Step(p, "lock", "failed")
    /\ UNCHANGED <<conf, now, files, latest, bus, converted, prog, stage>>

\* The checkpoints of this run a reader accepts.
Own(p) == {f \in files : f.run = run_id[p] /\ f.completed}

\* describe_recovery, as load_checkpoint calls it: what the pointer names if
\* that is a completed checkpoint of this run, else the newest such one.
Recovery(p) ==
    LET named == {f \in Own(p) : <<f.run, f.ts>> = latest}
    IN  IF named # {} THEN named
        ELSE {f \in Own(p) : \A g \in Own(p) : g.ts <= f.ts}

\* The image process q made of disk d is there.
Exists(q, d) == target = "output" \/ d \notin copied[q] \/ <<q, d>> \in dirs

\* Mutant: the images of the completed disks are not restored.
LoadMutant(p) ==
    /\ \/ Recovery(p) = {} /\ UNCHANGED done
       \/ \E f \in Recovery(p) : done' = [done EXCEPT ![p] = f.done]
    /\ Step(p, "load", IF done'[p] = Disks THEN "finish" ELSE "work")
    /\ UNCHANGED <<conf, now, dir, bus, converted, run_id, images, ts, stage>>

\* load_checkpoint at the start of _process_disks.
Load(p) ==
    /\ \/ /\ Recovery(p) = {} /\ UNCHANGED <<done, images>>
       \/ \E f \in Recovery(p) :
            /\ done' = [done EXCEPT ![p] = f.done]
            /\ images' = [images EXCEPT ![p] =
                             {i \in f.images : Exists(i[1], i[2])}]
    /\ Step(p, "load", IF done'[p] = Disks THEN "finish" ELSE "work")
    /\ UNCHANGED <<conf, now, dir, bus, converted, run_id, ts, stage>>

\* save_checkpoint: a file of the same second is replaced.
Save(p) ==
    /\ Step(p, "save", "mark")
    /\ ts' = [ts EXCEPT ![p] = now]
    /\ files' = {f \in files : <<f.run, f.ts>> # <<run_id[p], now>>} \union
                  {[run |-> run_id[p], ts |-> now, completed |-> FALSE,
                    done |-> done[p], images |-> images[p]]}
    /\ UNCHANGED <<conf, now, lock, latest, bus, converted, run_id,
                   done, images, stage>>

\* mark_checkpoint_complete rewrites the file.
Mark(p) ==
    /\ Step(p, "mark", "point")
    /\ files' = {IF <<f.run, f.ts>> = <<run_id[p], ts[p]>>
                 THEN [f EXCEPT !.completed = TRUE] ELSE f : f \in files}
    /\ UNCHANGED <<conf, now, lock, latest, bus, converted, prog, stage>>

\* _write_latest_completed; a failure is ignored.
Point(p) ==
    /\ Step(p, "point", IF done[p] = Disks THEN "finish" ELSE "work")
    /\ \/ latest' = <<run_id[p], ts[p]>>
       \/ UNCHANGED latest
    /\ ts' = [ts EXCEPT ![p] = NoTs]
    /\ UNCHANGED <<conf, now, lock, files, bus, converted, run_id, done,
                   images, stage>>

\* The newest completed checkpoint of the run: kept by the rule "last
\* completed per stage".
LastCompleted(p) == {f \in Own(p) : \A g \in Own(p) : g.ts <= f.ts}

\* _finalize up to cleanup_old_checkpoints, which keeps the newest 50 files of
\* the run (of all stages) and the last completed one of each stage; run.json
\* says "running" for ever.
Cleanup(p) ==
    /\ Step(p, "finish", "deploy")
    /\ \E old \in SUBSET ({f \in files : f.run = run_id[p]} \ LastCompleted(p)) :
         files' = files \ old
    /\ UNCHANGED <<conf, now, lock, latest, bus, converted, prog, stage>>

\* The rest of run.
Deploy(p) ==
    pc[p] = "deploy" /\ Ends(p, "success")

-----------------------------------------------------------------------------
(* DiskProcessor                                                           *)

Busy == {"flatten", "fix", "convert", "clean", "untrack"}

Active(p) == {d \in Disks : stage[p][d] \in Busy}

\* The working image is there: a BusLogic copy may have been taken away.
Readable(p, d) == d \in copied[p] => <<p, d>> \in dirs

Goto(p, d, from, to) ==
    /\ pc[p] = "work" /\ stage[p][d] = from
    /\ stage' = [stage EXCEPT ![p][d] = to]
    /\ UNCHANGED <<conf, now, dir, pc, prog>>

\* A disk is begun: in parallel, or in order and one at a time.  A BusLogic
\* descriptor is copied and the copy tracked (_fix_buslogic_controller); when
\* there is none, or copying fails, the original is used.  The directory of a
\* failed copy is tracked nevertheless.
Prepare(p, d, image) ==
    /\ d \notin done[p]
    /\ mode = "sequential" =>
         Active(p) = {} /\ \A e \in Disks \ done[p] : d <= e
    /\ Goto(p, d, "idle", "flatten")
    /\ \/ image = "original" /\ UNCHANGED bus
       \/ /\ image \in {"copy", "part"}
          /\ dirs' = dirs \union {<<p, d>>}
          /\ tracked' = [tracked EXCEPT ![p] = d]
          /\ copied' = IF image = "copy" THEN [copied EXCEPT ![p] = @ \union {d}]
                                         ELSE copied
    /\ UNCHANGED converted

\* _flatten_if_requested: if it is, the working image is a new one.
Flatten(p, d) ==
    /\ Goto(p, d, "flatten", "fix")
    /\ \/ UNCHANGED copied
       \/ Readable(p, d) /\ copied' = [copied EXCEPT ![p] = @ \ {d}]
    /\ UNCHANGED <<dirs, tracked, converted>>

\* Mutant: the copy is removed as soon as the guest is repaired.
FixMutant(p, d) ==
    /\ Readable(p, d) /\ Goto(p, d, "fix", "convert")
    /\ dirs' = dirs \ {<<p, d>>}
    /\ UNCHANGED <<copied, tracked, converted>>

\* _run_offline_fixes changes the working image in place, or goes on with the
\* image the fixer has converted it to.
Fix(p, d) ==
    /\ Readable(p, d) /\ Goto(p, d, "fix", "convert")
    /\ copied' \in {copied, [copied EXCEPT ![p] = @ \ {d}]}
    /\ UNCHANGED <<dirs, tracked, converted>>

\* _convert_output; without to_output the working image is the result.
Convert(p, d) ==
    /\ target = "output" => Readable(p, d)
    /\ Goto(p, d, "convert", "clean")
    /\ converted' = converted \union {d}
    /\ UNCHANGED bus

\* _cleanup_intermediates removes the tracked copy, whose ever it is ...
Clean(p, d) ==
    /\ Goto(p, d, "clean", IF <<p, tracked[p]>> \in dirs THEN "untrack" ELSE "ok")
    /\ dirs' = dirs \ {<<p, tracked[p]>>}
    /\ UNCHANGED <<copied, tracked, converted>>

\* ... and then forgets which copy is tracked.
Untrack(p, d) ==
    /\ Goto(p, d, "untrack", "ok")
    /\ tracked' = [tracked EXCEPT ![p] = 0]
    /\ UNCHANGED <<dirs, copied, converted>>

\* Anything before the clean-up may raise, and does without its input.
Fail(p, d) ==
    /\ stage[p][d] \in {"flatten", "fix", "convert"}
    /\ Goto(p, d, stage[p][d], "failed")
    /\ UNCHANGED <<bus, converted>>

Results(p, s) == {d \in Disks \ done[p] : stage[p][d] = s}

\* Nothing more is to be waited for before progress is saved: the one disk of
\* the loop, or every future of process_disks_parallel.
Joined(p) ==
    /\ pc[p] = "work" /\ Active(p) = {}
    /\ IF mode = "parallel" THEN Results(p, "idle") = {}
                            ELSE Results(p, "idle") # Disks \ done[p]

\* Mutant: the disks that succeeded are enough.
CollectMutant(p) ==
    /\ Joined(p)
    /\ pc' = [pc EXCEPT ![p] = "save"]
    /\ done' = [done EXCEPT ![p] = IF mode = "parallel" THEN Disks
                                   ELSE @ \union Results(p, "ok")]
    /\ images' = [images EXCEPT ![p] = @ \union ({p} \X Results(p, "ok"))]
    /\ UNCHANGED <<conf, now, dir, bus, converted, run_id, ts, stage>>

\* All went well: progress is saved next.
Collect(p) ==
    /\ Joined(p) /\ Results(p, "failed") = {}
    /\ pc' = [pc EXCEPT ![p] = "save"]
    /\ done' = [done EXCEPT ![p] = @ \union Results(p, "ok")]
    /\ images' = [images EXCEPT ![p] = @ \union ({p} \X Results(p, "ok"))]
    /\ UNCHANGED <<conf, now, dir, bus, converted, run_id, ts, stage>>

\* An exception ends the process: a disk failed, or a step of run did.
Raise(p) ==
    /\ \/ pc[p] \in {"load", "save", "mark", "finish", "deploy"}
       \/ Joined(p) /\ Results(p, "failed") # {}
    /\ Ends(p, "failed")

-----------------------------------------------------------------------------

\* The process is killed.
Kill(p) ==
    pc[p] \notin Ended \union {"off"} /\ Ends(p, "killed")

Tick ==
    /\ now < MaxTime /\ now' = now + 1
    /\ UNCHANGED <<conf, dir, bus, converted, pc, prog, stage>>

ProcessDisk(p, d) ==
    \/ \E image \in {"copy", "part", "original"} : Prepare(p, d, image)
    \/ Flatten(p, d) \/ Fix(p, d) \/ Convert(p, d)
    \/ Clean(p, d) \/ Untrack(p, d) \/ Fail(p, d)

Run(p) ==
    \/ Lock(p) \/ Load(p) \/ Save(p) \/ Mark(p) \/ Point(p)
    \/ Collect(p) \/ Cleanup(p) \/ Deploy(p) \/ Raise(p)
    \/ \E d \in Disks : ProcessDisk(p, d)

Next == Tick \/ \E p \in Procs : Start(p) \/ Run(p) \/ Kill(p)

Spec == Init /\ [][Next]_vars

-----------------------------------------------------------------------------
(* Properties                                                              *)

Image == Procs \X Disks

Checkpoint == [run : Nat, ts : Nat, completed : BOOLEAN,
               done : SUBSET Disks, images : SUBSET Image]

\* Types.
TypeOK ==
    /\ mode \in {"sequential", "parallel"} /\ target \in {"output", "in_place"}
    /\ now \in Nat
    /\ lock \in Procs \union {NoProc}
    /\ files \subseteq Checkpoint /\ latest \in Nat \X Nat
    /\ dirs \subseteq Image /\ converted \subseteq Disks
    /\ pc \in [Procs -> Ended \union {"off", "lock", "load", "work", "save",
                                      "mark", "point", "finish", "deploy"}]
    /\ run_id \in [Procs -> Nat] /\ ts \in [Procs -> Nat]
    /\ done \in [Procs -> SUBSET Disks] /\ images \in [Procs -> SUBSET Image]
    /\ stage \in [Procs -> [Disks -> Busy \union {"idle", "ok", "failed"}]]
    /\ copied \in [Procs -> SUBSET Disks] /\ tracked \in [Procs -> Disks \union {0}]

\* Of several invocations on one output directory only one is past the lock,
\* also when they start at once or one is killed.
OneAtATime ==
    \A p, q \in Procs :
        /\ pc[p] \notin Ended \union {"off", "lock"}
        /\ pc[q] \notin Ended \union {"off", "lock"}
        => p = q

\* Whatever a checkpoint says is done was converted, wherever a process was
\* killed and also when a file was overwritten within the second.
ProgressTrue == \A f \in files : f.done \subseteq converted

\* A run that gets to the end with to_output has an image for every disk: none was
\* lost by a failing thread, a checkpoint or a resumed run.  Without to_output the
\* working images are the result, and a resumed run lists what still exists of
\* them: nothing but a BusLogic copy, which the clean-up removes, is missing.
EveryDiskHasImage ==
    \A p \in Procs : pc[p] \in {"finish", "deploy"} =>
        \A d \in Disks :
            /\ d \in converted
            /\ \E q \in Procs : \/ <<q, d>> \in images[p]
                                \/ target = "in_place" /\ d \in copied[q]

\* "must not fail an otherwise-successful run" (disk_processor.py:845, of the
\* clean-up): the copy a disk is still processed from is there.
CleanupHarmless ==
    \A p \in Procs, d \in Disks :
        stage[p][d] \in {"flatten", "fix", "convert"} => Readable(p, d)

\* One disk at a time, the clean-up never takes a copy away that is still
\* needed, however many copies failed disks and killed runs left.
SequentialCopyKept == mode = "sequential" => CleanupHarmless
=============================================================================
