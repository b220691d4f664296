--------------------------- MODULE MigrationProofs ----------------------------
(***************************************************************************)
(* Proofs about Migration, for any number of processes and disks.          *)
(*                                                                         *)
(* Inv strengthens the properties by what they rest on: a process past the *)
(* lock holds it; what a process counts as done, or is about to, was       *)
(* converted and has an image in its list; in sequential mode only one     *)
(* disk is in the pipeline; a disk not begun has no copy; and an image is  *)
(* listed only once its disk is through the pipeline.                      *)
(***************************************************************************)
EXTENDS Migration, TLAPS

PastLock == {"load", "work", "save", "mark", "point", "finish", "deploy"}

LockInv == \A p \in Procs : pc[p] \in PastLock => lock = p

\* Process q does nothing more with disk d.
Settled(q, d) == pc[q] \in Ended \/ stage[q][d] = "ok"

\* Every disk of ds has an image in im, or one that was a copy and may be gone.
Covers(ds, im) ==
    \A d \in ds : \E q \in Procs :
        \/ <<q, d>> \in im
        \/ target = "in_place" /\ d \in copied[q] /\ Settled(q, d)

DoneInv ==
    /\ \A f \in files : f.done \subseteq converted
    /\ \A p \in Procs : done[p] \subseteq converted
    /\ \A p \in Procs, d \in Disks :
         stage[p][d] \in {"clean", "untrack", "ok"} => d \in converted

\* Images that are listed are not worked on any more.
MadeInv ==
    /\ \A f \in files, q \in Procs, d \in Disks : <<q, d>> \in f.images => Settled(q, d)
    /\ \A p, q \in Procs, d \in Disks : <<q, d>> \in images[p] => Settled(q, d)

ImageInv ==
    /\ \A f \in files : Covers(f.done, f.images)
    /\ \A p \in Procs : Covers(done[p], images[p])
    /\ \A p \in Procs : pc[p] \in {"finish", "deploy"} => done[p] = Disks

OneDisk ==
    mode = "sequential" =>
        \A p \in Procs, d, e \in Disks :
            stage[p][d] \in Busy /\ stage[p][e] \in Busy => d = e

\* A process copies nothing before it begins a disk.
Fresh ==
    \A p \in Procs, d \in Disks :
        pc[p] \notin Ended /\ stage[p][d] = "idle" => d \notin copied[p]

-----------------------------------------------------------------------------

\* Every step is one of these.
LEMMA Steps ==
    ASSUME Next
    PROVE  \/ Tick
           \/ \E p \in Procs : \/ Start(p) \/ Lock(p) \/ Load(p) \/ Save(p)
                               \/ Mark(p) \/ Point(p) \/ Collect(p)
                               \/ Cleanup(p)
           \/ \E p \in Procs, how \in Ended : pc[p] # "off" /\ Ends(p, how)
           \/ \E p \in Procs, d \in Disks :
                 \/ \E image \in {"copy", "part", "original"} : Prepare(p, d, image)
                 \/ Flatten(p, d) \/ Fix(p, d) \/ Convert(p, d)
                 \/ Clean(p, d) \/ Untrack(p, d) \/ Fail(p, d)
<1>1. ASSUME NEW p \in Procs, Deploy(p) \/ Raise(p) \/ Kill(p)
      PROVE  \E how \in Ended : pc[p] # "off" /\ Ends(p, how)
  BY <1>1 DEF Deploy, Raise, Kill, Ended, Joined
<1>2. QED
  BY <1>1 DEF Next, Run, ProcessDisk

\* No process has begun.
LEMMA InitInv == Init => TypeOK /\ LockInv /\ DoneInv /\ MadeInv /\ ImageInv
                        /\ OneDisk /\ Fresh
  BY ConstantsAssumption
     DEF Init, TypeOK, Fresh, LockInv, DoneInv, MadeInv, ImageInv, OneDisk, Covers, PastLock,
         Idle, Busy, Ended, NoTs, Disks

\* What a step makes of the checkpoint files: what is in them was there, up to
\* its completion mark, or is the progress of the process that saves.
LEMMA FileStep ==
    ASSUME TypeOK, Next, NEW f \in files'
    PROVE  \/ \E g \in files : f.done = g.done /\ f.images = g.images
           \/ \E p \in Procs : pc[p] = "save" /\ f.done = done[p] /\ f.images = images[p]
<1>1. CASE \E p \in Procs : Save(p)
  BY <1>1 DEF Save, Step, TypeOK, Checkpoint
<1>2. CASE \E p \in Procs : Mark(p)
  <2>1. PICK g \in files, p \in Procs :
              f = IF <<g.run, g.ts>> = <<run_id[p], ts[p]>>
                  THEN [g EXCEPT !.completed = TRUE] ELSE g
    BY <1>2 DEF Mark
  <2>2. g \in Checkpoint
    BY DEF TypeOK
  <2>3. f.done = g.done /\ f.images = g.images
    BY <2>1, <2>2 DEF Checkpoint
  <2>4. QED
    BY <2>3
<1>3. CASE \E p \in Procs : Cleanup(p)
  BY <1>3 DEF Cleanup
<1>4. CASE files' = files
  BY <1>4
<1>5. CASE \E p \in Procs : Start(p) \/ Lock(p) \/ Load(p) \/ Point(p) \/ Collect(p)
  BY <1>4, <1>5 DEF Start, Lock, Load, Point, Collect, dir
<1>6. CASE \E p \in Procs, how \in Ended : Ends(p, how)
  BY <1>4, <1>6 DEF Ends
<1>7. CASE Tick
  BY <1>4, <1>7 DEF Tick, dir
<1>8. CASE \E p \in Procs, d \in Disks :
             \/ \E image \in {"copy", "part", "original"} : Prepare(p, d, image)
             \/ Flatten(p, d) \/ Fix(p, d) \/ Convert(p, d)
             \/ Clean(p, d) \/ Untrack(p, d) \/ Fail(p, d)
  BY <1>4, <1>8 DEF Prepare, Flatten, Fix, Convert, Clean, Untrack, Fail, Goto, dir
<1>9. QED
  BY <1>1, <1>2, <1>3, <1>5, <1>6, <1>7, <1>8, Steps

\* Every step keeps the types.
LEMMA TypeStep == TypeOK /\ [Next]_vars => TypeOK'
<1> SUFFICES ASSUME TypeOK, [Next]_vars PROVE TypeOK'
  OBVIOUS
<1> USE ConstantsAssumption DEF TypeOK, conf, dir, prog, bus
<1>1. CASE Tick
  BY <1>1 DEF Tick
<1>2. ASSUME NEW p \in Procs, Start(p) PROVE TypeOK'
  BY <1>2 DEF Start, Step
<1>3. ASSUME NEW p \in Procs, Lock(p) PROVE TypeOK'
  BY <1>3 DEF Lock, Step, Ended
<1>4. ASSUME NEW p \in Procs, Load(p) PROVE TypeOK'
  <2>1. done' \in [Procs -> SUBSET Disks] /\ images' \in [Procs -> SUBSET Image]
    <3>1. CASE UNCHANGED <<done, images>>
      BY <3>1
    <3>2. ASSUME NEW f \in Recovery(p),
                 done' = [done EXCEPT ![p] = f.done],
                 images' = [images EXCEPT ![p] = {i \in f.images : Exists(i[1], i[2])}]
          PROVE  <2>1!1 /\ <2>1!2
      <4>1. f \in Checkpoint
        BY <3>2 DEF Recovery, Own
      <4>2. f.done \subseteq Disks /\ f.images \subseteq Image
        BY <4>1 DEF Checkpoint
      <4>3. QED
        BY <3>2, <4>2
    <3>3. QED
      BY <1>4, <3>1, <3>2 DEF Load
  <2>2. QED
    BY <1>4, <2>1 DEF Load, Step
<1>5. ASSUME NEW p \in Procs, Save(p) PROVE TypeOK'
  <2>1. [run |-> run_id[p], ts |-> now, completed |-> FALSE,
         done |-> done[p], images |-> images[p]] \in Checkpoint
    BY DEF Checkpoint
  <2>2. files' \subseteq Checkpoint
    BY <1>5, <2>1 DEF Save
  <2>3. QED
    BY <1>5, <2>2 DEF Save, Step
<1>6. ASSUME NEW p \in Procs, Mark(p) PROVE TypeOK'
  <2>1. \A f \in Checkpoint : [f EXCEPT !.completed = TRUE] \in Checkpoint
    BY DEF Checkpoint
  <2>2. files' \subseteq Checkpoint
    BY <1>6, <2>1 DEF Mark
  <2>3. QED
    BY <1>6, <2>2 DEF Mark, Step
<1>7. ASSUME NEW p \in Procs, Point(p) PROVE TypeOK'
  <2>1. <<run_id[p], ts[p]>> \in Nat \X Nat
    OBVIOUS
  <2>2. QED
    BY <1>7, <2>1 DEF Point, Step, NoTs
<1>8. ASSUME NEW p \in Procs, Collect(p) PROVE TypeOK'
  <2>1. Results(p, "ok") \subseteq Disks
    BY DEF Results
  <2>2. {p} \X Results(p, "ok") \subseteq Image
    BY <2>1 DEF Image
  <2>3. QED
    BY <1>8, <2>1, <2>2 DEF Collect
<1>9. ASSUME NEW p \in Procs, Cleanup(p) PROVE TypeOK'
  BY <1>9 DEF Cleanup, Step
<1>10. ASSUME NEW p \in Procs, NEW how \in Ended, Ends(p, how) PROVE TypeOK'
  <2>1. Idle \in [Disks -> Busy \union {"idle", "ok", "failed"}]
    BY DEF Idle
  <2>2. QED
    BY <1>10, <2>1 DEF Ends, NoTs
<1>11. ASSUME NEW p \in Procs, NEW d \in Disks,
              \/ \E image \in {"copy", "part", "original"} : Prepare(p, d, image)
              \/ Flatten(p, d) \/ Fix(p, d) \/ Convert(p, d)
              \/ Clean(p, d) \/ Untrack(p, d) \/ Fail(p, d)
       PROVE TypeOK'
  <2>1. \A from, to : Goto(p, d, from, to) /\ to \in Busy \union {"ok", "failed"}
           => /\ stage' \in [Procs -> [Disks -> Busy \union {"idle", "ok", "failed"}]]
              /\ UNCHANGED <<conf, now, dir, pc, prog>>
    BY DEF Goto
  <2>2. <<p, d>> \in Image
    BY DEF Image
  <2>3. /\ stage' \in [Procs -> [Disks -> Busy \union {"idle", "ok", "failed"}]]
        /\ UNCHANGED <<conf, now, dir, pc, prog>>
    BY <1>11, <2>1 DEF Prepare, Flatten, Fix, Convert, Clean, Untrack, Fail, Busy
  <2>4. /\ dirs' \subseteq Image /\ converted' \subseteq Disks
        /\ copied' \in [Procs -> SUBSET Disks]
        /\ tracked' \in [Procs -> Disks \union {0}]
    <3> copied[p] \union {d} \in SUBSET Disks /\ copied[p] \ {d} \in SUBSET Disks
      OBVIOUS
    <3>1. CASE \E image \in {"copy", "part", "original"} : Prepare(p, d, image)
      <4>1. CASE UNCHANGED bus
        BY <3>1, <4>1 DEF Prepare
      <4>2. CASE /\ dirs' = dirs \union {<<p, d>>}
                 /\ copied' \in {copied, [copied EXCEPT ![p] = @ \union {d}]}
                 /\ tracked' = [tracked EXCEPT ![p] = d]
        <5>1. copied' \in [Procs -> SUBSET Disks]
          BY <4>2
        <5>2. dirs' \subseteq Image /\ tracked' \in [Procs -> Disks \union {0}]
          BY <4>2, <2>2
        <5>3. QED
          BY <3>1, <5>1, <5>2 DEF Prepare
      <4>3. QED
        BY <3>1, <4>1, <4>2 DEF Prepare
    <3>2. CASE Flatten(p, d) \/ Fix(p, d) \/ Convert(p, d)
      <4>1. copied' = copied \/ copied' = [copied EXCEPT ![p] = @ \ {d}]
        BY <3>2 DEF Flatten, Fix, Convert
      <4>2. UNCHANGED <<dirs, tracked>>
        BY <3>2 DEF Flatten, Fix, Convert
      <4>3. converted' = converted \/ converted' = converted \union {d}
        BY <3>2 DEF Flatten, Fix, Convert
      <4>4. QED
        BY <4>1, <4>2, <4>3
    <3>3. CASE Clean(p, d)
      BY <3>3 DEF Clean
    <3>4. CASE Untrack(p, d) \/ Fail(p, d)
      BY <3>4 DEF Untrack, Fail
    <3>5. QED
      BY <1>11, <3>1, <3>2, <3>3, <3>4
  <2>5. QED
    BY <2>3, <2>4
<1>12. CASE UNCHANGED vars
  BY <1>12 DEF vars
<1>13. QED
  BY <1>1, <1>2, <1>3, <1>4, <1>5, <1>6, <1>7, <1>8, <1>9, <1>10, <1>11, <1>12, Steps

\* The lock is taken once and given back only when its holder ends.
LEMMA LockStep == TypeOK /\ LockInv /\ [Next]_vars => LockInv'
<1> SUFFICES ASSUME TypeOK, LockInv, [Next]_vars PROVE LockInv'
  OBVIOUS
<1> USE ConstantsAssumption DEF LockInv, PastLock, dir
<1>1. ASSUME NEW p \in Procs, Lock(p) PROVE LockInv'
  BY <1>1 DEF Lock, Step, TypeOK
<1>2. ASSUME NEW p \in Procs, NEW how \in Ended, Ends(p, how) PROVE LockInv'
  BY <1>2 DEF Ends, Ended, TypeOK
<1>3. ASSUME NEW p \in Procs,
             Start(p) \/ Load(p) \/ Save(p) \/ Mark(p) \/ Point(p) \/ Collect(p) \/ Cleanup(p)
      PROVE  LockInv'
  BY <1>3 DEF Start, Load, Save, Mark, Point, Collect, Joined, Cleanup, Step, TypeOK
<1>4. ASSUME NEW p \in Procs, NEW d \in Disks,
              \/ \E image \in {"copy", "part", "original"} : Prepare(p, d, image)
              \/ Flatten(p, d) \/ Fix(p, d) \/ Convert(p, d)
              \/ Clean(p, d) \/ Untrack(p, d) \/ Fail(p, d)
      PROVE  LockInv'
  BY <1>4 DEF Prepare, Flatten, Fix, Convert, Clean, Untrack, Fail, Goto
<1>5. CASE Tick \/ UNCHANGED vars
  BY <1>5 DEF Tick, vars
<1>6. QED
  BY <1>1, <1>2, <1>3, <1>4, <1>5, Steps

\* What a step of the disk pipeline leaves alone.
LEMMA DiskStep ==
    ASSUME NEW p \in Procs, NEW d \in Disks, TypeOK,
           \/ \E image \in {"copy", "part", "original"} : Prepare(p, d, image)
           \/ Flatten(p, d) \/ Fix(p, d) \/ Convert(p, d)
           \/ Clean(p, d) \/ Untrack(p, d) \/ Fail(p, d)
    PROVE  /\ UNCHANGED <<mode, target, files, pc, done, images>>
           /\ converted \subseteq converted'
           /\ \A q \in Procs, e \in Disks :
                <<q, e>> # <<p, d>> => stage'[q][e] = stage[q][e]
           /\ stage[p][d] = "idle" =>
                \E image \in {"copy", "part", "original"} : Prepare(p, d, image)
           /\ stage'[p][d] \in {"clean", "untrack", "ok"} =>
                Convert(p, d) \/ stage[p][d] \in {"clean", "untrack"}
  BY DEF Prepare, Flatten, Fix, Convert, Clean, Untrack, Fail, Goto, conf, dir,
         prog, TypeOK

\* A disk counts as done only after Convert, in memory and in files.
LEMMA DoneStep == TypeOK /\ DoneInv /\ [Next]_vars => DoneInv'
<1> SUFFICES ASSUME TypeOK, DoneInv, [Next]_vars PROVE DoneInv'
  OBVIOUS
<1>1. CASE UNCHANGED vars
  BY <1>1 DEF vars, dir, prog, DoneInv
<1>2. CASE Next
  <2>1. /\ converted \subseteq converted'
        /\ \A p \in Procs : done'[p] \subseteq converted'
        /\ \A p \in Procs, d \in Disks :
             stage'[p][d] \in {"clean", "untrack", "ok"} => d \in converted'
    <3> DEFINE Goal == <2>1!1 /\ <2>1!2 /\ <2>1!3
    <3>1. CASE Tick
      BY <3>1 DEF Tick, DoneInv, prog
    <3>2. ASSUME NEW p \in Procs,
                 Start(p) \/ Lock(p) \/ Save(p) \/ Mark(p) \/ Point(p) \/ Cleanup(p)
          PROVE  Goal
      BY <3>2 DEF Start, Lock, Save, Mark, Point, Cleanup, DoneInv, prog
    <3>3. ASSUME NEW p \in Procs, Load(p) PROVE Goal
      <4>1. \A f \in Recovery(p) : f.done \subseteq converted
        BY DEF DoneInv, Recovery, Own
      <4>2. QED
        BY <3>3, <4>1 DEF Load, DoneInv, TypeOK
    <3>4. ASSUME NEW p \in Procs, Collect(p) PROVE Goal
      <4>1. Results(p, "ok") \subseteq converted
        BY DEF DoneInv, Results
      <4>2. QED
        BY <3>4, <4>1 DEF Collect, DoneInv, TypeOK
    <3>5. ASSUME NEW p \in Procs, NEW how \in Ended, Ends(p, how) PROVE Goal
      BY <3>5 DEF Ends, Idle, DoneInv, TypeOK
    <3>6. ASSUME NEW p \in Procs, NEW d \in Disks,
              \/ \E image \in {"copy", "part", "original"} : Prepare(p, d, image)
              \/ Flatten(p, d) \/ Fix(p, d) \/ Convert(p, d)
              \/ Clean(p, d) \/ Untrack(p, d) \/ Fail(p, d)
          PROVE  Goal
      <4>1. Convert(p, d) => d \in converted'
        BY DEF Convert
      <4>2. QED
        BY <3>6, <4>1, DiskStep DEF DoneInv
    <3>7. QED
      BY <1>2, <3>1, <3>2, <3>3, <3>4, <3>5, <3>6, Steps
  <2>2. \A f \in files' : f.done \subseteq converted'
    BY <1>2, <2>1, FileStep DEF DoneInv
  <2>3. QED
    BY <2>1, <2>2 DEF DoneInv
<1>3. QED
  BY <1>1, <1>2

\* A disk that is settled stays so, and keeps its copy.
LEMMA SettledStays ==
    ASSUME TypeOK, Next, NEW q \in Procs, NEW e \in Disks, Settled(q, e)
    PROVE  Settled(q, e)' /\ (e \in copied[q] => e \in copied'[q])
<1> USE DEF Settled
<1>1. ASSUME NEW p \in Procs,
             \/ Start(p) \/ Lock(p) \/ Load(p) \/ Save(p)
             \/ Mark(p) \/ Point(p) \/ Collect(p) \/ Cleanup(p)
      PROVE  Settled(q, e)' /\ copied' = copied
  BY <1>1 DEF Start, Lock, Load, Save, Mark, Point, Collect, Joined, Cleanup, Step,
              Ended, bus, TypeOK
<1>2. ASSUME NEW p \in Procs, NEW how \in Ended, Ends(p, how)
      PROVE  Settled(q, e)' /\ copied' = copied
  BY <1>2 DEF Ends, TypeOK
<1>3. CASE Tick
  BY <1>3 DEF Tick, bus
<1>4. ASSUME NEW p \in Procs, NEW d \in Disks,
             \/ \E image \in {"copy", "part", "original"} : Prepare(p, d, image)
             \/ Flatten(p, d) \/ Fix(p, d) \/ Convert(p, d)
             \/ Clean(p, d) \/ Untrack(p, d) \/ Fail(p, d)
      PROVE  Settled(q, e)' /\ (e \in copied[q] => e \in copied'[q])
  <2>1. <<q, e>> # <<p, d>>
    BY <1>4 DEF Prepare, Flatten, Fix, Convert, Clean, Untrack, Fail, Goto, Ended, TypeOK
  <2>2. pc' = pc /\ stage'[q][e] = stage[q][e]
    BY <1>4, <2>1, DiskStep
  <2>3. \/ copied' = copied
        \/ copied' = [copied EXCEPT ![p] = @ \ {d}]
        \/ copied' = [copied EXCEPT ![p] = @ \union {d}]
    BY <1>4 DEF Prepare, Flatten, Fix, Convert, Clean, Untrack, Fail, bus
  <2>4. e \in copied[q] => e \in copied'[q]
    BY <2>1, <2>3 DEF TypeOK
  <2>5. QED
    BY <2>2, <2>4
<1>5. QED
  BY <1>1, <1>2, <1>3, <1>4, Steps

\* What a step makes of the lists in memory.
LEMMA ListStep ==
    ASSUME TypeOK, Next, NEW p \in Procs
    PROVE  \/ done'[p] = done[p] /\ images'[p] = images[p]
           \/ done'[p] = {} /\ images'[p] = {}
           \/ \E f \in Recovery(p) :
                /\ done'[p] = f.done
                /\ images'[p] = {i \in f.images : Exists(i[1], i[2])}
           \/ /\ done'[p] = done[p] \union Results(p, "ok")
              /\ images'[p] = images[p] \union ({p} \X Results(p, "ok"))
<1>1. CASE Load(p)
  BY <1>1 DEF Load, TypeOK
<1>2. CASE Collect(p)
  BY <1>2 DEF Collect, TypeOK
<1>3. CASE \E how \in Ended : Ends(p, how)
  BY <1>3 DEF Ends, TypeOK
<1>4. ASSUME NEW q \in Procs, q # p,
             Load(q) \/ Collect(q) \/ \E how \in Ended : Ends(q, how)
      PROVE  done'[p] = done[p] /\ images'[p] = images[p]
  BY <1>4 DEF Load, Collect, Ends, TypeOK
<1>5. ASSUME NEW q \in Procs,
             Start(q) \/ Lock(q) \/ Save(q) \/ Mark(q) \/ Point(q) \/ Cleanup(q)
      PROVE  done'[p] = done[p] /\ images'[p] = images[p]
  BY <1>5 DEF Start, Lock, Save, Mark, Point, Cleanup, prog
<1>6. CASE Tick
  BY <1>6 DEF Tick, prog
<1>7. QED
  BY <1>1, <1>2, <1>3, <1>4, <1>5, <1>6, Steps, DiskStep

\* Collect lists the disks that are through the pipeline.
LEMMA MadeStep == TypeOK /\ MadeInv /\ [Next]_vars => MadeInv'
<1> SUFFICES ASSUME TypeOK, MadeInv, [Next]_vars PROVE MadeInv'
  OBVIOUS
<1>1. CASE UNCHANGED vars
  BY <1>1 DEF vars, dir, prog, MadeInv, Settled
<1>2. CASE Next
  <2>1. ASSUME NEW p \in Procs, NEW q \in Procs, NEW d \in Disks, <<q, d>> \in images'[p]
        PROVE  Settled(q, d)
    <3>1. CASE <<q, d>> \in images[p]
      BY <3>1 DEF MadeInv
    <3>2. ASSUME NEW f \in Recovery(p), <<q, d>> \in f.images PROVE Settled(q, d)
      BY <3>2 DEF Recovery, Own, MadeInv
    <3>3. CASE <<q, d>> \in {p} \X Results(p, "ok")
      BY <3>3 DEF Results, Settled
    <3>4. QED
      BY <1>2, <2>1, <3>1, <3>2, <3>3, ListStep
  <2>2. ASSUME NEW f \in files', NEW q \in Procs, NEW d \in Disks, <<q, d>> \in f.images
        PROVE  Settled(q, d)
    BY <1>2, <2>2, FileStep DEF MadeInv
  <2>3. QED
    BY <1>2, <2>1, <2>2, SettledStays DEF MadeInv
<1>3. QED
  BY <1>1, <1>2

\* done and images grow together, are saved together and restored together; the
\* filter of a restored list drops copies only, and only in place.
LEMMA ImageStep == TypeOK /\ MadeInv /\ ImageInv /\ [Next]_vars => ImageInv'
<1> SUFFICES ASSUME TypeOK, MadeInv, ImageInv, [Next]_vars PROVE ImageInv'
  OBVIOUS
<1>1. CASE UNCHANGED vars
  BY <1>1 DEF vars, conf, dir, prog, bus, ImageInv, Covers, Settled
<1>2. CASE Next
  <2>1. target' = target
    BY <1>2, Steps, DiskStep
       DEF Tick, Start, Lock, Load, Save, Mark, Point, Collect, Cleanup, Ends, conf
  <2>2. \A p \in Procs : pc'[p] \in {"finish", "deploy"} => done'[p] = Disks
    <3>1. CASE Tick
      BY <3>1 DEF Tick, ImageInv, prog
    <3>2. ASSUME NEW p \in Procs,
                 Start(p) \/ Lock(p) \/ Save(p) \/ Mark(p) \/ Point(p) \/ Cleanup(p)
          PROVE  <2>2
      BY <3>2 DEF Start, Lock, Save, Mark, Point, Cleanup, Step, ImageInv, prog, TypeOK
    <3>3. ASSUME NEW p \in Procs, Load(p) \/ Collect(p) PROVE <2>2
      BY <3>3 DEF Load, Collect, Step, ImageInv, TypeOK
    <3>4. ASSUME NEW p \in Procs, NEW how \in Ended, Ends(p, how) PROVE <2>2
      BY <3>4 DEF Ends, Ended, ImageInv, TypeOK
    <3>5. QED
      BY <1>2, <3>1, <3>2, <3>3, <3>4, Steps, DiskStep DEF ImageInv
  <2>3. ASSUME NEW ds \in SUBSET Disks, NEW im, Covers(ds, im)
        PROVE  \A d \in ds : \E q \in Procs :
                  \/ <<q, d>> \in im
                  \/ target' = "in_place" /\ d \in copied'[q] /\ Settled(q, d)'
    BY <1>2, <2>1, <2>3, SettledStays DEF Covers
  <2>4. ASSUME NEW p \in Procs
        PROVE  done'[p] \in SUBSET Disks /\ Covers(done'[p], images'[p])
    <3>0. done[p] \in SUBSET Disks /\ Covers(done[p], images[p])
      BY DEF ImageInv, TypeOK
    <3>1. ASSUME NEW f \in Recovery(p)
          PROVE  /\ f.done \in SUBSET Disks
                 /\ Covers(f.done, {i \in f.images : Exists(i[1], i[2])})
      <4>1. f \in files /\ f.done \in SUBSET Disks
        BY DEF Recovery, Own, TypeOK, Checkpoint
      <4>2. ASSUME NEW d \in f.done
            PROVE  \E q \in Procs :
                     \/ <<q, d>> \in {i \in f.images : Exists(i[1], i[2])}
                     \/ target = "in_place" /\ d \in copied[q] /\ Settled(q, d)
        <5>1. PICK q \in Procs :
                \/ <<q, d>> \in f.images
                \/ target = "in_place" /\ d \in copied[q] /\ Settled(q, d)
          BY <4>1 DEF ImageInv, Covers
        <5>2. CASE <<q, d>> \in f.images /\ Exists(q, d)
          BY <5>2
        <5>3. CASE <<q, d>> \in f.images /\ ~Exists(q, d)
          <6>1. Settled(q, d)
            BY <4>1, <5>3 DEF MadeInv
          <6>2. QED
            BY <5>3, <6>1 DEF Exists, TypeOK
        <5>4. QED
          BY <5>1, <5>2, <5>3
      <4>3. QED
        BY <4>1, <4>2 DEF Covers
    <3>2. /\ done[p] \union Results(p, "ok") \in SUBSET Disks
          /\ Covers(done[p] \union Results(p, "ok"),
                    images[p] \union ({p} \X Results(p, "ok")))
      BY <3>0 DEF Covers, Results
    <3>3. Covers({}, {})
      BY DEF Covers
    <3>4. CASE done'[p] = done[p] /\ images'[p] = images[p]
      BY <3>0, <3>4
    <3>5. CASE done'[p] = {} /\ images'[p] = {}
      BY <3>3, <3>5
    <3>6. ASSUME NEW f \in Recovery(p), done'[p] = f.done,
                 images'[p] = {i \in f.images : Exists(i[1], i[2])}
          PROVE  done'[p] \in SUBSET Disks /\ Covers(done'[p], images'[p])
      BY <3>1, <3>6
    <3>7. CASE /\ done'[p] = done[p] \union Results(p, "ok")
               /\ images'[p] = images[p] \union ({p} \X Results(p, "ok"))
      BY <3>2, <3>7
    <3>8. QED
      BY <1>2, <3>4, <3>5, <3>6, <3>7, ListStep
  <2>5. ASSUME NEW f \in files'
        PROVE  f.done \in SUBSET Disks /\ Covers(f.done, f.images)
    BY <1>2, FileStep DEF ImageInv, TypeOK, Checkpoint
  <2>6. QED
    BY <2>2, <2>3, <2>4, <2>5 DEF ImageInv, Covers
<1>3. QED
  BY <1>1, <1>2

\* In sequence a disk is begun only when no other is in the pipeline.
LEMMA OneDiskStep == TypeOK /\ OneDisk /\ [Next]_vars => OneDisk'
<1> SUFFICES ASSUME TypeOK, OneDisk, [Next]_vars PROVE OneDisk'
  OBVIOUS
<1>1. CASE UNCHANGED <<mode, stage>>
  BY <1>1 DEF OneDisk
<1>2. ASSUME NEW p \in Procs, NEW how \in Ended, Ends(p, how) PROVE OneDisk'
  BY <1>2 DEF Ends, OneDisk, Idle, Busy, conf, TypeOK
<1>3. ASSUME NEW p \in Procs, NEW d \in Disks,
              \/ \E image \in {"copy", "part", "original"} : Prepare(p, d, image)
              \/ Flatten(p, d) \/ Fix(p, d) \/ Convert(p, d)
              \/ Clean(p, d) \/ Untrack(p, d) \/ Fail(p, d)
      PROVE  OneDisk'
  <2>1. \/ stage[p][d] \in Busy
        \/ mode = "sequential" => \A e \in Disks : stage[p][e] \notin Busy
    BY <1>3 DEF Prepare, Flatten, Fix, Convert, Clean, Untrack, Fail, Goto, Busy, Active
  <2>2. mode' = mode /\ \A q \in Procs, e \in Disks :
                          <<q, e>> # <<p, d>> => stage'[q][e] = stage[q][e]
    BY <1>3, DiskStep
  <2>3. QED
    BY <2>1, <2>2 DEF OneDisk
<1>4. ASSUME NEW p \in Procs,
             \/ Start(p) \/ Lock(p) \/ Load(p) \/ Save(p)
             \/ Mark(p) \/ Point(p) \/ Collect(p) \/ Cleanup(p)
      PROVE  UNCHANGED <<mode, stage>>
  BY <1>4 DEF Start, Lock, Load, Save, Mark, Point, Collect, Cleanup, conf
<1>5. CASE Tick \/ UNCHANGED vars
  BY <1>1, <1>5 DEF Tick, vars, conf
<1>6. QED
  BY <1>1, <1>2, <1>3, <1>4, <1>5, Steps

\* Only Prepare makes a copy, and it begins the disk.
LEMMA FreshStep == TypeOK /\ Fresh /\ [Next]_vars => Fresh'
<1> SUFFICES ASSUME TypeOK, Fresh, [Next]_vars,
                    NEW q \in Procs, NEW e \in Disks,
                    pc'[q] \notin Ended, stage'[q][e] = "idle"
             PROVE  e \notin copied'[q]
  BY DEF Fresh
<1>1. ASSUME NEW p \in Procs,
             \/ Start(p) \/ Lock(p) \/ Load(p) \/ Save(p)
             \/ Mark(p) \/ Point(p) \/ Collect(p) \/ Cleanup(p)
      PROVE  e \notin copied'[q]
  <2>1. UNCHANGED <<copied, stage>>
    BY <1>1 DEF Start, Lock, Load, Save, Mark, Point, Collect, Cleanup, bus
  <2>2. pc[q] \notin Ended
    BY <1>1 DEF Start, Lock, Load, Save, Mark, Point, Collect, Joined, Cleanup,
                Step, Ended, TypeOK
  <2>3. QED
    BY <2>1, <2>2 DEF Fresh
<1>2. ASSUME NEW p \in Procs, NEW how \in Ended, Ends(p, how)
      PROVE  e \notin copied'[q]
  BY <1>2 DEF Ends, Fresh, TypeOK
<1>3. CASE Tick \/ UNCHANGED vars
  BY <1>3 DEF Tick, vars, bus, Fresh
<1>4. ASSUME NEW p \in Procs, NEW d \in Disks,
              \/ \E image \in {"copy", "part", "original"} : Prepare(p, d, image)
              \/ Flatten(p, d) \/ Fix(p, d) \/ Convert(p, d)
              \/ Clean(p, d) \/ Untrack(p, d) \/ Fail(p, d)
      PROVE  e \notin copied'[q]
  <2>1. stage'[p][d] # "idle"
    BY <1>4 DEF Prepare, Flatten, Fix, Convert, Clean, Untrack, Fail, Goto, TypeOK
  <2>2. <<q, e>> # <<p, d>> /\ stage[q][e] = "idle" /\ pc' = pc
    BY <1>4, <2>1, DiskStep
  <2>3. \/ copied' = copied
        \/ copied' = [copied EXCEPT ![p] = @ \ {d}]
        \/ copied' = [copied EXCEPT ![p] = @ \union {d}]
    BY <1>4 DEF Prepare, Flatten, Fix, Convert, Clean, Untrack, Fail, bus
  <2>4. e \notin copied[q]
    BY <2>2 DEF Fresh
  <2>5. QED
    BY <2>2, <2>3, <2>4 DEF TypeOK
<1>5. QED
  BY <1>1, <1>2, <1>3, <1>4, Steps

\* A disk that cleans up is the only one in the pipeline, so that no other disk
\* works from the copy it removes.
LEMMA CopyStep ==
    TypeOK /\ OneDisk /\ Fresh /\ SequentialCopyKept /\ [Next]_vars
        => SequentialCopyKept'
<1> SUFFICES ASSUME TypeOK, OneDisk, Fresh, SequentialCopyKept, [Next]_vars,
                    mode' = "sequential",
                    NEW q \in Procs, NEW e \in Disks,
                    stage'[q][e] \in {"flatten", "fix", "convert"}, e \in copied'[q]
             PROVE  <<q, e>> \in dirs'
  BY DEF SequentialCopyKept, CleanupHarmless, Readable
<1> DEFINE Same == /\ mode' = mode /\ stage'[q][e] = stage[q][e]
                   /\ copied'[q] = copied[q] /\ dirs' = dirs
<1>1. CASE Same
  BY <1>1 DEF SequentialCopyKept, CleanupHarmless, Readable
<1>2. ASSUME NEW p \in Procs,
             \/ Start(p) \/ Lock(p) \/ Load(p) \/ Save(p)
             \/ Mark(p) \/ Point(p) \/ Collect(p) \/ Cleanup(p)
      PROVE  Same
  BY <1>2 DEF Start, Lock, Load, Save, Mark, Point, Collect, Cleanup, conf, bus
<1>3. ASSUME NEW p \in Procs, NEW how \in Ended, Ends(p, how) PROVE Same
  BY <1>3 DEF Ends, Idle, conf, TypeOK
<1>4. CASE Tick \/ UNCHANGED vars
  BY <1>1, <1>4 DEF Tick, vars, conf, bus
<1>5. ASSUME NEW p \in Procs, NEW d \in Disks,
             \E image \in {"copy", "part", "original"} : Prepare(p, d, image)
      PROVE  <<q, e>> \in dirs'
  <2>1. CASE <<q, e>> = <<p, d>>
    <3>1. e \notin copied[q]
      BY <1>5, <2>1 DEF Prepare, Goto, Fresh, Ended
    <3>2. QED
      BY <1>5, <2>1, <3>1 DEF Prepare, bus
  <2>2. CASE <<q, e>> # <<p, d>>
    <3>1. mode' = mode /\ stage'[q][e] = stage[q][e]
      BY <1>5, <2>2, DiskStep
    <3>2. e \in copied[q]
      <4>1. CASE UNCHANGED bus
        BY <4>1 DEF bus
      <4>2. CASE copied' = [copied EXCEPT ![p] = @ \union {d}]
        BY <2>2, <4>2 DEF TypeOK
      <4>3. CASE copied' = copied
        BY <4>3
      <4>4. QED
        BY <1>5, <4>1, <4>2, <4>3 DEF Prepare
    <3>3. <<q, e>> \in dirs
      BY <3>1, <3>2 DEF SequentialCopyKept, CleanupHarmless, Readable
    <3>4. QED
      BY <1>5, <3>3 DEF Prepare, bus
  <2>3. QED
    BY <2>1, <2>2
<1>6. ASSUME NEW p \in Procs, NEW d \in Disks,
             \/ Flatten(p, d) \/ Fix(p, d) \/ Convert(p, d)
             \/ Untrack(p, d) \/ Fail(p, d)
      PROVE  <<q, e>> \in dirs'
  <2>1. mode' = mode /\ dirs' = dirs
    BY <1>6, DiskStep DEF Flatten, Fix, Convert, Untrack, Fail, bus
  <2>2. stage[q][e] \in {"flatten", "fix", "convert"}
    <3>1. CASE <<q, e>> = <<p, d>>
      BY <1>6, <3>1 DEF Flatten, Fix, Convert, Untrack, Fail, Goto, TypeOK
    <3>2. CASE <<q, e>> # <<p, d>>
      BY <1>6, <3>2, DiskStep
    <3>3. QED
      BY <3>1, <3>2
  <2>3. copied' = copied \/ copied' = [copied EXCEPT ![p] = @ \ {d}]
    BY <1>6 DEF Flatten, Fix, Convert, Untrack, Fail, bus
  <2>4. e \in copied[q]
    BY <2>3 DEF TypeOK
  <2>5. QED
    BY <2>1, <2>2, <2>4 DEF SequentialCopyKept, CleanupHarmless, Readable
<1>7. ASSUME NEW p \in Procs, NEW d \in Disks, Clean(p, d)
      PROVE  <<q, e>> \in dirs'
  <2>1. mode = "sequential" /\ copied' = copied
    BY <1>7, DiskStep DEF Clean
  <2>2. stage[p][d] = "clean" /\ stage'[p][d] \in {"untrack", "ok"}
    BY <1>7 DEF Clean, Goto, TypeOK
  <2>3. <<q, e>> # <<p, d>> /\ stage'[q][e] = stage[q][e]
    BY <1>7, <2>2, DiskStep
  <2>4. q # p
    BY <2>1, <2>2, <2>3 DEF OneDisk, Busy
  <2>5. <<q, e>> \in dirs
    BY <2>1, <2>3 DEF SequentialCopyKept, CleanupHarmless, Readable
  <2>6. QED
    BY <1>7, <2>4, <2>5 DEF Clean
<1>8. QED
  BY <1>1, <1>2, <1>3, <1>4, <1>5, <1>6, <1>7, Steps
-----------------------------------------------------------------------------

Inv == /\ TypeOK /\ LockInv /\ DoneInv /\ MadeInv /\ ImageInv
       /\ OneDisk /\ Fresh /\ SequentialCopyKept

\* All parts of the invariant hold in every reachable state.
LEMMA Invariance == Spec => []Inv
<1>1. Init => Inv
  <2>1. Init => SequentialCopyKept
    BY DEF Init, SequentialCopyKept, CleanupHarmless, Idle
  <2>2. QED
    BY <2>1, InitInv DEF Inv
<1>2. Inv /\ [Next]_vars => Inv'
  BY TypeStep, LockStep, DoneStep, MadeStep, ImageStep, OneDiskStep, FreshStep,
     CopyStep DEF Inv
<1>3. QED
  BY <1>1, <1>2, PTL DEF Spec

\* The variables keep their types in every behaviour of the processes.
THEOREM Typed == Spec => []TypeOK
<1>1. Inv => TypeOK
  BY DEF Inv
<1>2. QED
  BY <1>1, Invariance, PTL

\* _acquire_lock lets one invocation at a time past it, for any number of
\* invocations that start, fail and are killed on one output directory.
THEOREM Exclusive == Spec => []OneAtATime
<1>1. Inv => OneAtATime
  BY DEF Inv, LockInv, OneAtATime, PastLock, Ended, TypeOK
<1>2. QED
  BY <1>1, Invariance, PTL

\* What _save_disk_progress writes was converted.
THEOREM ProgressIsTrue == Spec => []ProgressTrue
<1>1. Inv => ProgressTrue
  BY DEF Inv, DoneInv, ProgressTrue
<1>2. QED
  BY <1>1, Invariance, PTL

\* With to_output _process_disks returns an image of every disk, for any number of
\* disks, in both modes and with or without a checkpoint; in place it returns all
\* but BusLogic copies.
THEOREM AllImages == Spec => []EveryDiskHasImage
<1>1. Inv => EveryDiskHasImage
  BY DEF Inv, DoneInv, ImageInv, EveryDiskHasImage, Covers
<1>2. QED
  BY <1>1, Invariance, PTL

\* In sequential mode _cleanup_intermediates removes no copy that is needed.
THEOREM SequentialSafe == Spec => []SequentialCopyKept
<1>1. Inv => SequentialCopyKept
  BY DEF Inv
<1>2. QED
  BY <1>1, Invariance, PTL
=============================================================================
