----------------------------- MODULE DaemonProofs -----------------------------
(***************************************************************************)
(* Proofs about Daemon, for any files, any number of workers and any       *)
(* number of restarts and faults.                                          *)
(***************************************************************************)
EXTENDS Daemon, FiniteSetTheorems, TLAPS

\* A worker that archives a file has converted it.
ConvertedInv ==
    /\ UnconvertedKept
    /\ \A w \in Workers : pc[w] \in {"mark", "archive"} => file[w] \in converted

\* A worker about to move a file knows it is recorded.
RowInv ==
    /\ RecordedBeforeMoved
    /\ \A w \in Workers :
         pc[w] \in {"archive", "move"} /\ file[w] \notin configs
            => Row(file[w]) \/ file[w] \in stubs \union unrecorded

\* Rows stay, and a daemon that is off has nothing in its pipeline.
KnownInv ==
    /\ \A f \in known : Row(f)
    /\ mode = "off" => /\ \A f \in Files : queue[f] = 0
                       /\ \A w \in Workers : file[w] = NoFile
                       /\ obs = NoFile

\* A file the scan has not seen is in one place, and marked as processing
\* while it is past the observer.
OnceInv ==
    \A f \in Files \ scanned :
        /\ queue[f] <= 1
        /\ queue[f] = 1 => \A w \in Workers : file[w] # f
        /\ \A v, w \in Workers : file[v] = f /\ file[w] = f => v = w
        /\ queue[f] = 1 \/ (\E w \in Workers : file[w] = f)
             => f \in processing /\ obs # f

\* The worker loops are submitted when the scan is over.
OffInv == mode \in {"off", "scan"} => \A w \in Workers : pc[w] = "off"

-----------------------------------------------------------------------------
\* The daemon starts with empty directories and an empty memory.
LEMMA InitInv ==
    Init => /\ TypeOK /\ ConvertedInv /\ RowInv /\ KnownInv
            /\ KnownNotQueued /\ NoGhostJobs /\ OnceInv /\ OffInv
<1> SUFFICES ASSUME Init
             PROVE  /\ TypeOK /\ ConvertedInv /\ RowInv /\ KnownInv
                    /\ KnownNotQueued /\ NoGhostJobs /\ OnceInv /\ OffInv
  OBVIOUS
<1>1. TypeOK
  BY ConstantsAssumption DEF Init, TypeOK, PCs
<1>2. ConvertedInv /\ RowInv
  BY ConstantsAssumption
     DEF Init, ConvertedInv, UnconvertedKept, RowInv, RecordedBeforeMoved
<1>3. KnownInv /\ KnownNotQueued /\ NoGhostJobs /\ OnceInv /\ OffInv
  BY ConstantsAssumption
     DEF Init, KnownInv, KnownNotQueued, NoGhostJobs, OnceInv, Holders, OffInv
<1>4. QED
  BY <1>1, <1>2, <1>3

\* Every step is one of these.
LEMMA Steps ==
    ASSUME Next
    PROVE  \/ Start \/ Minute \/ Ready \/ StopHangs
           \/ Exit \/ Kill
           \/ \E b \in BOOLEAN : Pause(b)
           \/ \E how \in {"signal", "control"} : Stop(how)
           \/ \E f \in Files : Copied(f) \/ Scan(f) \/ Retry(f) \/ Notice(f)
           \/ \E f \in Files, how \in {"mv", "cp"} : Arrive(f, how)
           \/ \E size \in {"stable", "growing"} : Put(size)
           \/ \E w \in Workers : Work(w)
  BY DEF Next, Main, Observe, Environment

\* What a worker does in one step.
LEMMA WorkSteps ==
    ASSUME NEW w \in Workers, Work(w)
    PROVE  \/ \E f \in Files : Get(w, f) \/ RunTask(w, f)
           \/ Leave(w) \/ Begin(w) \/ Convert(w) \/ Mark(w) \/ Archive(w)
           \/ \E delay \in {"over", "running"} : ShouldRetry(w, delay)
           \/ RecordRetry(w) \/ MarkFailed(w) \/ MoveToErrors(w)
           \/ Record(w) \/ Done(w)
  BY DEF Work

\* Every step keeps the types: a worker past get has a file.
LEMMA TypeStep == TypeOK /\ [Next]_vars => TypeOK'
<1> SUFFICES ASSUME TypeOK, [Next]_vars PROVE TypeOK'
  OBVIOUS
<1> USE ConstantsAssumption DEF TypeOK, dirs, table, feed, ctl, book, hist
<1>1. ASSUME NEW f \in Files, NEW how \in {"mv", "cp"}, Copied(f) \/ Arrive(f, how)
      PROVE  TypeOK'
  BY <1>1 DEF Arrive, Copied
<1>2. CASE Start
  BY <1>2 DEF Start
<1>3. ASSUME NEW f \in Files, Scan(f) PROVE TypeOK'
  BY <1>3 DEF Scan
<1>4. CASE Ready
  BY <1>4 DEF Ready, PCs
<1>5. ASSUME NEW f \in Files, Retry(f) PROVE TypeOK'
  BY <1>5 DEF Retry
<1>6. CASE Minute \/ \E b \in BOOLEAN : Pause(b)
  BY <1>6 DEF Pause, Minute
<1>7. CASE StopHangs \/ \E how \in {"signal", "control"} : Stop(how)
  BY <1>7 DEF Stop, StopHangs
<1>8. CASE Exit \/ Kill
  <2>1. Forgotten /\ mode' = "off"
    BY <1>8 DEF Exit, Kill
  <2>2. attempts' \in [Files -> Nat \union {-1}]
    BY <2>1 DEF Forgotten
  <2>3. paused' \in BOOLEAN /\ minute' \in BOOLEAN
    BY <2>1 DEF Forgotten
  <2>4. UNCHANGED <<dirs, table, converted, hist>>
    BY <1>8 DEF Exit, Kill
  <2>5. QED
    BY <2>1, <2>2, <2>3, <2>4 DEF Forgotten, PCs
<1>9. ASSUME NEW f \in Files, Notice(f) PROVE TypeOK'
  BY <1>9 DEF Notice
<1>10. CASE \E size \in {"stable", "growing"} : Put(size)
  BY <1>10 DEF Put
<1>11. ASSUME NEW w \in Workers, NEW f \in Files, Get(w, f) PROVE TypeOK'
  BY <1>11 DEF Get, Step, PCs
<1>12. ASSUME NEW w \in Workers, Leave(w) \/ Begin(w) PROVE TypeOK'
  BY <1>12 DEF Leave, Begin, Step, PCs
<1>13. ASSUME NEW w \in Workers, Convert(w) PROVE TypeOK'
  BY <1>13 DEF Convert, Step, PCs
<1>14. ASSUME NEW w \in Workers, Mark(w) \/ MarkFailed(w) PROVE TypeOK'
  <2>1. /\ pc' \in [Workers -> PCs] /\ file' = file /\ file[w] \in Files
        /\ \A v \in Workers : pc'[v] \notin {"off", "get", "stuck"} => file[v] \in Files
    BY <1>14 DEF Mark, MarkFailed, Step, PCs
  <2>2. /\ dedup' \in [Files -> {"none", "success", "failed"}]
        /\ stubs' \subseteq Files /\ unrecorded' \subseteq Files /\ faults' \in Nat
        /\ UNCHANGED <<configs, known, drops, runs>>
    BY <1>14, <2>1 DEF Mark, MarkFailed, MarkAs, Fault
  <2>3. UNCHANGED <<dirs, feed, ctl, queue, book, attempts, tasks, current, converted>>
    BY <1>14 DEF Mark, MarkFailed
  <2>4. QED
    BY <2>1, <2>2, <2>3
<1>15. ASSUME NEW w \in Workers, Archive(w) PROVE TypeOK'
  BY <1>15 DEF Archive, Step, PCs, Fault
<1>16. ASSUME NEW w \in Workers, NEW delay \in {"over", "running"}, ShouldRetry(w, delay)
       PROVE TypeOK'
  BY <1>16 DEF ShouldRetry, Step, PCs
<1>17. ASSUME NEW w \in Workers, RecordRetry(w) PROVE TypeOK'
  BY <1>17 DEF RecordRetry, Step, PCs
<1>18. ASSUME NEW w \in Workers, MoveToErrors(w) PROVE TypeOK'
  BY <1>18 DEF MoveToErrors, Step, PCs, Fault
<1>19. ASSUME NEW w \in Workers, Record(w) PROVE TypeOK'
  BY <1>19 DEF Record, Recorded, PCs
<1>20. ASSUME NEW w \in Workers, Done(w) PROVE TypeOK'
  BY <1>20 DEF Done, Step, PCs
<1>21. ASSUME NEW w \in Workers, NEW f \in Files, RunTask(w, f) PROVE TypeOK'
  BY <1>21 DEF RunTask, Recorded, PCs
<1>22. CASE UNCHANGED vars
  BY <1>22 DEF vars
<1>23. ASSUME NEW w \in Workers, Work(w) PROVE TypeOK'
  BY <1>11, <1>12, <1>13, <1>14, <1>15, <1>16, <1>17, <1>18, <1>19, <1>20,
     <1>21, <1>23, WorkSteps
<1>24. QED
  BY <1>1, <1>2, <1>3, <1>4, <1>5, <1>6, <1>7, <1>8, <1>9, <1>10, <1>22,
     <1>23, Steps

\* What the steps of the other threads leave alone.
LEMMA OtherStep ==
    ASSUME \/ Start \/ Minute \/ Ready \/ StopHangs \/ Exit \/ Kill
           \/ \E b \in BOOLEAN : Pause(b)
           \/ \E how \in {"signal", "control"} : Stop(how)
           \/ \E f \in Files : Copied(f) \/ Scan(f) \/ Retry(f) \/ Notice(f)
           \/ \E f \in Files, how \in {"mv", "cp"} : Arrive(f, how)
           \/ \E size \in {"stable", "growing"} : Put(size)
    PROVE  /\ UNCHANGED <<configs, converted, dedup, stubs, inDone>>
           /\ \/ UNCHANGED <<pc, file>>
              \/ pc' = [w \in Workers |-> "get"] /\ file' = file
              \/ pc' = [w \in Workers |-> "off"] /\ file' = [w \in Workers |-> NoFile]
           /\ inErrors' \subseteq inErrors
           /\ current' \in {current, {}}
           /\ current' = current => pc' = pc \/ Ready \/ Exit \/ Kill
  BY DEF Start, Minute, Ready, StopHangs, Exit, Kill, Pause, Stop, Arrive, Copied, Scan,
         Retry, Notice, Put, Forgotten, dirs, table, feed, ctl, book, hist

\* Only Convert leads to the steps that archive, and nothing is unconverted.
LEMMA ConvertedStep == TypeOK /\ ConvertedInv /\ [Next]_vars => ConvertedInv'
<1> SUFFICES ASSUME TypeOK, ConvertedInv, [Next]_vars PROVE ConvertedInv'
  OBVIOUS
<1> USE DEF ConvertedInv, UnconvertedKept
<1>1. CASE UNCHANGED vars
  BY <1>1 DEF vars, dirs
<1>2. CASE /\ UNCHANGED <<converted, inDone>>
           /\ \/ UNCHANGED <<pc, file>>
              \/ pc' = [w \in Workers |-> "get"] /\ file' = file
              \/ pc' = [w \in Workers |-> "off"] /\ file' = [w \in Workers |-> NoFile]
  BY <1>2
<1>3. ASSUME NEW w \in Workers, Work(w) PROVE ConvertedInv'
  <2> USE DEF Step, dirs, TypeOK
  <2>1. ASSUME NEW f \in Files, Get(w, f) \/ RunTask(w, f) PROVE ConvertedInv'
    BY <2>1 DEF Get, RunTask, Recorded
  <2>2. CASE Leave(w) \/ Begin(w) \/ RecordRetry(w) \/ MoveToErrors(w)
    BY <2>2 DEF Leave, Begin, RecordRetry, MoveToErrors
  <2>3. CASE Mark(w) \/ MarkFailed(w)
    BY <2>3 DEF Mark, MarkFailed
  <2>4. CASE Convert(w)
    BY <2>4 DEF Convert
  <2>5. CASE Archive(w)
    BY <2>5 DEF Archive
  <2>6. CASE \E delay \in {"over", "running"} : ShouldRetry(w, delay)
    BY <2>6 DEF ShouldRetry
  <2>7. CASE Record(w) \/ Done(w)
    BY <2>7 DEF Record, Recorded, Done
  <2>8. QED
    BY <1>3, <2>1, <2>2, <2>3, <2>4, <2>5, <2>6, <2>7, WorkSteps
<1>4. QED
  BY <1>1, <1>2, <1>3, Steps, OtherStep

\* Rows of the table are not taken back.
LEMMA RowsStay ==
    ASSUME TypeOK, Next PROVE \A f \in Files : Row(f) => dedup'[f] # "none"
<1>1. ASSUME NEW w \in Workers, Work(w) PROVE \A f \in Files : Row(f) => dedup'[f] # "none"
  <2>1. CASE Mark(w)
    BY <2>1 DEF Mark, MarkAs, Row, table, TypeOK
  <2>2. CASE MarkFailed(w)
    BY <2>2 DEF MarkFailed, MarkAs, Row, table, TypeOK
  <2>3. CASE UNCHANGED table
    BY <2>3 DEF Row, table
  <2>4. QED
    BY <1>1, <2>1, <2>2, <2>3, WorkSteps
       DEF Get, RunTask, Leave, Begin, Convert, Archive, ShouldRetry,
           RecordRetry, MoveToErrors, Record, Done
<1>2. CASE UNCHANGED dedup
  BY <1>2 DEF Row
<1>3. QED
  BY <1>1, <1>2, Steps, OtherStep

\* Neither are rows for another size, and a lost write stays a lost write.
LEMMA LossesStay ==
    ASSUME Next PROVE stubs \subseteq stubs' /\ unrecorded \subseteq unrecorded'
  BY Steps, WorkSteps
     DEF Start, Minute, Ready, StopHangs, Exit, Kill, Pause, Stop, Arrive, Copied, Scan,
         Retry, Notice, Put, Get, RunTask, Leave, Begin, Convert, Mark, MarkAs,
         Archive, ShouldRetry, RecordRetry, MarkFailed, MoveToErrors, Record,
         Done, hist, table

\* Mark and MarkFailed come before the moves, and rows are never removed.
LEMMA RowStep == TypeOK /\ RowInv /\ [Next]_vars => RowInv'
<1> SUFFICES ASSUME TypeOK, RowInv, [Next]_vars PROVE RowInv'
  OBVIOUS
<1> DEFINE Kept(f) == dedup'[f] # "none" \/ f \in stubs' \union unrecorded'
<1>1. CASE UNCHANGED vars
  BY <1>1 DEF vars, dirs, table, hist, RowInv, RecordedBeforeMoved, Row
<1>2. CASE Next
  <2>1. configs' = configs
    BY <1>2, Steps, WorkSteps, OtherStep
       DEF MarkAs, Get, RunTask, Leave, Begin, Convert, Mark, Archive, ShouldRetry,
           RecordRetry, MarkFailed, MoveToErrors, Record, Done, hist
  <2>2. \A f \in Files : Row(f) \/ f \in stubs \union unrecorded => Kept(f)
    BY <1>2, RowsStay, LossesStay
  <2>3. ASSUME NEW v \in Workers, pc'[v] \in {"archive", "move"}, file'[v] \notin configs
        PROVE  Kept(file'[v])
    <3>1. CASE pc'[v] = pc[v] /\ file'[v] = file[v]
      BY <2>2, <2>3, <3>1 DEF RowInv, TypeOK
    <3>2. ASSUME \/ Mark(v)
                 \/ MarkFailed(v)
          PROVE  Kept(file'[v])
      <4>1. file'[v] = file[v] /\ file[v] \in Files
        BY <3>2 DEF Mark, MarkFailed, Step, TypeOK
      <4>2. QED
        BY <3>2, <4>1 DEF Mark, MarkFailed, MarkAs, TypeOK
    <3>3. ASSUME NEW w \in Workers, w # v, Work(w)
          PROVE  pc'[v] = pc[v] /\ file'[v] = file[v]
      BY <3>3, WorkSteps
         DEF Get, RunTask, Leave, Begin, Convert, Mark, Archive, ShouldRetry,
             RecordRetry, MarkFailed, MoveToErrors, Record, Done, Recorded,
             Step, TypeOK
    <3>4. ASSUME NEW f \in Files, Get(v, f) \/ RunTask(v, f) PROVE FALSE
      BY <2>3, <3>4 DEF Get, RunTask, Recorded, Step, TypeOK
    <3>5. ASSUME \/ Leave(v) \/ Begin(v) \/ Archive(v) \/ RecordRetry(v)
                 \/ MoveToErrors(v) \/ Record(v) \/ Done(v)
                 \/ \E delay \in {"over", "running"} : ShouldRetry(v, delay)
          PROVE FALSE
      BY <2>3, <3>5
         DEF Leave, Begin, Archive, RecordRetry, MoveToErrors, Record, Done,
             ShouldRetry, Recorded, Step, TypeOK
    <3>6. ASSUME Convert(v) PROVE FALSE
      BY <2>3, <3>6 DEF Convert, Step, TypeOK
    <3>7. QED
      BY <1>2, <2>3, <3>1, <3>2, <3>3, <3>4, <3>5, <3>6, Steps, WorkSteps, OtherStep
  <2>4. ASSUME NEW f \in (inErrors' \union inDone') \ configs PROVE Kept(f)
    <3>1. CASE f \in inErrors \union inDone
      BY <2>2, <2>4, <3>1 DEF RowInv, RecordedBeforeMoved, TypeOK
    <3>2. ASSUME NEW w \in Workers, Archive(w) \/ MoveToErrors(w) PROVE Kept(f)
      <4>1. f \in inErrors \union inDone \/ f = file[w]
        BY <2>4, <3>2 DEF Archive, MoveToErrors
      <4>2. f = file[w] => f \in Files /\ (Row(f) \/ f \in stubs \union unrecorded)
        BY <2>4, <3>2 DEF Archive, MoveToErrors, Step, RowInv, TypeOK
      <4>3. QED
        BY <2>2, <3>1, <4>1, <4>2
    <3>3. ASSUME NEW w \in Workers, Work(w), ~Archive(w), ~MoveToErrors(w)
          PROVE  UNCHANGED dirs
      BY <3>3, WorkSteps
         DEF Get, RunTask, Leave, Begin, Convert, Mark, ShouldRetry,
             RecordRetry, MarkFailed, Record, Done
    <3>4. CASE UNCHANGED dirs
      BY <2>4, <3>1, <3>4 DEF dirs
    <3>5. QED
      BY <1>2, <2>4, <3>1, <3>2, <3>3, <3>4, Steps, OtherStep
  <2>5. QED
    BY <2>1, <2>3, <2>4 DEF RowInv, RecordedBeforeMoved, Row
<1>3. QED
  BY <1>1, <1>2

\* Scan and Notice ask the table before they queue a file, and find the row of
\* one that is complete.
LEMMA KnownStep ==
    TypeOK /\ KnownInv /\ KnownNotQueued /\ [Next]_vars => KnownInv' /\ KnownNotQueued'
<1> SUFFICES ASSUME TypeOK, KnownInv, KnownNotQueued, [Next]_vars
             PROVE  KnownInv' /\ KnownNotQueued'
  OBVIOUS
<1> DEFINE Clear(f) == /\ queue[f] = 0 /\ obs # f
                       /\ \A w \in Workers : file[w] # f
<1>a. \A f \in known : (f \notin early => Clear(f)) /\ Row(f) /\ f \in Files
  BY DEF KnownInv, KnownNotQueued, Holders, TypeOK
<1>b. SUFFICES /\ \A f \in known' : dedup'[f] # "none" /\ (f \notin early' => Clear(f)')
               /\ mode' = "off" => /\ \A f \in Files : queue'[f] = 0
                                   /\ \A w \in Workers : file'[w] = NoFile
                                   /\ obs' = NoFile
  BY DEF KnownInv, KnownNotQueued, Holders, Row
<1> DEFINE Goal == <1>b!1
<1>1. CASE UNCHANGED vars
  BY <1>1, <1>a DEF vars, table, feed, ctl, hist, KnownInv, Row
<1>2. CASE Start
  BY <1>2, ConstantsAssumption DEF Start, table, KnownInv, Row, TypeOK
<1>3. CASE Exit \/ Kill
  <2>1. Forgotten /\ UNCHANGED <<dedup, known>>
    BY <1>3 DEF Exit, Kill, table, hist
  <2>2. QED
    BY <1>a, <2>1, ConstantsAssumption DEF Forgotten, Row, TypeOK
<1>4. CASE \/ Minute \/ Ready \/ StopHangs
           \/ \E b \in BOOLEAN : Pause(b)
           \/ \E how \in {"signal", "control"} : Stop(how)
           \/ \E f \in Files : Copied(f) \/ Retry(f)
           \/ \E f \in Files, how \in {"mv", "cp"} : Arrive(f, how)
  <2>1. UNCHANGED <<dedup, known, queue, file, obs, early>>
    BY <1>4
       DEF Minute, Ready, StopHangs, Pause, Stop, Arrive, Copied, Retry, table,
           feed, hist
  <2>2. mode' = "off" => mode = "off"
    BY <1>4 DEF Minute, Ready, StopHangs, Pause, Stop, Arrive, Copied, Retry, ctl
  <2>3. QED
    BY <1>a, <2>1, <2>2 DEF KnownInv, Row
<1>5. CASE \E f \in Files : Scan(f)
  <2>1. PICK g \in Files : Scan(g)
    BY <1>5
  <2>2. /\ UNCHANGED <<dedup, known, file, obs, mode>> /\ mode = "scan"
        /\ early' = early \union ({g} \intersect growing)
        /\ \A f \in Files : f # g => queue'[f] = queue[f]
    BY <2>1 DEF Scan, table, ctl, hist, TypeOK
  <2>3. ASSUME Row(g), g \notin growing PROVE queue' = queue
    BY <2>1, <2>3 DEF Scan, Duplicate
  <2>4. QED
    BY <1>a, <2>2, <2>3 DEF Row
<1>6. CASE \E f \in Files : Notice(f)
  <2>1. PICK g \in Files : Notice(g)
    BY <1>6
  <2>2. /\ UNCHANGED <<dedup, known, file, queue, mode>> /\ mode # "off"
        /\ early \subseteq early' /\ obs' \in {g, NoFile}
    BY <2>1 DEF Notice, table, ctl, hist
  <2>3. ASSUME Row(g), g \notin early' PROVE obs' = NoFile
    BY <2>1, <2>3 DEF Notice, Duplicate
  <2>4. QED
    BY <1>a, <2>2, <2>3, ConstantsAssumption DEF Row
<1>7. CASE \E size \in {"stable", "growing"} : Put(size)
  <2>1. /\ UNCHANGED <<dedup, known, file, mode, early>> /\ mode # "off"
        /\ obs' = NoFile /\ obs # NoFile
        /\ \A f \in Files : f # obs => queue'[f] = queue[f]
    BY <1>7 DEF Put, table, ctl, hist, TypeOK
  <2>2. QED
    BY <1>a, <2>1, ConstantsAssumption DEF Row
<1>8. ASSUME NEW w \in Workers, Work(w) PROVE Goal
  <2>1. UNCHANGED <<known, obs, mode, early>>
    BY <1>8, WorkSteps
       DEF MarkAs, Get, RunTask, Leave, Begin, Convert, Mark, Archive, ShouldRetry,
           RecordRetry, MarkFailed, MoveToErrors, Record, Done, feed, ctl, hist
  <2>2. \A f \in Files : Row(f) => dedup'[f] # "none"
    BY <1>8, RowsStay DEF Next
  <2>3. CASE \E f \in Files : Get(w, f)
    <3>1. PICK g \in Files : Get(w, g)
      BY <2>3
    <3>2. queue[g] > 0 /\ g \notin known \ early
      BY <1>a, <3>1 DEF Get
    <3>3. mode # "off"
      BY <3>2 DEF KnownInv
    <3>4. /\ \A f \in Files : f # g => queue'[f] = queue[f]
          /\ \A v \in Workers : file'[v] \in {file[v], g}
      BY <3>1 DEF Get, TypeOK
    <3>5. QED
      BY <1>a, <2>1, <2>2, <3>2, <3>3, <3>4
  <2>4. ASSUME ~ \E f \in Files : Get(w, f)
        PROVE  queue' = queue /\ \A v \in Workers : file'[v] \in {file[v], NoFile}
    BY <1>8, <2>4, WorkSteps
       DEF RunTask, Leave, Begin, Convert, Mark, Archive, ShouldRetry,
           RecordRetry, MarkFailed, MoveToErrors, Record, Done, TypeOK
  <2>5. QED
    BY <1>a, <2>1, <2>2, <2>3, <2>4, ConstantsAssumption DEF KnownInv
<1>9. QED
  BY <1>1, <1>2, <1>3, <1>4, <1>5, <1>6, <1>7, <1>8, Steps

\* No worker runs before Ready.
LEMMA OffStep == TypeOK /\ OffInv /\ [Next]_vars => OffInv'
<1> SUFFICES ASSUME TypeOK, OffInv, [Next]_vars PROVE OffInv'
  OBVIOUS
<1>1. CASE UNCHANGED vars
  BY <1>1 DEF vars, ctl, OffInv
<1>2. CASE Exit \/ Kill
  BY <1>2 DEF Exit, Kill, Forgotten, OffInv
<1>3. CASE \/ Start \/ Minute \/ Ready \/ StopHangs
           \/ \E b \in BOOLEAN : Pause(b)
           \/ \E how \in {"signal", "control"} : Stop(how)
           \/ \E f \in Files : Copied(f) \/ Scan(f) \/ Retry(f) \/ Notice(f)
           \/ \E f \in Files, how \in {"mv", "cp"} : Arrive(f, how)
           \/ \E size \in {"stable", "growing"} : Put(size)
  BY <1>3
     DEF Start, Minute, Ready, StopHangs, Pause, Stop, Arrive, Copied, Scan, Retry,
         Notice, Put, ctl, OffInv
<1>4. ASSUME NEW w \in Workers, Work(w) PROVE OffInv'
  <2>1. mode' = mode
    BY <1>4, WorkSteps
       DEF Get, RunTask, Leave, Begin, Convert, Mark, Archive, ShouldRetry,
           RecordRetry, MarkFailed, MoveToErrors, Record, Done, ctl
  <2>2. pc[w] # "off" \/ Stopping
    BY <1>4, WorkSteps
       DEF Get, RunTask, Leave, Begin, Convert, Mark, Archive, ShouldRetry,
           RecordRetry, MarkFailed, MoveToErrors, Record, Done, Step
  <2>3. QED
    BY <2>1, <2>2 DEF OffInv, Stopping
<1>5. QED
  BY <1>1, <1>2, <1>3, <1>4, Steps

\* Every way out of _process_file goes through job_completed.
LEMMA GhostStep == TypeOK /\ OffInv /\ NoGhostJobs /\ [Next]_vars => NoGhostJobs'
<1> SUFFICES ASSUME TypeOK, OffInv, NoGhostJobs, [Next]_vars, NEW g \in current'
             PROVE  \E v \in Workers :
                       file'[v] = g /\ pc'[v] \notin {"off", "get", "begin", "done", "stuck"}
  BY DEF NoGhostJobs
<1> DEFINE Held(v) == file[v] = g /\ pc[v] \notin {"off", "get", "begin", "done", "stuck"}
           Goal == \E v \in Workers :
                     file'[v] = g /\ pc'[v] \notin {"off", "get", "begin", "done", "stuck"}
<1>1. CASE UNCHANGED <<current, pc, file>>
  BY <1>1 DEF NoGhostJobs
<1>2. CASE Ready
  BY <1>2 DEF Ready, NoGhostJobs, OffInv
<1>3. CASE Exit \/ Kill
  BY <1>3 DEF Exit, Kill, Forgotten
<1>4. ASSUME NEW w \in Workers, Work(w) PROVE Goal
  <2>0. g \in current => \E v \in Workers : Held(v)
    BY DEF NoGhostJobs
  <2>1. CASE \E f \in Files : Get(w, f) \/ RunTask(w, f)
    BY <2>0, <2>1 DEF Get, RunTask, Recorded, Step, TypeOK
  <2>2. CASE Leave(w) \/ Begin(w)
    BY <2>0, <2>2 DEF Leave, Begin, Step, TypeOK
  <2>3. CASE Convert(w)
    BY <2>0, <2>3 DEF Convert, Step, TypeOK
  <2>4. CASE Mark(w) \/ MarkFailed(w) \/ RecordRetry(w) \/ MoveToErrors(w)
    BY <2>0, <2>4 DEF Mark, MarkFailed, RecordRetry, MoveToErrors, Step, TypeOK
  <2>5. CASE Archive(w)
    BY <2>0, <2>5 DEF Archive, Step, TypeOK
  <2>6. CASE \E delay \in {"over", "running"} : ShouldRetry(w, delay)
    BY <2>0, <2>6 DEF ShouldRetry, Step, TypeOK
  <2>7. CASE Record(w)
    BY <2>0, <2>7 DEF Record, Recorded, TypeOK
  <2>8. CASE Done(w)
    BY <2>0, <2>8 DEF Done, Step, TypeOK
  <2>9. QED
    BY <1>4, <2>1, <2>2, <2>3, <2>4, <2>5, <2>6, <2>7, <2>8, WorkSteps
<1>5. CASE UNCHANGED vars
  BY <1>1, <1>5 DEF vars
<1>6. QED
  BY <1>1, <1>2, <1>3, <1>4, <1>5, Steps
     DEF Start, Minute, StopHangs, Pause, Stop, Arrive, Copied, Scan, Retry, Notice, Put

\* From the queue until mark_completed a file is in processing, and then in
\* processed: the observer turns it away.
LEMMA OnceStep == TypeOK /\ OnceInv /\ [Next]_vars => OnceInv'
<1> SUFFICES ASSUME TypeOK, OnceInv, [Next]_vars, NEW f \in Files \ scanned'
             PROVE  /\ queue'[f] <= 1
                    /\ queue'[f] = 1 => \A w \in Workers : file'[w] # f
                    /\ \A v, w \in Workers : file'[v] = f /\ file'[w] = f => v = w
                    /\ queue'[f] = 1 \/ (\E w \in Workers : file'[w] = f)
                         => f \in processing' /\ obs' # f
  BY DEF OnceInv
<1> DEFINE Goal ==  /\ queue'[f] <= 1
                    /\ queue'[f] = 1 => \A w \in Workers : file'[w] # f
                    /\ \A v, w \in Workers : file'[v] = f /\ file'[w] = f => v = w
                    /\ queue'[f] = 1 \/ (\E w \in Workers : file'[w] = f)
                         => f \in processing' /\ obs' # f
<1>a. f \in Files /\ f # NoFile /\ queue[f] \in Nat
  BY ConstantsAssumption DEF TypeOK
<1>b. ASSUME f \notin scanned
      PROVE  /\ queue[f] <= 1
             /\ queue[f] = 1 => \A w \in Workers : file[w] # f
             /\ \A v, w \in Workers : file[v] = f /\ file[w] = f => v = w
             /\ queue[f] = 1 \/ (\E w \in Workers : file[w] = f)
                  => f \in processing /\ obs # f
  BY <1>a, <1>b DEF OnceInv
<1>1. CASE UNCHANGED <<scanned, queue, file, processing, obs>>
  BY <1>1, <1>b
<1>2. CASE Exit \/ Kill
  BY <1>2, <1>a DEF Exit, Kill, Forgotten
<1>3. ASSUME NEW g \in Files, Scan(g) PROVE Goal
  <2>1. f \notin scanned /\ f # g /\ UNCHANGED <<file, obs>>
    BY <1>3 DEF Scan
  <2>2. queue'[f] = queue[f] /\ (f \in processing => f \in processing')
    BY <1>3, <1>a, <2>1 DEF Scan, TypeOK
  <2>3. QED
    BY <1>b, <2>1, <2>2
<1>4. ASSUME NEW g \in Files, Notice(g) PROVE Goal
  <2>1. /\ UNCHANGED <<scanned, queue, file, processing>>
        /\ obs' = f => f \notin processing
    BY <1>4, <1>a DEF Notice
  <2>2. QED
    BY <1>b, <2>1
<1>5. ASSUME NEW size \in {"stable", "growing"}, Put(size) PROVE Goal
  <2>1. UNCHANGED <<scanned, file>> /\ obs' = NoFile
    BY <1>5 DEF Put
  <2>2. \/ UNCHANGED <<queue, processing>>
        \/ /\ queue' = [queue EXCEPT ![obs] = @ + 1]
           /\ processing' = processing \union {obs}
    BY <1>5 DEF Put
  <2>3. CASE obs = f
    <3>1. queue[f] = 0 /\ \A w \in Workers : file[w] # f
      BY <1>a, <1>b, <2>1, <2>3
    <3>2. queue'[f] \in {0, 1} /\ (queue'[f] = 1 => f \in processing')
      BY <1>a, <2>2, <2>3, <3>1 DEF TypeOK
    <3>3. QED
      BY <1>a, <2>1, <3>1, <3>2
  <2>4. CASE obs # f
    <3>1. queue'[f] = queue[f] /\ (f \in processing => f \in processing')
      BY <1>a, <2>2, <2>4 DEF TypeOK
    <3>2. QED
      BY <1>a, <1>b, <2>1, <3>1
  <2>5. QED
    BY <2>3, <2>4
<1>6. ASSUME NEW w \in Workers, Work(w) PROVE Goal
  <2>0. UNCHANGED <<scanned, obs>>
    BY <1>6, WorkSteps
       DEF Get, RunTask, Leave, Begin, Convert, Mark, Archive, ShouldRetry,
           RecordRetry, MarkFailed, MoveToErrors, Record, Done, feed
  <2>1. ASSUME NEW g \in Files, Get(w, g) PROVE Goal
    <3>1. /\ processing' = processing /\ queue[g] > 0
          /\ file'[w] = g /\ \A v \in Workers : v # w => file'[v] = file[v]
          /\ queue'[g] = queue[g] - 1 /\ (f # g => queue'[f] = queue[f])
      BY <1>a, <2>1 DEF Get, book, TypeOK
    <3>2. CASE f = g
      <4>1. queue[f] = 1 /\ queue'[f] = 0
        BY <1>a, <1>b, <2>0, <3>1, <3>2
      <4>2. QED
        BY <1>b, <2>0, <3>1, <3>2, <4>1
    <3>3. CASE f # g
      BY <1>b, <2>0, <3>1, <3>3
    <3>4. QED
      BY <3>2, <3>3
  <2>2. CASE Done(w)
    <3>1. /\ queue' = queue /\ processing' = processing \ {file[w]}
          /\ file'[w] = NoFile /\ \A v \in Workers : v # w => file'[v] = file[v]
      BY <2>2 DEF Done, TypeOK
    <3>2. QED
      BY <1>a, <1>b, <2>0, <3>1
  <2>3. ASSUME ~Done(w), ~ \E g \in Files : Get(w, g)
        PROVE  UNCHANGED <<queue, file, processing>>
    BY <1>6, <2>3, WorkSteps
       DEF RunTask, Leave, Begin, Convert, Mark, Archive, ShouldRetry,
           RecordRetry, MarkFailed, MoveToErrors, Record, book
  <2>4. QED
    BY <1>1, <2>0, <2>1, <2>2, <2>3
<1>7. CASE UNCHANGED vars
  BY <1>1, <1>7 DEF vars, feed, book
<1>8. CASE \/ Start \/ Minute \/ Ready \/ StopHangs
           \/ \E b \in BOOLEAN : Pause(b)
           \/ \E how \in {"signal", "control"} : Stop(how)
           \/ \E g \in Files : Copied(g) \/ Retry(g)
           \/ \E g \in Files, how \in {"mv", "cp"} : Arrive(g, how)
  BY <1>1, <1>8
     DEF Start, Minute, Ready, StopHangs, Pause, Stop, Arrive, Copied, Retry, feed, book
<1>9. QED
  BY <1>2, <1>3, <1>4, <1>5, <1>6, <1>7, <1>8, Steps

\* In one place means: counted at most once.
LEMMA Counted == TypeOK /\ OnceInv => NewFileOnce
<1> SUFFICES ASSUME TypeOK, OnceInv, NEW f \in Files \ scanned
             PROVE  queue[f] + Cardinality(Holders(f)) + (IF obs = f THEN 1 ELSE 0) <= 1
  BY DEF NewFileOnce
<1>1. /\ queue[f] \in Nat /\ queue[f] <= 1
      /\ queue[f] = 1 => \A w \in Workers : file[w] # f
      /\ \A v, w \in Workers : file[v] = f /\ file[w] = f => v = w
      /\ queue[f] = 1 \/ (\E w \in Workers : file[w] = f) => obs # f
  BY DEF TypeOK, OnceInv
<1>2. CASE Holders(f) = {}
  BY <1>1, <1>2, FS_EmptySet
<1>3. CASE Holders(f) # {}
  <2>1. PICK w \in Workers : file[w] = f
    BY <1>3 DEF Holders
  <2>2. Holders(f) = {w}
    BY <1>1, <2>1 DEF Holders
  <2>3. Cardinality(Holders(f)) = 1
    BY <2>2, FS_Singleton
  <2>4. queue[f] = 0 /\ obs # f
    BY <1>1, <2>1
  <2>5. QED
    BY <2>3, <2>4
<1>4. QED
  BY <1>2, <1>3

\* All parts of the invariant hold in every reachable state.
LEMMA Invariance ==
    Spec => [](/\ TypeOK /\ ConvertedInv /\ RowInv /\ KnownInv
               /\ KnownNotQueued /\ NoGhostJobs /\ OnceInv /\ OffInv)
BY InitInv, TypeStep, ConvertedStep, RowStep, KnownStep, GhostStep,
   OnceStep, OffStep, PTL DEF Spec

-----------------------------------------------------------------------------
\* The queue, the tables and the worker threads stay in their types, and a
\* worker past the queue has a file.
THEOREM Typed == Spec => []TypeOK
BY Invariance, PTL

\* .processed holds only files that some attempt converted.
THEOREM NothingLost == Spec => []UnconvertedKept
<1>1. ConvertedInv => UnconvertedKept
  BY DEF ConvertedInv
<1>2. QED
  BY <1>1, Invariance, PTL

\* A disk image that has left the watch directory is named by a row of the table,
\* unless a write of the table was lost.
THEOREM RowBeforeMove == Spec => []RecordedBeforeMoved
<1>1. RowInv => RecordedBeforeMoved
  BY DEF RowInv
<1>2. QED
  BY <1>1, Invariance, PTL

\* A file that was on record as converted when the daemon started is in no place
\* of its pipeline, unless it was looked up while it was still being copied.
THEOREM KnownSkipped == Spec => []KnownNotQueued
BY Invariance, PTL

\* current_jobs names only files a worker has in hand.
THEOREM JobsAreReal == Spec => []NoGhostJobs
BY Invariance, PTL

\* A file the scan has not looked at is in at most one place.
THEOREM GivenOutOnce == Spec => []NewFileOnce
BY Counted, Invariance, PTL
=============================================================================
