----------------------------- MODULE BatchProofs -----------------------------
(***************************************************************************)
(* Proofs about batch conversion, for every set of VMs, every parallel     *)
(* limit and any number of runs, crashes and failed saves.                 *)
(*                                                                         *)
(* The invariant has six parts beside the types.  Truth: whatever is       *)
(* recorded as a success was converted.  Places: a VM is in one place.     *)
(* OneAtATime: the sequential loop has at most one VM in hand, and between *)
(* runs nothing is in hand.  Ledger: with parallel_limit 1 the results     *)
(* extend the checkpoint and, with what is left to do, cover the batch.    *)
(* Covering: with continue_on_error the results of this run's loop and     *)
(* what is left to do cover the batch, in the pool of a first run, too.    *)
(* Stopping: without continue_on_error the main thread collects one        *)
(* failure, and leaves its loop when nothing waits any more, so that the   *)
(* n-th run of a sequential batch begins with at most n - 1 on record.     *)
(***************************************************************************)
EXTENDS Batch, FiniteSetTheorems, TLAPS

Hand == running \union All(ended)

Truth == disk.ok \union results.ok \union collected.ok \union ended.ok \subseteq converted

Places ==
    /\ todo \intersect running = {}
    /\ (todo \union running) \intersect (All(ended) \union All(collected)) = {}
    /\ item \subseteq All(collected)
    /\ pc \notin {"save", "resave"} => item = {}

OneAtATime ==
    /\ pc \in {"off", "report"} => Hand = {}
    /\ pc # "off" /\ mode = "sequential" =>
          /\ pc \in {"loop", "report"}
          /\ \A v, w \in Hand : v = w

Ledger ==
    limit = 1 /\ pc # "off" =>
        /\ mode = "sequential"
        /\ disk.ok \subseteq results.ok /\ disk.bad \subseteq results.bad
        /\ (todo \union Hand) \intersect All(results) = {}
        /\ results.bad # {} \/ todo \union Hand \union All(results) = VMs
        /\ pc = "report" => results.bad # {} \/ todo = {}

Covering ==
    /\ runs = 0 => pc = "off" /\ disk = NoFile
    /\ onError /\ pc \notin {"off", "unwind"} =>
          /\ pc \notin {"cancel", "drain"}
          /\ mode = "sequential" => todo \union Hand \union All(results) = VMs
          /\ mode = "parallel" /\ runs = 1 => todo \union Hand \union All(collected) = VMs
          /\ pc = "report" => todo = {} /\ (mode = "parallel" => results = collected)

IInv == TypeOK /\ Truth /\ Places /\ OneAtATime /\ Ledger /\ Covering

\* The types are kept by every step.
LEMMA TypeKeeps == TypeOK /\ [Next]_vars => TypeOK'
<1> SUFFICES ASSUME TypeOK, [Next]_vars PROVE TypeOK'
    OBVIOUS
<1> USE ConstantsAssumption DEF TypeOK, Open
<1>0. NoResults \in Results /\ NoFile \in [exists : BOOLEAN, ok : SUBSET VMs, bad : SUBSET VMs]
    BY DEF NoResults, Results, NoFile
<1>1. CASE UNCHANGED vars
    BY <1>1 DEF vars
<1>2. CASE Begin
    BY <1>2, <1>0 DEF Begin, Restored, Remaining, Results, All
<1>3. CASE LoopEnds
    BY <1>3, <1>0 DEF LoopEnds
<1>4. CASE Report
    BY <1>4, <1>0 DEF Report, Fault
<1>5. CASE Crash
    BY <1>5, <1>0 DEF Crash
<1>6. ASSUME NEW v \in VMs, Start(v) PROVE TypeOK'
    BY <1>6 DEF Start
<1>7. ASSUME NEW v \in VMs, Finish(v) PROVE TypeOK'
  <2>1. PICK good \in BOOLEAN : /\ ended' = Add(ended, v, good)
                                /\ converted' = IF good THEN converted \union {v} ELSE converted
      BY <1>7 DEF Finish
  <2>2. ended' \in Results
      BY <2>1 DEF Add, Results
  <2> QED BY <1>7, <2>1, <2>2 DEF Finish
<1>8. ASSUME NEW v \in VMs, CollectSequential(v) PROVE TypeOK'
  <2> DEFINE r == Add(results, v, v \in ended.ok)
  <2>1. r \in Results
      BY DEF Add, Results
  <2>2. Saved(r) \in [exists : BOOLEAN, ok : SUBSET VMs, bad : SUBSET VMs]
      BY <2>1 DEF Saved, Results
  <2>3. /\ ended' = NoResults /\ results' = r
        /\ disk' \in {disk, Saved(r)} /\ todo' \in {todo, {}}
        /\ pc' \in {"loop", "report", "off"}
        /\ faults' = faults \/ Fault
        /\ UNCHANGED <<limit, onError, mode, running, collected, item, converted, runs>>
      BY <1>8 DEF CollectSequential
  <2>4. faults' \in 0..MaxFaults
      BY <2>3 DEF Fault
  <2> HIDE DEF r
  <2> QED BY <1>0, <2>1, <2>2, <2>3, <2>4
<1>9. ASSUME NEW v \in VMs, CollectParallel(v) PROVE TypeOK'
  <2>1. collected' = Add(collected, v, v \in ended.ok) /\ results' = collected'
      BY <1>9 DEF CollectParallel
  <2>2. collected' \in Results
      BY <2>1 DEF Add, Results
  <2>3. ended' \in Results
      BY <1>9 DEF CollectParallel, Results
  <2> QED BY <1>9, <2>1, <2>2, <2>3 DEF CollectParallel
<1>10. ASSUME NEW v \in VMs, SaveParallel(v) PROVE TypeOK'
  <2>1. Add(collected, v, FALSE) \in Results
      BY DEF Add, Results
  <2>2. Saved(results) \in [exists : BOOLEAN, ok : SUBSET VMs, bad : SUBSET VMs]
      BY DEF Saved, Results
  <2>3. /\ \/ collected' = collected /\ results' = results
           \/ collected' = Add(collected, v, FALSE) /\ results' = collected'
        /\ disk' \in {disk, Saved(results)} /\ item' \in {item, {}}
        /\ pc' \in {"loop", "resave", "cancel", "unwind"}
        /\ faults' = faults \/ Fault
        /\ UNCHANGED <<limit, onError, mode, todo, running, ended, converted, runs>>
      BY <1>10 DEF SaveParallel
  <2>4. faults' \in 0..MaxFaults
      BY <2>3 DEF Fault
  <2> QED BY <2>1, <2>2, <2>3, <2>4
<1>11. ASSUME NEW v \in VMs, Cancel(v) PROVE TypeOK'
    BY <1>11 DEF Cancel
<1>12. CASE Break
    BY <1>12 DEF Break
<1> QED BY <1>1, <1>2, <1>3, <1>4, <1>5, <1>6, <1>7, <1>8, <1>9, <1>10,
           <1>11, <1>12
        DEF Next, MainStep, WorkerStep

\* No step of the main thread or of a worker records a success that is none.
LEMMA TruthKeeps == TypeOK /\ Truth /\ [Next]_vars => Truth'
<1> SUFFICES ASSUME TypeOK, Truth, [Next]_vars PROVE Truth'
    OBVIOUS
<1> USE DEF TypeOK, Truth
<1>1. CASE UNCHANGED vars
    BY <1>1 DEF vars
<1>2. CASE Begin
    BY <1>2 DEF Begin, Restored, NoResults
<1>3. CASE LoopEnds
    BY <1>3 DEF LoopEnds, NoResults
<1>4. CASE Report
    BY <1>4 DEF Report, NoFile
<1>5. CASE Crash
    BY <1>5 DEF Crash, NoResults
<1>6. ASSUME NEW v \in VMs, Start(v) PROVE Truth'
    BY <1>6 DEF Start
<1>7. ASSUME NEW v \in VMs, Finish(v) PROVE Truth'
    BY <1>7 DEF Finish, Add, Results
<1>8. ASSUME NEW v \in VMs, CollectSequential(v) PROVE Truth'
  <2>1. Add(results, v, v \in ended.ok).ok \subseteq converted
      BY DEF Add, Results
  <2> QED BY <1>8, <2>1 DEF CollectSequential, Saved, NoResults
<1>9. ASSUME NEW v \in VMs, CollectParallel(v) PROVE Truth'
  <2>1. collected'.ok \subseteq converted
      BY <1>9 DEF CollectParallel, Add, Results
  <2>2. ended'.ok \subseteq ended.ok /\ disk' = disk
        /\ results' = collected' /\ converted' = converted
      BY <1>9 DEF CollectParallel
  <2> QED BY <2>1, <2>2
<1>10. ASSUME NEW v \in VMs, SaveParallel(v) PROVE Truth'
  <2>0. Add(collected, v, FALSE).ok = collected.ok \ {v}
      BY DEF Add
  <2>1. \/ collected' = collected /\ results' = results
        \/ collected'.ok = collected.ok \ {v} /\ results' = collected'
      BY <1>10, <2>0 DEF SaveParallel
  <2>2. /\ disk' = disk \/ disk' = Saved(results)
        /\ ended' = ended /\ converted' = converted
      BY <1>10 DEF SaveParallel
  <2>3. Saved(results).ok = results.ok
      BY DEF Saved
  <2> QED BY <2>1, <2>2, <2>3
<1>11. ASSUME NEW v \in VMs, Cancel(v) PROVE Truth'
    BY <1>11 DEF Cancel
<1>12. CASE Break
    BY <1>12 DEF Break
<1> QED BY <1>1, <1>2, <1>3, <1>4, <1>5, <1>6, <1>7, <1>8, <1>9, <1>10,
           <1>11, <1>12
        DEF Next, MainStep, WorkerStep

\* Collecting in the sequential loop: the VM in hand is the only one, it gets its
\* result, and the loop goes on, stops with a failure, or the run ends.
LEMMA SequentialMoves ==
    ASSUME TypeOK, Places, OneAtATime, NEW v \in VMs, CollectSequential(v)
    PROVE  /\ Hand = {v} /\ running' = {} /\ All(ended') = {}
           /\ All(results') = All(results) \union {v}
           /\ results.ok \ {v} \subseteq results'.ok
           /\ results.bad \ {v} \subseteq results'.bad
           /\ collected' = collected /\ limit' = limit /\ mode' = "sequential"
           /\ item' = item
           /\ \/ pc' = "loop" /\ todo' = todo /\ disk' = Saved(results')
              \/ pc' = "report" /\ todo' = {} /\ disk' = Saved(results')
                 /\ results'.bad # {}
              \/ pc' = "off" /\ todo' = {} /\ disk' = disk
<1>1. v \in All(ended) /\ pc = "loop" /\ mode = "sequential"
    BY DEF CollectSequential
<1>2. Hand = {v} /\ running = {}
    BY <1>1 DEF OneAtATime, Hand, Places
<1> DEFINE good == v \in ended.ok
           r == Add(results, v, good)
<1>3. /\ results' = r /\ ended' = NoResults /\ running' = running
      /\ collected' = collected /\ limit' = limit /\ mode' = mode /\ item' = item
      /\ \/ disk' = Saved(r) /\ GoesOn(good) /\ pc' = "loop" /\ todo' = todo
         \/ disk' = Saved(r) /\ ~GoesOn(good) /\ pc' = "report" /\ todo' = {}
         \/ disk' = disk /\ pc' = "off" /\ todo' = {}
    BY DEF CollectSequential
<1>4. /\ All(r) = All(results) \union {v}
      /\ results.ok \ {v} \subseteq r.ok /\ results.bad \ {v} \subseteq r.bad
      /\ ~GoesOn(good) => r.bad # {}
    BY DEF Add, All, Results, TypeOK, GoesOn
<1>5. All(NoResults) = {}
    BY DEF All, NoResults
<1> HIDE DEF r, good
<1> QED BY <1>1, <1>2, <1>3, <1>4, <1>5

\* Collecting from the pool moves one VM from ended to collected.
LEMMA ParallelMoves ==
    ASSUME TypeOK, NEW v \in VMs, CollectParallel(v)
    PROVE  /\ mode = "parallel" /\ pc = "loop" /\ pc' = "save" /\ item' = {v}
           /\ v \in All(ended) /\ All(ended') = All(ended) \ {v}
           /\ All(collected') = All(collected) \union {v}
           /\ UNCHANGED <<limit, onError, mode, todo, running, disk, runs>>
<1>1. All(collected') = All(collected) \union {v}
    BY DEF CollectParallel, Add, All, Results, TypeOK
<1>2. v \in All(ended) /\ All(ended') = All(ended) \ {v}
    BY DEF CollectParallel, All
<1> QED BY <1>1, <1>2 DEF CollectParallel

\* Saving in the pool moves no VM: the one that is saved has its result.
LEMMA SavingMoves ==
    ASSUME TypeOK, Places, NEW v \in VMs, SaveParallel(v)
    PROVE  /\ pc \in {"save", "resave"} /\ v \in item /\ item' \subseteq item
           /\ pc' # "resave" => item' = {}
           /\ All(collected') = All(collected)
           /\ pc' \in {"loop", "resave", "cancel", "unwind"}
           /\ onError => pc' # "cancel"
           /\ UNCHANGED <<limit, onError, mode, todo, running, ended, runs>>
<1>1. v \in All(collected)
    BY DEF SaveParallel, Places
<1>2. All(Add(collected, v, FALSE)) = All(collected)
    BY <1>1 DEF Add, All, Results, TypeOK
<1> QED BY <1>2 DEF SaveParallel, GoesOn

\* Leaving the loop of the pool: futures that have not started are cancelled.
LEMMA CancelMoves ==
    ASSUME NEW v \in VMs, Cancel(v) \/ Break
    PROVE  /\ pc = "cancel" /\ pc' \in {"cancel", "drain"} /\ todo' \subseteq todo
           /\ pc' = "drain" => todo' = {}
           /\ UNCHANGED <<limit, onError, mode, running, ended, collected, item, results,
                          disk, runs, faults>>
BY DEF Cancel, Break

\* A conversion that ends moves its VM from running to ended.
LEMMA FinishMoves ==
    ASSUME TypeOK, NEW v \in VMs, Finish(v)
    PROVE  /\ v \in running /\ running' = running \ {v}
           /\ All(ended') = All(ended) \union {v}
           /\ Hand' = Hand
BY DEF Finish, Add, All, Results, TypeOK, Hand

\* A VM is in one place, and the sequential loop has one in hand.
LEMMA PlacesKeep ==
    TypeOK /\ Places /\ OneAtATime /\ [Next]_vars => Places' /\ OneAtATime'
<1> SUFFICES ASSUME TypeOK, Places, OneAtATime, [Next]_vars
             PROVE  Places' /\ OneAtATime'
    OBVIOUS
<1> USE DEF Places, OneAtATime
<1>0. All(NoResults) = {}
    BY DEF All, NoResults
<1>1. CASE UNCHANGED vars
    BY <1>1 DEF vars, Hand
<1>2. CASE Begin
  <2>1. running = {} /\ All(ended) = {} /\ Hand = {}
      BY <1>2 DEF Begin, Hand
  <2>2. /\ running' = running /\ ended' = ended /\ collected' = NoResults
        /\ pc' \in {"off", "loop"} /\ item' = {}
      BY <1>2 DEF Begin
  <2>3. All(ended') = {} /\ All(collected') = {} /\ running' = {} /\ Hand' = {}
      BY <1>0, <2>1, <2>2 DEF Hand
  <2> QED BY <2>2, <2>3
<1>3. CASE LoopEnds
  <2>1. running' = {} /\ todo' = {} /\ All(ended') = {}
      BY <1>0, <1>3 DEF LoopEnds
  <2>2. Hand' = {}
      BY <2>1 DEF Hand
  <2>3. /\ mode' = mode /\ pc # "off" /\ pc' \in {"off", "report"}
        /\ item' = {}
      BY <1>3 DEF LoopEnds
  <2> QED BY <2>1, <2>2, <2>3
<1>4. CASE Report
    BY <1>4 DEF Report, Hand
<1>5. CASE Crash
  <2>1. running' = {} /\ todo' = {} /\ All(ended') = {} /\ pc' = "off" /\ item' = {}
      BY <1>0, <1>5 DEF Crash
  <2> QED BY <2>1 DEF Hand
<1>6. ASSUME NEW v \in VMs, Start(v) PROVE Places' /\ OneAtATime'
  <2>1. /\ v \in todo /\ todo' = todo \ {v} /\ running' = running \union {v}
        /\ ended' = ended /\ collected' = collected /\ pc' = pc /\ mode' = mode
        /\ item' = item /\ pc \notin {"off", "report"}
      BY <1>6 DEF Start, Open
  <2>2. mode = "sequential" => Hand = {}
      BY <1>6 DEF Start, Free, Hand
  <2>3. Hand' = Hand \union {v}
      BY <2>1 DEF Hand
  <2> QED BY <2>1, <2>2, <2>3
<1>7. ASSUME NEW v \in VMs, Finish(v) PROVE Places' /\ OneAtATime'
  <2>1. /\ todo' = todo /\ collected' = collected /\ pc' = pc /\ mode' = mode
        /\ item' = item
      BY <1>7 DEF Finish
  <2> QED BY <1>7, <2>1, FinishMoves
<1>8. ASSUME NEW v \in VMs, CollectSequential(v) PROVE Places' /\ OneAtATime'
  <2>1. /\ running' = {} /\ All(ended') = {} /\ collected' = collected
        /\ mode' = "sequential" /\ todo' \subseteq todo
        /\ pc' \in {"loop", "report", "off"} /\ item' = {}
      BY <1>8, SequentialMoves DEF CollectSequential
  <2>2. Hand' = {}
      BY <2>1 DEF Hand
  <2> QED BY <2>1, <2>2
<1>9. ASSUME NEW v \in VMs, CollectParallel(v) PROVE Places' /\ OneAtATime'
  <2>1. Hand' \subseteq Hand
      BY <1>9, ParallelMoves DEF Hand
  <2> QED BY <1>9, <2>1, ParallelMoves
<1>10. ASSUME NEW v \in VMs, SaveParallel(v) PROVE Places' /\ OneAtATime'
  <2>1. Hand' = Hand
      BY <1>10, SavingMoves DEF Hand
  <2> QED BY <1>10, <2>1, SavingMoves
<1>11. ASSUME NEW v \in VMs, Cancel(v) \/ Break PROVE Places' /\ OneAtATime'
  <2>1. Hand' = Hand
      BY <1>11, CancelMoves DEF Hand
  <2> QED BY <1>11, <2>1, CancelMoves
<1> QED BY <1>1, <1>2, <1>3, <1>4, <1>5, <1>6, <1>7, <1>8, <1>9, <1>10, <1>11,
           ConstantsAssumption
        DEF Next, MainStep, WorkerStep

\* With parallel_limit 1 the results extend the checkpoint and cover the batch.
LEMMA LedgerKeeps ==
    TypeOK /\ Places /\ OneAtATime /\ Ledger /\ [Next]_vars => Ledger'
<1> SUFFICES ASSUME TypeOK, Places, OneAtATime, Ledger, [Next]_vars,
                    limit' = 1, pc' # "off"
             PROVE  Ledger'
    BY DEF Ledger
<1> USE DEF Ledger
<1>1. CASE UNCHANGED vars
    BY <1>1 DEF vars, Hand
<1>2. CASE Begin
  <2>1. /\ limit = 1 /\ pc' = "loop" /\ mode' = "sequential"
        /\ todo' = VMs \ All(disk) /\ disk' = disk
        /\ results' = [ok |-> disk.ok, bad |-> disk.bad]
        /\ running' = running /\ ended' = ended
      BY <1>2 DEF Begin, Remaining, Restored
  <2>2. Hand' = {}
      BY <1>2, <2>1 DEF Begin, OneAtATime, Hand
  <2>3. All(results') = All(disk) /\ All(disk) \subseteq VMs
      BY <2>1 DEF All, TypeOK
  <2> QED BY <2>1, <2>2, <2>3
<1>3. CASE LoopEnds
  <2>1. limit = 1 /\ pc # "off" /\ mode = "sequential"
      BY <1>3 DEF LoopEnds
  <2>2. pc = "loop"
      BY <1>3, <2>1 DEF LoopEnds, OneAtATime
  <2>3. /\ running = {} /\ All(ended) = {} /\ todo = {} /\ todo' = {} /\ running' = {}
        /\ ended' = NoResults /\ results' = results /\ disk' = disk /\ mode' = mode
      BY <1>3, <2>1, <2>2 DEF LoopEnds
  <2>4. All(ended') = {}
      BY <2>3 DEF All, NoResults
  <2>5. Hand = {} /\ Hand' = {}
      BY <2>3, <2>4 DEF Hand
  <2> QED BY <2>1, <2>3, <2>5
<1>4. CASE Report \/ Crash
    BY <1>4 DEF Report, Crash
<1>5. ASSUME NEW v \in VMs, Start(v) PROVE Ledger'
  <2>1. /\ limit = 1 /\ pc # "off" /\ pc' = pc /\ mode' = mode /\ results' = results
        /\ disk' = disk /\ v \in todo /\ todo' = todo \ {v}
        /\ running' = running \union {v} /\ ended' = ended /\ pc # "report"
      BY <1>5 DEF Start, Open
  <2>2. Hand' = Hand \union {v}
      BY <2>1 DEF Hand
  <2> QED BY <2>1, <2>2
<1>6. ASSUME NEW v \in VMs, Finish(v) PROVE Ledger'
  <2>1. /\ limit = 1 /\ pc' = pc /\ mode' = mode /\ results' = results
        /\ disk' = disk /\ todo' = todo
      BY <1>6 DEF Finish
  <2> QED BY <1>6, <2>1, FinishMoves
<1>7. ASSUME NEW v \in VMs, CollectSequential(v) PROVE Ledger'
  <2>1. limit = 1 /\ pc = "loop" /\ v \notin All(results)
      BY <1>7, SequentialMoves DEF CollectSequential
  <2>2. Hand' = {}
      BY <1>7, SequentialMoves DEF Hand
  <2>3. results.bad # {} => results'.bad # {}
      BY <1>7, <2>1, SequentialMoves DEF All
  <2>4. disk'.ok \subseteq results'.ok /\ disk'.bad \subseteq results'.bad
      BY <1>7, SequentialMoves DEF Saved
  <2>5. v \notin todo
      BY <1>7 DEF CollectSequential, Places
  <2>6. /\ Hand = {v} /\ All(results') = All(results) \union {v} /\ mode' = "sequential"
        /\ \/ pc' = "loop" /\ todo' = todo
           \/ pc' = "report" /\ todo' = {} /\ results'.bad # {}
      BY <1>7, SequentialMoves
  <2> QED BY <2>1, <2>2, <2>3, <2>4, <2>5, <2>6
<1>8. ASSUME NEW v \in VMs, CollectParallel(v) \/ SaveParallel(v) \/ Cancel(v) \/ Break
      PROVE  Ledger'
  <2>1. pc \notin {"off", "report"} /\ limit' = limit
        /\ (mode = "parallel" \/ pc \in {"save", "resave", "cancel"})
      BY <1>8, ParallelMoves, SavingMoves, CancelMoves
  <2> QED BY <2>1 DEF OneAtATime
<1> QED BY <1>1, <1>2, <1>3, <1>4, <1>5, <1>6, <1>7, <1>8, ConstantsAssumption
        DEF Next, MainStep, WorkerStep

\* With continue_on_error nothing drops out between the manifest and the report.
LEMMA CoveringKeeps ==
    TypeOK /\ Places /\ OneAtATime /\ Covering /\ [Next]_vars => Covering'
<1> SUFFICES ASSUME TypeOK, Places, OneAtATime, Covering, [Next]_vars
             PROVE  Covering'
    OBVIOUS
<1> USE DEF Covering
<1>0. All(NoResults) = {} /\ runs \in Nat
    BY ConstantsAssumption DEF All, NoResults, TypeOK
<1>1. CASE UNCHANGED vars
    BY <1>1 DEF vars, Hand
<1>2. CASE Begin
  <2>1. /\ runs' = runs + 1 /\ pc' \in {"off", "loop"} /\ collected' = NoResults
        /\ pc' = "loop" => todo' = VMs \ All(disk)
        /\ results' = [ok |-> disk.ok, bad |-> disk.bad]
        /\ running' = running /\ ended' = ended
      BY <1>2 DEF Begin, Remaining, Restored
  <2>2. All(results') = All(disk) /\ All(disk) \subseteq VMs
      BY <2>1 DEF All, TypeOK
  <2>3. Hand' = {}
      BY <1>2, <2>1 DEF Begin, OneAtATime, Hand
  <2>4. runs' = 1 => All(disk) = {}
      BY <1>0, <2>1 DEF All, NoFile
  <2> QED BY <1>0, <2>1, <2>2, <2>3, <2>4
<1>3. CASE LoopEnds
  <2>1. /\ running = {} /\ todo = {} /\ todo' = {} /\ running' = {} /\ All(ended') = {}
        /\ runs' = runs /\ onError' = onError /\ mode' = mode /\ collected' = collected
        /\ pc # "off" /\ (pc = "loop" => All(ended) = {})
        /\ pc' = (IF pc = "unwind" THEN "off" ELSE "report")
        /\ results' = (IF mode = "parallel" THEN collected ELSE results)
        /\ pc \in {"loop", "drain", "unwind"}
      BY <1>0, <1>3 DEF LoopEnds
  <2>2. Hand' = {} /\ (pc = "loop" => Hand = {})
      BY <2>1 DEF Hand
  <2> QED BY <2>1, <2>2
<1>4. CASE Report
  <2>1. pc' = "off" /\ runs' = runs /\ pc = "report"
      BY <1>4 DEF Report
  <2> QED BY <2>1
<1>5. CASE Crash
  <2>1. pc' = "off" /\ runs' = runs /\ pc # "off"
      BY <1>5 DEF Crash
  <2> QED BY <2>1
<1>6. ASSUME NEW v \in VMs, Start(v) PROVE Covering'
  <2>1. /\ v \in todo /\ todo' = todo \ {v} /\ running' = running \union {v}
        /\ pc \notin {"off", "report"}
        /\ UNCHANGED <<onError, pc, mode, ended, collected, results, disk, runs>>
      BY <1>6 DEF Start, Open
  <2>2. Hand' = Hand \union {v}
      BY <2>1 DEF Hand
  <2> QED BY <2>1, <2>2
<1>7. ASSUME NEW v \in VMs, Finish(v) PROVE Covering'
  <2>1. UNCHANGED <<onError, pc, mode, todo, collected, results, disk, runs>>
      BY <1>7 DEF Finish
  <2> QED BY <1>7, <2>1, FinishMoves
<1>8. ASSUME NEW v \in VMs, CollectSequential(v) PROVE Covering'
  <2>1. /\ pc = "loop" /\ mode = "sequential" /\ runs' = runs /\ onError' = onError
        /\ onError => \/ pc' = "loop" /\ todo' = todo
                      \/ pc' = "off"
      BY <1>8 DEF CollectSequential, GoesOn
  <2>2. Hand' = {}
      BY <1>8, SequentialMoves DEF Hand
  <2>3. /\ Hand = {v} /\ All(results') = All(results) \union {v}
        /\ mode' = "sequential"
      BY <1>8, SequentialMoves
  <2> QED BY <2>1, <2>2, <2>3
<1>9. ASSUME NEW v \in VMs, CollectParallel(v) PROVE Covering'
  <2>1. Hand' \union All(collected') = Hand \union All(collected)
      BY <1>9, ParallelMoves DEF Hand
  <2> QED BY <1>9, <2>1, ParallelMoves
<1>10. ASSUME NEW v \in VMs, SaveParallel(v) PROVE Covering'
  <2>1. Hand' = Hand
      BY <1>10, SavingMoves DEF Hand
  <2>2. mode # "sequential"
      BY <1>10, SavingMoves DEF OneAtATime
  <2> QED BY <1>10, <2>1, <2>2, SavingMoves
<1>11. ASSUME NEW v \in VMs, Cancel(v) \/ Break PROVE Covering'
    BY <1>11, CancelMoves
<1> QED BY <1>1, <1>2, <1>3, <1>4, <1>5, <1>6, <1>7, <1>8, <1>9, <1>10, <1>11,
           ConstantsAssumption
        DEF Next, MainStep, WorkerStep

\* The invariant holds in every reachable state.
THEOREM InductiveInvariant == Spec => []IInv
<1>1. Init => IInv
  <2> SUFFICES ASSUME Init PROVE IInv
      OBVIOUS
  <2>1. TypeOK
      BY ConstantsAssumption DEF Init, TypeOK, NoResults, NoFile, Results
  <2>2. Hand = {} /\ All(ended) = {} /\ All(collected) = {}
      BY DEF Init, Hand, All, NoResults
  <2>3. Truth
      BY DEF Init, Truth, NoResults, NoFile
  <2> QED BY <2>1, <2>2, <2>3 DEF Init, IInv, Places, OneAtATime, Ledger, Covering
<1>2. IInv /\ [Next]_vars => IInv'
    BY TypeKeeps, TruthKeeps, PlacesKeep, LedgerKeeps, CoveringKeeps DEF IInv
<1> QED BY <1>1, <1>2, PTL DEF Spec

\* Every reachable state is well typed.
THEOREM TypeCorrect == Spec => []TypeOK
BY InductiveInvariant, PTL DEF IInv

\* A VM the checkpoint or the report names as completed has been converted.
THEOREM CompletedSafety == Spec => []CompletedIsConverted
<1>1. IInv => CompletedIsConverted
    BY DEF IInv, Truth, CompletedIsConverted
<1> QED BY <1>1, InductiveInvariant, PTL

\* No VM is converted by two workers or again in the same run.
THEOREM WorkerSafety == Spec => []OneWorkerPerVM
<1>1. IInv => OneWorkerPerVM
    BY DEF IInv, Places, OneWorkerPerVM
<1> QED BY <1>1, InductiveInvariant, PTL

\* With continue_on_error a report names every VM, sequentially always and from
\* a pool in a first run.
THEOREM ReportSafety == Spec => []ReportCoversBatch
<1>1. IInv => ReportCoversBatch
    BY DEF IInv, Covering, OneAtATime, Ledger, ReportCoversBatch, TypeOK
<1> QED BY <1>1, InductiveInvariant, PTL

\* The checkpoint of a sequential batch never loses a VM while it exists.
THEOREM CheckpointMonotone == Spec => SequentialNeverForgets
<1> DEFINE Grows == limit = 1 /\ disk.exists /\ disk'.exists
                      => disk.ok \subseteq disk'.ok /\ disk.bad \subseteq disk'.bad
<1>1. IInv /\ [Next]_vars => [Grows]_vars
  <2> SUFFICES ASSUME IInv, Next, limit = 1, disk.exists, disk'.exists
               PROVE  disk.ok \subseteq disk'.ok /\ disk.bad \subseteq disk'.bad
      OBVIOUS
  <2> USE DEF IInv
  <2>1. ASSUME NEW v \in VMs, CollectSequential(v)
        PROVE  disk.ok \subseteq disk'.ok /\ disk.bad \subseteq disk'.bad
    <3>1. pc # "off" /\ v \in Hand
        BY <2>1 DEF CollectSequential, Hand
    <3>2. v \notin All(disk) /\ disk.ok \subseteq results.ok /\ disk.bad \subseteq results.bad
        BY <3>1 DEF Ledger, All
    <3>3. results.ok \ {v} \subseteq results'.ok /\ results.bad \ {v} \subseteq results'.bad
        BY <2>1, SequentialMoves
    <3>4. disk' = disk \/ disk' = Saved(results')
        BY <2>1, SequentialMoves
    <3> QED BY <3>2, <3>3, <3>4 DEF Saved, All
  <2>2. ASSUME NEW v \in VMs PROVE ~SaveParallel(v)
      BY DEF SaveParallel, Ledger, OneAtATime
  <2>3. CASE Report
      BY <2>3 DEF Report, NoFile
  <2>4. CASE disk' = disk
      BY <2>4
  <2> QED BY <2>1, <2>2, <2>3, <2>4 DEF Next, MainStep, WorkerStep, Begin, LoopEnds,
             CollectParallel, Cancel, Break, Start, Finish, Crash
<1> QED BY <1>1, InductiveInvariant, PTL DEF Spec, SequentialNeverForgets

\* A sequential batch only drops its checkpoint when every VM is converted.
THEOREM CleanupSafety == Spec => SequentialCleanup
<1>1. IInv /\ [Next]_vars => [limit = 1 => CleanupStep]_vars
  <2> SUFFICES ASSUME IInv, Next, limit = 1, disk.exists, ~disk'.exists
               PROVE  converted = VMs
      BY DEF CleanupStep
  <2>1. Report /\ results.bad = {}
    <3>1. disk' # disk
        OBVIOUS
    <3>2. ASSUME NEW v \in VMs PROVE ~CollectSequential(v) /\ ~SaveParallel(v)
      <4>1. ASSUME NEW r PROVE disk' # Saved(r)
          BY DEF Saved
      <4> QED BY <3>1, <4>1 DEF CollectSequential, SaveParallel
    <3>3. Report
        BY <3>1, <3>2 DEF Next, MainStep, WorkerStep, Begin, LoopEnds, CollectParallel,
                          Cancel, Break, Start, Finish, Crash
    <3> QED BY <3>1, <3>3 DEF Report
  <2>2. pc = "report" /\ Hand = {}
      BY <2>1 DEF Report, IInv, OneAtATime
  <2>3. All(results) = VMs
      BY <2>1, <2>2 DEF IInv, Ledger
  <2>4. results.ok = VMs
      BY <2>1, <2>3 DEF All
  <2> QED BY <2>4 DEF IInv, Truth, TypeOK
<1> QED BY <1>1, InductiveInvariant, PTL DEF Spec, SequentialCleanup

-----------------------------------------------------------------------------
(* Stopping at the first failure.                                          *)

\* Without continue_on_error: the loop goes on only as long as the pool has collected
\* no failure, a failure that is being saved is the only one, the loop is left when
\* nothing waits any more, and a sequential batch records one failure per run at most.
Stopping ==
    ~onError =>
        /\ \A v, w \in collected.bad : v = w
        /\ pc = "loop" => collected.bad = {}
        /\ pc \in {"save", "resave"} => collected.bad \subseteq item \ collected.ok
        /\ \A v, w \in item : v = w
        /\ pc = "drain" => todo = {}
        /\ limit = 1 => /\ Cardinality(disk.bad) <= runs
                        /\ pc = "loop" => Cardinality(results.bad) < runs

\* Failures are counted over subsets of the manifest's VMs.
LEMMA FailuresCounted ==
    ASSUME NEW S \in SUBSET VMs, NEW v \in VMs
    PROVE  /\ Cardinality(S) \in Nat
           /\ Cardinality(S \ {v}) <= Cardinality(S)
           /\ Cardinality(S \union {v}) \in Nat
           /\ Cardinality(S \union {v}) <= Cardinality(S) + 1
<1>1. IsFiniteSet(S)
    BY ConstantsAssumption, FS_Subset
<1>2. Cardinality(S) \in Nat
    BY <1>1, FS_CardinalityType
<1>3. Cardinality(S \ {v}) <= Cardinality(S)
    BY <1>1, FS_Subset
<1>4. /\ Cardinality(S \union {v}) \in Nat
      /\ Cardinality(S \union {v}) <= Cardinality(S) + 1
    BY <1>1, <1>2, FS_AddElement
<1> QED BY <1>2, <1>3, <1>4

\* The main thread stops at the first failure it sees.
LEMMA StoppingKeeps == IInv /\ Stopping /\ [Next]_vars => Stopping'
<1> SUFFICES ASSUME IInv, Stopping, [Next]_vars, ~onError'
             PROVE  Stopping'
    BY DEF Stopping
<1>t. /\ runs \in Nat
      /\ Cardinality(disk.bad) \in Nat /\ Cardinality(results.bad) \in Nat
      /\ results.bad \in SUBSET VMs
  <2>1. disk.bad \in SUBSET VMs /\ results.bad \in SUBSET VMs
      BY DEF IInv, TypeOK, Results
  <2>2. Cardinality(disk.bad) \in Nat /\ Cardinality(results.bad) \in Nat
      BY <2>1, ConstantsAssumption, FailuresCounted
  <2> QED BY <2>1, <2>2, ConstantsAssumption DEF IInv, TypeOK
<1>0. ~onError /\ limit' = limit
  <2>1. UNCHANGED <<limit, onError>>
    BY DEF Next, MainStep, WorkerStep, Begin, Break, LoopEnds, Report, Crash, Start, Finish,
           CollectSequential, CollectParallel, SaveParallel, Cancel, vars
  <2> QED BY <2>1
<1>s. /\ \A v, w \in collected.bad : v = w
      /\ pc = "loop" => collected.bad = {}
      /\ pc \in {"save", "resave"} => collected.bad \subseteq item \ collected.ok
      /\ \A v, w \in item : v = w
      /\ pc = "drain" => todo = {}
      /\ limit = 1 => /\ Cardinality(disk.bad) <= runs
                      /\ pc = "loop" => Cardinality(results.bad) < runs
    BY <1>0 DEF Stopping
<1> USE DEF Stopping
<1>1. CASE UNCHANGED vars
    BY <1>1, <1>s DEF vars
<1>2. CASE Begin
  <2>1. /\ runs' = runs + 1 /\ disk' = disk /\ pc' \in {"off", "loop"}
        /\ collected'.bad = {} /\ results'.bad = disk.bad /\ item' = item
      BY <1>2 DEF Begin, Restored, NoResults
  <2> QED BY <1>0, <1>s, <1>t, <2>1
<1>3. CASE LoopEnds \/ Crash
  <2>1. /\ disk' = disk /\ runs' = runs /\ pc' \in {"report", "off"}
        /\ item' \subseteq item /\ collected'.bad \subseteq collected.bad
      BY <1>3 DEF LoopEnds, Crash, NoResults
  <2> QED BY <1>0, <1>s, <2>1
<1>4. CASE Report
  <2>1. /\ runs' = runs /\ pc' = "off" /\ disk'.bad \in {disk.bad, {}}
        /\ item' = item /\ collected' = collected
      BY <1>4 DEF Report, NoFile
  <2>2. Cardinality({}) = 0
      BY FS_EmptySet
  <2> QED BY <1>0, <1>s, <1>t, <2>1, <2>2
<1>5. ASSUME NEW v \in VMs, Start(v) \/ Finish(v) PROVE Stopping'
  <2>1. /\ UNCHANGED <<pc, collected, item, disk, runs, results>>
        /\ todo' \subseteq todo
      BY <1>5 DEF Start, Finish
  <2> QED BY <1>0, <1>s, <2>1
<1>6. ASSUME NEW v \in VMs, CollectSequential(v) PROVE Stopping'
  <2> DEFINE good == v \in ended.ok
             r == Add(results, v, good)
  <2>1. /\ pc = "loop" /\ results' = r /\ runs' = runs
        /\ collected' = collected /\ item' = item
        /\ \/ disk'.bad = r.bad /\ pc' = IF good THEN "loop" ELSE "report"
           \/ disk' = disk /\ pc' = "off"
      BY <1>0, <1>6 DEF CollectSequential, Saved, GoesOn
  <2>2. r.bad = IF good THEN results.bad \ {v} ELSE results.bad \union {v}
      BY DEF Add
  <2>3. /\ Cardinality(results.bad \ {v}) <= Cardinality(results.bad)
        /\ Cardinality(results.bad \ {v}) \in Nat
        /\ Cardinality(results.bad \union {v}) \in Nat
        /\ Cardinality(results.bad \union {v}) <= Cardinality(results.bad) + 1
      BY <1>t, FailuresCounted
  <2> HIDE DEF r, good
  <2> QED BY <1>0, <1>s, <1>t, <2>1, <2>2, <2>3
<1>7. ASSUME NEW v \in VMs, CollectParallel(v) PROVE Stopping'
  <2>1. limit # 1
      BY <1>7 DEF CollectParallel, IInv, Ledger
  <2>2. /\ pc = "loop" /\ pc' = "save" /\ item' = {v}
        /\ collected' = Add(collected, v, v \in ended.ok)
      BY <1>7 DEF CollectParallel
  <2>3. collected'.bad \subseteq {v} \ collected'.ok
      BY <1>s, <2>2 DEF Add
  <2> QED BY <1>0, <2>1, <2>2, <2>3
<1>8. ASSUME NEW v \in VMs, SaveParallel(v) PROVE Stopping'
  <2>1. limit # 1
      BY <1>8 DEF SaveParallel, IInv, Ledger, OneAtATime
  <2>2. /\ pc \in {"save", "resave"} /\ v \in item /\ item' \subseteq item
        /\ \/ /\ collected' = collected
              /\ pc' = "loop" => v \in collected.ok
              /\ pc' \in {"loop", "cancel", "unwind"}
           \/ /\ collected' = Add(collected, v, FALSE)
              /\ pc' = "resave" /\ item' = item
      BY <1>0, <1>8 DEF SaveParallel, GoesOn
  <2>3. /\ Add(collected, v, FALSE).ok = collected.ok \ {v}
        /\ Add(collected, v, FALSE).bad = collected.bad \union {v}
      BY DEF Add
  <2>4. item = {v} /\ collected.bad \subseteq {v} \ collected.ok /\ limit' # 1
      BY <1>0, <1>s, <2>1, <2>2
  <2>5. CASE collected' = collected /\ pc' \in {"loop", "cancel", "unwind"}
      BY <2>2, <2>4, <2>5
  <2>6. CASE collected' = Add(collected, v, FALSE) /\ pc' = "resave" /\ item' = item
    <3>1. collected'.bad = {v} /\ v \notin collected'.ok /\ item' = {v}
        BY <2>3, <2>4, <2>6
    <3> QED BY <2>4, <2>6, <3>1
  <2> QED BY <2>2, <2>5, <2>6
<1>9. ASSUME NEW v \in VMs, Cancel(v) \/ Break PROVE Stopping'
  <2>1. limit # 1
      BY <1>9, CancelMoves DEF IInv, Ledger, OneAtATime
  <2> QED BY <1>0, <1>s, <1>9, <2>1, CancelMoves
<1> QED BY <1>1, <1>2, <1>3, <1>4, <1>5, <1>6, <1>7, <1>8, <1>9, ConstantsAssumption
        DEF Next, MainStep, WorkerStep

\* Without continue_on_error a run stops at the first failure the main thread has
\* seen: one after the other at once, over any number of resumed runs; in the pool
\* when it has saved the checkpoint and cancelled what waits, future by future.
THEOREM StopSafety == Spec => StopsOnError
<1> DEFINE Step == ~onError /\ ~(running' \subseteq running)
                     => /\ \/ collected.bad = {}
                           \/ pc \in {"save", "resave", "cancel", "unwind"}
                        /\ \A v, w \in collected.bad : v = w
                        /\ limit = 1 => Cardinality(results.bad) < runs
<1>1. Init => Stopping
    BY ConstantsAssumption, FS_EmptySet DEF Init, Stopping, NoFile, NoResults
<1>2. IInv /\ Stopping /\ [Next]_vars => Stopping'
    BY StoppingKeeps
<1>3. IInv /\ Stopping /\ [Next]_vars => [Step]_vars
  <2> SUFFICES ASSUME IInv, Stopping, Next, ~onError, ~(running' \subseteq running)
               PROVE  Step
      OBVIOUS
  <2>1. PICK v \in VMs : Start(v)
      BY DEF Next, MainStep, WorkerStep, Begin, LoopEnds, Report, Crash, Finish,
             CollectSequential, CollectParallel, SaveParallel, Cancel, Break
  <2>2. pc \in Open /\ v \in todo
      BY <2>1 DEF Start
  <2>3. limit = 1 => pc = "loop"
      BY <2>2 DEF Open, IInv, Ledger, OneAtATime
  <2> QED BY <2>2, <2>3 DEF Stopping, Open
<1> QED BY <1>1, <1>2, <1>3, InductiveInvariant, PTL DEF Spec, StopsOnError

=============================================================================
