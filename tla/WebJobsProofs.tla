---------------------------- MODULE WebJobsProofs ----------------------------
(***************************************************************************)
(* Proofs about the job manager, for every set of jobs, every channel      *)
(* capacity and any number of cancellations.                               *)
(*                                                                         *)
(* Neither property is inductive: both follow from where the exit code is. *)
(* It is in the process first, then also in the channel as Done, and then  *)
(* in the status; Handover relates the three to the two goroutines.        *)
(***************************************************************************)
EXTENDS WebJobs, TLAPS

\* Before registration there is no map entry, no goroutine and no event.
Quiet(j) == ~reg[j] /\ stream[j] = "none" /\ chan[j] = EmptyChan

Handover(j) ==
    /\ status[j] = "none" <=> exec[j] = "none"
    /\ exec[j] \in {"none", "ready", "running"} => Quiet(j) /\ proc[j] = "none"
    /\ exec[j] \in {"none", "ready", "running", "started"} =>
          Quiet(j) /\ status[j] \notin {"Completed", "Failed"}
    /\ exec[j] = "events" => stream[j] # "none"
    /\ stream[j] = "reading" =>
          exec[j] = "events" /\ chan[j].done = "none"
          /\ status[j] \notin {"Completed", "Failed"}
    /\ stream[j] \in {"sent", "removed", "closed"} =>
          /\ proc[j] \in {"ok", "bad"}
          /\ chan[j].done = "none" => status[j] \in Final
    /\ stream[j] \in {"removed", "closed"} => ~reg[j]
    /\ exec[j] = "ended" =>
          /\ stream[j] \in {"none", "closed"} /\ ~reg[j] /\ chan[j] = EmptyChan
          /\ stream[j] = "none" => proc[j] = "none" /\ status[j] \in Final

IInv == TypeOK /\ \A j \in Jobs : Handover(j)

\* The types are kept by every step.
LEMMA TypeKeeps == TypeOK /\ [Next]_vars => TypeOK'
<1> SUFFICES ASSUME TypeOK, [Next]_vars PROVE TypeOK'
    OBVIOUS
<1> USE ConstantsAssumption DEF TypeOK
<1>1. CASE UNCHANGED vars
    BY <1>1 DEF vars
<1>2. CASE Shutdown
    BY <1>2 DEF Shutdown
<1>3. ASSUME NEW j \in Jobs, JobStep(j) PROVE TypeOK'
  <2> USE <1>3
  <2>1. CASE Submit(j)
      BY <2>1 DEF Submit, Statuses, Final
  <2>2. CASE ExecuteBegin(j)
      BY <2>2 DEF ExecuteBegin, Statuses, Final
  <2>3. CASE RunStart(j)
      BY <2>3 DEF RunStart
  <2>4. CASE RunFails(j)
      BY <2>4 DEF RunFails, Statuses, Final
  <2>5. CASE RunRegister(j)
      BY <2>5 DEF RunRegister
  <2>6. CASE TakeOutput(j)
      BY <2>6 DEF TakeOutput
  <2>7. CASE TakeDone(j)
      BY <2>7 DEF TakeDone, DoneStatus, Statuses, Final
  <2>8. CASE ExecuteEnd(j)
      BY <2>8 DEF ExecuteEnd
  <2>9. CASE CancelMark(j)
      BY <2>9 DEF CancelMark, Statuses, Final
  <2>10. CASE CancelStop(j)
      BY <2>10 DEF CancelStop
  <2>11. CASE Exit(j)
      BY <2>11 DEF Exit
  <2>12. CASE Kill(j)
      BY <2>12 DEF Kill
  <2>13. CASE Output(j)
      BY <2>13 DEF Output
  <2>14. CASE SendDone(j)
      BY <2>14 DEF SendDone
  <2>15. CASE Close(j)
      BY <2>15 DEF Close
  <2>16. CASE CtxKill(j)
      BY <2>16 DEF CtxKill
  <2>17. CASE Unregister(j)
      BY <2>17 DEF Unregister
  <2> QED BY <2>1, <2>2, <2>3, <2>4, <2>5, <2>6, <2>7, <2>8, <2>9, <2>10, <2>11,
             <2>12, <2>13, <2>14, <2>15, <2>16, <2>17
             DEF JobStep, ExecuteStep, StreamStep
<1> QED BY <1>1, <1>2, <1>3 DEF Next

\* A step of job j leaves what Handover says of another job alone.
LEMMA OtherJobs ==
    ASSUME TypeOK, NEW j \in Jobs, JobStep(j), NEW k \in Jobs, k # j, Handover(k)
    PROVE  Handover(k)'
<1>1. /\ status'[k] = status[k] /\ exec'[k] = exec[k] /\ proc'[k] = proc[k]
      /\ reg'[k] = reg[k] /\ stream'[k] = stream[k] /\ chan'[k] = chan[k]
    BY DEF TypeOK, JobStep, ExecuteStep, StreamStep, Submit, ExecuteBegin, RunStart,
           RunFails, RunRegister, TakeOutput, TakeDone, ExecuteEnd, CancelMark,
           CancelStop, Exit, Kill, Output, SendDone, Unregister, Close,
           CtxKill
<1> QED BY <1>1 DEF Handover, Quiet

\* A step of job j keeps its own Handover.
LEMMA OwnJob ==
    ASSUME TypeOK, NEW j \in Jobs, JobStep(j), Handover(j)
    PROVE  Handover(j)'
<1> USE ConstantsAssumption DEF TypeOK, Handover, Quiet
<1>1. CASE Submit(j)
    BY <1>1 DEF Submit
<1>2. CASE ExecuteBegin(j)
    BY <1>2 DEF ExecuteBegin
<1>3. CASE RunStart(j)
    BY <1>3 DEF RunStart
<1>4. CASE RunFails(j)
    BY <1>4 DEF RunFails, Final
<1>5. CASE RunRegister(j)
    BY <1>5 DEF RunRegister, EmptyChan
<1>6. CASE TakeOutput(j)
    BY <1>6 DEF TakeOutput, EmptyChan
<1>7. CASE TakeDone(j)
    BY <1>7 DEF TakeDone, DoneStatus, Final
<1>8. CASE ExecuteEnd(j)
    BY <1>8 DEF ExecuteEnd
<1>9. CASE CancelMark(j)
    BY <1>9 DEF CancelMark, Final
<1>10. CASE CancelStop(j)
    BY <1>10 DEF CancelStop
<1>11. CASE Exit(j)
    BY <1>11 DEF Exit
<1>12. CASE Kill(j)
    BY <1>12 DEF Kill
<1>13. CASE Output(j)
    BY <1>13 DEF Output
<1>14. CASE SendDone(j)
    BY <1>14 DEF SendDone
<1>15. CASE Close(j)
    BY <1>15 DEF Close
<1>16. CASE CtxKill(j)
    BY <1>16 DEF CtxKill
<1>17. CASE Unregister(j)
    BY <1>17 DEF Unregister
<1> QED BY <1>1, <1>2, <1>3, <1>4, <1>5, <1>6, <1>7, <1>8, <1>9, <1>10, <1>11,
           <1>12, <1>13, <1>14, <1>15, <1>16, <1>17
           DEF JobStep, ExecuteStep, StreamStep

\* The handover of the exit code holds in every reachable state.
THEOREM InductiveInvariant == Spec => []IInv
<1>1. Init => IInv
  <2> SUFFICES ASSUME Init PROVE IInv
      OBVIOUS
  <2>1. TypeOK
    <3>1. EmptyChan \in [n : Nat, done : {"none", "ok", "bad"}]
        BY DEF EmptyChan
    <3>2. out \in [Jobs -> 0..MaxOut] /\ cancels \in [Jobs -> 0..MaxCancels]
        BY ConstantsAssumption DEF Init
    <3> QED BY <3>1, <3>2 DEF Init, TypeOK, Statuses
  <2>2. \A j \in Jobs : Handover(j)
      BY DEF Init, Handover, Quiet
  <2> QED BY <2>1, <2>2 DEF IInv
<1>2. IInv /\ [Next]_vars => IInv'
  <2> SUFFICES ASSUME IInv, [Next]_vars PROVE IInv'
      OBVIOUS
  <2>1. TypeOK'
      BY TypeKeeps DEF IInv
  <2>2. ASSUME NEW k \in Jobs PROVE Handover(k)'
    <3>1. CASE UNCHANGED vars \/ Shutdown
        BY <2>2, <3>1 DEF IInv, vars, Shutdown, Handover, Quiet
    <3>2. ASSUME NEW j \in Jobs, JobStep(j) PROVE Handover(k)'
        BY <2>2, <3>2, OtherJobs, OwnJob DEF IInv
    <3> QED BY <3>1, <3>2 DEF Next
  <2> QED BY <2>1, <2>2 DEF IInv
<1> QED BY <1>1, <1>2, PTL DEF Spec

\* Every reachable state is well typed.
THEOREM TypeCorrect == Spec => []TypeOK
BY InductiveInvariant, PTL DEF IInv

\* No job is reported Completed or Failed while its process runs.
THEOREM OutcomeSafety == Spec => []OutcomeMeansExited
<1>1. IInv => OutcomeMeansExited
  <2> SUFFICES ASSUME IInv, NEW j \in Jobs, status[j] \in {"Completed", "Failed"}
               PROVE  proc[j] # "alive"
      BY DEF OutcomeMeansExited
  <2> QED BY DEF IInv, TypeOK, Handover
<1> QED BY <1>1, InductiveInvariant, PTL

\* A job whose goroutine has ended is settled and leaves nothing behind.
THEOREM EndSafety == Spec => []EndedMeansSettled
<1>1. IInv => EndedMeansSettled
  <2> SUFFICES ASSUME IInv, NEW j \in Jobs, exec[j] = "ended"
               PROVE  /\ status[j] \in Final
                      /\ proc[j] # "alive" /\ ~reg[j]
                      /\ chan[j] = EmptyChan
      BY DEF EndedMeansSettled
  <2> QED BY DEF IInv, TypeOK, Handover, EmptyChan
<1> QED BY <1>1, InductiveInvariant, PTL

=============================================================================
