--------------------------- MODULE WorkerApiProofs ---------------------------
(***************************************************************************)
(* Proofs about WorkerApi: at-most-once delivery, and the refinement of    *)
(* Dispatch, for any number of processes, workers, jobs and restarts.      *)
(***************************************************************************)
EXTENDS WorkerApi, TLAPS

Live == {"QUEUED", "ASSIGNED"}
Holds(s, j) == op[s] \in {"unlink", "hand"} /\ job[s] = j

\* A process that is down has nothing in memory.
DownIsEmpty ==
    \A s \in Servers : ~up[s] =>
        /\ op[s] = "idle" /\ queue[s] = {}
        /\ \A j \in Jobs : sm[s][j] = "none"

\* The state files say VALIDATED, for the submitted jobs and no others.
DiskStates ==
    \A j \in Jobs :
        stateFile[j] = IF j \in submitted THEN "VALIDATED" ELSE "none"

\* Only accepted jobs are in queues, in queue files and in the hands of a
\* handler; a job that is being enqueued is not accepted yet, and by one
\* process only.
AcceptedFirst ==
    /\ accepted \subseteq submitted /\ queueFiles \subseteq accepted
    /\ \A s \in Servers :
          /\ queue[s] \subseteq accepted
          /\ op[s] \in {"unlink", "hand"} => job[s] \in accepted \ queue[s]
          /\ op[s] = "enqueue" => job[s] \in submitted \ accepted
          /\ op[s] = "hand" => job[s] \notin queueFiles
    /\ \A s, t \in Servers :
          op[s] = "enqueue" /\ op[t] = "enqueue" /\ job[s] = job[t] => s = t

\* At most one process has a job as QUEUED or ASSIGNED.  While it is QUEUED
\* nobody has got it; once it is ASSIGNED that process does not hold it.
OneOwner ==
    \A j \in Jobs, s \in Servers :
        /\ sm[s][j] \in {"none", "VALIDATED", "CANCELLED"} \union Live
        /\ sm[s][j] \in Live =>
              /\ j \in accepted
              /\ \A t \in Servers : sm[t][j] \in Live => s = t
        /\ sm[s][j] = "QUEUED" => handed[j] = 0
        /\ sm[s][j] = "ASSIGNED" => j \notin queue[s] /\ ~Holds(s, j)

HandedOnce ==
    \A j \in Jobs : /\ handed[j] <= 1
                    /\ handed[j] > 0 => j \in accepted \ queueFiles

\* A job cancelled as QUEUED was not handed out and nobody owns it.
CancelFinal ==
    \A j \in Jobs : <<j, "QUEUED">> \in cancelled =>
        /\ j \in accepted /\ handed[j] = 0
        /\ \A s \in Servers : sm[s][j] \notin Live

IInv == TypeOK /\ DownIsEmpty /\ DiskStates /\ AcceptedFirst /\ OneOwner
        /\ HandedOnce /\ CancelFinal

-----------------------------------------------------------------------------

\* What the transition table says of ASSIGNED.
LEMMA AssignedFrom ==
    /\ \A st \in {"VALIDATED", "CANCELLED"} : ~can_transition(st, "ASSIGNED")
    /\ \A st \in Live : can_transition(st, "ASSIGNED")
BY DEF can_transition, TRANSITIONS, Live

\* What Hand does when the invariant holds: the job goes out exactly when the
\* process has it as QUEUED.
LEMMA HandStep ==
    ASSUME IInv, NEW s \in Servers, Hand(s)
    PROVE  /\ job[s] \in Jobs
           /\ job[s] \in accepted
           /\ \/ /\ sm[s][job[s]] = "QUEUED"
                 /\ sm' = [sm EXCEPT ![s][job[s]] = "ASSIGNED"]
                 /\ handed' = [handed EXCEPT ![job[s]] = @ + 1]
              \/ /\ sm[s][job[s]] # "QUEUED"
                 /\ \E st \in {"VALIDATED", "CANCELLED"} :
                       sm' = [sm EXCEPT ![s][job[s]] = st]
                 /\ handed' = handed
<1> DEFINE j == job[s]
<1>1. op[s] = "hand" /\ j \in Jobs /\ j \in accepted
  BY DEF Hand, IInv, TypeOK, AcceptedFirst
<1>2. stateFile[j] = "VALIDATED"
  BY <1>1 DEF IInv, DiskStates, AcceptedFirst
<1>3. sm[s][j] \in {"none", "VALIDATED", "CANCELLED", "QUEUED"}
  BY <1>1 DEF IInv, OneOwner, Holds, Live
<1>4. CASE sm[s][j] = "QUEUED"
  <2>1. Known(s, j) = "QUEUED"
    BY <1>4 DEF Known
  <2>2. can_transition("QUEUED", "ASSIGNED")
    BY AssignedFrom DEF Live
  <2> QED BY <1>1, <1>4, <2>1, <2>2 DEF Hand, SetState
<1>5. CASE sm[s][j] # "QUEUED"
  <2>1. Known(s, j) \in {"VALIDATED", "CANCELLED"}
    BY <1>2, <1>3, <1>5 DEF Known
  <2>2. ~can_transition(Known(s, j), "ASSIGNED")
    BY <2>1, AssignedFrom
  <2> QED BY <1>1, <1>5, <2>1, <2>2 DEF Hand, SetState
<1> QED BY <1>4, <1>5

\* The types and the parts of the invariant hold initially.
LEMMA InitInv == Init => IInv
BY ConstantsAssumption
   DEF Init, IInv, TypeOK, DownIsEmpty, DiskStates, AcceptedFirst, OneOwner,
       HandedOnce, CancelFinal, JobStates, Live, Holds

\* Every step preserves the types.
LEMMA TypeStep == ASSUME IInv, [Next]_vars PROVE TypeOK'
<1>0. ASSUME NEW s \in Servers, Hand(s)
      PROVE  /\ sm' \in [Servers -> [Jobs -> JobStates \union {"none"}]]
             /\ handed' \in [Jobs -> Nat]
  <2>1. /\ sm \in [Servers -> [Jobs -> JobStates \union {"none"}]]
        /\ handed \in [Jobs -> Nat]
    BY DEF IInv, TypeOK
  <2>2. {"ASSIGNED", "VALIDATED", "CANCELLED"} \subseteq JobStates
    BY DEF JobStates, Terminal
  <2> QED BY <1>0, <2>1, <2>2, HandStep
<1> USE ConstantsAssumption DEF IInv, TypeOK, JobStates, Goto, SetState
<1>1. ASSUME NEW s \in Servers, Start(s) PROVE TypeOK'
  BY <1>1 DEF Start
<1>2. ASSUME NEW s \in Servers, Stop(s) PROVE TypeOK'
  BY <1>2 DEF Stop
<1>3. ASSUME NEW s \in Servers, Enqueue(s) PROVE TypeOK'
  BY <1>3 DEF Enqueue
<1>4. ASSUME NEW s \in Servers, Unlink(s) PROVE TypeOK'
  BY <1>4 DEF Unlink
<1>5. ASSUME NEW s \in Servers, Hand(s) PROVE TypeOK'
  BY <1>0, <1>5 DEF Hand
<1>6. ASSUME NEW s \in Servers, NEW w \in Workers, Dequeue(s, w) PROVE TypeOK'
  BY <1>6 DEF Dequeue, FirstMatching, Matching
<1>7. ASSUME NEW s \in Servers, NEW j \in Jobs, Cancel(s, j) PROVE TypeOK'
  <2>1. Known(s, j) \in JobStates
    BY <1>7 DEF Cancel, Known
  <2> QED BY <1>7, <2>1 DEF Cancel, Terminal
<1>8. ASSUME NEW s \in Servers, NEW j \in Jobs, Lookup(s, j) PROVE TypeOK'
  BY <1>8 DEF Lookup
<1>9. ASSUME NEW s \in Servers, NEW j \in Jobs,
             NEW then \in {"idle", "enqueue"}, Submit(s, j, then)
      PROVE  TypeOK'
  BY <1>9 DEF Submit
<1>10. CASE UNCHANGED vars
  BY <1>10 DEF vars
<1> QED BY <1>1, <1>2, <1>3, <1>4, <1>5, <1>6, <1>7, <1>8, <1>9, <1>10 DEF Next

\* A step with job j of process s changes none of the parts for other jobs;
\* the steps below are the actions one by one.
LEMMA InvStep == ASSUME IInv, [Next]_vars PROVE IInv'
<1>0. TypeOK' BY TypeStep
<1> DEFINE Parts == DownIsEmpty /\ DiskStates /\ AcceptedFirst /\ OneOwner
                    /\ HandedOnce /\ CancelFinal
<1>1. ASSUME NEW s \in Servers, Start(s) PROVE Parts'
  BY <1>1 DEF IInv, TypeOK, Start, DownIsEmpty, DiskStates, AcceptedFirst,
              OneOwner, HandedOnce, CancelFinal, Live, Holds
<1>2. ASSUME NEW s \in Servers, Stop(s) PROVE Parts'
  BY <1>2 DEF IInv, TypeOK, Stop, Goto, DownIsEmpty, DiskStates, AcceptedFirst,
              OneOwner, HandedOnce, CancelFinal, Live, Holds
<1>3. ASSUME NEW s \in Servers, Enqueue(s) PROVE Parts'
  <2> USE <1>3 DEF IInv, TypeOK, Enqueue, Goto, SetState
  <2>1. job[s] \in Jobs /\ job[s] \notin accepted
    BY DEF AcceptedFirst
  <2>2. DownIsEmpty' /\ DiskStates' /\ AcceptedFirst'
    BY <2>1 DEF DownIsEmpty, DiskStates, AcceptedFirst
  <2>3. OneOwner'
    BY <2>1 DEF OneOwner, HandedOnce, Live, Holds
  <2>4. HandedOnce' /\ CancelFinal'
    BY <2>1 DEF HandedOnce, CancelFinal, Live
  <2> QED BY <2>2, <2>3, <2>4
<1>4. ASSUME NEW s \in Servers, Unlink(s) PROVE Parts'
  <2> USE <1>4 DEF IInv, TypeOK, Unlink, Goto
  <2>1. job[s] \in Jobs /\ job[s] \in accepted \ queue[s]
    BY DEF AcceptedFirst
  <2>2. DownIsEmpty' /\ DiskStates' /\ CancelFinal'
    BY DEF DownIsEmpty, DiskStates, CancelFinal
  <2>3. AcceptedFirst'
    <3>1. queueFiles' \subseteq queueFiles
      OBVIOUS
    <3>2. \A t \in Servers : t # s => op'[t] = op[t] /\ job'[t] = job[t]
      OBVIOUS
    <3>3. op'[s] = "idle" \/ (op'[s] = "hand" /\ job'[s] = job[s]
                              /\ job[s] \notin queueFiles')
      OBVIOUS
    <3>4. \A t \in Servers :
             /\ queue'[t] \subseteq accepted'
             /\ op'[t] \in {"unlink", "hand"} => job'[t] \in accepted' \ queue'[t]
             /\ op'[t] = "enqueue" => job'[t] \in submitted' \ accepted'
             /\ op'[t] = "hand" => job'[t] \notin queueFiles'
      BY <2>1, <3>1, <3>2, <3>3 DEF AcceptedFirst
    <3>5. \A t, u \in Servers :
             op'[t] = "enqueue" /\ op'[u] = "enqueue" /\ job'[t] = job'[u]
                => t = u
      BY <3>2, <3>3 DEF AcceptedFirst
    <3>6. accepted' \subseteq submitted' /\ queueFiles' \subseteq accepted'
      BY <3>1 DEF AcceptedFirst
    <3> QED BY <3>4, <3>5, <3>6 DEF AcceptedFirst
  <2>4. OneOwner'
    BY DEF OneOwner, Live, Holds
  <2>5. HandedOnce'
    BY DEF HandedOnce
  <2> QED BY <2>2, <2>3, <2>4, <2>5
<1>5. ASSUME NEW s \in Servers, Hand(s) PROVE Parts'
  <2>0. /\ job[s] \in Jobs
        /\ job[s] \in accepted
        /\ \/ /\ sm[s][job[s]] = "QUEUED"
              /\ sm' = [sm EXCEPT ![s][job[s]] = "ASSIGNED"]
              /\ handed' = [handed EXCEPT ![job[s]] = @ + 1]
           \/ /\ sm[s][job[s]] # "QUEUED"
              /\ \E st \in {"VALIDATED", "CANCELLED"} :
                    sm' = [sm EXCEPT ![s][job[s]] = st]
              /\ handed' = handed
    BY <1>5, HandStep
  <2>1. /\ op[s] = "hand" /\ op' = [op EXCEPT ![s] = "idle"]
        /\ job' = [job EXCEPT ![s] = NoJob]
        /\ UNCHANGED <<up, queue, stateFile, queueFiles, submitted, accepted,
                       cancelled>>
    BY <1>5 DEF Hand, Goto
  <2>2. DownIsEmpty' /\ DiskStates' /\ AcceptedFirst'
    BY <2>0, <2>1
       DEF IInv, TypeOK, DownIsEmpty, DiskStates, AcceptedFirst
  <2>3. CASE sm[s][job[s]] = "QUEUED"
    <3> DEFINE j == job[s]
    <3>1. /\ sm' = [sm EXCEPT ![s][j] = "ASSIGNED"]
          /\ handed' = [handed EXCEPT ![j] = @ + 1]
      BY <2>0, <2>3
    <3>2. handed[j] = 0 /\ \A t \in Servers : t # s => sm[t][j] \notin Live
      BY <2>0, <2>3 DEF IInv, OneOwner, Live
    <3>3. j \notin queue[s] /\ j \notin queueFiles
      BY <2>1 DEF IInv, AcceptedFirst
    <3>4. \A t \in Servers, k \in Jobs :
             /\ sm'[t][k] = IF t = s /\ k = j THEN "ASSIGNED" ELSE sm[t][k]
             /\ handed'[k] = IF k = j THEN 1 ELSE handed[k]
      BY <2>0, <3>1, <3>2 DEF IInv, TypeOK
    <3>5. \A t \in Servers : t # s => op'[t] = op[t] /\ job'[t] = job[t]
      BY <2>1 DEF IInv, TypeOK
    <3>6. op'[s] = "idle"
      BY <2>1 DEF IInv, TypeOK
    <3>7. OneOwner'
      <4> SUFFICES ASSUME NEW k \in Jobs, NEW t \in Servers
                   PROVE  /\ sm'[t][k] \in {"none", "VALIDATED", "CANCELLED"}
                                              \union Live
                          /\ sm'[t][k] \in Live =>
                                /\ k \in accepted'
                                /\ \A u \in Servers : sm'[u][k] \in Live => t = u
                          /\ sm'[t][k] = "QUEUED" => handed'[k] = 0
                          /\ sm'[t][k] = "ASSIGNED" =>
                                k \notin queue'[t] /\ ~Holds(t, k)'
        BY DEF OneOwner, Live
      <4>1. CASE k = j /\ t = s
        BY <2>0, <2>1, <3>2, <3>3, <3>4, <3>6, <4>1 DEF Live, Holds
      <4>2. CASE k = j /\ t # s
        BY <2>0, <2>1, <3>2, <3>4, <4>2 DEF IInv, OneOwner, Live
      <4>3. CASE k # j
        BY <2>0, <2>1, <3>4, <3>5, <3>6, <4>3 DEF IInv, OneOwner, Live, Holds
      <4> QED BY <4>1, <4>2, <4>3
    <3>8. HandedOnce'
      BY <2>0, <2>1, <3>3, <3>4 DEF IInv, HandedOnce
    <3>9. CancelFinal'
      BY <2>0, <2>1, <2>3, <3>4 DEF IInv, CancelFinal, Live
    <3> QED BY <2>2, <3>7, <3>8, <3>9
  <2>4. CASE sm[s][job[s]] # "QUEUED"
    <3>1. PICK st \in {"VALIDATED", "CANCELLED"} :
             sm' = [sm EXCEPT ![s][job[s]] = st]
      BY <2>0, <2>4
    <3>2. OneOwner'
      BY <2>0, <2>1, <2>4, <3>1
         DEF IInv, TypeOK, OneOwner, AcceptedFirst, Live, Holds
    <3>3. HandedOnce' /\ CancelFinal'
      BY <2>0, <2>1, <2>4, <3>1
         DEF IInv, TypeOK, HandedOnce, CancelFinal, Live
    <3> QED BY <2>2, <3>2, <3>3
  <2> QED BY <2>3, <2>4
<1>6. ASSUME NEW s \in Servers, NEW w \in Workers, Dequeue(s, w) PROVE Parts'
  BY <1>6 DEF IInv, TypeOK, Dequeue, FirstMatching, Matching, Idle, Goto,
              DownIsEmpty, DiskStates, AcceptedFirst, OneOwner, HandedOnce,
              CancelFinal, Live, Holds
<1>7. ASSUME NEW s \in Servers, NEW j \in Jobs, Cancel(s, j) PROVE Parts'
  <2>1. sm[s][j] = "QUEUED" <=> Known(s, j) = "QUEUED"
    BY DEF IInv, DiskStates, Known
  <2> QED
    BY <1>7, <2>1 DEF IInv, TypeOK, Cancel, SetState, Idle, DownIsEmpty,
       DiskStates, AcceptedFirst, OneOwner, HandedOnce, CancelFinal, Live, Holds
<1>8. ASSUME NEW s \in Servers, NEW j \in Jobs, Lookup(s, j) PROVE Parts'
  BY <1>8 DEF IInv, TypeOK, Lookup, SetState, Idle, DownIsEmpty, DiskStates,
              AcceptedFirst, OneOwner, HandedOnce, CancelFinal, Live, Holds
<1>9. ASSUME NEW s \in Servers, NEW j \in Jobs,
             NEW then \in {"idle", "enqueue"}, Submit(s, j, then)
      PROVE  Parts'
  <2> USE <1>9 DEF IInv, TypeOK, Submit, SetState, Goto, Idle
  <2>1. DownIsEmpty' /\ DiskStates'
    BY DEF DownIsEmpty, DiskStates
  <2>2. AcceptedFirst'
    BY DEF AcceptedFirst
  <2>3. OneOwner'
    BY DEF OneOwner, AcceptedFirst, Live, Holds
  <2>4. HandedOnce' /\ CancelFinal'
    BY DEF HandedOnce, CancelFinal, AcceptedFirst, Live
  <2> QED BY <2>1, <2>2, <2>3, <2>4
<1>10. CASE UNCHANGED vars
  <2> USE <1>10 DEF vars, IInv
  <2>1. DownIsEmpty' /\ DiskStates' /\ AcceptedFirst'
    BY DEF DownIsEmpty, DiskStates, AcceptedFirst
  <2>2. OneOwner'
    BY DEF OneOwner, Holds
  <2>3. HandedOnce' /\ CancelFinal'
    BY DEF HandedOnce, CancelFinal
  <2> QED BY <1>0, <2>1, <2>2, <2>3
<1> QED
  BY <1>0, <1>1, <1>2, <1>3, <1>4, <1>5, <1>6, <1>7, <1>8, <1>9, <1>10
     DEF Next, IInv

\* All parts of the invariant hold in every reachable state.
LEMMA Invariance == Spec => []IInv
BY InitInv, InvStep, PTL DEF Spec

\* The memory and the disk of all processes have their types in every state
\* the handlers reach.
THEOREM Typed == Spec => []TypeOK
<1>1. IInv => TypeOK BY DEF IInv
<1> QED BY Invariance, <1>1, PTL

\* dequeue_job hands out a job at most once, whatever processes start, stop
\* and load from the shared directories.
THEOREM DeliveredAtMostOnce == Spec => []AtMostOnce
<1>1. IInv => AtMostOnce BY DEF IInv, HandedOnce, AtMostOnce
<1> QED BY Invariance, <1>1, PTL

\* _remove_from_disk comes before the job is handed out, so no queue file of
\* a job that was handed out is left for a later start to load.
THEOREM NoFileOnceHanded == Spec => []FileMeansUnhanded
<1>1. IInv => FileMeansUnhanded
  BY DEF IInv, TypeOK, HandedOnce, FileMeansUnhanded
<1> QED BY Invariance, <1>1, PTL

\* cancel_job at the process that queued the job is final, across crashes.
THEOREM CancelIsFinal == Spec => []CancelHolds
<1>1. IInv => CancelHolds BY DEF IInv, CancelFinal, CancelHolds
<1> QED BY Invariance, <1>1, PTL

-----------------------------------------------------------------------------

\* Initially nothing has been taken in.
LEMMA DispatchInit == Init => Dispatching!DInit
BY DEF Init, Dispatching!DInit, OpenJobs

\* Every step of a process is a step of the abstract queue.
LEMMA DispatchStep ==
    ASSUME IInv, IInv', [Next]_vars
    PROVE  Dispatching!DNext \/ UNCHANGED Dispatching!dvars
<1> DEFINE Dropping == OpenJobs' \subseteq OpenJobs /\ UNCHANGED <<accepted, handed>>
<1>0. ASSUME Dropping PROVE Dispatching!DNext
  BY <1>0 DEF Dispatching!DNext, Dispatching!Drop
<1>1. ASSUME NEW s \in Servers, Start(s) PROVE Dropping
  BY <1>1 DEF Start, IInv, TypeOK, DownIsEmpty, OpenJobs
<1>2. ASSUME NEW s \in Servers, Stop(s) PROVE Dropping
  BY <1>2 DEF Stop, Goto, IInv, TypeOK, OpenJobs
<1>3. ASSUME NEW s \in Servers, Enqueue(s) PROVE Dispatching!DNext
  <2> DEFINE j == job[s]
  <2>1. j \in Jobs /\ j \notin accepted
    BY <1>3 DEF Enqueue, IInv, TypeOK, AcceptedFirst
  <2>2. \A t \in Servers, k \in Jobs :
           /\ sm'[t][k] = IF t = s /\ k = j THEN "QUEUED" ELSE sm[t][k]
           /\ k \in queue'[t] <=> k \in queue[t] \/ (t = s /\ k = j)
           /\ (op'[t] \in {"unlink", "hand"} /\ job'[t] = k)
                 <=> (op[t] \in {"unlink", "hand"} /\ job[t] = k)
    BY <1>3, <2>1, ConstantsAssumption DEF Enqueue, Goto, SetState, IInv, TypeOK
  <2>3. OpenJobs' = OpenJobs \union {j}
    BY <2>1, <2>2 DEF OpenJobs
  <2>4. Dispatching!Take(j)
    BY <1>3, <2>1, <2>3 DEF Dispatching!Take, Enqueue
  <2> QED BY <2>1, <2>4 DEF Dispatching!DNext
<1>4. ASSUME NEW s \in Servers, Unlink(s) PROVE Dropping
  BY <1>4 DEF Unlink, Goto, IInv, TypeOK, OpenJobs
<1>5. ASSUME NEW s \in Servers, Hand(s) PROVE Dispatching!DNext
  <2> DEFINE j == job[s]
  <2>1. /\ j \in Jobs /\ j \in accepted
        /\ \/ /\ sm[s][j] = "QUEUED"
              /\ sm' = [sm EXCEPT ![s][j] = "ASSIGNED"]
              /\ handed' = [handed EXCEPT ![j] = @ + 1]
           \/ /\ sm[s][j] # "QUEUED"
              /\ \E st \in {"VALIDATED", "CANCELLED"} :
                    sm' = [sm EXCEPT ![s][j] = st]
              /\ handed' = handed
    BY <1>5, HandStep
  <2>2. /\ op[s] = "hand" /\ op' = [op EXCEPT ![s] = "idle"]
        /\ job' = [job EXCEPT ![s] = NoJob]
        /\ UNCHANGED <<queue, accepted>>
    BY <1>5 DEF Hand, Goto
  <2>3. CASE sm[s][j] = "QUEUED"
    <3>1. j \in OpenJobs
      BY <2>1, <2>2, <2>3 DEF OpenJobs
    <3>2. \A t \in Servers, k \in Jobs :
             sm'[t][k] = IF t = s /\ k = j THEN "ASSIGNED" ELSE sm[t][k]
      BY <2>1, <2>3 DEF IInv, TypeOK
    <3>3. \A t \in Servers : sm[t][j] = "QUEUED" => t = s
      BY <2>1, <2>3 DEF IInv, OneOwner, Live
    <3>4. \A t \in Servers, k \in Jobs : k # j =>
             ((op'[t] \in {"unlink", "hand"} /\ job'[t] = k)
                 <=> (op[t] \in {"unlink", "hand"} /\ job[t] = k))
      BY <2>1, <2>2, ConstantsAssumption DEF IInv, TypeOK
    <3>5. OpenJobs' = OpenJobs \ {j}
      BY <2>1, <2>2, <3>2, <3>3, <3>4 DEF OpenJobs
    <3>6. Dispatching!Give(j)
      BY <2>1, <2>2, <2>3, <3>1, <3>5 DEF Dispatching!Give
    <3> QED BY <2>1, <3>6 DEF Dispatching!DNext
  <2>4. CASE sm[s][j] # "QUEUED"
    <3>1. \A t \in Servers, k \in Jobs :
             sm'[t][k] = "QUEUED" => sm[t][k] = "QUEUED"
      BY <2>1, <2>4 DEF IInv, TypeOK
    <3>2. \A t \in Servers, k \in Jobs :
             op'[t] \in {"unlink", "hand"} /\ job'[t] = k
                => op[t] \in {"unlink", "hand"} /\ job[t] = k
      BY <2>1, <2>2 DEF IInv, TypeOK
    <3>3. OpenJobs' \subseteq OpenJobs
      BY <2>2, <3>1, <3>2 DEF OpenJobs
    <3> QED BY <1>0, <2>1, <2>2, <2>4, <3>3
  <2> QED BY <2>3, <2>4
<1>6. ASSUME NEW s \in Servers, NEW w \in Workers, Dequeue(s, w) PROVE Dropping
  BY <1>6 DEF Dequeue, FirstMatching, Matching, Idle, Goto, IInv, TypeOK, OpenJobs
<1>7. ASSUME NEW s \in Servers, NEW j \in Jobs, Cancel(s, j) PROVE Dropping
  BY <1>7 DEF Cancel, SetState, IInv, TypeOK, OpenJobs
<1>8. ASSUME NEW s \in Servers, NEW j \in Jobs, Lookup(s, j) PROVE Dropping
  BY <1>8 DEF Lookup, SetState, IInv, TypeOK, DiskStates, OpenJobs
<1>9. ASSUME NEW s \in Servers, NEW j \in Jobs,
             NEW then \in {"idle", "enqueue"}, Submit(s, j, then)
      PROVE  Dropping
  BY <1>9 DEF Submit, SetState, Goto, Idle, IInv, TypeOK, OpenJobs
<1>10. CASE UNCHANGED vars
  BY <1>10 DEF vars, Dispatching!dvars, OpenJobs
<1> QED
  BY <1>0, <1>1, <1>2, <1>3, <1>4, <1>5, <1>6, <1>7, <1>8, <1>9, <1>10 DEF Next

\* The server processes together implement the at-most-once queue.
THEOREM ImplementsDispatch == Spec => Dispatches
<1>1. IInv /\ IInv' /\ [Next]_vars => [Dispatching!DNext]_(Dispatching!dvars)
  BY DispatchStep
<1> QED BY DispatchInit, Invariance, <1>1, PTL
       DEF Spec, Dispatches, Dispatching!DSpec
=============================================================================
