------------------------------ MODULE WorkerApi ------------------------------
(***************************************************************************)
(* The worker job queue behind the REST API (h2kvm/runtime/worker/api.py,  *)
(* scheduler.py: JobQueue, state_machine.py: JobStateMachine, JobRegistry).*)
(*                                                                         *)
(* Several server processes ("gunicorn -w 4") share two directories: one   *)
(* state file per job and one queue file per queued job.  Each process     *)
(* keeps its own queue and its own registry of state machines in memory    *)
(* and reads the directories only when it starts (queue) or when it does   *)
(* not know a job (state).  A handler runs on the event loop without       *)
(* awaiting, so it is alone in its process; other processes, and a crash,  *)
(* come between its accesses to the disk.  op and job say where it is.     *)
(*                                                                         *)
(* job_id is a UUID (schemas.py:114): an id is submitted once.  The order  *)
(* of jobs of equal priority, the contents of a job and the progress       *)
(* events are left out.                                                    *)
(***************************************************************************)
EXTENDS Naturals, FiniteSets

CONSTANTS Servers, Workers,
          Jobs, NoJob,
          Priority,    \* execution_policy.priority of each job, 1 is first
          Needs,       \* capability_requirements of each job
          Caps,        \* capabilities each worker sends when it polls
          DiskFails,   \* whether writing a queue file may fail
          MaxStarts    \* bound on how often server processes are started

ASSUME ConstantsAssumption ==
    /\ NoJob \notin Jobs
    /\ Priority \in [Jobs -> 1..10]
    /\ DiskFails \in BOOLEAN
    /\ MaxStarts \in Nat

VARIABLES up,          \* the process is running
          sm,          \* job_registry.jobs of each process: current_state
          queue,       \* job_queue._queues of each process
          op, job,     \* the handler in progress
          stateFile,   \* <job_id>.state.json
          queueFiles,  \* <job_id>.job.json
          submitted,   \* ids a client has submitted
          accepted,    \* ids that were put into a queue
          handed,      \* how often a job was returned to a worker
          cancelled,   \* cancels answered with success: <<job, state found>>
          starts

vars == <<up, sm, queue, op, job, stateFile, queueFiles, submitted, accepted,
          handed, cancelled, starts>>

Terminal  == {"COMPLETED", "FAILED", "CANCELLED"}
JobStates == {"CREATED", "VALIDATED", "QUEUED", "ASSIGNED", "RUNNING",
              "PROGRESSING", "RETRYING"} \union Terminal

-----------------------------------------------------------------------------
(* JobStateMachine                                                         *)

\* Mutant: a validated job may be assigned directly.
TRANSITIONSMutant(from) ==
    IF from \in {"VALIDATED", "QUEUED"}
    THEN {"QUEUED", "ASSIGNED", "CANCELLED"}
    ELSE {"CANCELLED"}

TRANSITIONS(from) ==
    CASE from = "CREATED"   -> {"VALIDATED", "CANCELLED"}
      [] from = "VALIDATED" -> {"QUEUED", "CANCELLED"}
      [] from = "QUEUED"    -> {"ASSIGNED", "CANCELLED"}
      [] from = "ASSIGNED"  -> {"RUNNING", "CANCELLED"}
      [] from \in {"RUNNING", "PROGRESSING"} ->
            {"PROGRESSING", "COMPLETED", "FAILED", "RETRYING", "CANCELLED"}
      [] from = "RETRYING"  -> {"QUEUED", "FAILED", "CANCELLED"}
      [] OTHER              -> {from}

\* A state may always be entered again.
can_transition(from, to) == from = to \/ to \in TRANSITIONS(from)

\* JobRegistry.get: memory first, then the state file ("none": neither).
Known(s, j) == IF sm[s][j] # "none" THEN sm[s][j] ELSE stateFile[j]

-----------------------------------------------------------------------------

Init ==
    /\ up = [s \in Servers |-> FALSE]
    /\ sm = [s \in Servers |-> [j \in Jobs |-> "none"]]
    /\ queue = [s \in Servers |-> {}]
    /\ op = [s \in Servers |-> "idle"] /\ job = [s \in Servers |-> NoJob]
    /\ stateFile = [j \in Jobs |-> "none"] /\ queueFiles = {}
    /\ submitted = {} /\ accepted = {} /\ cancelled = {}
    /\ handed = [j \in Jobs |-> 0]
    /\ starts = 0

Idle(s) == up[s] /\ op[s] = "idle"

\* The handler of s goes on at step p with job j.
Goto(s, p, j) == op' = [op EXCEPT ![s] = p] /\ job' = [job EXCEPT ![s] = j]

SetState(s, j, st) == sm' = [sm EXCEPT ![s][j] = st]

\* A process starts: JobQueue.__init__ loads every queue file.  The load_all
\* and load of the lifespan do not exist; their exception is caught.
Start(s) ==
    /\ ~up[s] /\ starts < MaxStarts
    /\ up' = [up EXCEPT ![s] = TRUE]
    /\ queue' = [queue EXCEPT ![s] = queueFiles]
    /\ starts' = starts + 1
    /\ UNCHANGED <<sm, op, job, stateFile, queueFiles, submitted, accepted,
                   handed, cancelled>>

\* Mutant: the handler that was running is remembered.
StopMutant(s) ==
    /\ up[s]
    /\ up' = [up EXCEPT ![s] = FALSE]
    /\ sm' = [sm EXCEPT ![s] = [j \in Jobs |-> "none"]]
    /\ queue' = [queue EXCEPT ![s] = {}]
    /\ op' = [op EXCEPT ![s] = "idle"]
    /\ UNCHANGED <<job, stateFile, queueFiles, submitted, accepted, handed,
                   cancelled, starts>>

\* A process ends, at any point.  A graceful shutdown keeps no more than a
\* crash: the job_queue.save of the lifespan does not exist either.
Stop(s) ==
    /\ up[s]
    /\ up' = [up EXCEPT ![s] = FALSE]
    /\ sm' = [sm EXCEPT ![s] = [j \in Jobs |-> "none"]]
    /\ queue' = [queue EXCEPT ![s] = {}]
    /\ Goto(s, "idle", NoJob)
    /\ UNCHANGED <<stateFile, queueFiles, submitted, accepted, handed, cancelled,
                   starts>>

\* submit_job: a new state machine goes to VALIDATED and is saved.  With
\* queue=true the handler goes on, otherwise it answers.
Submit(s, j, then) ==
    /\ Idle(s) /\ j \notin submitted
    /\ submitted' = submitted \union {j}
    /\ SetState(s, j, "VALIDATED")
    /\ stateFile' = [stateFile EXCEPT ![j] = "VALIDATED"]
    /\ Goto(s, then, IF then = "idle" THEN NoJob ELSE j)
    /\ UNCHANGED <<up, queue, queueFiles, accepted, handed, cancelled, starts>>

\* Mutant: the state machine is saved again once it is QUEUED.
EnqueueMutant(s) ==
    LET j == job[s] IN
    /\ op[s] = "enqueue"
    /\ queue' = [queue EXCEPT ![s] = @ \union {j}]
    /\ queueFiles' = queueFiles \union {j}
    /\ SetState(s, j, "QUEUED")
    /\ stateFile' = [stateFile EXCEPT ![j] = "QUEUED"]
    /\ accepted' = accepted \union {j}
    /\ Goto(s, "idle", NoJob)
    /\ UNCHANGED <<up, submitted, handed, cancelled, starts>>

\* submit_job?queue=true: enqueue writes the queue file (a failing write is
\* logged and ignored); QUEUED is reached in memory and not saved.
Enqueue(s) ==
    LET j == job[s] IN
    /\ op[s] = "enqueue"
    /\ queue' = [queue EXCEPT ![s] = @ \union {j}]
    /\ \/ queueFiles' = queueFiles \union {j}
       \/ DiskFails /\ UNCHANGED queueFiles
    /\ SetState(s, j, "QUEUED")
    /\ accepted' = accepted \union {j}
    /\ Goto(s, "idle", NoJob)
    /\ UNCHANGED <<up, stateFile, submitted, handed, cancelled, starts>>

\* The jobs of s that worker w can do, and of these the ones dequeue may
\* choose: it walks the priorities upwards and takes the first match.
Matching(s, w) == {j \in queue[s] : Needs[j] \subseteq Caps[w]}

\* Mutant: only the head of the queue is compared with the capabilities.
FirstMatchingMutant(s, w) ==
    {j \in Matching(s, w) : \A k \in queue[s] : Priority[j] <= Priority[k]}

FirstMatching(s, w) ==
    {j \in Matching(s, w) :
        \A k \in Matching(s, w) : Priority[j] <= Priority[k]}

\* dequeue_job, first part: the job leaves the queue in memory, and
\* _remove_from_disk looks whether there is a file.
Dequeue(s, w) ==
    /\ Idle(s)
    /\ \E j \in FirstMatching(s, w) :
          /\ queue' = [queue EXCEPT ![s] = @ \ {j}]
          /\ Goto(s, IF j \in queueFiles THEN "unlink" ELSE "hand", j)
    /\ UNCHANGED <<up, sm, stateFile, queueFiles, submitted, accepted, handed,
                   cancelled, starts>>

\* Mutant: the queue file is left behind.
UnlinkMutant(s) ==
    /\ op[s] = "unlink"
    /\ Goto(s, "hand", job[s])
    /\ UNCHANGED <<up, sm, queue, stateFile, queueFiles, submitted, accepted,
                   handed, cancelled, starts>>

\* _remove_from_disk, second part.  If another process was faster, unlink
\* raises, and the handler answers 500 with the job gone from its queue.
Unlink(s) ==
    /\ op[s] = "unlink"
    /\ IF job[s] \in queueFiles
       THEN /\ queueFiles' = queueFiles \ {job[s]}
            /\ Goto(s, "hand", job[s])
       ELSE Goto(s, "idle", NoJob) /\ UNCHANGED queueFiles
    /\ UNCHANGED <<up, sm, queue, stateFile, submitted, accepted, handed,
                   cancelled, starts>>

\* Mutant: the job is returned without looking at its state.
HandMutant(s) ==
    /\ op[s] = "hand"
    /\ SetState(s, job[s], "ASSIGNED")
    /\ handed' = [handed EXCEPT ![job[s]] = @ + 1]
    /\ Goto(s, "idle", NoJob)
    /\ UNCHANGED <<up, queue, stateFile, queueFiles, submitted, accepted,
                   cancelled, starts>>

\* dequeue_job, last part: the job goes to the worker if it has no state
\* machine or its state allows ASSIGNED; if not, transition raises and the
\* handler answers 500.
Hand(s) ==
    LET j  == job[s]
        st == Known(s, j)
        ok == st = "none" \/ can_transition(st, "ASSIGNED")
    IN
    /\ op[s] = "hand"
    /\ SetState(s, j, IF st # "none" /\ ok THEN "ASSIGNED" ELSE st)
    /\ handed' = IF ok THEN [handed EXCEPT ![j] = @ + 1] ELSE handed
    /\ Goto(s, "idle", NoJob)
    /\ UNCHANGED <<up, queue, stateFile, queueFiles, submitted, accepted,
                   cancelled, starts>>

\* cancel_job: the state machine is changed in memory, the queue is not.
Cancel(s, j) ==
    /\ Idle(s)
    /\ Known(s, j) \notin Terminal \union {"none"}
    /\ cancelled' = cancelled \union {<<j, Known(s, j)>>}
    /\ SetState(s, j, "CANCELLED")
    /\ UNCHANGED <<up, queue, op, job, stateFile, queueFiles, submitted,
                   accepted, handed, starts>>

\* get_job_status, list_jobs, get_job_events, health_check: JobRegistry.get
\* keeps what it read from the disk.
Lookup(s, j) ==
    /\ Idle(s)
    /\ sm[s][j] = "none" /\ stateFile[j] # "none"
    /\ SetState(s, j, stateFile[j])
    /\ UNCHANGED <<up, queue, op, job, stateFile, queueFiles, submitted,
                   accepted, handed, cancelled, starts>>

Next == \E s \in Servers :
    \/ Start(s) \/ Stop(s)
    \/ Enqueue(s) \/ Unlink(s) \/ Hand(s)
    \/ \E w \in Workers : Dequeue(s, w)
    \/ \E j \in Jobs : Cancel(s, j) \/ Lookup(s, j)
                       \/ \E then \in {"idle", "enqueue"} : Submit(s, j, then)

Spec == Init /\ [][Next]_vars

\* A handler that has begun goes on, and every worker polls every process
\* again and again.  Clients, starts and crashes owe nothing.
Fairness ==
    /\ \A s \in Servers : WF_vars(Enqueue(s) \/ Unlink(s) \/ Hand(s))
    /\ \A s \in Servers, w \in Workers : WF_vars(Dequeue(s, w))

FairSpec == Spec /\ Fairness

-----------------------------------------------------------------------------
(* Properties                                                              *)

\* Types, and: the job of a handler is set while it is in progress.
TypeOK ==
    /\ up \in [Servers -> BOOLEAN]
    /\ sm \in [Servers -> [Jobs -> JobStates \union {"none"}]]
    /\ queue \in [Servers -> SUBSET Jobs]
    /\ op \in [Servers -> {"idle", "enqueue", "unlink", "hand"}]
    /\ job \in [Servers -> Jobs \union {NoJob}]
    /\ stateFile \in [Jobs -> JobStates \union {"none"}]
    /\ queueFiles \subseteq Jobs
    /\ submitted \subseteq Jobs /\ accepted \subseteq Jobs
    /\ cancelled \subseteq Jobs \X JobStates
    /\ handed \in [Jobs -> Nat]
    /\ starts \in Nat
    /\ \A s \in Servers : (op[s] = "idle") <=> (job[s] = NoJob)

\* dequeue_job never gives a job to two workers, although a process that
\* starts loads queue files that another process still has in memory: the
\* state file says VALIDATED, from which ASSIGNED cannot be reached, so only
\* the process that accepted the job can hand it out.
AtMostOnce == \A j \in Jobs : handed[j] <= 1

\* A job that has been handed out has no queue file any more: a process that
\* starts later does not load it again.
FileMeansUnhanded == \A j \in queueFiles : handed[j] = 0

\* A job cancelled by the process that queued it, before a worker got it, is
\* never handed out, although cancel_job neither saves the state nor removes
\* the queue entry, and the process may crash and load the file again.
CancelHolds ==
    \A j \in Jobs : <<j, "QUEUED">> \in cancelled => handed[j] = 0

\* A job leaves the queue of a process when some worker can do it: jobs of a
\* higher priority that no worker can do do not block it.
CapableDrains ==
    \A s \in Servers, j \in Jobs :
        (j \in queue[s] /\ \E w \in Workers : Needs[j] \subseteq Caps[w])
            ~> (j \notin queue[s])

\* The jobs a worker may still get: in the queue or the hands of the process
\* whose memory has them as QUEUED.
OpenJobs ==
    {j \in Jobs : \E s \in Servers :
        /\ sm[s][j] = "QUEUED"
        /\ j \in queue[s] \/ (op[s] \in {"unlink", "hand"} /\ job[s] = j)}

Dispatching == INSTANCE Dispatch WITH taken <- accepted, open <- OpenJobs

\* The processes together are the queue that Dispatch describes.
Dispatches == Dispatching!DSpec

\* "Priority job queue with persistence" (scheduler.py:29): a job in a queue
\* that nobody has cancelled can be assigned to the worker that dequeues it,
\* in the process that accepted it as well as in one that loaded it.
QueuedJobAssignable ==
    \A s \in Servers : \A j \in queue[s] :
        (\A st \in JobStates : <<j, st>> \notin cancelled)
            => can_transition(Known(s, j), "ASSIGNED")
=============================================================================
