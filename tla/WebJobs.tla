------------------------------- MODULE WebJobs -------------------------------
(***************************************************************************)
(* The web server's job manager and the runner of h2kvmctl subprocesses    *)
(* (web/internal/jobs/manager.go, web/internal/runner/runner.go).          *)
(*                                                                         *)
(* Per job there are four threads of control: the execute goroutine, which *)
(* starts the process and then drains its events; the runner's goroutine,  *)
(* which reads the output, waits for the exit and closes the channel; a    *)
(* Cancel call of an HTTP handler; and the timer Stop leaves behind.  Each *)
(* critical section of Manager.mu or Runner.mu is one step.  The events    *)
(* before Done only touch the PID, the log and the progress, so a channel  *)
(* is a count of those and the Done event that may follow them.  What is   *)
(* broadcast to the dashboard is left out.                                 *)
(*                                                                         *)
(* The process is the one the runner started: the server runs as root (no  *)
(* sudo in between) and the end of the process closes its output pipe.     *)
(***************************************************************************)
EXTENDS Naturals, FiniteSets

CONSTANTS Jobs,        \* job identifiers
          ChanCap,     \* capacity of a job's event channel (256)
          MaxOut,      \* bound on the lines a process prints
          MaxCancels   \* bound on accepted Cancel calls per job

ASSUME ConstantsAssumption ==
    ChanCap \in Nat \ {0} /\ MaxOut \in Nat /\ MaxCancels \in Nat

VARIABLES status,   \* Job.Status
          exec,     \* the execute goroutine
          proc,     \* the process: alive, exited with 0 (ok), otherwise (bad)
          reg,      \* is the process in Runner.processes?
          stream,   \* the runner's goroutine
          chan,     \* the event channel: [n: events before Done, done: Done]
          out,      \* lines printed so far
          cancel,   \* Cancel calls between their unlock and Runner.Stop
          cancels,  \* accepted Cancel calls so far
          timer,    \* a SIGKILL escalation is pending
          ctxDone   \* the server's context is cancelled

vars == <<status, exec, proc, reg, stream, chan, out, cancel, cancels, timer,
          ctxDone>>

Final == {"Completed", "Failed", "Cancelled"}
Statuses == {"none", "Pending", "Running"} \union Final

EmptyChan == [n |-> 0, done |-> "none"]
Room(c)   == c.n + (IF c.done = "none" THEN 0 ELSE 1) < ChanCap

Init ==
    /\ status = [j \in Jobs |-> "none"]
    /\ exec = [j \in Jobs |-> "none"]
    /\ proc = [j \in Jobs |-> "none"]
    /\ reg = [j \in Jobs |-> FALSE]
    /\ stream = [j \in Jobs |-> "none"]
    /\ chan = [j \in Jobs |-> EmptyChan]
    /\ out = [j \in Jobs |-> 0]
    /\ cancel = [j \in Jobs |-> 0]
    /\ cancels = [j \in Jobs |-> 0]
    /\ timer = [j \in Jobs |-> FALSE]
    /\ ctxDone = FALSE

-----------------------------------------------------------------------------
(* Manager.                                                                *)

\* Submit: the job is Pending and its goroutine is started.
Submit(j) ==
    /\ status[j] = "none"
    /\ status' = [status EXCEPT ![j] = "Pending"]
    /\ exec' = [exec EXCEPT ![j] = "ready"]
    /\ UNCHANGED <<proc, reg, stream, chan, out, cancel, cancels, timer, ctxDone>>

\* execute, first critical section: Running, whatever the status was.
ExecuteBegin(j) ==
    /\ exec[j] = "ready"
    /\ exec' = [exec EXCEPT ![j] = "running"]
    /\ status' = [status EXCEPT ![j] = "Running"]
    /\ UNCHANGED <<proc, reg, stream, chan, out, cancel, cancels, timer, ctxDone>>

\* Runner.Run up to cmd.Start: the process exists, the runner does not know it.
RunStart(j) ==
    /\ exec[j] = "running" /\ ~ctxDone
    /\ exec' = [exec EXCEPT ![j] = "started"]
    /\ proc' = [proc EXCEPT ![j] = "alive"]
    /\ UNCHANGED <<status, reg, stream, chan, out, cancel, cancels, timer, ctxDone>>

\* Runner.Run fails (config file, pipe, Start): Failed, whatever the status was.
RunFails(j) ==
    /\ exec[j] = "running"
    /\ exec' = [exec EXCEPT ![j] = "ended"]
    /\ status' = [status EXCEPT ![j] = "Failed"]
    /\ UNCHANGED <<proc, reg, stream, chan, out, cancel, cancels, timer, ctxDone>>

\* Runner.Run from the registration on: Started is sent, the goroutine begins.
RunRegister(j) ==
    /\ exec[j] = "started"
    /\ exec' = [exec EXCEPT ![j] = "events"]
    /\ reg' = [reg EXCEPT ![j] = TRUE]
    /\ chan' = [chan EXCEPT ![j].n = 1]
    /\ stream' = [stream EXCEPT ![j] = "reading"]
    /\ UNCHANGED <<status, proc, out, cancel, cancels, timer, ctxDone>>

\* processEvents: Started, Log or Progress.
TakeOutput(j) ==
    /\ exec[j] = "events" /\ chan[j].n > 0
    /\ chan' = [chan EXCEPT ![j].n = @ - 1]
    /\ UNCHANGED <<status, exec, proc, reg, stream, out, cancel, cancels, timer,
                   ctxDone>>

\* Mutant: the exit code itself becomes the status.
DoneStatusCode(s, code) == IF s = "Cancelled" THEN s ELSE code

\* The status EventDone leaves.  With exit code 0 the code assigns Completed
\* before it asks whether the status is Cancelled.
DoneStatus(s, code) ==
    IF code = "ok" THEN "Completed"
    ELSE IF s = "Cancelled" THEN s ELSE "Failed"

\* processEvents: Done.
TakeDone(j) ==
    /\ exec[j] = "events" /\ chan[j].n = 0 /\ chan[j].done # "none"
    /\ chan' = [chan EXCEPT ![j].done = "none"]
    /\ status' = [status EXCEPT ![j] = DoneStatus(@, chan[j].done)]
    /\ UNCHANGED <<exec, proc, reg, stream, out, cancel, cancels, timer, ctxDone>>

\* processEvents: the channel is closed and empty.
ExecuteEnd(j) ==
    /\ exec[j] = "events" /\ stream[j] = "closed" /\ chan[j] = EmptyChan
    /\ exec' = [exec EXCEPT ![j] = "ended"]
    /\ UNCHANGED <<status, proc, reg, stream, chan, out, cancel, cancels, timer,
                   ctxDone>>

\* Cancel, critical section: only a Pending or Running job.
CancelMark(j) ==
    /\ status[j] \in {"Pending", "Running"}
    /\ cancels[j] < MaxCancels
    /\ status' = [status EXCEPT ![j] = "Cancelled"]
    /\ cancel' = [cancel EXCEPT ![j] = @ + 1]
    /\ cancels' = [cancels EXCEPT ![j] = @ + 1]
    /\ UNCHANGED <<exec, proc, reg, stream, chan, out, timer, ctxDone>>

\* Mutant: the escalation timer is only armed for a process that has printed.
CancelStopMutant(j) ==
    /\ cancel[j] > 0
    /\ cancel' = [cancel EXCEPT ![j] = @ - 1]
    /\ timer' = [timer EXCEPT ![j] = @ \/ (reg[j] /\ out[j] > 0)]
    /\ UNCHANGED <<status, exec, proc, reg, stream, chan, out, cancels, ctxDone>>

\* Cancel, after the unlock: Stop arms the SIGKILL timer if it finds the process
\* (SIGTERM is one more reason for Exit), its error is dropped.
CancelStop(j) ==
    /\ cancel[j] > 0
    /\ cancel' = [cancel EXCEPT ![j] = @ - 1]
    /\ timer' = [timer EXCEPT ![j] = @ \/ reg[j]]
    /\ UNCHANGED <<status, exec, proc, reg, stream, chan, out, cancels, ctxDone>>

-----------------------------------------------------------------------------
(* Runner and process.                                                     *)

\* The process ends by itself, by SIGTERM, or because the context is done.
Exit(j) ==
    /\ proc[j] = "alive"
    /\ \E code \in {"ok", "bad"} : proc' = [proc EXCEPT ![j] = code]
    /\ UNCHANGED <<status, exec, reg, stream, chan, out, cancel, cancels, timer,
                   ctxDone>>

\* The 5 second timer: SIGKILL if the job is still in Runner.processes.
Kill(j) ==
    /\ timer[j]
    /\ timer' = [timer EXCEPT ![j] = FALSE]
    /\ proc' = IF reg[j] /\ proc[j] = "alive" THEN [proc EXCEPT ![j] = "bad"]
                                              ELSE proc
    /\ UNCHANGED <<status, exec, reg, stream, chan, out, cancel, cancels, ctxDone>>

\* The goroutine forwards a line, also one printed before the exit.
Output(j) ==
    /\ stream[j] = "reading" /\ out[j] < MaxOut /\ Room(chan[j])
    /\ out' = [out EXCEPT ![j] = @ + 1]
    /\ chan' = [chan EXCEPT ![j].n = @ + 1]
    /\ UNCHANGED <<status, exec, proc, reg, stream, cancel, cancels, timer, ctxDone>>

\* Mutant: Done is sent at the end of the output, before Wait.
SendDoneMutant(j) ==
    /\ stream[j] = "reading" /\ Room(chan[j])
    /\ chan' = [chan EXCEPT ![j].done = "ok"]
    /\ stream' = [stream EXCEPT ![j] = "sent"]
    /\ UNCHANGED <<status, exec, proc, reg, out, cancel, cancels, timer, ctxDone>>

\* The goroutine has waited for the process and sends Done.
SendDone(j) ==
    /\ stream[j] = "reading" /\ proc[j] \in {"ok", "bad"} /\ Room(chan[j])
    /\ chan' = [chan EXCEPT ![j].done = proc[j]]
    /\ stream' = [stream EXCEPT ![j] = "sent"]
    /\ UNCHANGED <<status, exec, proc, reg, out, cancel, cancels, timer, ctxDone>>

\* Mutant: the map entry outlives the channel.
UnregisterMutant(j) ==
    /\ stream[j] = "sent"
    /\ stream' = [stream EXCEPT ![j] = "removed"]
    /\ UNCHANGED <<status, exec, proc, reg, chan, out, cancel, cancels, timer, ctxDone>>

\* Its deferred calls, last first: the entry goes from Runner.processes.
Unregister(j) ==
    /\ stream[j] = "sent"
    /\ stream' = [stream EXCEPT ![j] = "removed"]
    /\ reg' = [reg EXCEPT ![j] = FALSE]
    /\ UNCHANGED <<status, exec, proc, chan, out, cancel, cancels, timer, ctxDone>>

\* Then the config file is removed and the channel is closed.
Close(j) ==
    /\ stream[j] = "removed"
    /\ stream' = [stream EXCEPT ![j] = "closed"]
    /\ UNCHANGED <<status, exec, proc, reg, chan, out, cancel, cancels, timer, ctxDone>>

\* The server is told to stop: exec.CommandContext kills what runs.
Shutdown ==
    /\ ~ctxDone
    /\ ctxDone' = TRUE
    /\ UNCHANGED <<status, exec, proc, reg, stream, chan, out, cancel, cancels, timer>>

CtxKill(j) ==
    /\ ctxDone /\ proc[j] = "alive"
    /\ proc' = [proc EXCEPT ![j] = "bad"]
    /\ UNCHANGED <<status, exec, reg, stream, chan, out, cancel, cancels, timer,
                   ctxDone>>

-----------------------------------------------------------------------------

ExecuteStep(j) ==
    \/ ExecuteBegin(j) \/ RunStart(j) \/ RunFails(j) \/ RunRegister(j)
    \/ TakeOutput(j) \/ TakeDone(j) \/ ExecuteEnd(j)

StreamStep(j) == Output(j) \/ SendDone(j) \/ Unregister(j) \/ Close(j)

JobStep(j) ==
    \/ Submit(j) \/ ExecuteStep(j) \/ StreamStep(j) \/ CancelMark(j)
    \/ CancelStop(j) \/ Exit(j) \/ Kill(j) \/ CtxKill(j)

Next == Shutdown \/ \E j \in Jobs : JobStep(j)

Spec == Init /\ [][Next]_vars

\* Goroutines run, a Cancel call that has begun goes on, timers fire, the
\* context kills.  A process is not trusted to exit by itself.
Fairness ==
    \A j \in Jobs : /\ WF_vars(ExecuteStep(j))
                    /\ WF_vars(StreamStep(j))
                    /\ WF_vars(CancelStop(j))
                    /\ WF_vars(Kill(j))
                    /\ WF_vars(CtxKill(j))

FairSpec == Spec /\ Fairness

-----------------------------------------------------------------------------
(* Properties.                                                             *)

\* The types of the variables.
TypeOK ==
    /\ status \in [Jobs -> Statuses]
    /\ exec \in [Jobs -> {"none", "ready", "running", "started", "events", "ended"}]
    /\ proc \in [Jobs -> {"none", "alive", "ok", "bad"}]
    /\ reg \in [Jobs -> BOOLEAN]
    /\ stream \in [Jobs -> {"none", "reading", "sent", "removed", "closed"}]
    /\ chan \in [Jobs -> [n : Nat, done : {"none", "ok", "bad"}]]
    /\ out \in [Jobs -> 0..MaxOut]
    /\ cancel \in [Jobs -> Nat]
    /\ cancels \in [Jobs -> 0..MaxCancels]
    /\ timer \in [Jobs -> BOOLEAN]
    /\ ctxDone \in BOOLEAN

\* A job is only reported Completed or Failed when no process of it runs,
\* whatever Cancel and the kill timer do meanwhile.
OutcomeMeansExited ==
    \A j \in Jobs : status[j] \in {"Completed", "Failed"} => proc[j] # "alive"

\* When the execute goroutine has ended nothing is left behind: the status is
\* final, the process is gone, its map entry is removed, no event is unread.
EndedMeansSettled ==
    \A j \in Jobs : exec[j] = "ended" =>
        /\ status[j] \in Final
        /\ proc[j] # "alive" /\ ~reg[j]
        /\ chan[j] = EmptyChan

\* The exit of a process is always noticed: the goroutines end and the map entry
\* goes, also when the channel is full or a Cancel is under way.
ExitIsNoticed ==
    \A j \in Jobs : proc[j] \in {"ok", "bad"} ~> exec[j] = "ended" /\ ~reg[j]

\* Stop on a registered process gets rid of it, although it may ignore SIGTERM.
StopKills ==
    \A j \in Jobs : cancel[j] > 0 /\ reg[j] ~> proc[j] # "alive"
=============================================================================
