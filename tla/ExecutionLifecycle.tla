------------------------- MODULE ExecutionLifecycle --------------------------
(***************************************************************************)
(* One run of ExecutionLifecycleService (core/execution.py) of a job that  *)
(* a SLURM backend submits and polls (octave/scheduler/slurm_backend.py,   *)
(* fealpy/scheduler.py), while other tasks call cancel on the same handle  *)
(* and the task of the run may itself be cancelled.                        *)
(*                                                                         *)
(* A task gives way where it awaits: at every scheduler command, which     *)
(* runs in a thread and whose answer is used after the await, and at the   *)
(* sleep of the poll loop.  Between two awaits it is not interrupted.  The *)
(* scheduler is external: a job it was given moves on by itself, and it    *)
(* shows the job to squeue and to sacct with a delay.                      *)
(***************************************************************************)
EXTENDS Integers, Sequences, FiniteSets

CONSTANTS BaseDelay, MaxDelay, MaxTotalWait,  \* FibonacciPollingStrategy
          Unlisted,    \* what the backend makes of a job that squeue and
                       \* sacct do not show: "completed" or "raise"
          Cancellers,  \* other tasks that may call cancel, once each
          Faults       \* what may go wrong, a subset of FaultKinds

FaultKinds == {"command", "lag", "interrupt", "store"}
Tasks == {"run"} \cup Cancellers

ASSUME ExecutionAssumption ==
         /\ BaseDelay \in Nat \ {0} /\ MaxDelay \in Nat \ {0}
         /\ MaxTotalWait \in Nat \ {0}
         /\ Unlisted \in {"completed", "raise"}
         /\ "run" \notin Cancellers
         /\ Faults \subseteq FaultKinds

VARIABLES job,        \* the scheduler's job
          shown,      \* the commands that show it
          pc,         \* where each task is
          awaiting,   \* the run is in await_result
          answer,     \* what the last poll answered
          handle,     \* JobHandle.status of the run
          attempt,    \* of the poll loop
          waited,     \* total_wait of the poll loop
          delays,     \* history: the delays it slept
          log         \* the session events of the job

schedVars == <<job, shown>>
loopVars == <<attempt, waited, delays>>
vars == <<schedVars, pc, awaiting, answer, handle, loopVars, log>>

Ended == {"completed", "failed", "timeout", "cancelled"}
Over == job \in Ended

Goto(t, place) == pc' = [pc EXCEPT ![t] = place]
At(t, place) == pc[t] = place

(* A session event of task t; the status is the handle's when it is made.  *)
Event(t, type, status) == [by |-> t, type |-> type, status |-> status]

------------------------------------------------------------------------------
(* FibonacciPollingStrategy                                                *)

Least(m, n) == IF m < n THEN m ELSE n

FibPair[n \in Nat] ==
    IF n <= 2 THEN <<1, 1>>
    ELSE <<FibPair[n - 1][2], FibPair[n - 1][1] + FibPair[n - 1][2]>>

NextDelay(n) == Least(BaseDelay * FibPair[n][2], MaxDelay)

(* schedule(n): the delays and their sum.                                  *)
Schedule[n \in Nat] ==
    IF n = 0 THEN [list |-> <<>>, sum |-> 0]
    ELSE LET s == Schedule[n - 1]
             d == Least(NextDelay(n), MaxTotalWait - s.sum)
         IN  IF s.sum >= MaxTotalWait THEN s
             ELSE [list |-> Append(s.list, d), sum |-> s.sum + d]

(* A wrong form of Delay: a delay is not cut to what remains.              *)
Delay_Uncut == NextDelay(attempt)

(* ExecutionLifecycleService._next_delay, while time remains.              *)
Delay == Least(NextDelay(attempt), MaxTotalWait - waited)

------------------------------------------------------------------------------
(* The scheduler: external                                                 *)

JobMoves ==
    /\ \/ job = "pending" /\ job' \in {"running", "failed"}
       \/ job = "running" /\ job' \in {"completed", "failed", "timeout"}
    /\ UNCHANGED <<shown, pc, awaiting, answer, handle, loopVars, log>>

(* squeue shows a job from some time after its submission to some time     *)
(* after its end, sacct from some time after its submission on.            *)
ShowMoves ==
    /\ job # "none"
    /\ \/ "squeue" \notin shown /\ ~Over /\ shown' = shown \cup {"squeue"}
       \/ "squeue" \in shown /\ Over /\ shown' = shown \ {"squeue"}
       \/ "sacct" \notin shown /\ shown' = shown \cup {"sacct"}
    /\ "lag" \notin Faults => shown' # {}
    /\ UNCHANGED <<job, pc, awaiting, answer, handle, loopVars, log>>

------------------------------------------------------------------------------
(* The run                                                                 *)

Init ==
    /\ job = "none" /\ shown = {}
    /\ pc = [t \in Tasks |-> "idle"]
    /\ awaiting = FALSE /\ answer = "none"
    /\ handle = "created"
    /\ attempt = 1 /\ waited = 0 /\ delays = <<>>
    /\ log = <<>>

(* executor.submit: sbatch takes the job.                                  *)
Taken == /\ job' = "pending"
         /\ shown' \in {{"squeue"}, {"squeue", "sacct"}}
                     \cup (IF "lag" \in Faults THEN {{}} ELSE {})

Submit ==
    /\ At("run", "idle")
    /\ Taken
    /\ Goto("run", "submitted")
    /\ UNCHANGED <<awaiting, answer, handle, loopVars, log>>

(* It raises, or the task is cancelled in it, outside the try: the job may *)
(* have been taken, and no event tells.                                    *)
SubmitRaises ==
    /\ At("run", "idle")
    /\ Faults \cap {"command", "interrupt"} # {}
    /\ Taken \/ UNCHANGED schedVars
    /\ Goto("run", "ended")
    /\ UNCHANGED <<awaiting, answer, handle, loopVars, log>>

Submitted ==
    /\ At("run", "submitted")
    /\ handle' = "queued"
    /\ log' = Append(log, Event("run", "TASK_SUBMITTED", "queued"))
    /\ Goto("run", "squeue")
    /\ UNCHANGED <<schedVars, awaiting, answer, loopVars>>

(* _map_state                                                              *)
Status == IF job = "pending" THEN "queued" ELSE job

(* The two commands of a poll; await_result polls again.  sacct names who  *)
(* cancelled a job, "CANCELLED by 1000", and _map_state takes that for     *)
(* failed.                                                                 *)
Squeue ==
    /\ At("run", "squeue")
    /\ IF "squeue" \in shown
         THEN answer' = Status /\ Goto("run", "answer")
         ELSE Goto("run", "sacct") /\ UNCHANGED answer
    /\ UNCHANGED <<schedVars, awaiting, handle, loopVars, log>>

Sacct ==
    /\ At("run", "sacct")
    /\ "sacct" \in shown
    /\ answer' \in {Status} \cup (IF job = "cancelled" THEN {"failed"} ELSE {})
    /\ Goto("run", "answer")
    /\ UNCHANGED <<schedVars, awaiting, handle, loopVars, log>>

(* Neither command shows the job: _map_state gets an empty string.         *)
Unseen_Completed ==
    /\ At("run", "sacct") /\ "sacct" \notin shown
    /\ answer' = "completed" /\ Goto("run", "answer")
    /\ UNCHANGED <<schedVars, awaiting, handle, loopVars, log>>

Unseen ==
    /\ At("run", "sacct") /\ "sacct" \notin shown
    /\ IF Unlisted = "completed"
         THEN answer' = "completed" /\ Goto("run", "answer")
         ELSE Goto("run", "raised") /\ UNCHANGED answer
    /\ UNCHANGED <<schedVars, awaiting, handle, loopVars, log>>

CommandRaises ==
    /\ pc["run"] \in {"squeue", "sacct"} /\ "command" \in Faults
    /\ Goto("run", "raised")
    /\ UNCHANGED <<schedVars, awaiting, answer, handle, loopVars, log>>

(* The run ends with an event.                                             *)
Verdict(type, status) ==
    /\ handle' = status
    /\ log' = Append(log, Event("run", type, status))
    /\ Goto("run", "ended")

(* A wrong form of Noted: nobody looks whether it was noted.               *)
Noted_Again == IF answer = "running"
               THEN Append(log, Event("run", "TASK_RUNNING", "running")) ELSE log

(* TASK_RUNNING is recorded at the first poll that answers running.        *)
Noted == IF /\ answer = "running"
            /\ \A n \in DOMAIN log : log[n].by = "run" => log[n].type # "TASK_RUNNING"
         THEN Append(log, Event("run", "TASK_RUNNING", "running")) ELSE log

(* A wrong form of GoOn: the attempts are not counted.                     *)
GoOn_SameAttempt ==
    /\ At("run", "answer") /\ ~awaiting /\ answer \notin Ended
    /\ waited < MaxTotalWait
    /\ handle' = answer
    /\ log' = Noted
    /\ delays' = Append(delays, Delay)
    /\ waited' = waited + Delay
    /\ Goto("run", "sleep")
    /\ UNCHANGED <<schedVars, awaiting, answer, attempt>>

(* The job is not over: the loop sleeps, or its time is up.                *)
GoOn ==
    /\ At("run", "answer") /\ ~awaiting /\ answer \notin Ended
    /\ waited < MaxTotalWait
    /\ handle' = answer
    /\ log' = Noted
    /\ delays' = Append(delays, Delay)
    /\ waited' = waited + Delay
    /\ attempt' = attempt + 1
    /\ Goto("run", "sleep")
    /\ UNCHANGED <<schedVars, awaiting, answer>>

(* A wrong form of TimeIsUp: nothing remains, and it sleeps for that long.  *)
TimeIsUp_SleepsOn ==
    /\ At("run", "answer") /\ ~awaiting /\ answer \notin Ended
    /\ waited >= MaxTotalWait
    /\ handle' = answer
    /\ log' = Noted
    /\ Goto("run", "sleep")
    /\ UNCHANGED <<schedVars, awaiting, answer, loopVars>>

TimeIsUp ==
    /\ At("run", "answer") /\ ~awaiting /\ answer \notin Ended
    /\ waited >= MaxTotalWait
    /\ handle' = "timeout"
    /\ log' = Append(Noted, Event("run", "TASK_FAILED", "timeout"))
    /\ Goto("run", "ended")
    /\ UNCHANGED <<schedVars, awaiting, answer, loopVars>>

Wake ==
    /\ At("run", "sleep")
    /\ Goto("run", "squeue")
    /\ UNCHANGED <<schedVars, awaiting, answer, handle, loopVars, log>>

JobIsOver ==
    /\ At("run", "answer") /\ ~awaiting
    /\ answer \in Ended \ {"completed"}
    /\ Verdict(IF answer = "cancelled" THEN "TASK_CANCELLED" ELSE "TASK_FAILED", answer)
    /\ UNCHANGED <<schedVars, awaiting, answer, loopVars>>

AwaitResult ==
    /\ At("run", "answer") /\ ~awaiting /\ answer = "completed"
    /\ handle' = "completed"
    /\ awaiting' = TRUE
    /\ Goto("run", "squeue")
    /\ UNCHANGED <<schedVars, answer, loopVars, log>>

(* await_result makes an artifact of whatever its poll answers.            *)
Result ==
    /\ At("run", "answer") /\ awaiting
    /\ Verdict("TASK_COMPLETED", "completed")
    /\ UNCHANGED <<schedVars, awaiting, answer, loopVars>>

Raised ==
    /\ At("run", "raised")
    /\ Verdict("TASK_FAILED", "failed")
    /\ UNCHANGED <<schedVars, awaiting, answer, loopVars>>

(* session_store.append raises and records nothing.  Within the try of run *)
(* the failure is to be recorded instead; outside of it nothing more is.   *)
EventRaises ==
    /\ "store" \in Faults
    /\ \/ At("run", "submitted") /\ handle' = "queued" /\ Goto("run", "ended")
       \/ /\ At("run", "answer") /\ awaiting
          /\ handle' = "completed" /\ Goto("run", "raised")
       \/ /\ At("run", "answer") /\ ~awaiting
          /\ answer \in Ended \ {"completed"} \/ Noted # log
          /\ handle' = answer /\ Goto("run", "raised")
       \/ At("run", "raised") /\ handle' = "failed" /\ Goto("run", "ended")
    /\ UNCHANGED <<schedVars, awaiting, answer, loopVars, log>>

TimeIsUpRaises ==
    /\ "store" \in Faults
    /\ At("run", "answer") /\ ~awaiting /\ answer \notin Ended
    /\ waited >= MaxTotalWait
    /\ handle' = "timeout"
    /\ log' = Noted
    /\ Goto("run", "raised")
    /\ UNCHANGED <<schedVars, awaiting, answer, loopVars>>

------------------------------------------------------------------------------
(* Cancellation: cancel called by another task, which knows the job from   *)
(* its TASK_SUBMITTED event, or by the run when its own task is cancelled. *)

Interrupt ==
    /\ "interrupt" \in Faults
    /\ \/ pc["run"] \in {"squeue", "sacct", "answer", "sleep"} /\ Goto("run", "scancel")
       \/ At("run", "submitted") /\ Goto("run", "ended")
    /\ UNCHANGED <<schedVars, awaiting, answer, handle, loopVars, log>>

Cancel(t) ==
    /\ t \in Cancellers /\ At(t, "idle") /\ log # <<>>
    /\ Goto(t, "scancel")
    /\ UNCHANGED <<schedVars, awaiting, answer, handle, loopVars, log>>

Scancel(t) ==
    /\ At(t, "scancel")
    /\ job' = IF Over THEN job ELSE "cancelled"
    /\ Goto(t, "record")
    /\ UNCHANGED <<shown, awaiting, answer, handle, loopVars, log>>

ScancelRaises(t) ==
    /\ At(t, "scancel") /\ "command" \in Faults
    /\ Goto(t, "ended")
    /\ UNCHANGED <<schedVars, awaiting, answer, handle, loopVars, log>>

Cancelled(t) ==
    /\ At(t, "record")
    /\ handle' = IF t = "run" THEN "cancelled" ELSE handle
    /\ log' = Append(log, Event(t, "TASK_CANCELLED", "cancelled"))
    /\ Goto(t, "ended")
    /\ UNCHANGED <<schedVars, awaiting, answer, loopVars>>

CancelledRaises(t) ==
    /\ "store" \in Faults
    /\ At(t, "record")
    /\ handle' = IF t = "run" THEN "cancelled" ELSE handle
    /\ Goto(t, "ended")
    /\ UNCHANGED <<schedVars, awaiting, answer, loopVars, log>>

RunStep ==
    \/ Submitted \/ Squeue \/ Sacct \/ Unseen \/ GoOn \/ TimeIsUp \/ Wake
    \/ JobIsOver \/ AwaitResult \/ Result \/ Raised
    \/ Scancel("run") \/ Cancelled("run")

Next ==
    \/ JobMoves \/ ShowMoves
    \/ Submit \/ SubmitRaises \/ RunStep \/ CommandRaises \/ Interrupt
    \/ EventRaises \/ TimeIsUpRaises
    \/ \E t \in Cancellers : Cancel(t) \/ Scancel(t) \/ Cancelled(t)
    \/ \E t \in Tasks : ScancelRaises(t) \/ CancelledRaises(t)

Spec == Init /\ [][Next]_vars

(* Commands return and sleeps end; nothing is asked of the scheduler.      *)
FairSpec == Spec /\ WF_vars(RunStep)

------------------------------------------------------------------------------
(* Properties                                                              *)

ByRun == {n \in DOMAIN log : log[n].by = "run"}
Verdicts == {"TASK_COMPLETED", "TASK_FAILED", "TASK_CANCELLED"}

(* Whatever other tasks record in between, the run records its submission  *)
(* first, then at most once that the job runs, then one verdict when it    *)
(* ends, and nothing after it.                                             *)
RunTellsOneStory ==
    /\ \A m, n \in ByRun : m < n =>
          /\ log[m].type \notin Verdicts
          /\ log[n].type # "TASK_SUBMITTED"
          /\ log[m].type # log[n].type
    /\ \A n \in ByRun : log[n].type \in Verdicts => At("run", "ended")

(* What is recorded is true of the scheduler's job, however late the poll  *)
(* and however a cancel races it: it completed if TASK_COMPLETED is        *)
(* recorded, and it is over if TASK_CANCELLED is.                          *)
VerdictIsTrue ==
    \A n \in DOMAIN log :
        /\ log[n].type = "TASK_COMPLETED" => job = "completed"
        /\ log[n].type = "TASK_CANCELLED" => Over

(* The delays of the poll loop are those that schedule announces, and when *)
(* it gives up it has waited for exactly max_total_wait, never for longer. *)
DelaysAsScheduled ==
    /\ delays = Schedule[attempt - 1].list
    /\ waited <= MaxTotalWait
    /\ \A n \in ByRun : log[n].status = "timeout" /\ answer # "timeout"
                         => waited = MaxTotalWait

(* A submitted run ends, whatever its job does.                            *)
RunEnds == At("run", "submitted") ~> At("run", "ended")
==============================================================================
