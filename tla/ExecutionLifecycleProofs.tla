------------------------ MODULE ExecutionLifecycleProofs ------------------------
(***************************************************************************)
(* What holds of ExecutionLifecycle for any number of cancellers, any      *)
(* delays and any set of faults.                                           *)
(***************************************************************************)
EXTENDS ExecutionLifecycle, Recursion

------------------------------------------------------------------------------
(* The inductive invariant                                                 *)

Statuses == {"none", "created", "pending", "queued", "running"} \cup Ended
Places == {"idle", "submitted", "squeue", "sacct", "answer", "sleep", "raised",
           "scancel", "record", "ended"}
EventTypes == {"TASK_SUBMITTED", "TASK_RUNNING"} \cup Verdicts
JobEvents == [by : Tasks, type : EventTypes, status : Statuses]

Types ==
    /\ job \in Statuses
    /\ pc \in [Tasks -> Places]
    /\ awaiting \in BOOLEAN /\ answer \in Statuses /\ handle \in Statuses
    /\ log \in Seq(JobEvents)

(* What the run has recorded in a log: no verdict yet, not this type, and  *)
(* whatever it is, one story.                                              *)
Unjudged(l) == \A n \in DOMAIN l : l[n].by = "run" => l[n].type \notin Verdicts
Lacks(l, type) == \A n \in DOMAIN l : l[n].by = "run" => l[n].type # type
OneStory(l) ==
    \A m, n \in DOMAIN l :
        l[m].by = "run" /\ l[n].by = "run" /\ m < n =>
            /\ l[m].type \notin Verdicts
            /\ l[n].type # "TASK_SUBMITTED"
            /\ l[m].type # l[n].type

StoryInv ==
    /\ OneStory(log)
    /\ pc["run"] # "ended" => Unjudged(log)
    /\ pc["run"] \in {"idle", "submitted"} => \A n \in DOMAIN log : log[n].by # "run"

(* What a poll answered is true of the job, and stays true of one that is  *)
(* over; a task that records a cancellation has seen the job's end.        *)
AnswerInv ==
    /\ answer \in {"completed", "cancelled"} => job = answer
    /\ awaiting => job = "completed"
    /\ \A t \in Tasks : pc[t] = "record" => Over

(* Before its submission there is nothing to cancel.                       *)
NothingYet ==
    pc["run"] = "idle" =>
        job = "none" /\ log = <<>> /\ \A t \in Tasks : pc[t] = "idle"

TruthInv == AnswerInv /\ NothingYet /\ VerdictIsTrue

------------------------------------------------------------------------------
(* One more event in a log                                                 *)

LEMMA Appended ==
    ASSUME NEW S, NEW l \in Seq(S), NEW e \in S
    PROVE  /\ Append(l, e) \in Seq(S)
           /\ Len(l) \in Nat /\ DOMAIN l = 1..Len(l)
           /\ DOMAIN Append(l, e) = DOMAIN l \cup {Len(l) + 1}
           /\ \A n \in DOMAIN l : Append(l, e)[n] = l[n] /\ n < Len(l) + 1
           /\ Append(l, e)[Len(l) + 1] = e
OBVIOUS

(* The run's event goes on with its story if it is not told before.        *)
LEMMA RunGoesOn ==
    ASSUME NEW l \in Seq(JobEvents), NEW e \in JobEvents, e.by = "run",
           OneStory(l), Unjudged(l), Lacks(l, e.type),
           e.type = "TASK_SUBMITTED" => \A n \in DOMAIN l : l[n].by # "run"
    PROVE  /\ OneStory(Append(l, e))
           /\ e.type \notin Verdicts => Unjudged(Append(l, e))
<1> DEFINE k == Append(l, e)
           z == Len(l) + 1
<1>1. /\ z \in Nat /\ DOMAIN k = DOMAIN l \cup {z} /\ k[z] = e
      /\ \A n \in DOMAIN l : n \in Nat /\ k[n] = l[n] /\ n < z
  BY Appended
<1> HIDE DEF k, z
<1>2. OneStory(k)
  <2> SUFFICES ASSUME NEW m \in DOMAIN k, NEW n \in DOMAIN k,
                      k[m].by = "run", k[n].by = "run", m < n
               PROVE  /\ k[m].type \notin Verdicts
                      /\ k[n].type # "TASK_SUBMITTED"
                      /\ k[m].type # k[n].type
    BY DEF OneStory
  <2>1. m \in DOMAIN l
    BY <1>1
  <2>2. CASE n \in DOMAIN l
    BY <1>1, <2>1, <2>2 DEF OneStory
  <2>3. CASE n = z
    BY <1>1, <2>1, <2>3 DEF Unjudged, Lacks
  <2> QED BY <1>1, <2>2, <2>3
<1>3. ASSUME e.type \notin Verdicts PROVE Unjudged(k)
  BY <1>1, <1>3 DEF Unjudged
<1> QED BY <1>2, <1>3 DEF k

(* The event of another task changes nothing of what the run has told.     *)
LEMMA OtherCutsIn ==
    ASSUME NEW l \in Seq(JobEvents), NEW e \in JobEvents, e.by # "run"
    PROVE  /\ OneStory(l) => OneStory(Append(l, e))
           /\ Unjudged(l) => Unjudged(Append(l, e))
           /\ (\A n \in DOMAIN l : l[n].by # "run")
                => \A n \in DOMAIN Append(l, e) : Append(l, e)[n].by # "run"
<1> DEFINE k == Append(l, e)
           z == Len(l) + 1
<1>1. /\ DOMAIN k = DOMAIN l \cup {z} /\ k[z] = e
      /\ \A n \in DOMAIN l : k[n] = l[n]
  BY Appended
<1> HIDE DEF k, z
<1>2. OneStory(l) => OneStory(k)
  BY <1>1 DEF OneStory
<1>3. Unjudged(l) => Unjudged(k)
  BY <1>1 DEF Unjudged
<1>4. (\A n \in DOMAIN l : l[n].by # "run") => \A n \in DOMAIN k : k[n].by # "run"
  BY <1>1
<1> QED BY <1>2, <1>3, <1>4 DEF k

(* TASK_RUNNING is noted once.                                             *)
LEMMA NotedOnce ==
    ASSUME Types, StoryInv, pc["run"] = "answer"
    PROVE  Noted \in Seq(JobEvents) /\ OneStory(Noted) /\ Unjudged(Noted)
<1> DEFINE e == Event("run", "TASK_RUNNING", "running")
<1>1. e \in JobEvents /\ e.by = "run" /\ e.type = "TASK_RUNNING"
  BY DEF Event, JobEvents, Tasks, EventTypes, Statuses
<1>2. log \in Seq(JobEvents) /\ OneStory(log) /\ Unjudged(log)
  BY DEF Types, StoryInv
<1>3. CASE Noted = log
  BY <1>2, <1>3
<1>4. CASE Noted = Append(log, e) /\ Lacks(log, "TASK_RUNNING")
  <2>1. e.type \notin Verdicts /\ e.type # "TASK_SUBMITTED"
    BY <1>1 DEF Verdicts
  <2>2. OneStory(Append(log, e)) /\ Unjudged(Append(log, e))
    BY <1>1, <1>2, <1>4, <2>1, RunGoesOn
  <2> QED BY <1>1, <1>2, <1>4, <2>2, Appended
<1> QED BY <1>3, <1>4 DEF Noted, Lacks

------------------------------------------------------------------------------
(* Types and the story                                                     *)

LEMMA StoryInit == Init => Types /\ StoryInv
<1> SUFFICES ASSUME Init PROVE Types /\ StoryInv
  OBVIOUS
<1>1. awaiting \in BOOLEAN
  BY Zenon DEF Init
<1>2. log \in Seq(JobEvents) /\ DOMAIN log = {}
  BY DEF Init
<1>3. pc \in [Tasks -> Places]
  BY DEF Init, Places
<1> QED BY <1>1, <1>2, <1>3
        DEF Init, Types, StoryInv, Statuses, OneStory, Unjudged

(* A step of the scheduler, or one of the run that records nothing.        *)
LEMMA StoryQuiet ==
    ASSUME Types, StoryInv, log' = log,
           pc["run"] = "ended" => pc'["run"] = "ended",
           pc'["run"] \in {"idle", "submitted"} => pc["run"] \in {"idle", "submitted"}
    PROVE  StoryInv'
BY DEF StoryInv, OneStory, Unjudged

(* The run ends with a verdict.                                            *)
LEMMA StoryVerdict ==
    ASSUME Types, StoryInv, NEW l \in Seq(JobEvents), OneStory(l), Unjudged(l),
           NEW type \in Verdicts, NEW status \in Statuses,
           log' = Append(l, Event("run", type, status)), pc'["run"] = "ended"
    PROVE  log' \in Seq(JobEvents) /\ StoryInv'
<1> DEFINE e == Event("run", type, status)
<1>1. e \in JobEvents /\ e.by = "run" /\ e.type = type
  BY DEF Event, JobEvents, Tasks, EventTypes
<1>2. Lacks(l, e.type) /\ e.type # "TASK_SUBMITTED"
  BY <1>1 DEF Lacks, Unjudged, Verdicts
<1> HIDE DEF e
<1>3. OneStory(Append(l, e))
  BY <1>1, <1>2, RunGoesOn
<1> QED BY <1>1, <1>3, Appended DEF StoryInv, OneStory, e

(* The steps that leave the log as it is.                                  *)
Silent ==
    \/ JobMoves \/ ShowMoves
    \/ Submit \/ SubmitRaises \/ Squeue \/ Sacct \/ Unseen \/ Wake \/ AwaitResult
    \/ CommandRaises \/ Interrupt \/ EventRaises
    \/ \E t \in Tasks : Cancel(t) \/ Scancel(t) \/ ScancelRaises(t) \/ CancelledRaises(t)
    \/ UNCHANGED vars

LEMMA SilentTypes ==
    ASSUME Types, Silent
    PROVE  Types'
<1> USE DEF Types, Goto, At, schedVars, loopVars
<1>1. CASE JobMoves
  BY <1>1 DEF JobMoves, Statuses, Ended
<1>2. CASE ShowMoves
  BY <1>2 DEF ShowMoves
<1>3. CASE Submit \/ SubmitRaises
  BY <1>3 DEF Submit, SubmitRaises, Taken, Statuses, Places
<1>4. CASE Squeue
  BY <1>4 DEF Squeue, Status, Statuses, Places
<1>5. CASE Sacct
  BY <1>5 DEF Sacct, Status, Statuses, Ended, Places
<1>6. CASE Unseen
  BY <1>6 DEF Unseen, Statuses, Ended, Places
<1>7. CASE Wake \/ CommandRaises \/ Interrupt
  BY <1>7 DEF Wake, CommandRaises, Interrupt, Places
<1>8. CASE AwaitResult
  <2>1. awaiting' \in BOOLEAN
    BY <1>8, Zenon DEF AwaitResult
  <2> QED BY <1>8, <2>1 DEF AwaitResult, Statuses, Ended, Places
<1>9. ASSUME NEW t \in Tasks, Cancel(t) \/ ScancelRaises(t) \/ CancelledRaises(t)
      PROVE  Types'
  BY <1>9 DEF Cancel, ScancelRaises, CancelledRaises, Places, Statuses, Ended
<1>12. CASE EventRaises
  BY <1>12 DEF EventRaises, Places, Statuses, Ended
<1>10. ASSUME NEW t \in Tasks, Scancel(t) PROVE Types'
  BY <1>10 DEF Scancel, Statuses, Ended, Places
<1>11. CASE UNCHANGED vars
  BY <1>11 DEF vars
<1> QED BY <1>1, <1>2, <1>3, <1>4, <1>5, <1>6, <1>7, <1>8, <1>9, <1>10, <1>11, <1>12
        DEF Silent

LEMMA SilentStory ==
    ASSUME Types, StoryInv, Silent
    PROVE  StoryInv'
<1>0. "run" \in Tasks /\ \A t \in Cancellers : t # "run"
  BY ExecutionAssumption DEF Tasks
<1> USE DEF Goto, At
<1>1. log' = log
  BY DEF Silent, JobMoves, ShowMoves, Submit, SubmitRaises, Squeue, Sacct, Unseen, Wake,
         AwaitResult, CommandRaises, Interrupt, EventRaises, Cancel, Scancel,
         ScancelRaises, CancelledRaises, vars
<1>2. /\ pc["run"] = "ended" => pc'["run"] = "ended"
      /\ pc'["run"] \in {"idle", "submitted"} => pc["run"] \in {"idle", "submitted"}
  <2>1. CASE JobMoves \/ ShowMoves \/ UNCHANGED vars
    BY <2>1 DEF JobMoves, ShowMoves, vars
  <2>2. CASE Submit \/ SubmitRaises \/ Squeue \/ Sacct \/ Unseen \/ Wake
             \/ AwaitResult \/ CommandRaises \/ Interrupt \/ EventRaises
    BY <1>0, <2>2 DEF Submit, SubmitRaises, Squeue, Sacct, Unseen, Wake, AwaitResult,
                      CommandRaises, Interrupt, EventRaises, Types
  <2>3. ASSUME NEW t \in Tasks,
             Cancel(t) \/ Scancel(t) \/ ScancelRaises(t) \/ CancelledRaises(t)
        PROVE  /\ pc["run"] = "ended" => pc'["run"] = "ended"
               /\ pc'["run"] \in {"idle", "submitted"} => pc["run"] \in {"idle", "submitted"}
    BY <1>0, <2>3 DEF Cancel, Scancel, ScancelRaises, CancelledRaises, Types
  <2> QED BY <2>1, <2>2, <2>3 DEF Silent
<1> QED BY <1>1, <1>2, StoryQuiet

(* The steps that record an event.                                         *)
LEMMA TellingStory ==
    ASSUME Types, StoryInv,
           \/ Submitted \/ GoOn \/ TimeIsUp \/ TimeIsUpRaises \/ JobIsOver
           \/ Result \/ Raised
           \/ \E t \in Tasks : Cancelled(t)
    PROVE  Types' /\ StoryInv'
<1>0. /\ "run" \in Tasks /\ log \in Seq(JobEvents) /\ pc \in [Tasks -> Places]
      /\ OneStory(log)
  BY DEF Types, StoryInv, Tasks
<1>1. ASSUME log' \in Seq(JobEvents), handle' \in Statuses,
             UNCHANGED <<job, awaiting, answer>>,
             NEW t \in Tasks, NEW place \in Places, Goto(t, place)
      PROVE  Types'
  BY <1>1 DEF Types, Goto
<1>2. CASE Submitted
  <2> DEFINE e == Event("run", "TASK_SUBMITTED", "queued")
  <2>1. e \in JobEvents /\ e.by = "run" /\ e.type = "TASK_SUBMITTED"
    BY DEF Event, JobEvents, Tasks, EventTypes, Statuses
  <2>2. log' = Append(log, e) /\ pc["run"] = "submitted" /\ pc'["run"] = "squeue"
    BY <1>0, <1>2 DEF Submitted, At, Goto
  <2>3. \A n \in DOMAIN log : log[n].by # "run"
    BY <2>2 DEF StoryInv
  <2>4. Unjudged(log) /\ Lacks(log, e.type) /\ e.type \notin Verdicts
    BY <2>1, <2>3 DEF Unjudged, Lacks, Verdicts
  <2> HIDE DEF e
  <2>5. OneStory(Append(log, e)) /\ Unjudged(Append(log, e))
    BY <1>0, <2>1, <2>3, <2>4, RunGoesOn
  <2>6. StoryInv'
    BY <2>2, <2>5 DEF StoryInv, OneStory, Unjudged
  <2>7. log' \in Seq(JobEvents)
    BY <1>0, <2>1, <2>2, Appended
  <2>8. handle' \in Statuses /\ UNCHANGED <<job, awaiting, answer>>
        /\ Goto("run", "squeue") /\ "squeue" \in Places
    BY <1>2 DEF Submitted, Statuses, schedVars, Places
  <2> QED BY <1>0, <1>1, <2>6, <2>7, <2>8
<1>3. CASE GoOn
  <2>1. log' = Noted /\ pc["run"] = "answer" /\ pc'["run"] = "sleep"
    BY <1>0, <1>3 DEF GoOn, At, Goto
  <2>2. Noted \in Seq(JobEvents) /\ OneStory(Noted) /\ Unjudged(Noted)
    BY <2>1, NotedOnce
  <2>3. StoryInv'
    BY <2>1, <2>2 DEF StoryInv, OneStory, Unjudged
  <2>4. handle' \in Statuses /\ UNCHANGED <<job, awaiting, answer>>
        /\ Goto("run", "sleep") /\ "sleep" \in Places
    BY <1>3 DEF GoOn, Types, schedVars, Places
  <2> QED BY <1>0, <1>1, <2>1, <2>2, <2>3, <2>4
<1>4. ASSUME NEW l \in Seq(JobEvents), OneStory(l), Unjudged(l),
             NEW type \in Verdicts, NEW status \in Statuses,
             log' = Append(l, Event("run", type, status)),
             handle' = status, Goto("run", "ended"), UNCHANGED <<job, awaiting, answer>>
      PROVE  Types' /\ StoryInv'
  <2>1. pc'["run"] = "ended"
    BY <1>0, <1>4 DEF Goto
  <2>2. log' \in Seq(JobEvents) /\ StoryInv'
    BY <1>4, <2>1, StoryVerdict
  <2> QED BY <1>0, <1>1, <1>4, <2>2 DEF Places
<1>5. ASSUME NEW type \in Verdicts, NEW status \in Statuses, pc["run"] # "ended",
             Verdict(type, status), UNCHANGED <<job, awaiting, answer>>
      PROVE  Types' /\ StoryInv'
  <2>1. Unjudged(log)
    BY <1>5 DEF StoryInv
  <2>2. /\ log' = Append(log, Event("run", type, status))
        /\ handle' = status /\ Goto("run", "ended")
    BY <1>5 DEF Verdict
  <2> QED BY <1>0, <1>4, <1>5, <2>1, <2>2
<1>6. CASE TimeIsUp
  <2>1. pc["run"] = "answer"
    BY <1>6 DEF TimeIsUp, At
  <2>2. Noted \in Seq(JobEvents) /\ OneStory(Noted) /\ Unjudged(Noted)
    BY <2>1, NotedOnce
  <2>3. /\ log' = Append(Noted, Event("run", "TASK_FAILED", "timeout"))
        /\ handle' = "timeout" /\ Goto("run", "ended") /\ UNCHANGED <<job, awaiting, answer>>
    BY <1>6 DEF TimeIsUp, schedVars
  <2>4. "TASK_FAILED" \in Verdicts /\ "timeout" \in Statuses
    BY DEF Verdicts, Statuses, Ended
  <2> QED BY <1>4, <2>2, <2>3, <2>4
<1>12. CASE TimeIsUpRaises
  <2>1. log' = Noted /\ pc["run"] = "answer" /\ pc'["run"] = "raised"
    BY <1>0, <1>12 DEF TimeIsUpRaises, At, Goto
  <2>2. Noted \in Seq(JobEvents) /\ OneStory(Noted) /\ Unjudged(Noted)
    BY <2>1, NotedOnce
  <2>3. StoryInv'
    BY <2>1, <2>2 DEF StoryInv, OneStory, Unjudged
  <2>4. handle' \in Statuses /\ UNCHANGED <<job, awaiting, answer>>
        /\ Goto("run", "raised") /\ "raised" \in Places
    BY <1>12 DEF TimeIsUpRaises, Statuses, Ended, schedVars, Places
  <2> QED BY <1>0, <1>1, <2>1, <2>2, <2>3, <2>4
<1>7. CASE JobIsOver
  <2> DEFINE type == IF answer = "cancelled" THEN "TASK_CANCELLED" ELSE "TASK_FAILED"
  <2>1. /\ Verdict(type, answer) /\ pc["run"] # "ended"
        /\ UNCHANGED <<job, awaiting, answer>>
    BY <1>7 DEF JobIsOver, At, schedVars
  <2>2. type \in Verdicts /\ answer \in Statuses
    BY DEF Verdicts, Types
  <2> QED BY <1>5, <2>1, <2>2
<1>8. CASE Result
  <2>1. /\ Verdict("TASK_COMPLETED", "completed") /\ pc["run"] # "ended"
        /\ UNCHANGED <<job, awaiting, answer>>
    BY <1>8 DEF Result, At, schedVars
  <2> QED BY <1>5, <2>1 DEF Verdicts, Statuses, Ended
<1>9. CASE Raised
  <2>1. /\ Verdict("TASK_FAILED", "failed") /\ pc["run"] # "ended"
        /\ UNCHANGED <<job, awaiting, answer>>
    BY <1>9 DEF Raised, At, schedVars
  <2> QED BY <1>5, <2>1 DEF Verdicts, Statuses, Ended
<1>10. CASE Cancelled("run")
  <2>1. /\ log' = Append(log, Event("run", "TASK_CANCELLED", "cancelled"))
        /\ handle' = "cancelled" /\ Goto("run", "ended") /\ pc["run"] # "ended"
        /\ UNCHANGED <<job, awaiting, answer>>
    BY <1>10 DEF Cancelled, At, schedVars
  <2>2. Unjudged(log)
    BY <2>1 DEF StoryInv
  <2> QED BY <1>0, <1>4, <2>1, <2>2 DEF Verdicts, Statuses, Ended
<1>11. ASSUME NEW t \in Tasks, t # "run", Cancelled(t) PROVE Types' /\ StoryInv'
  <2> DEFINE e == Event(t, "TASK_CANCELLED", "cancelled")
  <2>1. e \in JobEvents /\ e.by # "run"
    BY <1>11 DEF Event, JobEvents, EventTypes, Verdicts, Statuses, Ended
  <2>2. /\ log' = Append(log, e) /\ handle' = handle /\ Goto(t, "ended")
        /\ UNCHANGED <<job, awaiting, answer>>
    BY <1>11 DEF Cancelled, schedVars
  <2>3. pc'["run"] = pc["run"]
    BY <1>0, <1>11, <2>2 DEF Goto
  <2> HIDE DEF e
  <2>4. log' \in Seq(JobEvents)
    BY <1>0, <2>1, <2>2, Appended
  <2>5. /\ OneStory(log')
        /\ pc["run"] # "ended" => Unjudged(log')
        /\ pc["run"] \in {"idle", "submitted"} => \A n \in DOMAIN log' : log'[n].by # "run"
    BY <1>0, <2>1, <2>2, OtherCutsIn DEF StoryInv
  <2>6. StoryInv'
    BY <2>3, <2>5 DEF StoryInv, OneStory, Unjudged
  <2>7. handle' \in Statuses /\ "ended" \in Places
    BY <2>2 DEF Types, Places
  <2> QED BY <1>1, <2>2, <2>4, <2>6, <2>7
<1> QED BY <1>2, <1>3, <1>6, <1>7, <1>8, <1>9, <1>10, <1>11, <1>12

(* Every step is one or the other.                                         *)
LEMMA SilentOrTelling ==
    ASSUME [Next]_vars
    PROVE  \/ Silent
           \/ Submitted \/ GoOn \/ TimeIsUp \/ TimeIsUpRaises \/ JobIsOver
           \/ Result \/ Raised
           \/ \E t \in Tasks : Cancelled(t)
<1>1. "run" \in Tasks /\ \A t \in Cancellers : t \in Tasks
  BY DEF Tasks
<1> QED BY <1>1 DEF Next, RunStep, Silent

LEMMA StoryNext == Types /\ StoryInv /\ [Next]_vars => (Types /\ StoryInv)'
BY SilentOrTelling, SilentTypes, SilentStory, TellingStory

LEMMA StoryAlways == Spec => [](Types /\ StoryInv)
BY StoryInit, StoryNext, PTL DEF Spec

------------------------------------------------------------------------------
(* The truth                                                               *)

LEMMA TruthInit == Init => TruthInv
<1> SUFFICES ASSUME Init PROVE TruthInv
  OBVIOUS
<1>1. AnswerInv /\ NothingYet
  BY DEF Init, AnswerInv, NothingYet
<1>2. VerdictIsTrue
  BY DEF Init, VerdictIsTrue
<1> QED BY <1>1, <1>2 DEF TruthInv

LEMMA NothingYetNext ==
    ASSUME Types, NothingYet, [Next]_vars
    PROVE  NothingYet'
<1>1. "run" \in Tasks
  BY DEF Tasks
<1>2. CASE pc["run"] = "idle" /\ pc'["run"] = "idle"
  <2>1. job = "none" /\ log = <<>> /\ \A t \in Tasks : pc[t] = "idle"
    BY <1>2 DEF NothingYet
  <2>2. ~ \E t \in Tasks : \/ Cancel(t) \/ Scancel(t) \/ ScancelRaises(t)
                           \/ Cancelled(t) \/ CancelledRaises(t)
    BY <2>1 DEF Cancel, Scancel, ScancelRaises, Cancelled, CancelledRaises, At
  <2>3. ~ (Submit \/ SubmitRaises)
    BY <1>1, <1>2 DEF Submit, SubmitRaises, Goto, Types
  <2>4. ~ (CommandRaises \/ Interrupt \/ EventRaises \/ Submitted \/ Squeue \/ Sacct
            \/ Unseen \/ GoOn \/ TimeIsUp \/ TimeIsUpRaises \/ Wake \/ JobIsOver
            \/ AwaitResult \/ Result \/ Raised)
    BY <1>2 DEF CommandRaises, Interrupt, EventRaises, Submitted, Squeue, Sacct, Unseen,
                GoOn, TimeIsUp, TimeIsUpRaises, Wake, JobIsOver, AwaitResult, Result, Raised, At
  <2>5. JobMoves \/ ShowMoves \/ UNCHANGED vars
    BY <2>2, <2>3, <2>4, SilentOrTelling DEF Silent
  <2>6. UNCHANGED <<job, log, pc>>
    BY <2>1, <2>5 DEF JobMoves, ShowMoves, vars, schedVars
  <2> QED BY <2>6 DEF NothingYet
<1>3. CASE pc'["run"] # "idle"
  BY <1>3 DEF NothingYet
<1>4. CASE pc["run"] # "idle" /\ pc'["run"] = "idle"
  <2>1. ASSUME NEW t \in Tasks, NEW place \in Places \ {"idle"}, Goto(t, place) PROVE FALSE
    BY <1>1, <1>4, <2>1 DEF Goto, Types
  <2>2. pc' # pc
    BY <1>4
  <2>3. ~ (JobMoves \/ ShowMoves \/ UNCHANGED vars)
    BY <2>2 DEF JobMoves, ShowMoves, vars
  <2>4. ~ (Submit \/ SubmitRaises \/ Squeue \/ Sacct \/ Unseen \/ Wake \/ AwaitResult
            \/ CommandRaises \/ Interrupt \/ EventRaises)
    BY <1>1, <2>1 DEF Submit, SubmitRaises, Squeue, Sacct, Unseen, Wake, AwaitResult,
                      CommandRaises, Interrupt, EventRaises, Places
  <2>5. ~ \E t \in Tasks : \/ Cancel(t) \/ Scancel(t) \/ ScancelRaises(t)
                           \/ Cancelled(t) \/ CancelledRaises(t)
    BY <2>1 DEF Cancel, Scancel, ScancelRaises, Cancelled, CancelledRaises, Places
  <2>6. ~ (Submitted \/ GoOn \/ TimeIsUp \/ TimeIsUpRaises \/ JobIsOver \/ Result
            \/ Raised)
    BY <1>1, <2>1 DEF Submitted, GoOn, TimeIsUp, TimeIsUpRaises, JobIsOver, Result, Raised, Verdict, Places
  <2> QED BY <2>3, <2>4, <2>5, <2>6, SilentOrTelling DEF Silent
<1> QED BY <1>2, <1>3, <1>4

(* A job that is over stays as it is.                                      *)
LEMMA OverStays ==
    ASSUME NothingYet, Over, [Next]_vars
    PROVE  job' = job
<1>1. ~ (Submit \/ SubmitRaises)
  BY DEF NothingYet, Over, Ended, Submit, SubmitRaises, At
<1>2. CASE JobMoves \/ ShowMoves \/ UNCHANGED vars
  BY <1>2 DEF Over, Ended, JobMoves, ShowMoves, vars, schedVars
<1>3. CASE \/ Squeue \/ Sacct \/ Unseen \/ Wake \/ AwaitResult \/ CommandRaises
           \/ Interrupt \/ EventRaises \/ Submitted \/ GoOn \/ TimeIsUp
           \/ TimeIsUpRaises \/ JobIsOver \/ Result \/ Raised
  BY <1>3 DEF Squeue, Sacct, Unseen, Wake, AwaitResult, CommandRaises, Interrupt,
              EventRaises, Submitted, GoOn, TimeIsUp, TimeIsUpRaises, JobIsOver, Result, Raised, schedVars
<1>4. ASSUME NEW t \in Tasks,
             \/ Cancel(t) \/ Scancel(t) \/ ScancelRaises(t)
             \/ Cancelled(t) \/ CancelledRaises(t)
      PROVE  job' = job
  BY <1>4 DEF Cancel, Scancel, ScancelRaises, Cancelled, CancelledRaises, schedVars
<1> QED BY <1>1, <1>2, <1>3, <1>4, SilentOrTelling DEF Silent

LEMMA AnswerNext ==
    ASSUME Unlisted = "raise", Types, AnswerInv, NothingYet, [Next]_vars
    PROVE  AnswerInv'
<1>0. /\ "run" \in Tasks /\ pc \in [Tasks -> Places]
      /\ Over => job' = job
  BY OverStays DEF Types, Tasks
<1>1. ASSUME UNCHANGED <<answer, awaiting>>,
             \A t \in Tasks : pc'[t] = "record" => pc[t] = "record" \/ job' \in Ended
      PROVE  AnswerInv'
  BY <1>0, <1>1 DEF AnswerInv, Over, Ended
<1>2. ASSUME NEW t \in Tasks, NEW place \in Places \ {"record"}, Goto(t, place)
      PROVE  \A u \in Tasks : pc'[u] = "record" => pc[u] = "record"
  BY <1>0, <1>2 DEF Goto
<1>3. CASE JobMoves \/ ShowMoves \/ UNCHANGED vars
  BY <1>1, <1>3 DEF JobMoves, ShowMoves, vars
<1>4. CASE \/ Submit \/ SubmitRaises \/ Wake \/ CommandRaises \/ Interrupt
           \/ EventRaises \/ Submitted \/ GoOn \/ TimeIsUp \/ TimeIsUpRaises
           \/ JobIsOver \/ Result \/ Raised
  <2>1. UNCHANGED <<answer, awaiting>>
    BY <1>4 DEF Submit, SubmitRaises, Wake, CommandRaises, Interrupt, EventRaises,
                Submitted, GoOn, TimeIsUp, TimeIsUpRaises, JobIsOver, Result, Raised
  <2>2. \E place \in Places \ {"record"} : Goto("run", place)
    BY <1>4 DEF Submit, SubmitRaises, Wake, CommandRaises, Interrupt, EventRaises,
                Submitted, GoOn, TimeIsUp, TimeIsUpRaises, JobIsOver, Result, Raised, Verdict, Places
  <2> QED BY <1>0, <1>1, <1>2, <2>1, <2>2
<1>5. CASE Squeue \/ Sacct \/ Unseen
  <2>1. \E place \in Places \ {"record"} : Goto("run", place)
    BY <1>5 DEF Squeue, Sacct, Unseen, Places
  <2>2. job' = job /\ awaiting' = awaiting /\ answer' \in {answer, Status, "failed"}
    BY <1>5 DEF Squeue, Sacct, Unseen, schedVars
  <2>3. answer' \in {"completed", "cancelled"} => job = answer'
    BY <2>2 DEF AnswerInv, Status
  <2>4. \A u \in Tasks : pc'[u] = "record" => pc[u] = "record"
    BY <1>0, <1>2, <2>1
  <2> QED BY <2>2, <2>3, <2>4 DEF AnswerInv, Over
<1>6. CASE AwaitResult
  <2>1. job' = job /\ answer' = answer /\ answer = "completed" /\ Goto("run", "squeue")
    BY <1>6 DEF AwaitResult, schedVars
  <2>2. \A u \in Tasks : pc'[u] = "record" => pc[u] = "record"
    BY <1>0, <1>2, <2>1 DEF Places
  <2> QED BY <2>1, <2>2 DEF AnswerInv, Over
<1>7. ASSUME NEW t \in Tasks, Cancel(t) \/ ScancelRaises(t) \/ Cancelled(t) \/ CancelledRaises(t)
      PROVE  AnswerInv'
  <2>1. UNCHANGED <<answer, awaiting>>
    BY <1>7 DEF Cancel, ScancelRaises, Cancelled, CancelledRaises
  <2>2. \E place \in Places \ {"record"} : Goto(t, place)
    BY <1>7 DEF Cancel, ScancelRaises, Cancelled, CancelledRaises, Places
  <2> QED BY <1>1, <1>2, <2>1, <2>2
<1>8. ASSUME NEW t \in Tasks, Scancel(t) PROVE AnswerInv'
  BY <1>1, <1>8 DEF Scancel, Over, Ended
<1> QED BY <1>3, <1>4, <1>5, <1>6, <1>7, <1>8, SilentOrTelling DEF Silent

(* An event that is true when it is recorded stays true.                   *)
Holds(e) == /\ e.type = "TASK_COMPLETED" => job = "completed"
            /\ e.type = "TASK_CANCELLED" => Over

LEMMA VerdictNext ==
    ASSUME Types, StoryInv, AnswerInv, NothingYet, VerdictIsTrue, [Next]_vars
    PROVE  VerdictIsTrue'
<1>0. Over => job' = job
  BY OverStays
<1>1. ASSUME NEW l \in Seq(JobEvents), \A n \in DOMAIN l : Holds(l[n]),
             NEW e \in JobEvents, Holds(e), job' = job, log' = Append(l, e)
      PROVE  VerdictIsTrue'
  <2> DEFINE z == Len(l) + 1
  <2>1. /\ DOMAIN log' = DOMAIN l \cup {z} /\ log'[z] = e
        /\ \A n \in DOMAIN l : log'[n] = l[n]
    BY <1>1, Appended
  <2> HIDE DEF z
  <2> QED BY <1>1, <2>1 DEF VerdictIsTrue, Holds, Over
<1>2. log \in Seq(JobEvents) /\ \A n \in DOMAIN log : Holds(log[n])
  BY DEF Types, VerdictIsTrue, Holds
<1>3. CASE log' = log
  BY <1>0, <1>3 DEF VerdictIsTrue, Over, Ended
<1>4. ASSUME NEW type \in EventTypes, NEW status \in Statuses, NEW t \in Tasks,
             job' = job, log' = Append(log, Event(t, type, status)),
             type = "TASK_COMPLETED" => job = "completed",
             type = "TASK_CANCELLED" => Over
      PROVE  VerdictIsTrue'
  <2>1. Event(t, type, status) \in JobEvents /\ Holds(Event(t, type, status))
    BY <1>4 DEF Event, JobEvents, Holds
  <2> QED BY <1>1, <1>2, <1>4, <2>1
<1>5. /\ "run" \in Tasks
      /\ {"completed", "failed", "cancelled", "timeout", "queued", "running"} \subseteq Statuses
  BY DEF Tasks, Statuses, Ended
<1>6. {"TASK_SUBMITTED", "TASK_RUNNING", "TASK_COMPLETED", "TASK_FAILED", "TASK_CANCELLED"}
        \subseteq EventTypes
  BY DEF EventTypes, Verdicts
<1>7. CASE Silent
  BY <1>3, <1>7
     DEF Silent, JobMoves, ShowMoves, Submit, SubmitRaises, Squeue, Sacct, Unseen, Wake,
         AwaitResult, CommandRaises, Interrupt, EventRaises, Cancel, Scancel,
         ScancelRaises, CancelledRaises, vars
<1>8. CASE Submitted
  BY <1>4, <1>5, <1>6, <1>8 DEF Submitted, schedVars
<1>9. Noted \in Seq(JobEvents) /\ \A n \in DOMAIN Noted : Holds(Noted[n])
  <2> DEFINE e == Event("run", "TASK_RUNNING", "running")
             z == Len(log) + 1
  <2>1. e \in JobEvents /\ Holds(e)
    BY <1>5, <1>6 DEF Event, JobEvents, Holds
  <2>2. CASE Noted = log
    BY <1>2, <2>2
  <2>3. CASE Noted = Append(log, e)
    <3>1. /\ Noted \in Seq(JobEvents) /\ DOMAIN Noted = DOMAIN log \cup {z}
          /\ Noted[z] = e /\ \A n \in DOMAIN log : Noted[n] = log[n]
      BY <1>2, <2>1, <2>3, Appended
    <3> HIDE DEF e, z
    <3> QED BY <1>2, <2>1, <3>1
  <2> QED BY <2>2, <2>3 DEF Noted
<1>10. CASE GoOn \/ TimeIsUpRaises
  BY <1>9, <1>10 DEF GoOn, TimeIsUpRaises, schedVars, VerdictIsTrue, Holds, Over
<1>11. CASE TimeIsUp
  <2>1. /\ log' = Append(Noted, Event("run", "TASK_FAILED", "timeout")) /\ job' = job
    BY <1>11 DEF TimeIsUp, schedVars
  <2>2. Event("run", "TASK_FAILED", "timeout") \in JobEvents
        /\ Holds(Event("run", "TASK_FAILED", "timeout"))
    BY <1>5, <1>6 DEF Event, JobEvents, Holds
  <2> QED BY <1>1, <1>9, <2>1, <2>2
<1>12. CASE JobIsOver
  <2> DEFINE type == IF answer = "cancelled" THEN "TASK_CANCELLED" ELSE "TASK_FAILED"
  <2>1. job' = job /\ log' = Append(log, Event("run", type, answer))
    BY <1>12 DEF JobIsOver, Verdict, schedVars
  <2>2. type = "TASK_CANCELLED" => Over
    BY DEF AnswerInv, Over, Ended
  <2>3. type \in EventTypes /\ type # "TASK_COMPLETED" /\ answer \in Statuses
    BY <1>6 DEF Types
  <2> QED BY <1>4, <1>5, <2>1, <2>2, <2>3
<1>13. CASE Result
  <2>1. job' = job /\ job = "completed"
        /\ log' = Append(log, Event("run", "TASK_COMPLETED", "completed"))
    BY <1>13 DEF Result, Verdict, schedVars, AnswerInv
  <2> QED BY <1>4, <1>5, <1>6, <2>1
<1>14. CASE Raised
  <2>1. job' = job /\ log' = Append(log, Event("run", "TASK_FAILED", "failed"))
    BY <1>14 DEF Raised, Verdict, schedVars
  <2> QED BY <1>4, <1>5, <1>6, <2>1
<1>15. ASSUME NEW t \in Tasks, Cancelled(t) PROVE VerdictIsTrue'
  <2>1. job' = job /\ log' = Append(log, Event(t, "TASK_CANCELLED", "cancelled")) /\ Over
    BY <1>15 DEF Cancelled, At, schedVars, AnswerInv
  <2> QED BY <1>4, <1>5, <1>6, <2>1
<1> QED BY <1>7, <1>8, <1>10, <1>11, <1>12, <1>13, <1>14, <1>15, SilentOrTelling

------------------------------------------------------------------------------
(* The theorems                                                            *)

(* However many tasks cancel, whatever raises and wherever the run is      *)
(* interrupted, what it records is one story with at most one end (run,    *)
(* cancel and _record_event of ExecutionLifecycleService).                 *)
THEOREM RunAlwaysTellsOneStory == Spec => []RunTellsOneStory
<1>1. StoryInv => RunTellsOneStory
  BY DEF StoryInv, OneStory, Unjudged, RunTellsOneStory, ByRun, At
<1> QED BY <1>1, StoryAlways, PTL

(* With a backend that raises on a job it cannot see, what is recorded of  *)
(* the job's end is true, however late a poll's answer and however many    *)
(* cancellations race it (_map_state, cancel).                             *)
THEOREM VerdictAlwaysTrue ==
    ASSUME Unlisted = "raise"
    PROVE  Spec => []VerdictIsTrue
<1>1. Types /\ StoryInv /\ TruthInv /\ [Next]_vars => TruthInv'
  BY NothingYetNext, AnswerNext, VerdictNext DEF TruthInv
<1>2. TruthInv => VerdictIsTrue
  BY DEF TruthInv
<1> QED BY <1>1, <1>2, TruthInit, StoryAlways, PTL DEF Spec
------------------------------------------------------------------------------
(* The delays of the poll loop                                             *)

Positive == Nat \ {0}
Pairs == Positive \X Positive

(* FibPair is a function of the natural numbers, with positive values.     *)
LEMMA FibTyped == \A n \in Nat : FibPair[n] \in Pairs
<1> DEFINE step == [n \in Positive |->
                      [v \in Pairs |-> IF n <= 2 THEN <<1, 1>> ELSE <<v[2], v[1] + v[2]>>]]
           Body(g, n) == IF n <= 2 THEN <<1, 1>> ELSE <<g[n - 1][2], g[n - 1][1] + g[n - 1][2]>>
           Eq(g) == g = [n \in Nat |-> Body(g, n)]
           F == CHOOSE g : Eq(g)
<1>1. FibPair = F
  BY DEF FibPair
<1>2. <<1, 1>> \in Pairs /\ \A v \in Pairs : <<v[2], v[1] + v[2]>> \in Pairs
  BY DEF Pairs, Positive
<1>3. \A n \in Positive : \A v \in Pairs :
        /\ step[n][v] = IF n <= 2 THEN <<1, 1>> ELSE <<v[2], v[1] + v[2]>>
        /\ step[n][v] \in Pairs
  BY <1>2
<1> HIDE DEF step
<1>4. PICK f : IteratesOn(f, Pairs, <<1, 1>>, step)
  BY <1>2, <1>3, RecursionOnNaturals DEF Positive
<1>5. ASSUME NEW n \in Nat PROVE f[n] = Body(f, n)
  <2>1. CASE n = 0
    BY <1>4, <2>1 DEF IteratesOn
  <2>2. CASE n # 0
    <3>1. n \in Positive /\ n - 1 \in Nat
      BY <2>2 DEF Positive
    <3>2. f[n] = step[n][f[n - 1]] /\ f[n - 1] \in Pairs
      BY <1>4, <3>1 DEF IteratesOn, Positive
    <3> QED BY <1>3, <3>1, <3>2
  <2> QED BY <2>1, <2>2
<1>6. f = [n \in Nat |-> f[n]]
  BY <1>4 DEF IteratesOn
<1> HIDE DEF Body
<1>7. Eq(f)
  BY <1>5, <1>6
<1>8. Eq(F)
  <2> HIDE DEF Eq
  <2> QED BY <1>7
<1> HIDE DEF F
<1>9. \A n \in Nat : F[n] = Body(F, n)
  BY <1>8
<1>10. ASSUME NEW n \in Nat PROVE StepAlike(F, f, n)
  <2>1. F[0] = f[0]
    <3>1. F[0] = Body(F, 0) /\ f[0] = Body(f, 0)
      BY <1>5, <1>9
    <3>2. Body(F, 0) = <<1, 1>> /\ Body(f, 0) = <<1, 1>>
      BY DEF Body
    <3> QED BY <3>1, <3>2
  <2>2. ASSUME NEW k \in 1..n, F[k - 1] = f[k - 1] PROVE F[k] = f[k]
    <3>1. k \in Nat
      OBVIOUS
    <3>2. F[k] = Body(F, k) /\ f[k] = Body(f, k)
      BY <1>5, <1>9, <3>1
    <3> QED BY <2>2, <3>2 DEF Body
  <2> QED BY <2>1, <2>2 DEF StepAlike
<1>11. ASSUME NEW n \in Nat PROVE F[n] \in Pairs
  <2>1. F[n] = f[n]
    BY <1>10, RecursionUnique
  <2> QED BY <1>4, <2>1 DEF IteratesOn
<1> QED BY <1>1, <1>11

LEMMA NextDelayTyped ==
    ASSUME NEW n \in Nat PROVE NextDelay(n) \in Positive
<1>1. FibPair[n][2] \in Positive
  BY FibTyped DEF Pairs
<1>2. BaseDelay * FibPair[n][2] \in Positive
  BY <1>1, ExecutionAssumption DEF Positive
<1> DEFINE d == BaseDelay * FibPair[n][2]
<1> HIDE DEF d
<1>3. d \in Positive
  BY <1>2 DEF d
<1>4. Least(d, MaxDelay) \in Positive
  BY <1>3, ExecutionAssumption DEF Least, Positive
<1> QED BY <1>4 DEF NextDelay, d

(* schedule: it begins with nothing, never announces more than what        *)
(* remains, and each delay is the next one, cut to what remains.           *)
Announced == [list : Seq(Nat), sum : 0..MaxTotalWait]
Longer(s, n) ==
    IF s.sum >= MaxTotalWait THEN s
    ELSE [list |-> Append(s.list, Least(NextDelay(n), MaxTotalWait - s.sum)),
          sum |-> s.sum + Least(NextDelay(n), MaxTotalWait - s.sum)]

LEMMA LongerTyped ==
    ASSUME NEW s \in Announced, NEW n \in Nat PROVE Longer(s, n) \in Announced
<1> DEFINE d == Least(NextDelay(n), MaxTotalWait - s.sum)
<1>1. CASE s.sum >= MaxTotalWait
  BY <1>1 DEF Longer
<1>2. CASE ~(s.sum >= MaxTotalWait)
  <2>1. s.list \in Seq(Nat) /\ s.sum \in 0..MaxTotalWait /\ MaxTotalWait \in Nat
    BY ExecutionAssumption DEF Announced
  <2>2. d \in Nat /\ s.sum + d \in 0..MaxTotalWait
    <3>1. NextDelay(n) \in Nat
      BY NextDelayTyped DEF Positive
    <3> QED BY <1>2, <2>1, <3>1 DEF Least
  <2> HIDE DEF d
  <2>3. [list |-> Append(s.list, d), sum |-> s.sum + d] \in Announced
    BY <2>1, <2>2 DEF Announced
  <2> QED BY <1>2, <2>3 DEF Longer, d
<1> QED BY <1>1, <1>2

LEMMA ScheduleSteps ==
    /\ \A n \in Nat : Schedule[n] \in Announced
    /\ Schedule[0] = [list |-> <<>>, sum |-> 0]
    /\ \A n \in Positive : Schedule[n] = Longer(Schedule[n - 1], n)
<1> DEFINE b == [list |-> <<>>, sum |-> 0]
           step == [n \in Positive |-> [v \in Announced |-> Longer(v, n)]]
           Body(g, n) == IF n = 0 THEN b ELSE Longer(g[n - 1], n)
           Eq(g) == g = [n \in Nat |-> Body(g, n)]
           F == CHOOSE g : Eq(g)
<1>1. Schedule = F
  BY DEF Schedule, Longer
<1>2. b \in Announced
  BY ExecutionAssumption DEF Announced
<1>3. \A n \in Positive : \A v \in Announced :
        step[n][v] = Longer(v, n) /\ step[n][v] \in Announced
  BY LongerTyped DEF Positive
<1> HIDE DEF step, b
<1>4. PICK f : IteratesOn(f, Announced, b, step)
  BY <1>2, <1>3, RecursionOnNaturals DEF Positive
<1>5. ASSUME NEW n \in Nat PROVE f[n] = Body(f, n)
  <2>1. CASE n = 0
    BY <1>4, <2>1 DEF IteratesOn
  <2>2. CASE n # 0
    <3>1. n \in Positive /\ n - 1 \in Nat
      BY <2>2 DEF Positive
    <3>2. f[n] = step[n][f[n - 1]] /\ f[n - 1] \in Announced
      BY <1>4, <3>1 DEF IteratesOn, Positive
    <3> QED BY <1>3, <2>2, <3>1, <3>2
  <2> QED BY <2>1, <2>2
<1>6. f = [n \in Nat |-> f[n]]
  BY <1>4 DEF IteratesOn
<1> HIDE DEF Body
<1>7. Eq(f)
  BY <1>5, <1>6
<1>8. Eq(F)
  <2> HIDE DEF Eq
  <2> QED BY <1>7
<1> HIDE DEF F
<1>9. \A n \in Nat : F[n] = Body(F, n)
  BY <1>8
<1>10. F[0] = b /\ \A n \in Positive : F[n] = Longer(F[n - 1], n)
  BY <1>9 DEF Body, Positive
<1>11. ASSUME NEW n \in Nat PROVE F[n] \in Announced
  <2>1. StepAlike(F, f, n)
    <3>1. F[0] = f[0]
      BY <1>5, <1>10 DEF Body
    <3>2. ASSUME NEW k \in 1..n, F[k - 1] = f[k - 1] PROVE F[k] = f[k]
      <4>1. k \in Nat
        OBVIOUS
      <4>2. F[k] = Body(F, k) /\ f[k] = Body(f, k)
        BY <1>5, <1>9, <4>1
      <4> QED BY <3>2, <4>2 DEF Body
    <3> QED BY <3>1, <3>2 DEF StepAlike
  <2>2. F[n] = f[n]
    BY <2>1, RecursionUnique
  <2> QED BY <1>4, <2>2 DEF IteratesOn
<1> QED BY <1>1, <1>10, <1>11 DEF b
LoopInv ==
    /\ attempt \in Positive
    /\ delays = Schedule[attempt - 1].list
    /\ waited = Schedule[attempt - 1].sum

(* A run that timed out has ended, and its job did or its time was up.     *)
Untimed(l) == \A n \in DOMAIN l : l[n].by = "run" => l[n].status # "timeout"
TimeoutInv ==
    \/ Untimed(log)
    \/ pc["run"] = "ended" /\ (answer = "timeout" \/ waited = MaxTotalWait)

DelayInv == LoopInv /\ TimeoutInv

LEMMA UntimedAppend ==
    ASSUME NEW l \in Seq(JobEvents), NEW e \in JobEvents, Untimed(l),
           e.by = "run" => e.status # "timeout"
    PROVE  Untimed(Append(l, e))
BY Appended DEF Untimed

LEMMA UntimedNoted ==
    ASSUME Types, Untimed(log)
    PROVE  Untimed(Noted) /\ Noted \in Seq(JobEvents)
<1>1. Event("run", "TASK_RUNNING", "running") \in JobEvents
  BY DEF Event, JobEvents, Tasks, EventTypes, Statuses
<1>2. Event("run", "TASK_RUNNING", "running").status # "timeout"
  BY DEF Event
<1>3. log \in Seq(JobEvents)
  BY DEF Types
<1>4. Untimed(Append(log, Event("run", "TASK_RUNNING", "running")))
  BY <1>1, <1>2, <1>3, UntimedAppend
<1>5. Append(log, Event("run", "TASK_RUNNING", "running")) \in Seq(JobEvents)
  BY <1>1, <1>3
<1> QED BY <1>3, <1>4, <1>5 DEF Noted

LEMMA DelayInit == Init => DelayInv
<1> SUFFICES ASSUME Init PROVE DelayInv
  OBVIOUS
<1>1. LoopInv
  BY ScheduleSteps DEF Init, LoopInv, Positive
<1>2. TimeoutInv
  BY DEF Init, TimeoutInv, Untimed
<1> QED BY <1>1, <1>2 DEF DelayInv

(* The loop sleeps for the delay that schedule announces next.             *)
LEMMA GoOnDelays ==
    ASSUME LoopInv, GoOn
    PROVE  LoopInv'
<1>1. /\ attempt - 1 \in Nat /\ attempt' = attempt + 1 /\ attempt' - 1 = attempt
      /\ attempt' \in Positive
  BY DEF LoopInv, GoOn, Positive
<1> DEFINE s == Schedule[attempt - 1]
<1>2. s.sum < MaxTotalWait /\ s.sum \in Nat /\ MaxTotalWait \in Nat
  BY <1>1, ScheduleSteps, ExecutionAssumption DEF LoopInv, GoOn, Announced
<1>3. Schedule[attempt] = Longer(s, attempt)
  BY ScheduleSteps DEF LoopInv
<1>4. Delay = Least(NextDelay(attempt), MaxTotalWait - s.sum)
  BY DEF Delay, LoopInv
<1>5. delays' = Append(s.list, Delay) /\ waited' = s.sum + Delay
  BY DEF GoOn, LoopInv
<1>6. ~(s.sum >= MaxTotalWait)
  BY <1>2
<1> HIDE DEF s
<1>7. Schedule[attempt].list = Append(s.list, Delay) /\ Schedule[attempt].sum = s.sum + Delay
  BY <1>3, <1>4, <1>6 DEF Longer
<1> QED BY <1>1, <1>5, <1>7 DEF LoopInv

LEMMA SilentDelays ==
    ASSUME Types, DelayInv, Silent
    PROVE  DelayInv'
<1>0. "run" \in Tasks /\ \A t \in Cancellers : t # "run"
  BY ExecutionAssumption DEF Tasks
<1> USE DEF Goto, At
<1>1. log' = log /\ UNCHANGED loopVars
  BY DEF Silent, JobMoves, ShowMoves, Submit, SubmitRaises, Squeue, Sacct, Unseen, Wake,
         AwaitResult, CommandRaises, Interrupt, EventRaises, Cancel, Scancel,
         ScancelRaises, CancelledRaises, vars
<1>2. pc["run"] = "ended" => pc'["run"] = "ended" /\ answer' = answer
  <2>1. CASE JobMoves \/ ShowMoves \/ UNCHANGED vars
    BY <2>1 DEF JobMoves, ShowMoves, vars
  <2>2. CASE Submit \/ SubmitRaises \/ Squeue \/ Sacct \/ Unseen \/ Wake
             \/ AwaitResult \/ CommandRaises \/ Interrupt \/ EventRaises
    BY <1>0, <2>2 DEF Submit, SubmitRaises, Squeue, Sacct, Unseen, Wake, AwaitResult,
                      CommandRaises, Interrupt, EventRaises, Types
  <2>3. ASSUME NEW t \in Tasks,
             Cancel(t) \/ Scancel(t) \/ ScancelRaises(t) \/ CancelledRaises(t)
        PROVE  pc["run"] = "ended" => pc'["run"] = "ended" /\ answer' = answer
    BY <1>0, <2>3 DEF Cancel, Scancel, ScancelRaises, CancelledRaises, Types
  <2> QED BY <2>1, <2>2, <2>3 DEF Silent
<1>3. LoopInv'
  BY <1>1 DEF DelayInv, LoopInv, loopVars
<1>4. TimeoutInv'
  BY <1>1, <1>2 DEF DelayInv, TimeoutInv, loopVars
<1> QED BY <1>3, <1>4 DEF DelayInv

LEMMA TellingDelays ==
    ASSUME Types, DelayInv,
           \/ Submitted \/ GoOn \/ TimeIsUp \/ TimeIsUpRaises \/ JobIsOver
           \/ Result \/ Raised
           \/ \E t \in Tasks : Cancelled(t)
    PROVE  DelayInv'
<1>0. "run" \in Tasks /\ log \in Seq(JobEvents) /\ pc \in [Tasks -> Places]
  BY DEF Tasks, Types
<1> USE DEF Goto, At
<1>1. CASE GoOn
  <2>1. Untimed(log)
    BY <1>1 DEF GoOn, DelayInv, TimeoutInv
  <2>2. Untimed(log')
    BY <1>1, <2>1, UntimedNoted DEF GoOn
  <2>3. LoopInv'
    BY <1>1, GoOnDelays DEF DelayInv
  <2> QED BY <2>2, <2>3 DEF DelayInv, TimeoutInv, Untimed
<1>5. CASE TimeIsUpRaises
  <2>1. Untimed(log)
    BY <1>5 DEF TimeIsUpRaises, DelayInv, TimeoutInv
  <2>2. Untimed(log')
    BY <1>5, <2>1, UntimedNoted DEF TimeIsUpRaises
  <2>3. LoopInv'
    BY <1>5 DEF TimeIsUpRaises, DelayInv, LoopInv, loopVars
  <2> QED BY <2>2, <2>3 DEF DelayInv, TimeoutInv, Untimed
<1>2. CASE TimeIsUp
  <2>1. waited' = MaxTotalWait
    <3>1. attempt - 1 \in Nat
      BY DEF DelayInv, LoopInv, Positive
    <3>2. waited \in 0..MaxTotalWait
      BY <3>1, ScheduleSteps DEF DelayInv, LoopInv, Announced
    <3> QED BY <1>2, <3>2, ExecutionAssumption DEF TimeIsUp, loopVars
  <2>2. pc'["run"] = "ended"
    BY <1>0, <1>2 DEF TimeIsUp
  <2>3. LoopInv'
    BY <1>2 DEF TimeIsUp, DelayInv, LoopInv, loopVars
  <2> QED BY <2>1, <2>2, <2>3 DEF DelayInv, TimeoutInv
<1>3. CASE Submitted \/ JobIsOver \/ Result \/ Raised
  <2>1. LoopInv' /\ UNCHANGED answer
    BY <1>3 DEF Submitted, JobIsOver, Result, Raised, DelayInv, LoopInv, loopVars
  <2>2. Untimed(log)
    BY <1>3 DEF Submitted, JobIsOver, Result, Raised, DelayInv, TimeoutInv
  <2>3. CASE answer = "timeout" /\ JobIsOver
    <3>1. pc'["run"] = "ended"
      BY <1>0, <2>3 DEF JobIsOver, Verdict
    <3> QED BY <2>1, <2>3, <3>1 DEF DelayInv, TimeoutInv
  <2>4. CASE ~(answer = "timeout" /\ JobIsOver)
    <3>1. PICK type \in EventTypes, status \in Statuses :
            log' = Append(log, Event("run", type, status)) /\ status # "timeout"
      <4>1. CASE Submitted
        BY <4>1 DEF Submitted, EventTypes, Statuses
      <4>2. CASE JobIsOver
        BY <2>4, <4>2 DEF JobIsOver, Verdict, EventTypes, Verdicts, Statuses
      <4>3. CASE Result
        BY <4>3 DEF Result, Verdict, EventTypes, Verdicts, Statuses, Ended
      <4>4. CASE Raised
        BY <4>4 DEF Raised, Verdict, EventTypes, Verdicts, Statuses, Ended
      <4> QED BY <1>3, <4>1, <4>2, <4>3, <4>4
    <3>2. /\ Event("run", type, status) \in JobEvents
          /\ Event("run", type, status).status # "timeout"
      BY <1>0, <3>1 DEF Event, JobEvents
    <3>3. Untimed(log')
      BY <1>0, <2>2, <3>1, <3>2, UntimedAppend
    <3> QED BY <2>1, <3>3 DEF DelayInv, TimeoutInv, Untimed
  <2> QED BY <2>3, <2>4
<1>4. ASSUME NEW t \in Tasks, Cancelled(t)
      PROVE  DelayInv'
  <2>1. LoopInv' /\ UNCHANGED <<answer, waited>>
    BY <1>4 DEF Cancelled, DelayInv, LoopInv, loopVars
  <2>2. Event(t, "TASK_CANCELLED", "cancelled") \in JobEvents
    BY DEF Event, JobEvents, EventTypes, Verdicts, Statuses, Ended
  <2>3. Event(t, "TASK_CANCELLED", "cancelled").status # "timeout"
    BY DEF Event
  <2>4. log' = Append(log, Event(t, "TASK_CANCELLED", "cancelled"))
    BY <1>4 DEF Cancelled
  <2>5. Untimed(log) => Untimed(log')
    BY <1>0, <2>2, <2>3, <2>4, UntimedAppend
  <2>6. pc["run"] = "ended" => pc'["run"] = "ended"
    BY <1>0, <1>4 DEF Cancelled
  <2> QED BY <2>1, <2>5, <2>6 DEF DelayInv, TimeoutInv, Untimed
<1> QED BY <1>1, <1>2, <1>3, <1>4, <1>5

(* For any delays: the poll loop sleeps for the delays that schedule       *)
(* announces, never for longer than max_total_wait in all, and when it     *)
(* gives up it has waited for exactly that long (_next_delay).             *)
THEOREM DelaysAlwaysAsScheduled == Spec => []DelaysAsScheduled
<1>1. Types /\ DelayInv /\ [Next]_vars => DelayInv'
  BY SilentOrTelling, SilentDelays, TellingDelays
<1>2. DelayInv => DelaysAsScheduled
  <2> SUFFICES ASSUME DelayInv PROVE DelaysAsScheduled
    OBVIOUS
  <2>1. attempt - 1 \in Nat
    BY DEF DelayInv, LoopInv, Positive
  <2>2. waited <= MaxTotalWait
    BY <2>1, ScheduleSteps DEF DelayInv, LoopInv, Announced
  <2>3. \A n \in ByRun : log[n].status = "timeout" /\ answer # "timeout" => waited = MaxTotalWait
    BY DEF DelayInv, TimeoutInv, Untimed, ByRun
  <2> QED BY <2>2, <2>3 DEF DelayInv, LoopInv, DelaysAsScheduled
<1> QED BY <1>1, <1>2, DelayInit, StoryAlways, PTL DEF Spec
==============================================================================
