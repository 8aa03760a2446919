---------------------------- MODULE CutoverDrain -----------------------------
(***************************************************************************)
(* The drain around a graph cutover: DrainCoordinator (core/drain.py), the *)
(* two gates it closes (ConnectionEngine and EventBus begin_drain /        *)
(* end_drain) and the threads that emit routes and publish events          *)
(* meanwhile.                                                              *)
(*                                                                         *)
(* One promotion runs at a time, in a thread of its own; every message is  *)
(* emitted by a thread of its own.  Threads switch between any two of the  *)
(* statements below: the check of the drain flag, the check of the room    *)
(* left, the append, the increment of the in-flight counter and the start  *)
(* of the handlers are separate steps of an emission, as they are in       *)
(* connection_engine.py, where only the counter is under a lock.  So are   *)
(* the statements of begin_drain and end_drain.  Dispatch is synchronous:  *)
(* a replay runs the handler before it returns.                            *)
(***************************************************************************)
EXTENDS Integers, Sequences, FiniteSets

CONSTANTS Routes,         \* messages emitted through ConnectionEngine.emit
          Events,         \* messages published on the EventBus
          Components,     \* booted components
          MaxBuffered,    \* DrainPolicy.max_buffered_routes and _events
          MaxPromotions,  \* bound: number of promotions
          Faults          \* what may go wrong, a subset of FaultKinds

Messages == Routes \cup Events
Channels == {"route", "event"}
FaultKinds == {"timeout", "suspend", "cutover", "resume", "handler"}
Phases == {"ASSEMBLED", "ACTIVATED", "COMMITTED", "SUSPENDED"}

ASSUME CutoverDrainAssumption ==
         /\ Routes \cap Events = {}
         /\ IsFiniteSet(Routes)
         /\ MaxBuffered \in Nat
         /\ MaxPromotions \in Nat
         /\ Faults \subseteq FaultKinds

VARIABLES stage,       \* where the promoting thread is
          chan,        \* the gate it is opening or closing
          aborting,    \* the cutover raised: DrainCoordinator.abort runs
          epoch,       \* DrainCoordinator.current_epoch is set
          affected,    \* epoch.affected_components
          suspended,   \* epoch.suspended_components
          previous,    \* epoch.previous_phases
          phase,       \* LifecycleTracker phase of each component
          gate,        \* per channel: _drain_epoch_id is set
          limit,       \* per channel: _drain_max_buffered
          buffer,      \* per channel: _drain_buffer
          replaying,   \* the copy end_drain made of a buffer
          inflight,    \* ConnectionEngine._inflight
          table,       \* version of the route table in force
          promotions,  \* number of promotions begun (bound)
          pc,          \* where the emission of each message is
          runs,        \* history: times a message's handlers were started
          heldIn,      \* history: the promotion during which it was held
          early        \* history: emissions under way when the gate closed

coordVars == <<stage, chan, aborting, epoch, affected, suspended, previous,
               phase, replaying, table, promotions, early>>
gateVars == <<gate, limit, buffer>>
emitVars == <<inflight, pc, runs, heldIn>>
vars == <<coordVars, gateVars, emitVars>>

Kind(m) == IF m \in Routes THEN "route" ELSE "event"

(* Emissions counted in _inflight: between _enter_inflight and             *)
(* _exit_inflight.  The event bus counts nothing.                          *)
Counted == {m \in Routes : pc[m] \in {"entered", "running"}}

Init ==
    /\ stage = "idle" /\ chan = "route" /\ aborting = FALSE /\ epoch = FALSE
    /\ affected = {} /\ suspended = {}
    /\ phase \in [Components -> Phases \ {"SUSPENDED"}]
    /\ previous = phase
    /\ gate = [c \in Channels |-> FALSE]
    /\ limit = [c \in Channels |-> 0]
    /\ buffer = [c \in Channels |-> <<>>]
    /\ replaying = <<>>
    /\ inflight = 0
    /\ table = 0
    /\ promotions = 0
    /\ pc = [m \in Messages |-> "idle"]
    /\ runs = [m \in Messages |-> 0]
    /\ heldIn = [m \in Messages |-> 0]
    /\ early = {}

------------------------------------------------------------------------------
(* An emission                                                             *)

Goto(m, place) == pc' = [pc EXCEPT ![m] = place]

(* The drain flag is read, without a lock.                                 *)
Check(m) ==
    /\ pc[m] = "idle"
    /\ Goto(m, IF gate[Kind(m)] THEN "room" ELSE "open")
    /\ UNCHANGED <<coordVars, gateVars, inflight, runs, heldIn>>

(* The drain is on: is there room in the buffer?  If not, emit raises.     *)
Room(m) ==
    /\ pc[m] = "room"
    /\ Goto(m, IF Len(buffer[Kind(m)]) >= limit[Kind(m)] THEN "refused" ELSE "append")
    /\ UNCHANGED <<coordVars, gateVars, inflight, runs, heldIn>>

(* A wrong form of Hold: emit goes on after appending to the buffer.       *)
Hold_RunsToo(m) ==
    /\ pc[m] = "append"
    /\ buffer' = [buffer EXCEPT ![Kind(m)] = Append(@, m)]
    /\ heldIn' = [heldIn EXCEPT ![m] = promotions]
    /\ Goto(m, "open")
    /\ UNCHANGED <<coordVars, gate, limit, inflight, runs>>

Hold(m) ==
    /\ pc[m] = "append"
    /\ buffer' = [buffer EXCEPT ![Kind(m)] = Append(@, m)]
    /\ heldIn' = [heldIn EXCEPT ![m] = promotions]
    /\ Goto(m, "held")
    /\ UNCHANGED <<coordVars, gate, limit, inflight, runs>>

(* The drain is off: a route is counted, then its handlers are started on  *)
(* the table in force; an event is dispatched at once.                     *)
Enter(m) ==
    /\ pc[m] = "open" /\ m \in Routes
    /\ inflight' = inflight + 1
    /\ Goto(m, "entered")
    /\ UNCHANGED <<coordVars, gateVars, runs, heldIn>>

Run(m) == runs' = [runs EXCEPT ![m] = @ + 1]

Start(m) ==
    /\ pc[m] = IF m \in Routes THEN "entered" ELSE "open"
    /\ Run(m)
    /\ Goto(m, "running")
    /\ UNCHANGED <<coordVars, gateVars, inflight, heldIn>>

Finish(m) ==
    /\ pc[m] = "running"
    /\ inflight' = IF m \in Routes THEN inflight - 1 ELSE inflight
    /\ Goto(m, "done")
    /\ UNCHANGED <<coordVars, gateVars, runs, heldIn>>

Emit(m) == Check(m) \/ Room(m) \/ Hold(m) \/ Enter(m) \/ Start(m) \/ Finish(m)

------------------------------------------------------------------------------
(* DrainCoordinator.begin                                                  *)

Begin(S) ==
    /\ stage = "idle" /\ ~epoch
    /\ promotions < MaxPromotions
    /\ promotions' = promotions + 1
    /\ epoch' = TRUE
    /\ affected' = S
    /\ suspended' = {}
    /\ aborting' = FALSE
    /\ stage' = "close" /\ chan' = "route"
    /\ UNCHANGED <<previous, phase, replaying, table, early, gateVars, emitVars>>

(* begin_drain of the engine, then of the bus: the flag, the limit and the *)
(* buffer are set by three statements.  It raises if the gate is closed    *)
(* already; begin has no handler, so the epoch stays current.              *)
CloseGate ==
    /\ stage = "close"
    /\ IF gate[chan]
       THEN stage' = "idle" /\ UNCHANGED <<early, gate>>
       ELSE /\ gate' = [gate EXCEPT ![chan] = TRUE]
            /\ early' = IF chan = "route" THEN Counted ELSE early
            /\ stage' = "limit"
    /\ UNCHANGED <<chan, aborting, epoch, affected, suspended, previous, phase,
                   replaying, table, promotions, limit, buffer, emitVars>>

SetLimit ==
    /\ stage = "limit"
    /\ limit' = [limit EXCEPT ![chan] = MaxBuffered]
    /\ stage' = "reset"
    /\ UNCHANGED <<chan, aborting, epoch, affected, suspended, previous, phase,
                   replaying, table, promotions, early, gate, buffer, emitVars>>

NextGate ==
    IF chan = "route" THEN stage' = "close" /\ chan' = "event"
    ELSE stage' = "await" /\ UNCHANGED chan

(* A wrong form of ResetBuffer: what a late append left stays.             *)
ResetBuffer_Keeps ==
    /\ stage = "reset"
    /\ NextGate
    /\ UNCHANGED <<aborting, epoch, affected, suspended, previous, phase,
                   replaying, table, promotions, early, gateVars, emitVars>>

(* What was appended since the limit was set is lost with the rest.        *)
ResetBuffer ==
    /\ stage = "reset"
    /\ buffer' = [buffer EXCEPT ![chan] = <<>>]
    /\ NextGate
    /\ UNCHANGED <<aborting, epoch, affected, suspended, previous, phase,
                   replaying, table, promotions, early, gate, limit, emitVars>>

(* Wrong forms of Await: it looks at the routes that are running and       *)
(* forgets those about to start; it waits for the buffer to be empty.      *)
Await_Unlocked ==
    /\ stage = "await"
    /\ \A m \in Routes : pc[m] # "running"
    /\ stage' = "suspend"
    /\ UNCHANGED <<chan, aborting, epoch, affected, suspended, previous, phase,
                   replaying, table, promotions, early, gateVars, emitVars>>
Await_EmptyBuffer ==
    /\ stage = "await"
    /\ inflight = 0 /\ buffer["route"] = <<>>
    /\ stage' = "suspend"
    /\ UNCHANGED <<chan, aborting, epoch, affected, suspended, previous, phase,
                   replaying, table, promotions, early, gateVars, emitVars>>

(* wait_for_inflight.                                                      *)
Await ==
    /\ stage = "await"
    /\ inflight = 0
    /\ stage' = "suspend"
    /\ UNCHANGED <<chan, aborting, epoch, affected, suspended, previous, phase,
                   replaying, table, promotions, early, gateVars, emitVars>>

(* ... raises after timeout_seconds, out of begin.                         *)
Timeout ==
    /\ "timeout" \in Faults
    /\ stage = "await" /\ inflight # 0
    /\ stage' = "idle"
    /\ UNCHANGED <<chan, aborting, epoch, affected, suspended, previous, phase,
                   replaying, table, promotions, early, gateVars, emitVars>>

(* _suspend_components, one component at a time.                           *)
Suspend(c) ==
    /\ stage = "suspend"
    /\ c \in affected \ suspended
    /\ previous' = [previous EXCEPT ![c] = phase[c]]
    /\ suspended' = suspended \cup {c}
    /\ phase' = [phase EXCEPT ![c] =
                    IF @ \in {"ACTIVATED", "COMMITTED"} THEN "SUSPENDED" ELSE @]
    /\ UNCHANGED <<stage, chan, aborting, epoch, affected, replaying, table,
                   promotions, early, gateVars, emitVars>>

SuspendRaises ==
    /\ "suspend" \in Faults
    /\ stage = "suspend" /\ affected # suspended
    /\ stage' = "idle"
    /\ UNCHANGED <<chan, aborting, epoch, affected, suspended, previous, phase,
                   replaying, table, promotions, early, gateVars, emitVars>>

AllSuspended ==
    /\ stage = "suspend" /\ affected = suspended
    /\ stage' = "cutover"
    /\ UNCHANGED <<chan, aborting, epoch, affected, suspended, previous, phase,
                   replaying, table, promotions, early, gateVars, emitVars>>

------------------------------------------------------------------------------
(* HarnessRuntime._cutover_graph_with_drain: the commit, and what follows  *)
(* when it raises                                                          *)

Cutover ==
    /\ stage = "cutover"
    /\ table' = table + 1
    /\ stage' = "resume"
    /\ UNCHANGED <<chan, aborting, epoch, affected, suspended, previous, phase,
                   replaying, promotions, early, gateVars, emitVars>>

CutoverRaises ==
    /\ "cutover" \in Faults
    /\ stage = "cutover"
    /\ aborting' = TRUE
    /\ stage' = "resume"
    /\ UNCHANGED <<chan, epoch, affected, suspended, previous, phase,
                   replaying, table, promotions, early, gateVars, emitVars>>

------------------------------------------------------------------------------
(* DrainCoordinator.complete and abort.  Whatever raises in them, the      *)
(* finally clause clears current_epoch; abort is then refused because the  *)
(* epoch is no longer current, so nothing below runs again.                *)

Leave == stage' = "idle" /\ epoch' = FALSE

(* A wrong form of Resume: COMMITTED is not restored.                      *)
Resume_ToActivated(c) ==
    /\ stage = "resume"
    /\ c \in suspended
    /\ suspended' = suspended \ {c}
    /\ phase' = [phase EXCEPT ![c] = IF @ = "SUSPENDED" THEN "ACTIVATED" ELSE @]
    /\ UNCHANGED <<stage, chan, aborting, epoch, affected, previous, replaying,
                   table, promotions, early, gateVars, emitVars>>

(* _resume_components: back to the phase the component had, through        *)
(* ACTIVATED.                                                              *)
Resume(c) ==
    /\ stage = "resume"
    /\ c \in suspended
    /\ suspended' = suspended \ {c}
    /\ phase' = [phase EXCEPT ![c] =
                    IF @ # "SUSPENDED" THEN @
                    ELSE IF previous[c] = "COMMITTED" THEN "COMMITTED"
                    ELSE "ACTIVATED"]
    /\ UNCHANGED <<stage, chan, aborting, epoch, affected, previous, replaying,
                   table, promotions, early, gateVars, emitVars>>

ResumeRaises ==
    /\ "resume" \in Faults
    /\ stage = "resume" /\ suspended # {}
    /\ Leave
    /\ UNCHANGED <<chan, aborting, affected, suspended, previous, phase,
                   replaying, table, promotions, early, gateVars, emitVars>>

AllResumed ==
    /\ stage = "resume" /\ suspended = {}
    /\ stage' = "copy" /\ chan' = "route"
    /\ UNCHANGED <<aborting, epoch, affected, suspended, previous, phase,
                   replaying, table, promotions, early, gateVars, emitVars>>

(* end_drain: the buffer is copied; the flag, the buffer and the limit are *)
(* reset by three statements; then the copy is emitted again, unless the   *)
(* cutover is being aborted.                                               *)
Copy ==
    /\ stage = "copy"
    /\ replaying' = buffer[chan]
    /\ stage' = "open"
    /\ UNCHANGED <<chan, aborting, epoch, affected, suspended, previous, phase,
                   table, promotions, early, gateVars, emitVars>>

OpenGate ==
    /\ stage = "open"
    /\ gate' = [gate EXCEPT ![chan] = FALSE]
    /\ stage' = "clear"
    /\ UNCHANGED <<chan, aborting, epoch, affected, suspended, previous, phase,
                   replaying, table, promotions, early, limit, buffer, emitVars>>

Clear ==
    /\ stage = "clear"
    /\ buffer' = [buffer EXCEPT ![chan] = <<>>]
    /\ stage' = "unlimit"
    /\ UNCHANGED <<chan, aborting, epoch, affected, suspended, previous, phase,
                   replaying, table, promotions, early, gate, limit, emitVars>>

Unlimit ==
    /\ stage = "unlimit"
    /\ limit' = [limit EXCEPT ![chan] = 0]
    /\ replaying' = IF aborting THEN <<>> ELSE replaying
    /\ stage' = "replay"
    /\ UNCHANGED <<chan, aborting, epoch, affected, suspended, previous, phase,
                   table, promotions, early, gate, buffer, emitVars>>

(* A wrong form of Replay: what was held is forgotten.                     *)
Replay_DropsFirst ==
    /\ stage = "replay" /\ replaying # <<>>
    /\ replaying' = Tail(replaying)
    /\ UNCHANGED <<stage, chan, aborting, epoch, affected, suspended, previous,
                   phase, table, promotions, early, gateVars, emitVars>>

Replay ==
    /\ stage = "replay" /\ replaying # <<>>
    /\ Run(Head(replaying))
    /\ replaying' = Tail(replaying)
    /\ UNCHANGED <<stage, chan, aborting, epoch, affected, suspended, previous,
                   phase, table, promotions, early, gateVars, inflight, pc, heldIn>>

(* A handler raises: the rest of the copy is lost.                         *)
HandlerRaises ==
    /\ "handler" \in Faults
    /\ stage = "replay" /\ replaying # <<>>
    /\ Run(Head(replaying))
    /\ replaying' = <<>>
    /\ Leave
    /\ UNCHANGED <<chan, aborting, affected, suspended, previous, phase, table,
                   promotions, early, gateVars, inflight, pc, heldIn>>

Replayed ==
    /\ stage = "replay" /\ replaying = <<>>
    /\ IF chan = "route"
       THEN stage' = "copy" /\ chan' = "event" /\ UNCHANGED epoch
       ELSE Leave /\ UNCHANGED chan
    /\ UNCHANGED <<aborting, affected, suspended, previous, phase, replaying,
                   table, promotions, early, gateVars, emitVars>>

------------------------------------------------------------------------------
Promotion ==
    \/ CloseGate \/ SetLimit \/ ResetBuffer \/ Await \/ AllSuspended \/ Cutover
    \/ AllResumed \/ Copy \/ OpenGate \/ Clear \/ Unlimit \/ Replay \/ Replayed
    \/ \E c \in Components : Suspend(c) \/ Resume(c)

Fault == Timeout \/ SuspendRaises \/ CutoverRaises \/ ResumeRaises \/ HandlerRaises

Next == \/ \E S \in SUBSET Components : Begin(S)
        \/ Promotion
        \/ Fault
        \/ \E m \in Messages : Emit(m)

Spec == Init /\ [][Next]_vars

(* The promoting thread runs on, and so does an emission once it has       *)
(* started: handlers terminate.  Nobody is obliged to emit or promote.     *)
Fairness ==
    /\ WF_vars(Promotion)
    /\ \A m \in Messages :
          WF_vars(Room(m) \/ Hold(m) \/ Enter(m) \/ Start(m) \/ Finish(m))

FairSpec == Spec /\ Fairness

------------------------------------------------------------------------------
(* Properties                                                              *)

(* A route emission whose handlers were running when the engine's gate     *)
(* closed has finished them before the components are suspended and the    *)
(* graph changes (wait_for_inflight).                                      *)
InflightHonoured ==
    stage \in {"suspend", "cutover"} => \A m \in early : pc[m] = "done"

(* However a promotion ends short of a raise in begin or complete, both    *)
(* gates are open again, no epoch is current, no component is left         *)
(* suspended and every component has the phase it had.                     *)
GatesOpenAtRest ==
    stage = "idle" =>
        /\ ~epoch
        /\ \A c \in Channels : ~gate[c]
        /\ suspended = {}
        /\ phase = previous

(* No message is handled twice, by its own thread and by a replay or by    *)
(* two replays.                                                            *)
AtMostOnce == \A m \in Messages : runs[m] <= 1

(* A message is replayed only by the promotion during which it was held:   *)
(* one left over from an aborted or failed promotion, or appended too      *)
(* late, never comes back in a later one.                                  *)
ReplayedBySameEpoch ==
    [][\A m \in Messages :
          pc[m] = "held" /\ runs'[m] > runs[m] => heldIn[m] = promotions]_vars

(* Every promotion comes to an end.                                        *)
PromotionEnds == stage # "idle" ~> stage = "idle"

(* A message that end_drain copied for a replay is handled.                *)
CopiedIsHandled ==
    \A m \in Messages :
        (stage = "replay" /\ \E i \in DOMAIN replaying : replaying[i] = m)
            ~> runs[m] > 0

(* A route held back during a promotion that nothing disturbed has been    *)
(* handled when the promotion is over.                                     *)
HeldIsHandled ==
    \A m \in Routes : (pc[m] = "held" /\ stage = "idle") => runs[m] > 0
==============================================================================
