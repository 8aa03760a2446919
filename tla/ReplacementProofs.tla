--------------------------- MODULE ReplacementProofs --------------------------
(***************************************************************************)
(* What holds of the two ways a running component is replaced.             *)
(* CutoverDrain: for any number of messages, components and promotions,    *)
(* any room in the buffers and any set of faults.  HotSwap: for any number *)
(* of instances, updates and deltas, any retention, any number of swaps    *)
(* and any set of faults.                                                  *)
(***************************************************************************)
EXTENDS CutoverDrain, HotSwap, SequenceTheorems, FiniteSetTheorems, TLAPS

------------------------------------------------------------------------------
(* CutoverDrain: the inductive invariant                                   *)

Stages == {"idle", "close", "limit", "reset", "await", "suspend", "cutover",
           "resume", "copy", "open", "clear", "unlimit", "replay"}
Places == {"idle", "room", "append", "open", "entered", "running", "done",
           "refused", "held"}

Types ==
    /\ stage \in Stages /\ chan \in Channels
    /\ aborting \in BOOLEAN /\ epoch \in BOOLEAN
    /\ affected \subseteq Components /\ suspended \subseteq Components
    /\ previous \in [Components -> Phases] /\ phase \in [Components -> Phases]
    /\ gate \in [Channels -> BOOLEAN] /\ limit \in [Channels -> Nat]
    /\ buffer \in [Channels -> Seq(Messages)] /\ replaying \in Seq(Messages)
    /\ inflight \in Int /\ table \in Nat /\ promotions \in Nat
    /\ pc \in [Messages -> Places]
    /\ runs \in [Messages -> Nat] /\ heldIn \in [Messages -> Nat]
    /\ early \subseteq Routes

(* The counter counts the routes that were entered and have not exited.    *)
CountInv == inflight = Cardinality(Counted)

(* An emission counted when the gate closed is under way or done; it is    *)
(* done once the wait for the counter is over.                             *)
EarlyInv ==
    /\ \A m \in early : pc[m] \in {"entered", "running", "done"}
    /\ stage \in {"suspend", "cutover"} => \A m \in early : pc[m] = "done"

(* The messages that wait to be replayed: held, and not handled yet.       *)
Waiting == {m \in Messages : pc[m] = "held" /\ runs[m] = 0}
Via(c) == {m \in Messages : Kind(m) = c}
HeldNow == {m \in Messages : heldIn[m] = promotions}

(* A buffer that the promotion under way has emptied when it closed the    *)
(* gate, so that what it holds was held during this promotion.             *)
Emptied(c) ==
    \/ stage \in {"await", "suspend", "cutover", "resume", "copy", "open",
                  "clear", "unlimit", "replay"}
    \/ stage \in {"close", "limit", "reset"} /\ chan = "event" /\ c = "route"

BuffersHold ==
    \A c \in Channels :
        /\ IsInjective(buffer[c])
        /\ Range(buffer[c]) \subseteq Waiting \cap Via(c)
        /\ Emptied(c) => Range(buffer[c]) \subseteq HeldNow

CopyHolds ==
    /\ IsInjective(replaying)
    /\ Range(replaying) \subseteq Waiting \cap Via(chan) \cap HeldNow
    /\ stage \notin {"open", "clear", "unlimit", "replay"} => replaying = <<>>

(* Once the buffer has been reset, what is replayed is in no buffer.       *)
CopyApart ==
    stage \in {"unlimit", "replay"} =>
        \A c \in Channels : Range(buffer[c]) \cap Range(replaying) = {}

(* A message is handled by its own emission or, when held, by a replay.    *)
RunsInv ==
    \A m \in Messages :
        /\ runs[m] <= 1
        /\ pc[m] \notin {"running", "done", "held"} => runs[m] = 0

HoldInv == BuffersHold /\ CopyHolds /\ CopyApart /\ RunsInv

------------------------------------------------------------------------------
(* Types                                                                   *)

LEMMA TypesInit == Init => Types
<1> SUFFICES ASSUME Init PROVE Types
  OBVIOUS
<1>1. phase \in [Components -> Phases] /\ previous \in [Components -> Phases]
  BY DEF Init, Phases
<1>2. gate \in [Channels -> BOOLEAN] /\ limit \in [Channels -> Nat]
  BY DEF Init
<1>3. buffer \in [Channels -> Seq(Messages)] /\ replaying \in Seq(Messages)
  BY DEF Init
<1>4. /\ pc \in [Messages -> Places]
      /\ runs \in [Messages -> Nat] /\ heldIn \in [Messages -> Nat]
  BY DEF Init, Places
<1>5. stage \in Stages /\ chan \in Channels
  BY DEF Init, Stages, Channels
<1>6. /\ affected \subseteq Components /\ suspended \subseteq Components
      /\ inflight \in Int /\ table \in Nat /\ promotions \in Nat
      /\ early \subseteq Routes
  BY DEF Init
<1>7. aborting \in BOOLEAN /\ epoch \in BOOLEAN
  BY Zenon DEF Init
<1> QED BY <1>1, <1>2, <1>3, <1>4, <1>5, <1>6, <1>7, Zenon DEF Types

LEMMA TypesEmit ==
    ASSUME Types, NEW m \in Messages, Emit(m)
    PROVE  Types'
<1> USE DEF Types
<1>1. CASE Check(m)
  BY <1>1 DEF Check, Goto, coordVars, gateVars, Places
<1>2. CASE Room(m)
  BY <1>2 DEF Room, Goto, coordVars, gateVars, Places
<1>3. CASE Hold(m)
  BY <1>3 DEF Hold, Goto, coordVars, Places, Kind, Channels
<1>4. CASE Enter(m)
  BY <1>4 DEF Enter, Goto, coordVars, gateVars, Places
<1>5. CASE Start(m)
  BY <1>5 DEF Start, Run, Goto, coordVars, gateVars, Places
<1>6. CASE Finish(m)
  BY <1>6 DEF Finish, Goto, coordVars, gateVars, Places
<1> QED BY <1>1, <1>2, <1>3, <1>4, <1>5, <1>6 DEF Emit

LEMMA TypesCoordinator ==
    ASSUME Types,
           Promotion \/ Fault \/ \E S \in SUBSET Components : Begin(S)
    PROVE  Types'
<1> USE DEF Types, Stages
<1>1. ASSUME NEW S \in SUBSET Components, Begin(S) PROVE Types'
  <2>1. promotions' \in Nat /\ affected' \subseteq Components /\ chan' \in Channels
    BY <1>1 DEF Begin, Channels
  <2> QED BY <1>1, <2>1 DEF Begin, gateVars, emitVars
<1>2. CASE CloseGate \/ SetLimit \/ ResetBuffer
  <2>1. CASE CloseGate
    <3>1. gate' \in [Channels -> BOOLEAN] /\ early' \subseteq Routes
      BY <2>1 DEF CloseGate, Counted
    <3> QED BY <2>1, <3>1 DEF CloseGate, emitVars
  <2>2. CASE SetLimit
    <3>1. limit' \in [Channels -> Nat]
      BY <2>2, CutoverDrainAssumption DEF SetLimit
    <3> QED BY <2>2, <3>1 DEF SetLimit, emitVars
  <2>3. CASE ResetBuffer
    <3>1. buffer' \in [Channels -> Seq(Messages)]
      BY <2>3 DEF ResetBuffer
    <3>2. stage' \in Stages /\ chan' \in Channels
      BY <2>3 DEF ResetBuffer, NextGate, Channels
    <3> QED BY <2>3, <3>1, <3>2 DEF ResetBuffer, emitVars
  <2> QED BY <1>2, <2>1, <2>2, <2>3
<1>3. CASE Await \/ AllSuspended \/ Cutover \/ AllResumed
  BY <1>3 DEF Await, AllSuspended, Cutover, AllResumed, gateVars, emitVars, Channels
<1>4. CASE Copy
  BY <1>4 DEF Copy, gateVars, emitVars
<1>5. CASE OpenGate \/ Clear \/ Unlimit
  <2>1. CASE OpenGate
    BY <2>1 DEF OpenGate, emitVars
  <2>2. CASE Clear
    <3>1. buffer' \in [Channels -> Seq(Messages)]
      BY <2>2 DEF Clear
    <3> QED BY <2>2, <3>1 DEF Clear, emitVars
  <2>3. CASE Unlimit
    <3>1. limit' \in [Channels -> Nat] /\ replaying' \in Seq(Messages)
      BY <2>3 DEF Unlimit
    <3> QED BY <2>3, <3>1 DEF Unlimit, emitVars
  <2> QED BY <1>5, <2>1, <2>2, <2>3
<1>6. CASE Replay
  <2>1. replaying # <<>> /\ replaying \in Seq(Messages)
    BY <1>6 DEF Replay
  <2>2. Head(replaying) \in Messages /\ Tail(replaying) \in Seq(Messages)
    BY <2>1
  <2>3. runs' \in [Messages -> Nat]
    BY <1>6, <2>2 DEF Replay, Run
  <2> QED BY <1>6, <2>2, <2>3 DEF Replay, gateVars
<1>7. CASE Replayed
  BY <1>7 DEF Replayed, Leave, gateVars, emitVars, Channels
<1>8. CASE \E c \in Components : Suspend(c)
  BY <1>8 DEF Suspend, gateVars, emitVars, Phases
<1>9. CASE \E c \in Components : Resume(c)
  BY <1>9 DEF Resume, gateVars, emitVars, Phases
<1>10. CASE Timeout \/ SuspendRaises \/ CutoverRaises \/ ResumeRaises
  BY <1>10 DEF Timeout, SuspendRaises, CutoverRaises, ResumeRaises, Leave,
               gateVars, emitVars
<1>11. CASE HandlerRaises
  <2>1. replaying # <<>> /\ replaying \in Seq(Messages)
    BY <1>11 DEF HandlerRaises
  <2>2. Head(replaying) \in Messages
    BY <2>1
  <2>3. runs' \in [Messages -> Nat]
    BY <1>11, <2>2 DEF HandlerRaises, Run
  <2>4. stage' \in Stages /\ epoch' \in BOOLEAN /\ replaying' \in Seq(Messages)
    <3>1. stage' = "idle" /\ epoch' = FALSE /\ replaying' = <<>>
      BY <1>11 DEF HandlerRaises, Leave
    <3>2. epoch' \in BOOLEAN
      BY <3>1, Zenon
    <3> QED BY <3>1, <3>2
  <2>5. UNCHANGED <<chan, aborting, affected, suspended, previous, phase, table,
                    promotions, early, gate, limit, buffer, inflight, pc, heldIn>>
    BY <1>11 DEF HandlerRaises, gateVars
  <2> QED BY <2>3, <2>4, <2>5
<1> QED BY <1>1, <1>2, <1>3, <1>4, <1>5, <1>6, <1>7, <1>8, <1>9, <1>10, <1>11
        DEF Promotion, Fault

LEMMA TypesNext == Types /\ [Next]_vars => Types'
<1> SUFFICES ASSUME Types, [Next]_vars PROVE Types'
  OBVIOUS
<1>1. CASE UNCHANGED vars
  BY <1>1 DEF vars, coordVars, gateVars, emitVars, Types
<1> QED BY <1>1, TypesEmit, TypesCoordinator DEF Next

LEMMA TypesAlways == Spec => []Types
BY TypesInit, TypesNext, PTL DEF Spec

------------------------------------------------------------------------------
(* The counter and the wait for it                                         *)

LEMMA CountedFinite == IsFiniteSet(Counted)
<1>1. Counted \subseteq Routes
  BY DEF Counted
<1> QED BY <1>1, CutoverDrainAssumption, FS_Subset

LEMMA CountInit == Init => CountInv
<1> SUFFICES ASSUME Init PROVE CountInv
  OBVIOUS
<1>1. Counted = {}
  BY DEF Init, Counted, Messages
<1> QED BY <1>1, FS_EmptySet DEF Init, CountInv

(* Whatever leaves the places of the emissions and the counter alone       *)
(* leaves the count.                                                       *)
LEMMA CountKept ==
    ASSUME CountInv, Counted' = Counted, inflight' = inflight
    PROVE  CountInv'
BY DEF CountInv

LEMMA CountNext == Types /\ CountInv /\ [Next]_vars => CountInv'
<1> SUFFICES ASSUME Types, CountInv, [Next]_vars PROVE CountInv'
  OBVIOUS
<1> USE DEF Types
<1>0. Counted' = {m \in Routes : pc'[m] \in {"entered", "running"}}
  BY DEF Counted
<1>1. ASSUME NEW m \in Messages, Check(m) \/ Room(m) \/ Hold(m) PROVE CountInv'
  <2>1. pc[m] \notin {"entered", "running"} /\ pc'[m] \notin {"entered", "running"}
    BY <1>1 DEF Check, Room, Hold, Goto
  <2>2. \A n \in Messages \ {m} : pc'[n] = pc[n]
    BY <1>1 DEF Check, Room, Hold, Goto
  <2>3. inflight' = inflight
    BY <1>1 DEF Check, Room, Hold
  <2>4. Counted' = Counted
    BY <1>0, <2>1, <2>2 DEF Counted, Messages
  <2> QED BY <2>3, <2>4, CountKept
<1>2. ASSUME NEW m \in Messages, Enter(m) PROVE CountInv'
  <2>1. m \in Routes /\ m \notin Counted
    BY <1>2 DEF Enter, Counted
  <2>2. Counted' = Counted \cup {m}
    BY <1>0, <1>2, <2>1 DEF Enter, Goto, Counted, Messages
  <2>3. Cardinality(Counted') = Cardinality(Counted) + 1
    BY <2>1, <2>2, CountedFinite, FS_AddElement
  <2> QED BY <1>2, <2>3 DEF CountInv, Enter
<1>3. ASSUME NEW m \in Messages, Start(m) PROVE CountInv'
  <2>1. Counted' = Counted
    BY <1>0, <1>3 DEF Start, Goto, Counted, Messages
  <2> QED BY <1>3, <2>1, CountKept DEF Start
<1>4. ASSUME NEW m \in Messages, Finish(m) PROVE CountInv'
  <2>1. CASE m \in Routes
    <3>1. m \in Counted
      BY <1>4, <2>1 DEF Finish, Counted
    <3>2. Counted' = Counted \ {m}
      BY <1>0, <1>4, <2>1 DEF Finish, Goto, Counted, Messages
    <3>3. Cardinality(Counted') = Cardinality(Counted) - 1
      BY <3>1, <3>2, CountedFinite, FS_RemoveElement
    <3> QED BY <1>4, <2>1, <3>3 DEF CountInv, Finish
  <2>2. CASE m \notin Routes
    <3>1. Counted' = Counted
      BY <1>0, <1>4, <2>2 DEF Finish, Goto, Counted, Messages
    <3> QED BY <1>4, <2>2, <3>1, CountKept DEF Finish
  <2> QED BY <2>1, <2>2
<1>5. ASSUME UNCHANGED <<inflight, pc>> PROVE CountInv'
  <2>1. Counted' = Counted
    BY <1>5, <1>0 DEF Counted
  <2> QED BY <1>5, <2>1, CountKept
<1>6. ASSUME Promotion \/ Fault \/ \E S \in SUBSET Components : Begin(S)
      PROVE  UNCHANGED <<inflight, pc>>
  BY <1>6 DEF Promotion, Fault, Begin, CloseGate, SetLimit, ResetBuffer, Await, Suspend,
              AllSuspended, Cutover, Resume, AllResumed, Copy, OpenGate, Clear,
              Unlimit, Replay, Replayed, Timeout,
              SuspendRaises, CutoverRaises, ResumeRaises, HandlerRaises, emitVars
<1> QED BY <1>1, <1>2, <1>3, <1>4, <1>5, <1>6 DEF Next, Emit, vars, emitVars

LEMMA EarlyInit == Init => EarlyInv
BY DEF Init, EarlyInv

LEMMA EarlyNext == Types /\ CountInv /\ EarlyInv /\ [Next]_vars => EarlyInv'
<1> SUFFICES ASSUME Types, CountInv, EarlyInv, [Next]_vars PROVE EarlyInv'
  OBVIOUS
<1> USE DEF Types
<1>0. early \subseteq Messages
  BY DEF Messages
<1>1. ASSUME NEW m \in Messages, Emit(m) PROVE EarlyInv'
  <2>1. /\ \A n \in Messages \ {m} : pc'[n] = pc[n]
        /\ pc[m] # "done"
        /\ pc[m] \in {"entered", "running"} => pc'[m] \in {"running", "done"}
    BY <1>1 DEF Emit, Check, Room, Hold, Enter, Start, Finish, Goto
  <2>2. UNCHANGED <<stage, early>>
    BY <1>1 DEF Emit, Check, Room, Hold, Enter, Start, Finish, coordVars
  <2> QED BY <1>0, <2>1, <2>2 DEF EarlyInv
<1>2. CASE CloseGate
  <2>1. pc' = pc /\ stage' \notin {"suspend", "cutover"} /\ early' \in {early, Counted}
    BY <1>2 DEF CloseGate, emitVars
  <2> QED BY <2>1 DEF EarlyInv, Counted
<1>3. CASE Await
  <2>1. Counted = {}
    BY <1>3, CountedFinite, FS_EmptySet DEF Await, CountInv
  <2>2. pc' = pc /\ early' = early
    BY <1>3 DEF Await, emitVars
  <2>3. \A m \in early : pc[m] = "done"
    BY <2>1 DEF EarlyInv, Counted
  <2> QED BY <2>2, <2>3 DEF EarlyInv
<1>4. ASSUME UNCHANGED <<early, pc>>,
             stage' \in {"suspend", "cutover"} => stage \in {"suspend", "cutover"}
      PROVE  EarlyInv'
  BY <1>4 DEF EarlyInv
<1>5. ASSUME NEW S \in SUBSET Components, Begin(S) PROVE EarlyInv'
  BY <1>4, <1>5 DEF Begin, emitVars
<1>6. CASE Fault
  BY <1>4, <1>6 DEF Fault, Timeout, SuspendRaises, CutoverRaises, ResumeRaises,
                    HandlerRaises, Leave, emitVars
<1>7. CASE \E c \in Components : Suspend(c) \/ Resume(c)
  BY <1>4, <1>7 DEF Suspend, Resume, emitVars
<1>8. CASE \/ SetLimit \/ ResetBuffer \/ AllSuspended \/ Cutover \/ AllResumed
           \/ Copy \/ OpenGate \/ Clear \/ Unlimit \/ Replay \/ Replayed
  BY <1>4, <1>8 DEF SetLimit, ResetBuffer, NextGate, AllSuspended, Cutover, AllResumed,
                    Copy, OpenGate, Clear, Unlimit, Replay, Replayed, Leave, emitVars
<1>9. CASE UNCHANGED vars
  BY <1>4, <1>9 DEF vars, coordVars, emitVars
<1> QED BY <1>1, <1>2, <1>3, <1>5, <1>6, <1>7, <1>8, <1>9 DEF Next, Promotion

------------------------------------------------------------------------------
(* Sequences without repetition                                            *)

LEMMA EmptyRange == Range(<<>>) = {} /\ IsInjective(<<>>)
BY DEF Range, IsInjective

LEMMA AppendRange ==
    ASSUME NEW S, NEW s \in Seq(S), NEW m \in S
    PROVE  /\ Range(Append(s, m)) = Range(s) \cup {m}
           /\ IsInjective(s) /\ m \notin Range(s) => IsInjective(Append(s, m))
<1>1. /\ Len(s) \in Nat /\ DOMAIN s = 1..Len(s)
      /\ DOMAIN Append(s, m) = 1..(Len(s) + 1)
      /\ \A i \in DOMAIN s : Append(s, m)[i] = s[i]
      /\ Append(s, m)[Len(s) + 1] = m
  OBVIOUS
<1>2. DOMAIN Append(s, m) = DOMAIN s \cup {Len(s) + 1}
  BY <1>1
<1>3. Range(Append(s, m)) = Range(s) \cup {m}
  BY <1>1, <1>2, Zenon DEF Range
<1>4. ASSUME IsInjective(s), m \notin Range(s) PROVE IsInjective(Append(s, m))
  BY <1>1, <1>2, <1>4 DEF Range, IsInjective
<1> QED BY <1>3, <1>4

LEMMA TailRange ==
    ASSUME NEW S, NEW s \in Seq(S), s # <<>>, IsInjective(s)
    PROVE  /\ Head(s) \in Range(s)
           /\ Tail(s) \in Seq(S) /\ IsInjective(Tail(s))
           /\ Range(Tail(s)) = Range(s) \ {Head(s)}
<1>1. /\ Len(s) \in Nat \ {0} /\ DOMAIN s = 1..Len(s) /\ Head(s) = s[1]
      /\ Tail(s) \in Seq(S) /\ DOMAIN Tail(s) = 1..(Len(s) - 1)
      /\ \A i \in 1..(Len(s) - 1) : Tail(s)[i] = s[i + 1]
  OBVIOUS
<1>2. IsInjective(Tail(s))
  BY <1>1 DEF IsInjective
<1>3. Range(Tail(s)) \subseteq Range(s) \ {Head(s)}
  <2> SUFFICES ASSUME NEW i \in DOMAIN Tail(s)
               PROVE  Tail(s)[i] \in Range(s) /\ Tail(s)[i] # Head(s)
    BY DEF Range
  <2> QED BY <1>1 DEF Range, IsInjective
<1>4. Range(s) \ {Head(s)} \subseteq Range(Tail(s))
  <2> SUFFICES ASSUME NEW i \in DOMAIN s, s[i] # s[1] PROVE s[i] \in Range(Tail(s))
    BY <1>1 DEF Range
  <2>1. i - 1 \in DOMAIN Tail(s) /\ Tail(s)[i - 1] = s[i]
    BY <1>1
  <2> QED BY <2>1 DEF Range
<1>5. Head(s) \in Range(s)
  BY <1>1 DEF Range
<1> QED BY <1>1, <1>2, <1>3, <1>4, <1>5

------------------------------------------------------------------------------
(* What is held and what is replayed                                       *)

LEMMA HoldInit == Init => HoldInv
<1> SUFFICES ASSUME Init PROVE HoldInv
  OBVIOUS
<1>1. (\A c \in Channels : buffer[c] = <<>>) /\ replaying = <<>> /\ stage = "idle"
  BY DEF Init
<1>2. BuffersHold /\ CopyHolds /\ CopyApart
  BY <1>1, EmptyRange DEF BuffersHold, CopyHolds, CopyApart
<1>3. RunsInv
  BY DEF Init, RunsInv
<1> QED BY <1>2, <1>3 DEF HoldInv

(* A step that leaves the buffers, the copy and what waits as they are.    *)
LEMMA HoldKept ==
    ASSUME HoldInv, UNCHANGED <<buffer, replaying>>,
           Waiting \subseteq Waiting',
           \/ Waiting \cap HeldNow \subseteq HeldNow'
           \/ replaying = <<>> /\ \A c \in Channels : ~ Emptied(c)',
           replaying # <<>> => chan' = chan,
           \A c \in Channels : Emptied(c)' => Emptied(c),
           stage' \notin {"open", "clear", "unlimit", "replay"} => replaying = <<>>,
           stage' \in {"unlimit", "replay"}
               => stage \in {"unlimit", "replay"} \/ replaying = <<>>
    PROVE  BuffersHold' /\ CopyHolds' /\ CopyApart'
<1>0. \A c : Via(c)' = Via(c)
  BY DEF Via, Kind
<1>1. BuffersHold'
  <2> SUFFICES ASSUME NEW c \in Channels
               PROVE  /\ IsInjective(buffer[c])
                      /\ Range(buffer[c]) \subseteq Waiting' \cap Via(c)
                      /\ Emptied(c)' => Range(buffer[c]) \subseteq HeldNow'
    BY <1>0 DEF BuffersHold
  <2>1. /\ IsInjective(buffer[c]) /\ Range(buffer[c]) \subseteq Waiting \cap Via(c)
        /\ Emptied(c) => Range(buffer[c]) \subseteq HeldNow
    BY DEF HoldInv, BuffersHold
  <2> QED BY <2>1
<1>2. CopyHolds'
  <2>1. CASE replaying = <<>>
    BY <2>1, EmptyRange DEF CopyHolds
  <2>2. CASE replaying # <<>>
    <3>1. /\ IsInjective(replaying)
          /\ Range(replaying) \subseteq Waiting \cap Via(chan) \cap HeldNow
      BY DEF HoldInv, CopyHolds
    <3>2. Range(replaying) \subseteq Waiting' \cap Via(chan') \cap HeldNow'
      BY <2>2, <3>1
    <3> QED BY <1>0, <2>2, <3>1, <3>2 DEF CopyHolds
  <2> QED BY <2>1, <2>2
<1>3. CopyApart'
  <2>1. CASE replaying = <<>>
    BY <2>1, EmptyRange DEF CopyApart
  <2>2. CASE replaying # <<>>
    BY <2>2 DEF CopyApart, HoldInv
  <2> QED BY <2>1, <2>2
<1> QED BY <1>1, <1>2, <1>3

LEMMA RunsEmit ==
    ASSUME Types, RunsInv, NEW m \in Messages, Emit(m)
    PROVE  RunsInv'
<1> USE DEF Types
<1>1. runs[m] <= 1 /\ (pc[m] \notin {"running", "done", "held"} => runs[m] = 0)
  BY DEF RunsInv
<1>2. \A n \in Messages \ {m} : pc'[n] = pc[n] /\ runs'[n] = runs[n]
  BY DEF Emit, Check, Room, Hold, Enter, Start, Finish, Goto, Run
<1>3. runs'[m] <= 1 /\ (pc'[m] \notin {"running", "done", "held"} => runs'[m] = 0)
  <2>1. CASE Start(m)
    BY <1>1, <2>1 DEF Start, Run, Goto
  <2>2. CASE Check(m) \/ Room(m) \/ Hold(m) \/ Enter(m) \/ Finish(m)
    BY <1>1, <2>2 DEF Check, Room, Hold, Enter, Finish, Goto
  <2> QED BY <2>1, <2>2 DEF Emit
<1> QED BY <1>2, <1>3 DEF RunsInv

LEMMA HoldEmit ==
    ASSUME Types, HoldInv, NEW m \in Messages, Emit(m)
    PROVE  HoldInv'
<1>1. UNCHANGED <<stage, chan, promotions, replaying>>
  BY DEF Emit, Check, Room, Hold, Enter, Start, Finish, coordVars
<1>2. pc[m] # "held"
  BY DEF Emit, Check, Room, Hold, Enter, Start, Finish
<1>3. \A n \in Messages \ {m} : /\ pc'[n] = pc[n] /\ runs'[n] = runs[n]
                                /\ heldIn'[n] = heldIn[n]
  BY DEF Types, Emit, Check, Room, Hold, Enter, Start, Finish, Goto, Run
<1>4. m \notin Waiting /\ Waiting \subseteq Waiting' /\ Waiting \cap HeldNow \subseteq HeldNow'
  BY <1>1, <1>2, <1>3 DEF Waiting, HeldNow
<1>5. RunsInv'
  BY RunsEmit DEF HoldInv
<1>6. \A c \in Channels : Emptied(c)' = Emptied(c)
  BY <1>1 DEF Emptied
<1>7. CASE buffer' = buffer
  <2>1. stage \notin {"open", "clear", "unlimit", "replay"} => replaying = <<>>
    BY DEF HoldInv, CopyHolds
  <2>2. /\ UNCHANGED <<buffer, replaying>> /\ chan' = chan
        /\ \A c \in Channels : Emptied(c)' => Emptied(c)
        /\ stage' \notin {"open", "clear", "unlimit", "replay"} => replaying = <<>>
        /\ stage' \in {"unlimit", "replay"} => stage \in {"unlimit", "replay"}
    BY <1>1, <1>6, <1>7, <2>1
  <2>3. BuffersHold' /\ CopyHolds' /\ CopyApart'
    BY <1>4, <2>2, HoldKept
  <2> QED BY <1>5, <2>3 DEF HoldInv
<1>8. CASE Hold(m)
  <2> DEFINE k == Kind(m)
  <2>1. /\ k \in Channels /\ m \in Via(k)
        /\ \A c \in Channels : buffer'[c] = IF c = k THEN Append(buffer[c], m)
                                            ELSE buffer[c]
    BY <1>8 DEF Hold, Kind, Channels, Via, Types
  <2>2. m \in Waiting' /\ m \in HeldNow'
    <3>1. runs[m] = 0
      BY <1>8 DEF HoldInv, RunsInv, Hold
    <3> QED BY <1>8, <3>1 DEF Hold, Goto, Waiting, HeldNow, Types, coordVars
  <2>3. \A c \in Channels :
            /\ IsInjective(buffer[c]) /\ Range(buffer[c]) \subseteq Waiting \cap Via(c)
            /\ Emptied(c) => Range(buffer[c]) \subseteq HeldNow
    BY DEF HoldInv, BuffersHold
  <2>4. \A c \in Channels : Range(buffer'[c]) = IF c = k THEN Range(buffer[c]) \cup {m}
                                                  ELSE Range(buffer[c])
    <3>1. \A c \in Channels : buffer[c] \in Seq(Messages)
      BY DEF Types
    <3>2. \A c \in Channels : Range(Append(buffer[c], m)) = Range(buffer[c]) \cup {m}
      BY <3>1, AppendRange
    <3> QED BY <2>1, <3>2, Zenon
  <2>5. BuffersHold'
    <3> SUFFICES ASSUME NEW c \in Channels
                 PROVE  /\ IsInjective(buffer'[c])
                        /\ Range(buffer'[c]) \subseteq Waiting' \cap Via(c)
                        /\ Emptied(c)' => Range(buffer'[c]) \subseteq HeldNow'
      BY DEF BuffersHold, Via, Kind
    <3>1. IsInjective(buffer'[c])
      <4>1. m \notin Range(buffer[c]) /\ IsInjective(buffer[c])
        BY <1>4, <2>3
      <4>2. buffer[c] \in Seq(Messages)
        BY DEF Types
      <4> QED BY <2>1, <4>1, <4>2, AppendRange
    <3>2. Range(buffer'[c]) \subseteq Waiting' \cap Via(c)
      BY <1>4, <2>1, <2>2, <2>3, <2>4
    <3>3. Emptied(c)' => Range(buffer'[c]) \subseteq HeldNow'
      BY <1>4, <1>6, <2>2, <2>3, <2>4
    <3> QED BY <3>1, <3>2, <3>3
  <2>6. Range(replaying) \subseteq Waiting \cap Via(chan) \cap HeldNow
    BY DEF HoldInv, CopyHolds
  <2>7. CopyHolds'
    BY <1>1, <1>4, <2>6 DEF HoldInv, CopyHolds, Via, Kind
  <2>8. CopyApart'
    BY <1>1, <1>4, <2>4, <2>6 DEF HoldInv, CopyApart
  <2> QED BY <1>5, <2>5, <2>7, <2>8 DEF HoldInv
<1> QED BY <1>7, <1>8 DEF Emit, Check, Room, Enter, Start, Finish, gateVars

(* A step of the coordinator that touches neither gates nor emissions.     *)
LEMMA HoldQuiet ==
    ASSUME HoldInv, UNCHANGED <<buffer, replaying, pc, runs, heldIn, promotions>>,
           \A c \in Channels : Emptied(c)' => Emptied(c),
           replaying # <<>> => chan' = chan /\ stage' = stage,
           stage' \in {"unlimit", "replay"} => stage = stage'
    PROVE  HoldInv'
<1>1. Waiting' = Waiting /\ HeldNow' = HeldNow
  BY DEF Waiting, HeldNow
<1>2. replaying # <<>> => stage \in {"open", "clear", "unlimit", "replay"}
  BY DEF HoldInv, CopyHolds
<1>3. /\ Waiting \subseteq Waiting' /\ Waiting \cap HeldNow \subseteq HeldNow'
      /\ UNCHANGED <<buffer, replaying>> /\ (replaying # <<>> => chan' = chan)
      /\ stage' \notin {"open", "clear", "unlimit", "replay"} => replaying = <<>>
  BY <1>1, <1>2
<1>4. BuffersHold' /\ CopyHolds' /\ CopyApart'
  BY <1>3, HoldKept
<1>5. RunsInv'
  BY DEF HoldInv, RunsInv
<1> QED BY <1>4, <1>5 DEF HoldInv

LEMMA HoldClose ==
    ASSUME Types, HoldInv, CloseGate \/ SetLimit
    PROVE  HoldInv'
<1>1. /\ stage \in {"close", "limit"} /\ stage' \in {"idle", "limit", "reset"}
      /\ UNCHANGED <<chan, buffer, replaying, pc, runs, heldIn, promotions>>
      /\ stage' # "idle" => stage' \in {"limit", "reset"}
  BY DEF CloseGate, SetLimit, emitVars
<1>2. replaying = <<>> /\ \A c \in Channels : Emptied(c)' => Emptied(c)
  BY <1>1 DEF HoldInv, CopyHolds, Emptied
<1> QED BY <1>1, <1>2, HoldQuiet

(* The buffer of one gate is emptied.                                      *)
LEMMA HoldReset ==
    ASSUME Types, HoldInv, ResetBuffer
    PROVE  HoldInv'
<1>1. /\ stage = "reset" /\ replaying = <<>>
      /\ UNCHANGED <<replaying, pc, runs, heldIn, promotions>>
      /\ \A c \in Channels : buffer'[c] = IF c = chan THEN <<>> ELSE buffer[c]
  BY DEF ResetBuffer, emitVars, HoldInv, CopyHolds, Types
<1>2. /\ stage' \in {"close", "await"}
      /\ \A c \in Channels \ {chan} : Emptied(c)' => Emptied(c)
  BY DEF ResetBuffer, NextGate, Emptied, Channels, Types
<1>3. Waiting' = Waiting /\ HeldNow' = HeldNow
  BY <1>1 DEF Waiting, HeldNow
<1>4. BuffersHold'
  <2> SUFFICES ASSUME NEW c \in Channels
               PROVE  /\ IsInjective(buffer'[c])
                      /\ Range(buffer'[c]) \subseteq Waiting \cap Via(c)
                      /\ Emptied(c)' => Range(buffer'[c]) \subseteq HeldNow
    BY <1>3 DEF BuffersHold, Via, Kind
  <2>1. CASE c = chan
    BY <1>1, <2>1, EmptyRange
  <2>2. CASE c # chan
    BY <1>1, <1>2, <2>2 DEF HoldInv, BuffersHold
  <2> QED BY <2>1, <2>2
<1>5. CopyHolds' /\ CopyApart'
  BY <1>1, <1>2, EmptyRange DEF CopyHolds, CopyApart
<1>6. RunsInv'
  BY <1>1 DEF HoldInv, RunsInv
<1> QED BY <1>4, <1>5, <1>6 DEF HoldInv

LEMMA HoldCopy ==
    ASSUME Types, HoldInv, Copy
    PROVE  HoldInv'
<1>1. /\ stage = "copy" /\ stage' = "open" /\ replaying' = buffer[chan]
      /\ UNCHANGED <<chan, buffer, pc, runs, heldIn, promotions>>
      /\ chan \in Channels
  BY DEF Copy, gateVars, emitVars, Types
<1>2. Waiting' = Waiting /\ HeldNow' = HeldNow /\ \A c : Via(c)' = Via(c)
  BY <1>1 DEF Waiting, HeldNow, Via, Kind
<1>3. \A c \in Channels : Emptied(c) /\ Emptied(c)'
  BY <1>1 DEF Emptied
<1>4. CopyHolds'
  BY <1>1, <1>2, <1>3 DEF HoldInv, BuffersHold, CopyHolds
<1>5. BuffersHold'
  BY <1>1, <1>2, <1>3 DEF HoldInv, BuffersHold
<1>6. CopyApart' /\ RunsInv'
  BY <1>1 DEF CopyApart, HoldInv, RunsInv
<1> QED BY <1>4, <1>5, <1>6 DEF HoldInv

LEMMA HoldOpen ==
    ASSUME Types, HoldInv, OpenGate
    PROVE  HoldInv'
<1>1. /\ stage = "open" /\ stage' = "clear"
      /\ UNCHANGED <<chan, buffer, replaying, pc, runs, heldIn, promotions>>
  BY DEF OpenGate, emitVars
<1>2. Waiting' = Waiting /\ HeldNow' = HeldNow /\ \A c \in Channels : Emptied(c)
  BY <1>1 DEF Waiting, HeldNow, Emptied
<1>3. BuffersHold' /\ CopyHolds' /\ CopyApart'
  BY <1>1, <1>2, HoldKept
<1>4. RunsInv'
  BY <1>1 DEF HoldInv, RunsInv
<1> QED BY <1>3, <1>4 DEF HoldInv

LEMMA HoldUnlimit ==
    ASSUME Types, HoldInv, Unlimit
    PROVE  HoldInv'
<1>1. /\ stage = "unlimit" /\ stage' = "replay" /\ replaying' \in {<<>>, replaying}
      /\ UNCHANGED <<chan, buffer, pc, runs, heldIn, promotions>>
  BY DEF Unlimit, emitVars
<1>2. Waiting' = Waiting /\ HeldNow' = HeldNow /\ \A c : Via(c)' = Via(c)
  BY <1>1 DEF Waiting, HeldNow, Via, Kind
<1>3. CopyHolds' /\ CopyApart'
  BY <1>1, <1>2, EmptyRange DEF HoldInv, CopyHolds, CopyApart
<1>4. BuffersHold' /\ RunsInv'
  BY <1>1, <1>2 DEF HoldInv, BuffersHold, RunsInv, Emptied
<1> QED BY <1>3, <1>4 DEF HoldInv

LEMMA HoldClear ==
    ASSUME Types, HoldInv, Clear
    PROVE  HoldInv'
<1>1. /\ stage = "clear" /\ stage' = "unlimit" /\ replaying' = replaying
      /\ UNCHANGED <<chan, pc, runs, heldIn, promotions>>
      /\ \A c \in Channels : buffer'[c] = IF c = chan THEN <<>> ELSE buffer[c]
  BY DEF Clear, emitVars, Types
<1>2. Waiting' = Waiting /\ HeldNow' = HeldNow /\ \A c : Via(c)' = Via(c)
  BY <1>1 DEF Waiting, HeldNow, Via, Kind
<1>3. CopyHolds'
  BY <1>1, <1>2, EmptyRange DEF HoldInv, CopyHolds
<1>4. \A c \in Channels : IsInjective(buffer'[c])
                          /\ Range(buffer'[c]) \subseteq Waiting \cap Via(c) \cap HeldNow
                          /\ (c = chan => Range(buffer'[c]) = {})
  BY <1>1, EmptyRange DEF HoldInv, BuffersHold, Emptied
<1>5. BuffersHold'
  BY <1>2, <1>4 DEF BuffersHold
<1>6. CopyApart'
  <2> SUFFICES ASSUME NEW c \in Channels \ {chan}
               PROVE  Range(buffer'[c]) \cap Range(replaying') = {}
    BY <1>4 DEF CopyApart
  <2>1. Range(buffer'[c]) \subseteq Via(c) /\ Range(replaying') \subseteq Via(chan)
    BY <1>1, <1>4, EmptyRange DEF HoldInv, CopyHolds
  <2>2. Via(c) \cap Via(chan) = {}
    BY DEF Via
  <2> QED BY <2>1, <2>2
<1>7. RunsInv'
  BY <1>1 DEF HoldInv, RunsInv
<1> QED BY <1>3, <1>5, <1>6, <1>7 DEF HoldInv

(* The first of the copy is handled and the copy loses it.                 *)
LEMMA HoldReplay ==
    ASSUME Types, HoldInv, Replay \/ HandlerRaises
    PROVE  HoldInv'
<1> DEFINE m == Head(replaying)
<1>1. /\ stage = "replay" /\ replaying # <<>> /\ Run(m)
      /\ UNCHANGED <<chan, buffer, pc, heldIn, promotions>>
      /\ stage' \in {"replay", "idle"}
      /\ \/ replaying' = <<>>
         \/ replaying' = Tail(replaying) /\ stage' = "replay"
  BY DEF Replay, HandlerRaises, Leave, gateVars
<1>2. /\ m \in Range(replaying) /\ IsInjective(Tail(replaying))
      /\ Range(Tail(replaying)) = Range(replaying) \ {m}
  BY <1>1, TailRange DEF HoldInv, CopyHolds, Types
<1>3. m \in Waiting /\ m \in Messages
  BY <1>2 DEF HoldInv, CopyHolds, Waiting
<1>4. runs'[m] = 1 /\ \A n \in Messages \ {m} : runs'[n] = runs[n]
  BY <1>1, <1>3 DEF Run, Waiting, Types
<1>5. RunsInv'
  BY <1>1, <1>3, <1>4 DEF HoldInv, RunsInv, Waiting
<1>6. /\ Waiting \ {m} \subseteq Waiting' /\ HeldNow' = HeldNow
      /\ \A c : Via(c)' = Via(c)
  BY <1>1, <1>4 DEF Waiting, HeldNow, Via, Kind
<1>7. BuffersHold'
  <2> SUFFICES ASSUME NEW c \in Channels
               PROVE  /\ IsInjective(buffer[c])
                      /\ Range(buffer[c]) \subseteq Waiting' \cap Via(c) \cap HeldNow
    BY <1>1, <1>6 DEF BuffersHold
  <2>1. m \notin Range(buffer[c])
    BY <1>1, <1>2 DEF HoldInv, CopyApart
  <2> QED BY <1>1, <1>6, <2>1 DEF HoldInv, BuffersHold, Emptied
<1>8. CASE replaying' = <<>>
  <2>1. CopyHolds' /\ CopyApart'
    BY <1>1, <1>8, EmptyRange DEF CopyHolds, CopyApart
  <2> QED BY <1>5, <1>7, <2>1 DEF HoldInv
<1>9. CASE replaying' = Tail(replaying) /\ stage' = "replay"
  <2>1. CopyHolds'
    BY <1>1, <1>2, <1>6, <1>9 DEF HoldInv, CopyHolds
  <2>2. CopyApart'
    BY <1>1, <1>2, <1>9 DEF HoldInv, CopyApart
  <2> QED BY <1>5, <1>7, <2>1, <2>2 DEF HoldInv
<1> QED BY <1>1, <1>8, <1>9

LEMMA HoldCoordinator ==
    ASSUME Types, HoldInv,
           Promotion \/ Fault \/ \E S \in SUBSET Components : Begin(S)
    PROVE  HoldInv'
<1>0. stage \notin {"open", "clear", "unlimit", "replay"} => replaying = <<>>
  BY DEF HoldInv, CopyHolds
<1>1. ASSUME NEW S \in SUBSET Components, Begin(S) PROVE HoldInv'
  <2>1. /\ \A c \in Channels : ~ Emptied(c)'
        /\ stage = "idle" /\ stage' = "close"
        /\ UNCHANGED <<buffer, replaying, pc, runs, heldIn>>
    BY <1>1 DEF Begin, Emptied, gateVars, emitVars
  <2>2. Waiting' = Waiting
    BY <2>1 DEF Waiting
  <2>3. BuffersHold' /\ CopyHolds' /\ CopyApart'
    BY <1>0, <2>1, <2>2, HoldKept
  <2>4. RunsInv'
    BY <2>1 DEF HoldInv, RunsInv
  <2> QED BY <2>3, <2>4 DEF HoldInv
<1>2. CASE \/ Await \/ AllSuspended \/ Cutover \/ AllResumed
           \/ Timeout \/ SuspendRaises \/ CutoverRaises \/ ResumeRaises
  BY <1>0, <1>2, HoldQuiet
     DEF Await, AllSuspended, Cutover, AllResumed, Timeout, SuspendRaises,
         CutoverRaises, ResumeRaises, Leave, gateVars, emitVars, Emptied
<1>3. CASE \E c \in Components : Suspend(c) \/ Resume(c)
  BY <1>0, <1>3, HoldQuiet DEF Suspend, Resume, gateVars, emitVars, Emptied
<1>4. CASE Replayed
  BY <1>0, <1>4, HoldQuiet DEF Replayed, Leave, gateVars, emitVars, Emptied
<1> QED BY <1>1, <1>2, <1>3, <1>4, HoldClose, HoldReset, HoldCopy, HoldOpen, HoldClear,
        HoldUnlimit, HoldReplay
        DEF Promotion, Fault

LEMMA HoldNext == Types /\ HoldInv /\ [Next]_vars => HoldInv'
<1> SUFFICES ASSUME Types, HoldInv, [Next]_vars PROVE HoldInv'
  OBVIOUS
<1>1. CASE UNCHANGED vars
  BY <1>1, HoldQuiet DEF vars, coordVars, gateVars, emitVars, Emptied
<1> QED BY <1>1, HoldEmit, HoldCoordinator DEF Next

------------------------------------------------------------------------------
(* The gates and the phases, when nothing but the cutover may raise        *)

GateInv ==
    /\ stage = "idle" => ~epoch /\ ~gate["route"] /\ ~gate["event"]
    /\ stage = "close" => ~gate["event"] /\ (chan = "route" => ~gate["route"])
    /\ stage \in {"limit", "reset"} /\ chan = "route" => ~gate["event"]
    /\ stage \in {"copy", "open", "clear", "unlimit", "replay"} /\ chan = "event"
       => ~gate["route"]
    /\ stage \in {"clear", "unlimit", "replay"} => ~gate[chan]

(* The phase of a component, suspended or not, for the one it had.         *)
PhaseOf(c) ==
    IF c \in suspended /\ previous[c] \in {"ACTIVATED", "COMMITTED"}
    THEN "SUSPENDED" ELSE previous[c]

PhaseInv ==
    /\ \A c \in Components : previous[c] # "SUSPENDED" /\ phase[c] = PhaseOf(c)
    /\ stage \notin {"suspend", "cutover", "resume"} => suspended = {}

LEMMA RestInit == Init => GateInv /\ PhaseInv
<1> SUFFICES ASSUME Init PROVE GateInv /\ PhaseInv
  OBVIOUS
<1>1. GateInv
  BY DEF Init, GateInv, Channels
<1>2. \A c \in Components : previous[c] # "SUSPENDED" /\ phase[c] = previous[c]
  BY DEF Init
<1> QED BY <1>1, <1>2 DEF Init, PhaseInv, PhaseOf

LEMMA GateNext ==
    ASSUME Faults \subseteq {"cutover"}, Types, GateInv, [Next]_vars
    PROVE  GateInv'
<1> USE DEF Types
<1>1. ASSUME NEW m \in Messages, Emit(m) PROVE UNCHANGED <<stage, chan, epoch, gate>>
  BY <1>1 DEF Emit, Check, Room, Hold, Enter, Start, Finish, coordVars, gateVars
<1>2. ASSUME UNCHANGED <<stage, chan, epoch, gate>> PROVE GateInv'
  BY <1>2 DEF GateInv
<1>3. ASSUME NEW S \in SUBSET Components, Begin(S) PROVE GateInv'
  BY <1>3 DEF Begin, gateVars, GateInv
<1>4. CASE CloseGate \/ SetLimit \/ ResetBuffer
  BY <1>4 DEF CloseGate, SetLimit, ResetBuffer, NextGate, GateInv, Channels
<1>5. CASE Await \/ AllSuspended \/ Cutover \/ AllResumed \/ CutoverRaises
  BY <1>5 DEF Await, AllSuspended, Cutover, AllResumed, CutoverRaises, gateVars, GateInv
<1>6. CASE Copy
  BY <1>6 DEF Copy, gateVars, GateInv
<1>7. CASE OpenGate \/ Clear \/ Unlimit
  BY <1>7 DEF OpenGate, Clear, Unlimit, GateInv, Channels
<1>8. CASE Replay
  BY <1>2, <1>8 DEF Replay, gateVars
<1>9. CASE Replayed
  BY <1>9 DEF Replayed, Leave, gateVars, GateInv, Channels
<1>10. CASE \E c \in Components : Suspend(c) \/ Resume(c)
  BY <1>2, <1>10 DEF Suspend, Resume, gateVars
<1>11. ~ (Timeout \/ SuspendRaises \/ ResumeRaises \/ HandlerRaises)
  BY DEF Timeout, SuspendRaises, ResumeRaises, HandlerRaises
<1>12. CASE UNCHANGED vars
  BY <1>2, <1>12 DEF vars, coordVars, gateVars
<1> QED BY <1>1, <1>2, <1>3, <1>4, <1>5, <1>6, <1>7, <1>8, <1>9, <1>10, <1>11, <1>12
        DEF Next, Promotion, Fault

LEMMA PhaseNext ==
    ASSUME Faults \subseteq {"cutover"}, Types, GateInv, PhaseInv, [Next]_vars
    PROVE  PhaseInv'
<1> USE DEF Types
<1>1. ASSUME NEW m \in Messages, Emit(m)
      PROVE  UNCHANGED <<stage, suspended, previous, phase>>
  BY <1>1 DEF Emit, Check, Room, Hold, Enter, Start, Finish, coordVars
<1>2. ASSUME UNCHANGED <<suspended, previous, phase>>,
             \/ stage' \in {"suspend", "cutover", "resume"} \/ suspended = {}
      PROVE  PhaseInv'
  BY <1>2 DEF PhaseInv, PhaseOf
<1>3. ASSUME NEW S \in SUBSET Components, Begin(S) PROVE PhaseInv'
  BY <1>2, <1>3 DEF Begin, PhaseInv
<1>4. CASE \/ CloseGate \/ SetLimit \/ ResetBuffer \/ Await \/ Copy
           \/ OpenGate \/ Clear \/ Unlimit \/ Replay \/ Replayed
  BY <1>2, <1>4 DEF CloseGate, SetLimit, ResetBuffer, Await, Copy, OpenGate, Clear,
                    Unlimit, Replay, Replayed, PhaseInv
<1>5. CASE AllSuspended \/ Cutover \/ AllResumed \/ CutoverRaises
  BY <1>2, <1>5 DEF AllSuspended, Cutover, AllResumed, CutoverRaises, PhaseInv
<1>6. ASSUME NEW c \in Components, Suspend(c) PROVE PhaseInv'
  <2>1. c \notin suspended /\ phase[c] = previous[c] /\ previous[c] # "SUSPENDED"
    BY <1>6 DEF Suspend, PhaseInv, PhaseOf
  <2>2. previous' = previous
    BY <1>6, <2>1 DEF Suspend
  <2>3. \A d \in Components : phase'[d] = PhaseOf(d)'
    BY <1>6, <2>1, <2>2 DEF Suspend, PhaseInv, PhaseOf
  <2> QED BY <1>6, <2>2, <2>3 DEF Suspend, PhaseInv
<1>7. ASSUME NEW c \in Components, Resume(c) PROVE PhaseInv'
  <2>1. \A d \in Components : phase'[d] = PhaseOf(d)'
    BY <1>7 DEF Resume, PhaseInv, PhaseOf
  <2> QED BY <1>7, <2>1 DEF Resume, PhaseInv
<1>8. ~ (Timeout \/ SuspendRaises \/ ResumeRaises \/ HandlerRaises)
  BY DEF Timeout, SuspendRaises, ResumeRaises, HandlerRaises
<1>9. CASE UNCHANGED vars
  BY <1>9 DEF vars, coordVars, PhaseInv, PhaseOf
<1>10. ASSUME UNCHANGED <<stage, suspended, previous, phase>> PROVE PhaseInv'
  BY <1>10 DEF PhaseInv, PhaseOf
<1> QED BY <1>1, <1>3, <1>4, <1>5, <1>6, <1>7, <1>8, <1>9, <1>10
        DEF Next, Promotion, Fault

------------------------------------------------------------------------------
(* The theorems                                                            *)

(* However many messages are emitted and whatever raises, no route whose   *)
(* handlers ran when the gate closed is still running when the components  *)
(* are suspended and the graph changes (wait_for_inflight).                *)
THEOREM InflightAlwaysHonoured == Spec => []InflightHonoured
<1>1. Init => CountInv /\ EarlyInv
  BY CountInit, EarlyInit
<1>2. Types /\ CountInv /\ EarlyInv /\ [Next]_vars => (CountInv /\ EarlyInv)'
  BY CountNext, EarlyNext
<1>3. CountInv /\ EarlyInv => InflightHonoured
  BY DEF EarlyInv, InflightHonoured
<1> QED BY <1>1, <1>2, <1>3, TypesAlways, PTL DEF Spec

LEMMA HoldAlways == Spec => [](Types /\ HoldInv)
BY HoldInit, HoldNext, TypesAlways, PTL DEF Spec

(* Whatever is refused, held, copied, replayed or lost, no message is      *)
(* handled twice (emit, end_drain).                                        *)
THEOREM HandledAtMostOnce == Spec => []AtMostOnce
<1>1. HoldInv => AtMostOnce
  BY DEF HoldInv, RunsInv, AtMostOnce
<1> QED BY <1>1, HoldAlways, PTL

(* A replay handles only what was held during its own promotion            *)
(* (begin_drain empties the buffer, end_drain copies it).                  *)
THEOREM AlwaysReplayedBySameEpoch == Spec => ReplayedBySameEpoch
<1> DEFINE OwnOnly == \A m \in Messages :
               pc[m] = "held" /\ runs'[m] > runs[m] => heldIn[m] = promotions
<1>1. ASSUME Types, HoldInv, [Next]_vars PROVE OwnOnly
  <2> SUFFICES ASSUME NEW m \in Messages, pc[m] = "held", runs'[m] > runs[m]
               PROVE  heldIn[m] = promotions
    OBVIOUS
  <2>0. runs[m] \in Nat /\ runs \in [Messages -> Nat]
    BY <1>1 DEF Types
  <2>1. ASSUME NEW n \in Messages, Emit(n) PROVE FALSE
    <3>1. pc[n] # "held"
      BY <2>1 DEF Emit, Check, Room, Hold, Enter, Start, Finish
    <3>2. runs' = runs \/ runs' = [runs EXCEPT ![n] = @ + 1]
      BY <2>1 DEF Emit, Check, Room, Hold, Enter, Start, Finish, Run
    <3>3. m # n
      BY <3>1
    <3>4. runs'[m] = runs[m]
      BY <2>0, <3>2, <3>3
    <3> QED BY <2>0, <3>4
  <2>2. CASE Replay \/ HandlerRaises
    <3>1. replaying # <<>> /\ runs' = [runs EXCEPT ![Head(replaying)] = @ + 1]
      BY <2>2 DEF Replay, HandlerRaises, Run
    <3>2. m = Head(replaying)
      <4> SUFFICES ASSUME m # Head(replaying) PROVE FALSE
        OBVIOUS
      <4>1. runs'[m] = runs[m]
        BY <2>0, <3>1
      <4> QED BY <2>0, <4>1
    <3>3. replaying \in Seq(Messages) /\ IsInjective(replaying)
          /\ Range(replaying) \subseteq HeldNow
      BY <1>1 DEF Types, HoldInv, CopyHolds
    <3>4. m \in HeldNow
      BY <3>1, <3>2, <3>3, TailRange
    <3> QED BY <3>4 DEF HeldNow
  <2>3. CASE \/ Promotion /\ ~Replay
             \/ Fault /\ ~HandlerRaises
             \/ \E S \in SUBSET Components : Begin(S)
             \/ UNCHANGED vars
    <3>1. runs' = runs
      BY <2>3 DEF Promotion, Fault, Begin, CloseGate, SetLimit, ResetBuffer, Await,
                  Suspend, AllSuspended, Cutover, Resume, AllResumed, Copy, OpenGate,
                  Clear, Unlimit, Replayed, Timeout,
                  SuspendRaises, CutoverRaises, ResumeRaises, emitVars, vars
    <3> QED BY <2>0, <3>1
  <2> QED BY <1>1, <2>1, <2>2, <2>3 DEF Next, Promotion, Fault
<1>2. Types /\ HoldInv /\ [Next]_vars => [OwnOnly]_vars
  BY <1>1
<1>3. Spec => [][OwnOnly]_vars
  BY <1>2, HoldAlways, PTL DEF Spec
<1> QED BY <1>3 DEF ReplayedBySameEpoch

(* If only the cutover may raise, every promotion, completed or aborted,   *)
(* leaves the gates open and every component in the phase it had           *)
(* (complete, abort).                                                      *)
THEOREM GatesAlwaysOpenAtRest ==
    ASSUME Faults \subseteq {"cutover"}
    PROVE  Spec => []GatesOpenAtRest
<1>1. Init => GateInv /\ PhaseInv
  BY RestInit
<1>2. Types /\ GateInv /\ PhaseInv /\ [Next]_vars => (GateInv /\ PhaseInv)'
  BY GateNext, PhaseNext
<1>3. Types /\ GateInv /\ PhaseInv => GatesOpenAtRest
  <2> SUFFICES ASSUME Types, GateInv, PhaseInv, stage = "idle"
               PROVE  /\ ~epoch /\ (\A c \in Channels : ~gate[c])
                      /\ suspended = {} /\ phase = previous
    BY DEF GatesOpenAtRest
  <2>1. ~epoch /\ \A c \in Channels : ~gate[c]
    BY DEF GateInv, Channels
  <2>2. suspended = {} /\ \A c \in Components : phase[c] = previous[c]
    BY DEF PhaseInv, PhaseOf
  <2> QED BY <2>1, <2>2 DEF Types
<1> QED BY <1>1, <1>2, <1>3, TypesAlways, PTL DEF Spec

------------------------------------------------------------------------------
(* HotSwap: the inductive invariant                                        *)

(* How many steps are done where.                                          *)
StepOf ==
    /\ swap.pc \in {"suspend", "export"} => swap.done = 0
    /\ At("deactivate") => swap.done = 1
    /\ At("migrate") => swap.done = 2
    /\ At("resume") => swap.done = 3
    /\ At("observe") => swap.done = 4
    /\ At("report") => swap.done \in {4, 5}

(* A swap under way replaces the instance in service by another one.       *)
Engaged ==
    ~At("idle") => /\ current = swap.out /\ swap.in # swap.out
                   /\ swap.event = "initiated"

(* A capture that was made left a checkpoint.                              *)
Captured == swap.done > 0 => bucket # <<>>

IInv == TypeOK /\ StepOf /\ Engaged /\ Captured

(* The only instance that may run at each place of a swap.                 *)
Serves(i) ==
    \/ At("idle") /\ i = current
    \/ swap.pc \in {"suspend", "export", "deactivate"} /\ i = swap.out
    \/ At("undo") /\ swap.done < 2 /\ i = swap.out
    \/ swap.pc \in {"observe", "report"} /\ i = swap.in
    \/ At("undo") /\ swap.done > 3 /\ i = swap.in

OneInv == marred \/ \A i \in Instances : mode[i] = "running" => Serves(i)

OutRests == mode[swap.out] # "running"
GivenOver == data[swap.out] \cup swap.delta \subseteq data[swap.in]

(* The outgoing instance rests from its suspension on.                     *)
HandInv ==
    /\ At("suspend") /\ swap.held => OutRests
    /\ At("export") => OutRests
    /\ swap.pc \in {"deactivate", "migrate", "resume", "observe", "report"}
        => OutRests /\ Latest = data[swap.out]
    /\ At("resume") => swap.migrated = data[swap.out] \cup swap.delta
    /\ swap.pc \in {"observe", "report"} => GivenOver
    /\ At("idle") /\ swap.event = "completed"
        => OutRests /\ GivenOver /\ current = swap.in /\ swap.in # swap.out

(* A compensation that is finished and had a capture to compensate has     *)
(* restarted the outgoing instance.                                        *)
BackInv ==
    \/ marred
    \/ At("undo") /\ swap.done = 0 /\ swap.failed > 0
        => mode[swap.out] = "running" /\ Latest \subseteq data[swap.out]

------------------------------------------------------------------------------
(* Lemmas                                                                  *)

(* A capture keeps the new checkpoint as the latest, and at most Retention *)
(* of them (CheckpointManager.capture).                                    *)
LEMMA KeptFacts ==
    ASSUME bucket \in Seq(States), Len(bucket) <= Retention, NEW s \in States
    PROVE  /\ Kept(s) \in Seq(States)
           /\ Len(Kept(s)) <= Retention
           /\ Kept(s) # <<>>
           /\ Kept(s)[Len(Kept(s))] = s
<1>1. Retention \in Nat \ {0}
  BY HotSwapAssumption
<1>2. CASE Len(bucket) < Retention
  <2>1. Kept(s) = Append(bucket, s)
    BY <1>2 DEF Kept
  <2>2. /\ Append(bucket, s) \in Seq(States)
        /\ Len(Append(bucket, s)) = Len(bucket) + 1
        /\ Append(bucket, s)[Len(bucket) + 1] = s
    BY AppendProperties
  <2>3. Len(bucket) \in Nat
    BY LenProperties
  <2> QED  BY <1>1, <1>2, <2>1, <2>2, <2>3, EmptySeq
<1>3. CASE ~(Len(bucket) < Retention)
  <2>1. Kept(s) = Append(Tail(bucket), s)
    BY <1>3 DEF Kept
  <2>2. Len(bucket) \in Nat /\ bucket # <<>>
    BY <1>1, <1>3, LenProperties, EmptySeq
  <2>3. Tail(bucket) \in Seq(States) /\ Len(Tail(bucket)) = Len(bucket) - 1
    BY <2>2, HeadTailProperties
  <2>4. /\ Append(Tail(bucket), s) \in Seq(States)
        /\ Len(Append(Tail(bucket), s)) = Len(Tail(bucket)) + 1
        /\ Append(Tail(bucket), s)[Len(Tail(bucket)) + 1] = s
    BY <2>3, AppendProperties
  <2> QED  BY <1>1, <1>3, <2>1, <2>2, <2>3, <2>4, EmptySeq
<1> QED  BY <1>2, <1>3

(* The latest checkpoint is a state.                                       *)
LEMMA LatestIsState ==
    ASSUME bucket \in Seq(States), bucket # <<>>
    PROVE  Latest \in States
<1>1. Len(bucket) \in 1 .. Len(bucket)
  BY EmptySeq, LenProperties
<1> QED  BY <1>1, ElementOfSeq DEF Latest

(* What a step that completes leaves of the swap.                          *)
LEMMA CompletesFacts ==
    ASSUME swap \in Swaps, NEW n \in 0 .. 5, NEW place \in SwapPlaces,
           Completes(n, place)
    PROVE  /\ swap' \in Swaps
           /\ swap'.pc = place /\ swap'.done = n
           /\ swap'.out = swap.out /\ swap'.in = swap.in
           /\ swap'.delta = swap.delta /\ swap'.migrated = swap.migrated
           /\ swap'.held = swap.held /\ swap'.event = swap.event
  BY DEF Completes, Swaps

(* A swap stays one when a field of it changes.                            *)
LEMMA FieldFacts ==
    \A s \in Swaps, n \in 0 .. 5 :
        /\ [s EXCEPT !.done = n, !.pc = "resume"] \in Swaps
        /\ [s EXCEPT !.done = n, !.failed = n] \in Swaps
<1> TAKE s \in Swaps, n \in 0 .. 5
<1>1. [s EXCEPT !.done = n, !.pc = "resume"] \in Swaps
  BY DEF Swaps, SwapPlaces
<1>2. [s EXCEPT !.done = n, !.failed = n] \in Swaps
  BY DEF Swaps
<1> QED  BY <1>1, <1>2

------------------------------------------------------------------------------
(* Type correctness, and where a swap is                                   *)

LEMMA IInit == SwapInit => IInv
<1> SUFFICES ASSUME SwapInit PROVE IInv
  OBVIOUS
<1>1. swap.pc = "idle" /\ swap.done = 0
  BY DEF SwapInit
<1>2. {} \in States
  BY DEF States
<1>3. swap \in Swaps
  BY <1>2, HotSwapAssumption DEF SwapInit, Swaps, SwapPlaces
<1>4. /\ bucket \in Seq(States) /\ Len(bucket) = 0
  BY EmptySeq DEF SwapInit
<1>5. TypeOK
  <2>1. /\ mode \in [Instances -> {"fresh", "running", "suspended", "stopped"}]
        /\ data \in [Instances -> States]
    BY <1>2 DEF SwapInit
  <2>2. Len(bucket) <= Retention /\ swaps \in 0 .. MaxSwaps
    BY <1>4, HotSwapAssumption DEF SwapInit
  <2>3. current \in Instances /\ drained \in BOOLEAN /\ marred \in BOOLEAN
    BY HotSwapAssumption DEF SwapInit
  <2> QED  BY <1>3, <1>4, <2>1, <2>2, <2>3 DEF TypeOK
<1> QED  BY <1>1, <1>5 DEF IInv, StepOf, Engaged, Captured, At

LEMMA INext ==
    ASSUME IInv, [SwapNext]_swapVars
    PROVE  IInv'
<1> USE DEF IInv, At
<1>0. /\ swap \in Swaps
      /\ mode \in [Instances -> {"fresh", "running", "suspended", "stopped"}]
      /\ data \in [Instances -> States]
      /\ bucket \in Seq(States)
  BY DEF TypeOK
<1>1. ASSUME NEW i \in Instances, NEW u \in Updates, Work(i, u)
      PROVE  IInv'
  <2>1. data[i] \cup {u} \in States
    BY <1>0 DEF States
  <2> QED  BY <1>0, <1>1, <2>1 DEF Work, TypeOK, Swaps, StepOf, Engaged, Captured
<1>2. CASE DrainBegins
  BY <1>0, <1>2 DEF DrainBegins, TypeOK, Swaps, StepOf, Engaged, Captured
<1>3. CASE DrainEnds
  BY <1>0, <1>3 DEF DrainEnds, TypeOK, Swaps, StepOf, Engaged, Captured
<1>4. ASSUME NEW in \in Instances, NEW delta \in Deltas, NEW observed \in BOOLEAN,
             Call(in, delta, observed)
      PROVE  IInv'
  <2>1. {} \in States
    BY DEF States
  <2>2. swaps' \in 0 .. MaxSwaps
    BY <1>4, HotSwapAssumption DEF Call, TypeOK
  <2> QED  BY <1>0, <1>4, <2>1, <2>2
           DEF Call, TypeOK, Swaps, StepOf, Engaged, Captured, SwapPlaces
<1>5. ASSUME NEW in \in Instances, Refuse(in)
      PROVE  IInv'
  <2>1. swaps' \in 0 .. MaxSwaps
    BY <1>5, HotSwapAssumption DEF Refuse, TypeOK
  <2>2. swap' \in Swaps /\ swap'.pc = "idle" /\ swap'.done = 0
    <3>1. current \in Instances
      BY DEF TypeOK
    <3>2. swap'.pc = "idle" /\ swap'.done = 0
      BY <1>0, <1>5 DEF Refuse, Swaps
    <3>3. swap' \in Swaps
      <4> DEFINE s1 == [swap EXCEPT !.out = current, !.in = in]
                 s2 == [s1 EXCEPT !.done = 0, !.failed = 0]
      <4>1. s1 \in Swaps
        BY <1>0, <3>1 DEF Swaps
      <4>2. s2 \in Swaps
        <5>1. 0 \in 0 .. 5
          OBVIOUS
        <5> HIDE DEF s1
        <5> QED  BY <4>1, <5>1, FieldFacts
      <4>3. [s2 EXCEPT !.event = "rolled_back"] \in Swaps
        <5> HIDE DEF s2
        <5> QED  BY <4>2 DEF Swaps
      <4>4. swap' = [s2 EXCEPT !.event = "rolled_back"]
        BY <1>5 DEF Refuse
      <4> QED  BY <4>3, <4>4
    <3> QED  BY <3>2, <3>3
  <2> QED  BY <1>0, <1>5, <2>1, <2>2
           DEF Refuse, TypeOK, Swaps, StepOf, Engaged, Captured
<1>6. CASE Forward
  <2>1. CASE SuspendOutgoing
    BY <1>0, <2>1 DEF SuspendOutgoing, SwapTo, TypeOK, Swaps, StepOf, Engaged, Captured, SwapPlaces
  <2>2. CASE Export
    <3>1. data[swap.out] \in States
      BY <1>0 DEF Swaps
    <3>2. /\ bucket' \in Seq(States) /\ Len(bucket') <= Retention
          /\ bucket' # <<>>
      BY <2>2, <3>1, KeptFacts DEF Export, TypeOK
    <3>4. /\ swap' \in Swaps /\ swap'.pc = "deactivate" /\ swap'.done = 1
          /\ swap'.out = swap.out /\ swap'.in = swap.in /\ swap'.event = swap.event
      BY <1>0, <2>2, CompletesFacts DEF Export, SwapPlaces
    <3> QED  BY <1>0, <2>2, <3>2, <3>4
             DEF Export, TypeOK, Swaps, StepOf, Engaged, Captured
  <2>3. CASE Deactivate
    <3>4. /\ swap' \in Swaps /\ swap'.pc = "migrate" /\ swap'.done = 2
          /\ swap'.out = swap.out /\ swap'.in = swap.in /\ swap'.event = swap.event
      BY <1>0, <2>3, CompletesFacts DEF Deactivate, SwapPlaces
    <3> QED  BY <1>0, <2>3, <3>4
             DEF Deactivate, TypeOK, Swaps, StepOf, Engaged, Captured
  <2>4. CASE Migrate
    <3>1. Latest \in States
      BY <1>0, <2>4, LatestIsState DEF Migrate, StepOf, Captured
    <3>2. Latest \cup swap.delta \in States
      BY <1>0, <3>1 DEF States, Swaps
    <3>3. /\ swap' \in Swaps /\ swap'.pc = "resume" /\ swap'.done = 3
          /\ swap'.out = swap.out /\ swap'.in = swap.in /\ swap'.event = swap.event
      <4> DEFINE s1 == [swap EXCEPT !.done = 3, !.pc = "resume"]
                 s2 == [s1 EXCEPT !.migrated = Latest \cup swap.delta]
      <4>1. /\ s1 \in Swaps /\ s1.pc = "resume" /\ s1.done = 3
            /\ s1.out = swap.out /\ s1.in = swap.in /\ s1.event = swap.event
        <5>1. 3 \in 0 .. 5
          OBVIOUS
        <5>2. s1 \in Swaps
          BY <1>0, <5>1, FieldFacts
        <5> QED  BY <1>0, <5>2 DEF Swaps
      <4>2. /\ s2 \in Swaps /\ s2.pc = s1.pc /\ s2.done = s1.done
            /\ s2.out = s1.out /\ s2.in = s1.in /\ s2.event = s1.event
        <5> HIDE DEF s1
        <5> QED  BY <4>1, <3>2 DEF Swaps
      <4>3. swap' = s2
        BY <2>4 DEF Migrate
      <4> HIDE DEF s1, s2
      <4> QED  BY <4>1, <4>2, <4>3
    <3> QED  BY <1>0, <2>4, <3>3
             DEF Migrate, TypeOK, Swaps, StepOf, Engaged, Captured
  <2>5. CASE ResumeIncoming
    <3> DEFINE next == IF swap.observed THEN "observe" ELSE "report"
    <3>1. /\ swap' \in Swaps /\ swap'.pc = next /\ swap'.done = 4
          /\ swap'.out = swap.out /\ swap'.in = swap.in /\ swap'.event = swap.event
      <4>1. "observe" \in SwapPlaces /\ "report" \in SwapPlaces /\ 4 \in 0 .. 5
        BY DEF SwapPlaces
      <4>2. CASE swap.observed
        <5>1. Completes(4, "observe")
          BY <2>5, <4>2 DEF ResumeIncoming
        <5> QED  BY <1>0, <4>1, <4>2, <5>1, CompletesFacts
      <4>3. CASE ~swap.observed
        <5>1. Completes(4, "report")
          BY <2>5, <4>3 DEF ResumeIncoming
        <5> QED  BY <1>0, <4>1, <4>3, <5>1, CompletesFacts
      <4> QED  BY <4>2, <4>3
    <3>2. swap.migrated \in States
      BY <1>0 DEF Swaps
    <3>3. /\ mode' \in [Instances -> {"fresh", "running", "suspended", "stopped"}]
          /\ data' \in [Instances -> States]
      BY <1>0, <2>5, <3>2 DEF ResumeIncoming, Resumed
    <3> QED  BY <1>0, <2>5, <3>1, <3>3
             DEF ResumeIncoming, TypeOK, Swaps, StepOf, Engaged, Captured
  <2>6. CASE Observe
    <3>4. /\ swap' \in Swaps /\ swap'.pc = "report" /\ swap'.done = 5
          /\ swap'.out = swap.out /\ swap'.in = swap.in /\ swap'.event = swap.event
      BY <1>0, <2>6, CompletesFacts DEF Observe, SwapPlaces
    <3> QED  BY <1>0, <2>6, <3>4
             DEF Observe, TypeOK, Swaps, StepOf, Engaged, Captured
  <2> QED  BY <1>6, <2>1, <2>2, <2>3, <2>4, <2>5, <2>6 DEF Forward
<1>7. CASE Raises
  <2>1. CASE SuspendOutgoingRaises
    BY <1>0, <2>1
    DEF SuspendOutgoingRaises, Raise, TypeOK, Swaps, StepOf, Engaged, Captured, SwapPlaces
  <2>2. CASE ExportRaises
    <3>1. data[swap.out] \in States
      BY <1>0 DEF Swaps
    <3>2. /\ bucket' \in Seq(States) /\ Len(bucket') <= Retention
          /\ bucket' # <<>> \/ bucket' = bucket
      BY <2>2, <3>1, KeptFacts DEF ExportRaises, TypeOK
    <3> QED  BY <1>0, <2>2, <3>2
             DEF ExportRaises, Raise, TypeOK, Swaps, StepOf, Engaged, Captured, SwapPlaces
  <2>3. CASE DeactivateRaises
    BY <1>0, <2>3
    DEF DeactivateRaises, Raise, TypeOK, Swaps, StepOf, Engaged, Captured, SwapPlaces
  <2>4. CASE MigrateRaises
    BY <1>0, <2>4
    DEF MigrateRaises, Raise, TypeOK, Swaps, StepOf, Engaged, Captured, SwapPlaces
  <2>5. CASE ResumeIncomingRaises
    BY <1>0, <2>5
    DEF ResumeIncomingRaises, Resumed, Raise, TypeOK, Swaps, StepOf, Engaged, Captured, SwapPlaces
  <2>6. CASE ObserveRejects
    BY <1>0, <2>6
    DEF ObserveRejects, Raise, TypeOK, Swaps, StepOf, Engaged, Captured, SwapPlaces
  <2> QED  BY <1>7, <2>1, <2>2, <2>3, <2>4, <2>5, <2>6 DEF Raises
<1>8. ASSUME At("undo"), swap.done > 0,
             Compensation(swap.done) \/ UNCHANGED <<mode, data>>,
             swap' = [swap EXCEPT !.done = @ - 1],
             marred' \in BOOLEAN,
             UNCHANGED <<current, drained, bucket, swaps>>
      PROVE  IInv'
  <2>1. Latest \in States
    BY <1>0, <1>8, LatestIsState DEF Captured
  <2>2. /\ mode' \in [Instances -> {"fresh", "running", "suspended", "stopped"}]
        /\ data' \in [Instances -> States]
    BY <1>0, <1>8, <2>1 DEF Compensation, Resumed
  <2>3. swap.done - 1 \in 0 .. 5
    BY <1>0, <1>8 DEF Swaps
  <2> QED  BY <1>0, <1>8, <2>2, <2>3 DEF TypeOK, Swaps, StepOf, Engaged, Captured, SwapPlaces
<1>9. CASE Compensate
  BY <1>8, <1>9 DEF Compensate, TypeOK
<1>10. CASE CompensateRaises
  BY <1>8, <1>10 DEF CompensateRaises
<1>11. CASE Return
  BY <1>0, <1>11 DEF Return, TypeOK, Swaps, StepOf, Engaged, Captured, SwapPlaces
<1>12. CASE ReturnRaises
  BY <1>0, <1>12 DEF ReturnRaises, SwapTo, TypeOK, Swaps, StepOf, Engaged, Captured, SwapPlaces
<1>13. CASE Cancelled
  BY <1>0, <1>13 DEF Cancelled, SwapTo, TypeOK, Swaps, StepOf, Engaged, Captured, SwapPlaces
<1>14. CASE UNCHANGED swapVars
  BY <1>14 DEF swapVars, TypeOK, Swaps, StepOf, Engaged, Captured
<1> QED
  BY <1>1, <1>2, <1>3, <1>4, <1>5, <1>6, <1>7, <1>9, <1>10, <1>11, <1>12, <1>13,
     <1>14 DEF SwapNext

(* Every variable keeps its type: the checkpoints kept of a component are  *)
(* never more than Retention (CheckpointManager.capture).                  *)
THEOREM TypeCorrect == SwapSpec => []TypeOK
<1>1. IInv => TypeOK
  BY DEF IInv
<1> QED  BY <1>1, IInit, INext, PTL DEF SwapSpec

------------------------------------------------------------------------------
(* One instance serves                                                     *)

LEMMA OneInit == SwapInit => OneInv
  BY DEF SwapInit, OneInv, Serves, At

LEMMA OneNext ==
    ASSUME IInv, OneInv, [SwapNext]_swapVars
    PROVE  OneInv'
<1> USE DEF At
<1>0. /\ swap \in Swaps
      /\ mode \in [Instances -> {"fresh", "running", "suspended", "stopped"}]
      /\ StepOf /\ Engaged
  BY DEF IInv, TypeOK
<1> SUFFICES ASSUME ~marred', NEW k \in Instances, mode'[k] = "running"
             PROVE  Serves(k)'
  BY DEF OneInv
<1>1. ~marred /\ (mode[k] = "running" => Serves(k))
  <2>1. marred => marred'
    BY DEF SwapNext, Work, DrainBegins, DrainEnds, Call, Refuse, Forward, SuspendOutgoing,
       Export, Deactivate, Migrate, ResumeIncoming, Observe, Raises, SuspendOutgoingRaises,
       ExportRaises, DeactivateRaises, MigrateRaises, ResumeIncomingRaises,
       ObserveRejects, Compensate, CompensateRaises, Return, ReturnRaises,
       Cancelled, swapVars
  <2> QED  BY <2>1 DEF OneInv
<1>2. CASE \E i \in Instances, u \in Updates : Work(i, u)
  BY <1>0, <1>1, <1>2 DEF Work, Serves
<1>3. CASE DrainBegins \/ DrainEnds
  BY <1>0, <1>1, <1>3 DEF DrainBegins, DrainEnds, Serves
<1>4. CASE \E in \in Instances, delta \in Deltas, observed \in BOOLEAN :
              Call(in, delta, observed)
  BY <1>0, <1>1, <1>4 DEF Call, Serves
<1>5. CASE \E in \in Instances : Refuse(in)
  BY <1>0, <1>1, <1>5 DEF Refuse, Serves, Swaps
<1>6. CASE Forward
  <2>1. CASE SuspendOutgoing
    BY <1>0, <1>1, <2>1 DEF SuspendOutgoing, SwapTo, Serves, Swaps
  <2>2. CASE Export
    BY <1>0, <1>1, <2>2 DEF Export, Completes, Serves, Swaps
  <2>3. CASE Deactivate
    BY <1>0, <1>1, <2>3 DEF Deactivate, Completes, Serves, Swaps
  <2>4. CASE Migrate
    BY <1>0, <1>1, <2>4 DEF Migrate, Serves, Swaps
  <2>5. CASE ResumeIncoming
    BY <1>0, <1>1, <2>5 DEF ResumeIncoming, Resumed, Completes, Serves, Swaps
  <2>6. CASE Observe
    BY <1>0, <1>1, <2>6 DEF Observe, Completes, Serves, Swaps
  <2> QED  BY <1>6, <2>1, <2>2, <2>3, <2>4, <2>5, <2>6 DEF Forward
<1>7. CASE Raises
  <2>1. swap'.pc = "undo" /\ swap'.done = swap.done /\ swap'.out = swap.out
        /\ swap'.in = swap.in /\ mode' = mode
    BY <1>0, <1>7
    DEF Raises, SuspendOutgoingRaises, ExportRaises, DeactivateRaises, MigrateRaises,
        ResumeIncomingRaises, ObserveRejects, Raise, Swaps
  <2>2. swap.pc \in {"suspend", "export", "deactivate", "migrate", "resume", "observe"}
    BY <1>7
    DEF Raises, SuspendOutgoingRaises, ExportRaises, DeactivateRaises, MigrateRaises,
        ResumeIncomingRaises, ObserveRejects
  <2> QED  BY <1>0, <1>1, <2>1, <2>2 DEF Serves, StepOf
<1>8. CASE Compensate
  <2>1. /\ swap.done \in 1 .. 5 /\ swap'.pc = "undo" /\ swap'.done = swap.done - 1
        /\ swap'.out = swap.out /\ swap'.in = swap.in
    BY <1>0, <1>8 DEF Compensate, Swaps
  <2> QED  BY <1>0, <1>1, <1>8, <2>1
           DEF Compensate, Compensation, Resumed, Serves
<1>9. CASE Return
  <2>1. CASE At("report")
    <3>1. swap'.pc = "idle" /\ current' = swap.in /\ mode' = mode
      BY <1>0, <1>9, <2>1 DEF Return, Swaps
    <3> QED  BY <1>1, <2>1, <3>1 DEF Serves
  <2>2. CASE At("undo") /\ swap.done = 0
    <3>1. swap'.pc = "idle" /\ current' = swap.out /\ mode' = mode
      BY <1>0, <1>9, <2>2 DEF Return, Swaps, Engaged
    <3> QED  BY <1>1, <2>2, <3>1 DEF Serves
  <2> QED  BY <1>9, <2>1, <2>2 DEF Return
<1>10. CASE CompensateRaises \/ ReturnRaises \/ Cancelled
  BY <1>10 DEF CompensateRaises, ReturnRaises, Cancelled
<1>11. CASE UNCHANGED swapVars
  BY <1>1, <1>11 DEF swapVars, Serves
<1> QED  BY <1>2, <1>3, <1>4, <1>5, <1>6, <1>7, <1>8, <1>9, <1>10, <1>11 DEF SwapNext

(* Whatever call of a swap fails, and wherever its compensation is, two    *)
(* instances of the component never run at the same time, but for the      *)
(* failures that the code does not undo (HotSwapOrchestrator.swap with     *)
(* SagaRollback._compensate, last step first).                             *)
THEOREM OneServesAlways == SwapSpec => []OneServes
<1>1. ASSUME IInv, OneInv PROVE OneServes
  <2> SUFFICES ASSUME ~marred PROVE Cardinality(Running) <= 1
    BY DEF OneServes
  <2>1. \A i, j \in Running : i = j
    <3>1. \A i \in Running : Serves(i)
      BY <1>1 DEF OneInv, Running
    <3>2. swap.done \in 0 .. 5
      BY <1>1 DEF IInv, TypeOK, Swaps
    <3>3. \A i, j : Serves(i) /\ Serves(j) => i = j
      BY <3>2 DEF Serves, At
    <3> QED  BY <3>1, <3>3
  <2>2. CASE Running = {}
    BY <2>2, FS_EmptySet
  <2>3. ASSUME NEW i \in Running PROVE Cardinality(Running) <= 1
    <3>1. Running = {i}
      BY <2>1, <2>3
    <3> QED  BY <3>1, FS_Singleton
  <2> QED  BY <2>2, <2>3
<1> QED  BY <1>1, IInit, INext, OneInit, OneNext, PTL DEF SwapSpec

------------------------------------------------------------------------------
(* Nothing accepted is lost by a swap that succeeds                        *)

LEMMA HandInit == SwapInit => HandInv
  BY DEF SwapInit, HandInv, At

LEMMA HandNext ==
    ASSUME ~Retries, IInv, HandInv, [SwapNext]_swapVars
    PROVE  HandInv'
<1> USE DEF At
<1>0. /\ swap \in Swaps /\ current \in Instances
      /\ mode \in [Instances -> {"fresh", "running", "suspended", "stopped"}]
      /\ data \in [Instances -> States]
      /\ bucket \in Seq(States) /\ Len(bucket) <= Retention
      /\ Engaged
  BY DEF IInv, TypeOK
<1>i. swap.out \in Instances /\ swap.in \in Instances
  BY <1>0 DEF Swaps
<1>1. ASSUME NEW i \in Instances, NEW u \in Updates, Work(i, u)
      PROVE  HandInv'
  <2>1. swap' = swap /\ mode' = mode /\ current' = current /\ Latest' = Latest
    BY <1>1 DEF Work, Latest
  <2>2. OutRests => data'[swap.out] = data[swap.out]
    BY <1>0, <1>1, <1>i DEF Work, OutRests
  <2>3. data[swap.in] \subseteq data'[swap.in]
    BY <1>0, <1>1, <1>i DEF Work
  <2> QED  BY <2>1, <2>2, <2>3 DEF HandInv, OutRests, GivenOver
<1>2. CASE DrainBegins \/ DrainEnds
  BY <1>0, <1>i, <1>2 DEF DrainBegins, DrainEnds, HandInv, OutRests, GivenOver
<1>3. ASSUME NEW in \in Instances, NEW delta \in Deltas, NEW observed \in BOOLEAN,
             Call(in, delta, observed)
      PROVE  HandInv'
  BY <1>0, <1>3 DEF Call, HandInv, OutRests
<1>4. ASSUME NEW in \in Instances, Refuse(in)
      PROVE  HandInv'
  <2>1. swap'.pc = "idle" /\ swap'.event = "rolled_back"
    BY <1>0, <1>4 DEF Refuse, Swaps
  <2> QED  BY <2>1 DEF HandInv
<1>5. CASE Forward
  <2>1. CASE SuspendOutgoing
    <3>1. swap'.pc = "export" /\ swap'.out = swap.out
      BY <1>0, <2>1 DEF SuspendOutgoing, SwapTo, Swaps, SwapPlaces
    <3> QED  BY <1>0, <1>i, <2>1, <3>1 DEF SuspendOutgoing, HandInv, OutRests
  <2>2. CASE Export
    <3>1. swap'.pc = "deactivate" /\ swap'.out = swap.out
      BY <1>0, <2>2 DEF Export, Completes, Swaps
    <3>2. Latest' = data[swap.out]
      BY <1>0, <1>i, <2>2, KeptFacts DEF Export, Latest
    <3> QED  BY <2>2, <3>1, <3>2 DEF Export, HandInv, OutRests
  <2>3. CASE Deactivate
    <3>1. swap'.pc = "migrate" /\ swap'.out = swap.out
      BY <1>0, <2>3 DEF Deactivate, Completes, Swaps
    <3> QED  BY <1>0, <1>i, <2>3, <3>1 DEF Deactivate, HandInv, OutRests, Latest
  <2>4. CASE Migrate
    <3>1. /\ swap'.pc = "resume" /\ swap'.out = swap.out /\ swap'.delta = swap.delta
          /\ swap'.migrated = Latest \cup swap.delta
      BY <1>0, <2>4 DEF Migrate, Swaps
    <3> QED  BY <2>4, <3>1 DEF Migrate, HandInv, OutRests, Latest
  <2>5. CASE ResumeIncoming
    <3>1. /\ swap'.pc \in {"observe", "report"} /\ swap'.out = swap.out
          /\ swap'.in = swap.in /\ swap'.delta = swap.delta
      BY <1>0, <2>5 DEF ResumeIncoming, Completes, Swaps
    <3>2. swap.out # swap.in
      BY <1>0, <2>5 DEF ResumeIncoming, Engaged
    <3>3. /\ mode'[swap.out] = mode[swap.out]
          /\ data'[swap.out] = data[swap.out]
          /\ data'[swap.in] = swap.migrated
      BY <1>0, <1>i, <2>5, <3>2 DEF ResumeIncoming, Resumed
    <3>4. /\ OutRests /\ Latest = data[swap.out]
          /\ swap.migrated = data[swap.out] \cup swap.delta
      BY <2>5 DEF ResumeIncoming, HandInv
    <3>5. Latest' = Latest
      BY <2>5 DEF ResumeIncoming, Latest
    <3> QED  BY <3>1, <3>3, <3>4, <3>5 DEF HandInv, OutRests, GivenOver
  <2>6. CASE Observe
    <3>1. /\ swap'.pc = "report" /\ swap'.out = swap.out
          /\ swap'.in = swap.in /\ swap'.delta = swap.delta
      BY <1>0, <2>6 DEF Observe, Completes, Swaps
    <3> QED  BY <2>6, <3>1 DEF Observe, HandInv, OutRests, GivenOver, Latest
  <2> QED  BY <1>5, <2>1, <2>2, <2>3, <2>4, <2>5, <2>6 DEF Forward
<1>6. CASE Raises \/ Compensate \/ CompensateRaises
  <2>1. swap'.pc = "undo"
    BY <1>0, <1>6
    DEF Raises, SuspendOutgoingRaises, ExportRaises, DeactivateRaises, MigrateRaises,
        ResumeIncomingRaises, ObserveRejects, Raise, Compensate, CompensateRaises, Swaps
  <2> QED  BY <2>1 DEF HandInv
<1>7. CASE Return
  <2>1. CASE At("report")
    <3>1. /\ swap'.pc = "idle" /\ swap'.out = swap.out
          /\ swap'.in = swap.in /\ swap'.delta = swap.delta
      BY <1>0, <1>7, <2>1 DEF Return, Swaps
    <3> QED  BY <1>0, <1>7, <2>1, <3>1 DEF Return, HandInv, OutRests, GivenOver, Engaged
  <2>2. CASE At("undo")
    <3>1. swap'.pc = "idle" /\ swap'.event = "rolled_back"
      BY <1>0, <1>7, <2>2 DEF Return, Swaps
    <3> QED  BY <3>1 DEF HandInv
  <2> QED  BY <1>7, <2>1, <2>2 DEF Return
<1>8. CASE ReturnRaises \/ Cancelled
  <2>1. swap'.pc = "idle" /\ swap'.event = swap.event
    BY <1>0, <1>8 DEF ReturnRaises, Cancelled, SwapTo, Swaps
  <2>2. swap.event = "initiated"
    BY <1>0, <1>8 DEF ReturnRaises, Cancelled, Engaged
  <2> QED  BY <2>1, <2>2 DEF HandInv
<1>9. CASE UNCHANGED swapVars
  BY <1>9 DEF swapVars, HandInv, OutRests, GivenOver, Latest
<1> QED  BY <1>1, <1>2, <1>3, <1>4, <1>5, <1>6, <1>7, <1>8, <1>9 DEF SwapNext

(* Unless a swap is retried in the drain epoch in which it failed, the     *)
(* checkpoint is the outgoing instance's state until the forward steps end *)
(* (CheckpointManager.capture after HarnessComponent.suspend).             *)
THEOREM CheckpointExactAlways ==
    ASSUME ~Retries
    PROVE  SwapSpec => []CheckpointExact
<1>1. ASSUME IInv, HandInv PROVE CheckpointExact
  <2>1. swap.pc \in SwapPlaces
    BY <1>1 DEF IInv, TypeOK, Swaps
  <2> QED  BY <1>1, <2>1 DEF IInv, StepOf, HandInv, CheckpointExact, SwapPlaces, At
<1>2. IInv /\ HandInv /\ [SwapNext]_swapVars => HandInv'
  BY HandNext
<1> QED  BY <1>1, <1>2, IInit, INext, HandInit, PTL DEF SwapSpec

(* And the swap that succeeds hands over all that the outgoing instance    *)
(* held, with the delta (HotSwapOrchestrator.swap, migrate and resume).    *)
THEOREM HandedOverAlways ==
    ASSUME ~Retries
    PROVE  SwapSpec => []HandedOver
<1>1. ASSUME HandInv PROVE HandedOver
  BY <1>1 DEF HandInv, HandedOver, GivenOver, At
<1>2. IInv /\ HandInv /\ [SwapNext]_swapVars => HandInv'
  BY HandNext
<1> QED  BY <1>1, <1>2, IInit, INext, HandInit, PTL DEF SwapSpec

------------------------------------------------------------------------------
(* A swap that fails after its capture gives the component back            *)

LEMMA BackInit == SwapInit => BackInv
  BY DEF SwapInit, BackInv, At

LEMMA BackNext ==
    ASSUME IInv, BackInv, [SwapNext]_swapVars
    PROVE  BackInv'
<1> USE DEF At
<1>0. /\ swap \in Swaps
      /\ mode \in [Instances -> {"fresh", "running", "suspended", "stopped"}]
      /\ data \in [Instances -> States]
  BY DEF IInv, TypeOK
<1>i. swap.out \in Instances
  BY <1>0 DEF Swaps
<1>1. ASSUME NEW i \in Instances, NEW u \in Updates, Work(i, u)
      PROVE  BackInv'
  <2>1. swap' = swap /\ mode' = mode /\ marred' = marred /\ Latest' = Latest
    BY <1>1 DEF Work, Latest
  <2>2. data[swap.out] \subseteq data'[swap.out]
    BY <1>0, <1>1, <1>i DEF Work
  <2> QED  BY <2>1, <2>2 DEF BackInv
<1>2. CASE \/ DrainBegins \/ DrainEnds
           \/ \E in \in Instances, delta \in Deltas, observed \in BOOLEAN :
                 Call(in, delta, observed)
           \/ \E in \in Instances : Refuse(in)
           \/ Forward
  <2>1. CASE DrainBegins \/ DrainEnds
    BY <2>1 DEF DrainBegins, DrainEnds, BackInv
  <2>2. ASSUME NEW in \in Instances, NEW delta \in Deltas,
               NEW observed \in BOOLEAN, Call(in, delta, observed)
        PROVE  BackInv'
    BY <2>2 DEF Call, BackInv
  <2>3. ASSUME NEW in \in Instances, Refuse(in)
        PROVE  BackInv'
    <3>1. swap'.pc = "idle"
      BY <1>0, <2>3 DEF Refuse, Swaps
    <3> QED  BY <3>1 DEF BackInv
  <2>4. CASE Forward
    <3>1. swap'.pc # "undo"
      BY <1>0, <2>4
      DEF Forward, SuspendOutgoing, SwapTo, Export, Deactivate, Migrate, ResumeIncoming, Observe,
          Completes, Swaps
    <3> QED  BY <3>1 DEF BackInv
  <2> QED  BY <1>2, <2>1, <2>2, <2>3, <2>4
<1>3. CASE Raises
  <2>1. swap'.done = swap.done /\ swap'.failed = swap.done
    BY <1>0, <1>3
    DEF Raises, SuspendOutgoingRaises, ExportRaises, DeactivateRaises, MigrateRaises,
        ResumeIncomingRaises, ObserveRejects, Raise, Swaps
  <2> QED  BY <2>1 DEF BackInv
<1>4. CASE Compensate
  <2>1. /\ swap'.done = swap.done - 1 /\ swap'.out = swap.out
        /\ swap.done \in 1 .. 5 /\ Compensation(swap.done)
        /\ bucket' = bucket
    BY <1>0, <1>4 DEF Compensate, Swaps
  <2>2. ASSUME swap.done = 1
        PROVE  mode'[swap.out] = "running" /\ data'[swap.out] = Latest
    BY <1>0, <1>i, <2>1, <2>2 DEF Compensation, Resumed
  <2> QED  BY <2>1, <2>2 DEF BackInv, Latest
<1>5. CASE Return \/ ReturnRaises \/ Cancelled
  <2>1. swap'.pc = "idle"
    BY <1>0, <1>5 DEF Return, ReturnRaises, Cancelled, SwapTo, Swaps
  <2> QED  BY <2>1 DEF BackInv
<1>6. CASE CompensateRaises
  BY <1>6 DEF CompensateRaises, BackInv
<1>7. CASE UNCHANGED swapVars
  BY <1>7 DEF swapVars, BackInv, Latest
<1> QED  BY <1>1, <1>2, <1>3, <1>4, <1>5, <1>6, <1>7 DEF SwapNext

(* When a swap that failed after its capture has returned, the outgoing    *)
(* instance runs and holds at least its checkpoint, the incoming one does  *)
(* not run, and the caller still goes by the outgoing one, but for the     *)
(* failures that the code does not undo (SagaRollback._compensate).        *)
THEOREM SwapRestores == SwapSpec => Restores
<1>1. ASSUME IInv, OneInv, BackInv, [SwapNext]_swapVars,
             At("undo"), swap'.pc = "idle", swap.failed > 0, ~marred'
      PROVE  /\ mode[swap.out] = "running" /\ mode[swap.in] # "running"
             /\ Latest \subseteq data[swap.out]
             /\ current' = swap.out
  <2>0. swap \in Swaps
    BY <1>1 DEF IInv, TypeOK
  <2>1. ~(Raises \/ Compensate \/ CompensateRaises \/ ReturnRaises \/ Cancelled)
    BY <1>1, <2>0
    DEF At, Raises, SuspendOutgoingRaises, ExportRaises, DeactivateRaises, MigrateRaises,
        ResumeIncomingRaises, ObserveRejects, Compensate, CompensateRaises, ReturnRaises,
        Cancelled, Swaps
  <2>2. Return
    BY <1>1, <2>1
    DEF At, SwapNext, swapVars, Work, DrainBegins, DrainEnds, Call, Refuse, Forward,
        SuspendOutgoing, Export, Deactivate, Migrate, ResumeIncoming, Observe
  <2>3. swap.done = 0 /\ current' = current /\ marred' = marred
    BY <1>1, <2>2 DEF Return, At
  <2>4. current = swap.out /\ swap.in # swap.out /\ swap.in \in Instances
    BY <1>1, <2>0 DEF IInv, Engaged, At, Swaps
  <2>5. mode[swap.out] = "running" /\ Latest \subseteq data[swap.out]
    BY <1>1, <2>3 DEF BackInv
  <2>6. ~Serves(swap.in)
    BY <1>1, <2>3, <2>4 DEF Serves, At
  <2> QED  BY <1>1, <2>3, <2>4, <2>5, <2>6 DEF OneInv
<1>2. IInv /\ OneInv /\ BackInv /\ [SwapNext]_swapVars
      => [At("undo") /\ swap'.pc = "idle" /\ swap.failed > 0 /\ ~marred'
          => /\ mode[swap.out] = "running" /\ mode[swap.in] # "running"
             /\ Latest \subseteq data[swap.out]
             /\ current' = swap.out]_swapVars
  BY <1>1
<1> QED
  BY <1>2, IInit, INext, OneInit, OneNext, BackInit, BackNext, PTL DEF SwapSpec, Restores
==============================================================================
