------------------------------ MODULE Promotion ------------------------------
(***************************************************************************)
(* Promotion of graphs by HarnessRuntime (core/boot.py): commit_graph,     *)
(* review_deferred_candidate and evaluate_observation_window, on top of    *)
(* the version store (GraphVersions), with the component phases of         *)
(* LifecycleTracker and the session events a crash recovery reads, and     *)
(* MutationSubmitter.submit, which uses the engine directly.               *)
(*                                                                         *)
(* Calls run in one thread.  commit_graph publishes BEFORE_COMMIT_GRAPH    *)
(* between the gate and the cutover, so a subscriber can make another call *)
(* there: the calls under way form a stack, and a call's level in it is    *)
(* its caller in GraphVersions.  A graph is the set of its components.     *)
(***************************************************************************)
EXTENDS GraphVersions

CONSTANTS May,            \* what may happen, a subset of Happenings
          NoCandidate,    \* candidate of an observation window's event
          MaxCalls        \* bound: number of calls

Happenings == {"reject", "defer", "review", "nested", "abort", "timeout",
               "replay", "unhealthy", "window", "mutation", "reuse", "stale"}
Components == UNION Graphs
Phases == {"ASSEMBLED", "VALIDATED_DYNAMIC", "COMMITTED", "FAILED"}

ASSUME PromotionAssumption ==
         /\ May \subseteq Happenings
         /\ MaxCalls \in Nat
         /\ Callers = 1 .. Cardinality(Callers)
         /\ IsFiniteSet(Callers)

VARIABLES stack,      \* the calls under way, innermost last
          raising,    \* an exception is on its way to the innermost call
          phase,      \* LifecycleTracker: phase of each component
          log,        \* the session store's events
          stuck,      \* a failed drain left the gates closed (CutoverDrain)
          calls       \* number of calls made (bound)

runtimeVars == <<stack, raising, phase, log, stuck, calls>>
allVars == <<vars, runtimeVars>>

Level == Len(stack)
Top == stack[Level]
At(kind, step) == ~raising /\ Level > 0 /\ Top.kind = kind /\ Top.step = step
Goto(step) == stack' = [stack EXCEPT ![Level].step = step] /\ UNCHANGED raising

(* The innermost call returns, or raises into the call around it.          *)
Leave(raises) == /\ stack' = SubSeq(stack, 1, Level - 1)
                 /\ raising' = (raises /\ Level > 1)
Returns == Leave(FALSE)
Raises == Leave(TRUE)

(* A session event about candidate id; _append_runtime_evidence.  graph is *)
(* history: the candidate's graph, which no event but its creation tells.  *)
Event(type, id, ver, target, graph) ==
    [type |-> type, id |-> id, ver |-> ver, target |-> target, graph |-> graph]
Note(type, ver) == Event(type, Top.id, ver, Top.target, Top.snap.graph)

PromotionInit ==
    /\ Init
    /\ stack = <<>>
    /\ raising = FALSE
    /\ phase = [k \in Components |-> "ASSEMBLED"]
    /\ log = <<>>
    /\ stuck = FALSE
    /\ calls = 0

------------------------------------------------------------------------------
(* Calls                                                                   *)

(* A call is made from outside, or by a subscriber of BEFORE_COMMIT_GRAPH; *)
(* while the event bus is stuck in a drain it only holds the event.        *)
MayCall ==
    /\ Level + 1 \in Callers
    /\ stack = <<>> \/ ("nested" \in May /\ At("commit", "allowed") /\ ~stuck)
    /\ calls < MaxCalls
    /\ calls' = calls + 1
    /\ UNCHANGED <<raising, phase, stuck>>

MayUse(id) == \/ "reuse" \in May
              \/ Unused(id) /\ \A d \in DOMAIN stack : stack[d].id # id

(* A call of the runtime; the rollback target of its PromotionContext is   *)
(* the active version.  was is history: what ran when the call was made.   *)
(* A wrong form of Call: the context takes the store's rollback target.    *)
Call_StoreTarget(kind, id, snap) ==
    stack' = Append(stack, [kind |-> kind, id |-> id, snap |-> snap, was |-> loaded,
                            target |-> rollback, step |-> "staged"])

Call(kind, id, snap) ==
    stack' = Append(stack, [kind |-> kind, id |-> id, snap |-> snap, was |-> loaded,
                            target |-> active, step |-> "staged"])

(* commit_graph, up to the gate.                                           *)
Submit(g, id) ==
    /\ MayCall /\ MayUse(id)
    /\ Stage(Level + 1, g)
    /\ Call("commit", id, staged'[Level + 1])
    /\ log' = log \o <<Event("CANDIDATE_CREATED", id, NextVersion, active, g),
                       Event("CANDIDATE_VALIDATED", id, NextVersion, active, g)>>

(* MutationSubmitter.submit, up to the review.                             *)
SubmitMutation(g, id) ==
    /\ "mutation" \in May
    /\ MayCall /\ MayUse(id)
    /\ Stage(Level + 1, g)
    /\ Call("mutation", id, staged'[Level + 1])
    /\ UNCHANGED log

(* The version of a deferred snapshot may have gone to another graph.      *)
Unclaimed(snap) == Lookup(snap.ver) \in {NoGraph, snap.graph}

(* review_deferred_candidate, up to the gate.  It does not look whether    *)
(* the candidate's version is still unclaimed.                             *)
StartReview(i, id) ==
    /\ "review" \in May
    /\ MayCall
    /\ IsLastDeferred(i, id)
    /\ "stale" \in May \/ Unclaimed(candidates[i].snap)
    /\ Call("review", id, candidates[i].snap)
    /\ UNCHANGED <<vars, log>>

(* The review of a mutation: nothing but the store learns of it.           *)
DecideMutation ==
    /\ At("mutation", "staged")
    /\ \/ Commit(Level, Top.id)
       \/ CommitInvalid(Level, Top.id)
       \/ Discard(Level, Top.id, FALSE)
    /\ Returns
    /\ UNCHANGED <<phase, log, stuck, calls>>

------------------------------------------------------------------------------
(* The gate                                                                *)

Failed(nodes) == {k \in nodes : phase[k] = "FAILED"}

(* A loop that records a phase for each node.  FAILED has no successor, so *)
(* the first FAILED node raises and the nodes before it have been done.    *)
Loop(nodes, next) ==
    \E done \in IF Failed(nodes) = {} THEN {nodes} ELSE SUBSET (nodes \ Failed(nodes)) :
        phase' = [k \in Components |-> IF k \in done THEN next[phase[k]] ELSE phase[k]]

OnDefer == [p \in Phases |-> IF p = "COMMITTED" THEN p ELSE "VALIDATED_DYNAMIC"]
OnReject == [p \in Phases |-> "FAILED"]
OnCommit == [p \in Phases |-> "COMMITTED"]

Allow(kind) ==
    /\ At(kind, "staged")
    /\ Goto("allowed")
    /\ log' = Append(log, Note("SAFETY_GATE_EVALUATED", Top.snap.ver))
    /\ UNCHANGED <<vars, phase, stuck, calls>>

Verdict(deferred) == IF deferred THEN "CANDIDATE_DEFERRED" ELSE "CANDIDATE_REJECTED"
MayRefuse(deferred) == (IF deferred THEN "defer" ELSE "reject") \in May

Refuse(deferred) ==
    /\ At("commit", "staged") /\ MayRefuse(deferred)
    /\ Discard(Level, Top.id, deferred)
    /\ Loop(Top.snap.graph, IF deferred THEN OnDefer ELSE OnReject)
    /\ log' = log \o <<Note("SAFETY_GATE_EVALUATED", Top.snap.ver)>>
                  \o IF Failed(Top.snap.graph) = {}
                     THEN <<Note(Verdict(deferred), Top.snap.ver)>> ELSE <<>>
    /\ Raises
    /\ UNCHANGED <<stuck, calls>>

RefuseReviewed(deferred) ==
    /\ At("review", "staged") /\ MayRefuse(deferred)
    /\ \E i \in DOMAIN candidates : RecordReview(i, Top.id, FALSE, deferred)
    /\ log' = log \o <<Note("SAFETY_GATE_EVALUATED", Top.snap.ver),
                       Note(Verdict(deferred), Top.snap.ver)>>
    /\ Returns
    /\ UNCHANGED <<phase, stuck, calls>>

------------------------------------------------------------------------------
(* _cutover_graph_with_drain                                               *)

AtCutover == At("commit", "allowed") \/ At("review", "allowed")

(* A wrong form of Exchange: the routes are not reloaded.                  *)
Exchange_StoreOnly ==
    /\ StoreCommit(Top.snap)
    /\ staged' = [staged EXCEPT ![Level] = NoSnapshot]
    /\ SaveCandidate(Record(Top.id, Top.snap, TRUE, FALSE))
    /\ UNCHANGED <<loaded, candidateGraph>>

Exchange ==
    IF Top.kind = "commit"
    THEN Commit(Level, Top.id)
    ELSE \E i \in DOMAIN candidates : CutoverDeferred(i, Top.id)

Cutover ==
    /\ AtCutover /\ ~stuck
    /\ Exchange
    /\ Goto("cutover")
    /\ log' = log \o <<Note("DRAIN_STARTED", Top.snap.ver),
                       Note("DRAIN_COMPLETED", Top.snap.ver)>>
    /\ UNCHANGED <<phase, stuck, calls>>

(* Nothing was exchanged: a commit forgets what it staged.                 *)
Forget == IF Top.kind = "commit" THEN Abandon(Level) ELSE UNCHANGED vars

(* DrainCoordinator.begin raises: the wait timed out, or an earlier drain  *)
(* never ended.                                                            *)
BeginRaises ==
    /\ AtCutover /\ (stuck \/ "timeout" \in May)
    /\ stuck' = TRUE
    /\ Forget /\ Raises
    /\ UNCHANGED <<phase, log, calls>>

(* The exchange itself raises; abort reopens the gates.                    *)
CutoverAborts ==
    /\ AtCutover /\ ~stuck /\ "abort" \in May
    /\ Forget /\ Raises
    /\ log' = log \o <<Note("DRAIN_STARTED", Top.snap.ver),
                       Note("DRAIN_FAILED", Top.snap.ver)>>
    /\ UNCHANGED <<phase, stuck, calls>>

(* complete raises after the exchange; abort is refused.                   *)
ReplayRaises ==
    /\ AtCutover /\ ~stuck /\ "replay" \in May
    /\ Exchange
    /\ Raises
    /\ stuck' = TRUE
    /\ log' = Append(log, Note("DRAIN_STARTED", Top.snap.ver))
    /\ UNCHANGED <<phase, calls>>

------------------------------------------------------------------------------
(* After the cutover                                                       *)

TargetKept == Top.target # NoVersion => rollback = Top.target

(* The check of the rollback target, and the phases of the nodes (a review *)
(* records none).  A wrong form: the commit is recorded before the health  *)
(* probes.                                                                 *)
RecordPhases_LogsCommit ==
    /\ At("commit", "cutover") /\ TargetKept
    /\ Loop(Top.snap.graph, OnCommit)
    /\ IF Failed(Top.snap.graph) = {} THEN Goto("recorded") ELSE Raises
    /\ log' = Append(log, Note("GRAPH_COMMITTED", Top.snap.ver))
    /\ UNCHANGED <<vars, stuck, calls>>

RecordPhases ==
    /\ At("commit", "cutover") /\ TargetKept
    /\ Loop(Top.snap.graph, OnCommit)
    /\ IF Failed(Top.snap.graph) = {} THEN Goto("recorded") ELSE Raises
    /\ UNCHANGED <<vars, log, stuck, calls>>

RecordNothing ==
    /\ At("review", "cutover") /\ TargetKept
    /\ Goto("recorded")
    /\ UNCHANGED <<vars, phase, log, stuck, calls>>

TargetLost ==
    /\ At("commit", "cutover") \/ At("review", "cutover")
    /\ ~TargetKept
    /\ Raises
    /\ UNCHANGED <<vars, phase, log, stuck, calls>>

(* The health probes pass: the promotion is recorded.                      *)
Committed ==
    /\ \/ At("commit", "recorded") /\ UNCHANGED vars
       \/ /\ At("review", "recorded")
          /\ \E i \in DOMAIN candidates : RecordReview(i, Top.id, TRUE, FALSE)
    /\ log' = Append(log, Note("GRAPH_COMMITTED", Top.snap.ver))
    /\ Returns
    /\ UNCHANGED <<phase, stuck, calls>>

(* AutoRollback: back to the target, or nothing when there is none.        *)
RollBack == IF rollback # NoVersion THEN Rollback ELSE UNCHANGED vars

(* A wrong form of Unhealthy: the rollback is recorded and never made.     *)
Unhealthy_LeavesGraph ==
    /\ At("commit", "recorded") \/ At("review", "recorded")
    /\ "unhealthy" \in May
    /\ UNCHANGED vars
    /\ log' = Append(log, Note("GRAPH_ROLLED_BACK", active'))
    /\ Raises
    /\ UNCHANGED <<phase, stuck, calls>>

Unhealthy ==
    /\ At("commit", "recorded") \/ At("review", "recorded")
    /\ "unhealthy" \in May
    /\ RollBack
    /\ log' = Append(log, Note("GRAPH_ROLLED_BACK", active'))
    /\ Raises
    /\ UNCHANGED <<phase, stuck, calls>>

(* A failed observation window, at rest.                                   *)
WindowFails ==
    /\ "window" \in May
    /\ stack = <<>>
    /\ calls < MaxCalls
    /\ calls' = calls + 1
    /\ RollBack
    /\ log' = Append(log, Event("GRAPH_ROLLED_BACK", NoCandidate, active', rollback, NoGraph))
    /\ UNCHANGED <<stack, raising, phase, stuck>>

------------------------------------------------------------------------------
(* An exception reaches the subscriber's publisher: caught by the          *)
(* subscriber, or raised on by the commit_graph that published.            *)
Catch ==
    /\ raising
    /\ raising' = FALSE
    /\ UNCHANGED <<vars, stack, phase, log, stuck, calls>>

Unwind ==
    /\ raising
    /\ Abandon(Level)
    /\ Raises
    /\ UNCHANGED <<phase, log, stuck, calls>>

PromotionNext ==
    \/ \E g \in Graphs, id \in Ids : Submit(g, id) \/ SubmitMutation(g, id)
    \/ \E i \in DOMAIN candidates, id \in Ids : StartReview(i, id)
    \/ DecideMutation
    \/ \E kind \in {"commit", "review"} : Allow(kind)
    \/ \E deferred \in BOOLEAN : Refuse(deferred) \/ RefuseReviewed(deferred)
    \/ Cutover \/ BeginRaises \/ CutoverAborts \/ ReplayRaises
    \/ RecordPhases \/ RecordNothing \/ TargetLost
    \/ Committed \/ Unhealthy \/ WindowFails
    \/ Catch \/ Unwind

PromotionSpec == PromotionInit /\ [][PromotionNext]_allVars

------------------------------------------------------------------------------
(* Properties                                                              *)

Frames == [kind : {"commit", "review", "mutation"}, id : Ids, snap : Snapshots,
           was : Snapshots \cup {NoSnapshot}, target : Versions \cup {NoVersion},
           step : {"staged", "allowed", "cutover", "recorded"}]
EventTypes == {"CANDIDATE_CREATED", "CANDIDATE_VALIDATED", "SAFETY_GATE_EVALUATED",
               "CANDIDATE_DEFERRED", "CANDIDATE_REJECTED", "DRAIN_STARTED",
               "DRAIN_COMPLETED", "DRAIN_FAILED", "GRAPH_COMMITTED",
               "GRAPH_ROLLED_BACK"}
SessionEvents == [type : EventTypes, id : Ids \cup {NoCandidate},
                  ver : Versions \cup {NoVersion}, target : Versions \cup {NoVersion},
                  graph : Graphs \cup {NoGraph}]

PromotionTypeOK ==
    /\ stack \in Seq(Frames) /\ Level <= Cardinality(Callers)
    /\ raising \in BOOLEAN /\ stuck \in BOOLEAN
    /\ phase \in [Components -> Phases]
    /\ log \in Seq(SessionEvents)
    /\ calls \in 0 .. MaxCalls

(* Without nested calls, deferred reviews, mutations and reused            *)
(* identifiers the runtime uses the store serially: nothing is promoted    *)
(* from a stale staging, a rollback restores the graph that ran before.    *)
UsesStoreSerially == SerialSpec

(* Where no call is nested in another, GRAPH_COMMITTED tells the truth:    *)
(* the graph that runs is the one that was submitted, under the version    *)
(* the event names; its rollback target is the version that ran when the   *)
(* call was made, none for the first one, and it is the one that a         *)
(* rollback would restore (boot.py:1253, 1389 and 1407).                   *)
VersionOf(snap) == IF snap = NoSnapshot THEN NoVersion ELSE snap.ver
CommitEvidenceTrue ==
    [][\A n \in DOMAIN log' \ DOMAIN log :
          log'[n].type = "GRAPH_COMMITTED" =>
              /\ loaded' = Top.snap /\ log'[n].ver = active'
              /\ log'[n].target = VersionOf(Top.was)
              /\ log'[n].target = rollback']_allVars

(* A promotion that ends without a GRAPH_COMMITTED event leaves running    *)
(* the graph that ran when it began.  One exception is the code's: when    *)
(* nothing ran before and a health probe fails, AutoRollback has nothing   *)
(* to go back to, and the graph that failed runs on.                       *)
LastType == IF log = <<>> THEN "none" ELSE log[Len(log)].type
UnrecordedKeepsGraph ==
    [][Len(stack') < Level /\ (log' = log \/ LastType' # "GRAPH_COMMITTED") =>
          \/ loaded' = Top.was
          \/ /\ Top.was = NoSnapshot /\ loaded' = Top.snap
             /\ log' # log /\ LastType' = "GRAPH_ROLLED_BACK"]_allVars

(* What _recover_session finds: the version of the last GRAPH_COMMITTED;   *)
(* and the graph that was promoted under it.                               *)
Commits == {n \in DOMAIN log : log[n].type = "GRAPH_COMMITTED"}
RecoveredVersion == IF Commits = {} THEN NoVersion ELSE log[Highest(Commits)].ver
Recovered == IF Commits = {} THEN NoSnapshot
             ELSE [ver |-> RecoveredVersion, graph |-> log[Highest(Commits)].graph]

(* Once a promotion has been recorded, a recovery between two calls finds  *)
(* the version that is active, and the graph that runs is the one that was *)
(* promoted under that version.                                            *)
RecoveredIsActive ==
    stack = <<>> /\ Commits # {} => RecoveredVersion = active /\ Recovered = loaded
==============================================================================
