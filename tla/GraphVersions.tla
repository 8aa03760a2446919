---------------------------- MODULE GraphVersions ----------------------------
(***************************************************************************)
(* The graph version store (core/graph_versions.py) and the operations of  *)
(* the connection engine that change it (core/connection_engine.py).       *)
(*                                                                         *)
(* A caller stages a graph, which fixes the version the graph will have,   *)
(* and later commits or discards it.  The staged snapshot is a local       *)
(* variable of the caller (commit_graph and MutationSubmitter.submit);     *)
(* several can be pending at a time, because commit_graph publishes        *)
(* BEFORE_COMMIT_GRAPH between the two and a subscriber may promote a      *)
(* graph itself, and because a deferred candidate keeps its snapshot in    *)
(* the candidate list until somebody reviews it.                           *)
(***************************************************************************)
EXTENDS Integers, Sequences, FiniteSets

CONSTANTS Graphs,         \* contents of a graph: nodes and edges
          NoGraph,        \* no snapshot stored under a version
          Ids,            \* candidate identifiers (callers may reuse them)
          Callers,        \* concurrent or nested promotions
          NoSnapshot,     \* nothing staged, nothing loaded
          Retention,      \* GraphVersionStore.retention
          Windows,        \* what retire_to is called with
          MaxVersion,     \* bound: no graph is staged above this version
          MaxCandidates   \* bound: length of the candidate list

Versions == 1 .. MaxVersion
NoVersion == 0            \* the code's None

Snapshots == [ver : Versions, graph : Graphs]

ASSUME GraphVersionsAssumption ==
         /\ MaxVersion \in Nat
         /\ MaxCandidates \in Nat
         /\ Retention \in Nat
         /\ Windows \subseteq Nat
         /\ NoGraph \notin Graphs
         /\ NoSnapshot \notin Snapshots

VARIABLES snapshots,      \* live snapshots, by version
          archived,       \* archived snapshots, by version
          active,         \* state.active_graph_version
          rollback,       \* state.rollback_graph_version
          archivedList,   \* state.archived_graph_versions (its members)
          candidates,     \* the list of CandidateRecords
          retention,      \* the retention window in force
          loaded,         \* the engine's route table and registry.active_graph
          candidateGraph, \* registry.candidate_graph
          staged          \* per caller: the snapshot it staged

storeVars == <<snapshots, archived, active, rollback, archivedList, retention>>
vars == <<storeVars, candidates, loaded, candidateGraph, staged>>

------------------------------------------------------------------------------
(* The version store                                                       *)

LiveVersions(s) == {v \in Versions : s[v] # NoGraph}
Known == LiveVersions(snapshots) \cup LiveVersions(archived)

Highest(S) == CHOOSE v \in S : \A w \in S : w <= v

(* A wrong form of NextVersion: archived versions are forgotten.           *)
NextVersion_LiveOnly ==
    LET live == LiveVersions(snapshots)
    IN  IF live = {} THEN 1 ELSE Highest(live) + 1

NextVersion == IF Known = {} THEN 1 ELSE Highest(Known) + 1

(* The snapshot rollback() and active_snapshot() find for version v.       *)
Lookup(v) == IF snapshots[v] # NoGraph THEN snapshots[v] ELSE archived[v]

(* The versions _retire archives: the oldest live ones beyond the window   *)
(* keep, never the active one.                                             *)
Victims(live, act, keep) ==
    IF keep <= 0 THEN {}
    ELSE LET others == live \ {act}
             room == keep - Cardinality(live \cap {act})
         IN  {v \in others : Cardinality({w \in others : w > v}) >= room}

(* A wrong form of Retire: what leaves the window is dropped.              *)
Retire_Drops(snaps, act, keep) ==
    /\ snapshots' = [v \in Versions |->
           IF v \in Victims(LiveVersions(snaps), act, keep) THEN NoGraph ELSE snaps[v]]
    /\ archivedList' = archivedList \cup Victims(LiveVersions(snaps), act, keep)
    /\ retention' = keep
    /\ UNCHANGED archived

Retire(snaps, act, keep) ==
    LET victims == Victims(LiveVersions(snaps), act, keep)
    IN  /\ snapshots' = [v \in Versions |->
                            IF v \in victims THEN NoGraph ELSE snaps[v]]
        /\ archived' = [v \in Versions |->
                            IF v \in victims THEN snaps[v] ELSE archived[v]]
        /\ archivedList' = archivedList \cup victims
        /\ retention' = keep

(* A wrong form of StoreCommit: the first rollback target is kept.         *)
StoreCommit_KeepsTarget(snap) ==
    /\ active' = snap.ver
    /\ rollback' = IF rollback = NoVersion THEN active ELSE rollback
    /\ Retire([snapshots EXCEPT ![snap.ver] = snap.graph], snap.ver, retention)

StoreCommit(snap) ==
    /\ active' = snap.ver
    /\ rollback' = IF active # NoVersion THEN active ELSE rollback
    /\ Retire([snapshots EXCEPT ![snap.ver] = snap.graph], snap.ver, retention)

------------------------------------------------------------------------------
(* The candidate list                                                      *)

Record(id, snap, promoted, deferred) ==
    [id |-> id, snap |-> snap, promoted |-> promoted, deferred |-> deferred]

CandidateRecords ==
    [id : Ids, snap : Snapshots, promoted : BOOLEAN, deferred : BOOLEAN]

SaveCandidate(rec) == /\ Len(candidates) < MaxCandidates
                      /\ candidates' = Append(candidates, rec)

(* review_deferred_candidate looks from the end of the list ...            *)
IsLastDeferred(i, id) ==
    LET awaits(j) == candidates[j].id = id /\ candidates[j].deferred
    IN  awaits(i) /\ \A j \in DOMAIN candidates : j > i => ~awaits(j)

(* A wrong form of UpdateCandidate: the reviewed record is appended.       *)
UpdateCandidate_Appends(rec) == SaveCandidate(rec)

(* ... and update_candidate replaces the first record with the same id.    *)
UpdateCandidate(rec) ==
    \E i \in DOMAIN candidates :
        /\ candidates[i].id = rec.id
        /\ \A j \in DOMAIN candidates : j < i => candidates[j].id # rec.id
        /\ candidates' = [candidates EXCEPT ![i] = rec]

------------------------------------------------------------------------------
(* The operations                                                          *)

Init ==
    /\ snapshots = [v \in Versions |-> NoGraph]
    /\ archived = [v \in Versions |-> NoGraph]
    /\ active = NoVersion
    /\ rollback = NoVersion
    /\ archivedList = {}
    /\ candidates = <<>>
    /\ retention = Retention
    /\ loaded = NoSnapshot
    /\ candidateGraph = NoSnapshot
    /\ staged = [c \in Callers |-> NoSnapshot]

(* ConnectionEngine.stage: the version is chosen here, not at the commit.  *)
Stage(c, g) ==
    /\ staged[c] = NoSnapshot
    /\ NextVersion <= MaxVersion
    /\ LET snap == [ver |-> NextVersion, graph |-> g]
       IN  /\ staged' = [staged EXCEPT ![c] = snap]
           /\ candidateGraph' = snap
    /\ UNCHANGED <<storeVars, candidates, loaded>>

(* ConnectionEngine.commit with a valid report.                            *)
Commit(c, id) ==
    /\ staged[c] # NoSnapshot
    /\ SaveCandidate(Record(id, staged[c], TRUE, FALSE))
    /\ StoreCommit(staged[c])
    /\ loaded' = staged[c]
    /\ staged' = [staged EXCEPT ![c] = NoSnapshot]
    /\ UNCHANGED candidateGraph

(* ConnectionEngine.commit with an invalid report: recorded, not promoted. *)
CommitInvalid(c, id) ==
    /\ staged[c] # NoSnapshot
    /\ SaveCandidate(Record(id, staged[c], FALSE, FALSE))
    /\ staged' = [staged EXCEPT ![c] = NoSnapshot]
    /\ UNCHANGED <<storeVars, loaded, candidateGraph>>

(* ConnectionEngine.discard_candidate.                                     *)
Discard(c, id, deferred) ==
    /\ staged[c] # NoSnapshot
    /\ SaveCandidate(Record(id, staged[c], FALSE, deferred))
    /\ staged' = [staged EXCEPT ![c] = NoSnapshot]
    /\ candidateGraph' = NoSnapshot
    /\ UNCHANGED <<storeVars, loaded>>

(* Between the two commit_graph may raise: the snapshot it staged is gone. *)
Abandon(c) ==
    /\ staged[c] # NoSnapshot
    /\ staged' = [staged EXCEPT ![c] = NoSnapshot]
    /\ UNCHANGED <<storeVars, candidates, loaded, candidateGraph>>

(* The store's part of HarnessRuntime.review_deferred_candidate: when the  *)
(* review allows the candidate, cut over to the stored snapshot ...        *)
CutoverDeferred(i, id) ==
    /\ IsLastDeferred(i, id)
    /\ StoreCommit(candidates[i].snap)
    /\ loaded' = candidates[i].snap
    /\ UNCHANGED <<candidates, candidateGraph, staged>>

(* ... and then, or when the candidate is rejected or deferred again,      *)
(* write the review's result into the list.                                *)
RecordReview(i, id, promoted, deferred) ==
    /\ IsLastDeferred(i, id)
    /\ promoted => loaded = candidates[i].snap /\ ~deferred
    /\ UpdateCandidate(Record(id, candidates[i].snap, promoted, deferred))
    /\ UNCHANGED <<storeVars, loaded, candidateGraph, staged>>

(* ConnectionEngine.rollback; without a target the code raises.            *)
Rollback ==
    /\ rollback # NoVersion
    /\ Lookup(rollback) # NoGraph
    /\ snapshots' = [snapshots EXCEPT ![rollback] = Lookup(rollback)]
    /\ archived' = [archived EXCEPT ![rollback] = NoGraph]
    /\ active' = rollback
    /\ rollback' = NoVersion
    /\ loaded' = [ver |-> rollback, graph |-> Lookup(rollback)]
    /\ UNCHANGED <<archivedList, candidates, retention, candidateGraph, staged>>

(* GraphVersionStore.retire_to.                                            *)
RetireTo(keep) ==
    /\ Retire(snapshots, active, keep)
    /\ UNCHANGED <<active, rollback, candidates, loaded, candidateGraph, staged>>

------------------------------------------------------------------------------
(* A candidate whose version is still the one the store would hand out,    *)
(* and an identifier no earlier record carries.                            *)
Fresh(snap) == snap.ver = NextVersion
Unused(id) == \A i \in DOMAIN candidates : candidates[i].id # id

Propose == \E c \in Callers, g \in Graphs : Stage(c, g)
Decide == \E c \in Callers, id \in Ids :
              \/ Commit(c, id)
              \/ CommitInvalid(c, id)
              \/ \E d \in BOOLEAN : Discard(c, id, d)
              \/ Abandon(c)
Review == \E i \in DOMAIN candidates, id \in Ids :
              \/ CutoverDeferred(i, id)
              \/ \E p, d \in BOOLEAN : RecordReview(i, id, p, d)
Window == \E keep \in Windows : RetireTo(keep)

(* Every order of legal calls.                                             *)
Next == Propose \/ Decide \/ Review \/ Rollback \/ Window

Spec == Init /\ [][Next]_vars

(* The orders in which nothing is promoted from a stale staging: what a    *)
(* single commit_graph at a time gives, as long as no deferred candidate   *)
(* is adopted after another commit and no identifier is reused.            *)
SerialNext ==
    \/ Propose
    \/ \E c \in Callers, id \in Ids :
          /\ Unused(id)
          /\ \/ staged[c] # NoSnapshot /\ Fresh(staged[c]) /\ Commit(c, id)
             \/ CommitInvalid(c, id)
             \/ \E d \in BOOLEAN : Discard(c, id, d)
             \/ Abandon(c)
    \/ \E i \in DOMAIN candidates, id \in Ids :
          \/ Fresh(candidates[i].snap) /\ CutoverDeferred(i, id)
          \/ \E p, d \in BOOLEAN : RecordReview(i, id, p, d)
    \/ Rollback
    \/ Window

SerialSpec == Init /\ [][SerialNext]_vars

------------------------------------------------------------------------------
(* Properties                                                              *)

TypeOK ==
    /\ snapshots \in [Versions -> Graphs \cup {NoGraph}]
    /\ archived \in [Versions -> Graphs \cup {NoGraph}]
    /\ active \in Versions \cup {NoVersion}
    /\ rollback \in Versions \cup {NoVersion}
    /\ archivedList \in SUBSET Versions
    /\ candidates \in Seq(CandidateRecords)
    /\ retention \in Nat
    /\ loaded \in Snapshots \cup {NoSnapshot}
    /\ candidateGraph \in Snapshots \cup {NoSnapshot}
    /\ staged \in [Callers -> Snapshots \cup {NoSnapshot}]

(* Whatever the order of calls, the routes in force are those of the       *)
(* snapshot the store calls active, and the retention window never         *)
(* archives that snapshot (graph_versions._retire protects the active      *)
(* version; engine.load_graph is a second, separate step after the         *)
(* store's commit or rollback).                                            *)
RunningIsActive ==
    IF active = NoVersion
    THEN loaded = NoSnapshot
    ELSE /\ snapshots[active] # NoGraph
         /\ loaded = [ver |-> active, graph |-> snapshots[active]]

(* A rollback the store offers can be carried out: the target's snapshot   *)
(* is still stored, live or archived, after any retirements since.         *)
RollbackResolvable == rollback # NoVersion => Lookup(rollback) # NoGraph

(* A version is stored once: live or archived, never both.                 *)
StoredOnce == LiveVersions(snapshots) \cap LiveVersions(archived) = {}

(* "An immutable graph snapshot": once a version is stored, no call        *)
(* forgets it or gives its number to another graph.                        *)
SnapshotsImmutable ==
    [][\A v \in Known : v \in Known' /\ Lookup(v)' = Lookup(v)]_vars

(* A candidate whose deferred review has been decided, for or against it,  *)
(* no longer awaits review.                                                *)
DecidedNoLongerAwaits ==
    [][\A i \in DOMAIN candidates, id \in Ids, p \in BOOLEAN :
          RecordReview(i, id, p, FALSE) => ~candidates'[i].deferred]_vars

(* The store promotes and restores graphs as ActiveGraph says: a rollback  *)
(* brings back exactly the graph that ran before the current one.          *)
GraphAt(v) == IF v = NoVersion THEN NoGraph ELSE Lookup(v)
runningGraph == GraphAt(active)
previousGraph == GraphAt(rollback)
AG == INSTANCE ActiveGraph WITH running <- runningGraph, previous <- previousGraph
RestoresPrevious == AG!Spec
==============================================================================
