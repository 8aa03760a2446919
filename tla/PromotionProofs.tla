--------------------------- MODULE PromotionProofs ---------------------------
(***************************************************************************)
(* For every set of graphs, identifiers and callers, every retention       *)
(* window and every bound.                                                 *)
(*                                                                         *)
(* The version store: its invariants under every order of calls (Spec),    *)
(* and the immutability of stored snapshots and the refinement of          *)
(* ActiveGraph for serial promotions (SerialSpec).                         *)
(*                                                                         *)
(* The runtime, whatever may happen: it uses the version store through its *)
(* operations only, so the store's invariants hold of it, a GRAPH_COMMITTED *)
(* event tells the truth, and a recovery finds the active graph.           *)
(***************************************************************************)
EXTENDS Promotion, FiniteSetTheorems, SequenceTheorems, WellFoundedInduction, TLAPS

------------------------------------------------------------------------------
(* The version store                                                       *)

(* What holds between any two calls, whatever their order.                 *)
NoTargetAtFirst == active = NoVersion => rollback = NoVersion
IInv == TypeOK /\ RunningIsActive /\ RollbackResolvable /\ NoTargetAtFirst

------------------------------------------------------------------------------
(* Operators                                                               *)

(* A non-empty set of versions has a highest member, the one Highest       *)
(* chooses.                                                                *)
LEMMA HighestExists ==
    ASSUME NEW n \in Nat, NEW S \in SUBSET (1 .. n), S # {}
    PROVE  Highest(S) \in S /\ \A w \in S : w <= Highest(S)
<1> DEFINE Above(v) == {w \in S : w > v}
           T == {Above(v) : v \in S}
<1>0. \A w \in S : w \in Int
  OBVIOUS
<1>1. IsFiniteSet(S)
  BY FS_Interval, FS_Subset, 1 \in Int, n \in Int
<1>2. T \subseteq FiniteSubsetsOf(S)
  BY <1>1, FS_Subset DEF FiniteSubsetsOf
<1>3. T # {}
  OBVIOUS
<1>4. PICK x \in T : \A y \in T : ~ (<<y, x>> \in StrictSubsetOrdering(S))
  <2> HIDE DEF T
  <2> QED BY <1>2, <1>3, WFMin, FS_StrictSubsetOrderingWellFounded, Zenon
<1>5. PICK v \in S : x = Above(v)
  OBVIOUS
<1>6. ASSUME NEW u \in S, u > v PROVE FALSE
  <2>1. u \in Above(v) /\ u \notin Above(u)
    BY <1>0, <1>6
  <2>2. ASSUME NEW w \in Above(u) PROVE w \in Above(v)
    <3>1. w \in S /\ w > u
      OBVIOUS
    <3>2. w > v
      BY <1>0, <1>6, <3>1
    <3> QED BY <3>1, <3>2
  <2>3. <<Above(u), Above(v)>> \in StrictSubsetOrdering(S)
    BY <2>1, <2>2 DEF StrictSubsetOrdering
  <2> QED BY <2>3, <1>4, <1>5
<1>7. \A w \in S : w <= v
  BY <1>0, <1>6
<1> QED BY <1>7 DEF Highest

(* next_version is a positive number no stored snapshot carries.           *)
LEMMA NextVersionIsNew ==
    ASSUME TypeOK
    PROVE  /\ NextVersion \in Nat \ {0}
           /\ \A v \in Known : v < NextVersion
<1>1. MaxVersion \in Nat /\ Known \in SUBSET (1 .. MaxVersion)
  BY GraphVersionsAssumption DEF Known, LiveVersions, Versions
<1>2. CASE Known = {}
  BY <1>2 DEF NextVersion
<1>3. CASE Known # {}
  <2>1. Highest(Known) \in Known /\ \A w \in Known : w <= Highest(Known)
    BY <1>1, <1>3, HighestExists
  <2>2. \A w \in Known : w \in Nat \ {0}
    BY <1>1
  <2>3. NextVersion = Highest(Known) + 1
    BY <1>3 DEF NextVersion
  <2> QED BY <2>1, <2>2, <2>3
<1> QED BY <1>2, <1>3

(* Retirement moves snapshots from the live pool to the archive and loses  *)
(* none: what was live is found afterwards, live or archived, and the      *)
(* active version stays where it is.                                       *)
LEMMA RetireKeeps ==
    ASSUME TypeOK, NEW snaps \in [Versions -> Graphs \cup {NoGraph}],
           NEW act, NEW keep \in Nat, Retire(snaps, act, keep)
    PROVE  /\ snapshots' \in [Versions -> Graphs \cup {NoGraph}]
           /\ archived' \in [Versions -> Graphs \cup {NoGraph}]
           /\ archivedList' \in SUBSET Versions
           /\ retention' \in Nat
           /\ act \in Versions => snapshots'[act] = snaps[act]
           /\ \A v \in Versions :
                Lookup(v)' = IF snaps[v] # NoGraph THEN snaps[v] ELSE archived[v]
           /\ \A v \in Versions : snapshots'[v] # NoGraph => snapshots'[v] = snaps[v]
           /\ \A v \in Versions :
                archived'[v] # NoGraph =>
                    archived'[v] = archived[v] \/ snapshots'[v] = NoGraph
<1> DEFINE victims == Victims(LiveVersions(snaps), act, keep)
<1>1. victims \subseteq LiveVersions(snaps) \ {act}
  BY DEF Victims
<1>2. /\ snapshots' = [v \in Versions |-> IF v \in victims THEN NoGraph ELSE snaps[v]]
      /\ archived' = [v \in Versions |-> IF v \in victims THEN snaps[v] ELSE archived[v]]
      /\ archivedList' = archivedList \cup victims
      /\ retention' = keep
  BY DEF Retire
<1> HIDE DEF victims
<1>3. \A v \in victims : v \in Versions /\ snaps[v] # NoGraph /\ v # act
  BY <1>1 DEF LiveVersions
<1> QED BY <1>2, <1>3 DEF TypeOK, Lookup

(* A promotion: the promoted snapshot is live and active, and what was     *)
(* active before is what the rollback target finds.                        *)
LEMMA StoreCommitKeeps ==
    ASSUME IInv, NEW snap \in Snapshots, StoreCommit(snap), loaded' = snap
    PROVE  /\ snapshots' \in [Versions -> Graphs \cup {NoGraph}]
           /\ archived' \in [Versions -> Graphs \cup {NoGraph}]
           /\ archivedList' \in SUBSET Versions
           /\ retention' \in Nat
           /\ active' \in Versions \cup {NoVersion}
           /\ rollback' \in Versions \cup {NoVersion}
           /\ RunningIsActive' /\ RollbackResolvable' /\ NoTargetAtFirst'
<1> DEFINE snaps == [snapshots EXCEPT ![snap.ver] = snap.graph]
<1>1. /\ snap.ver \in Versions /\ snap.graph \in Graphs /\ snap.graph # NoGraph
      /\ snap = [ver |-> snap.ver, graph |-> snap.graph]
      /\ NoVersion \notin Versions
  BY GraphVersionsAssumption DEF Snapshots, NoVersion, Versions
<1>2. TypeOK
  BY DEF IInv
<1>3. /\ snaps \in [Versions -> Graphs \cup {NoGraph}]
      /\ snaps[snap.ver] = snap.graph
      /\ \A v \in Versions : snapshots[v] # NoGraph => snaps[v] # NoGraph
  BY <1>1, <1>2 DEF TypeOK
<1>4. /\ active' = snap.ver
      /\ rollback' = IF active # NoVersion THEN active ELSE rollback
      /\ Retire(snaps, snap.ver, retention)
  BY DEF StoreCommit
<1> HIDE DEF snaps
<1>5. /\ snapshots' \in [Versions -> Graphs \cup {NoGraph}]
      /\ archived' \in [Versions -> Graphs \cup {NoGraph}]
      /\ archivedList' \in SUBSET Versions
      /\ retention' \in Nat
      /\ snapshots'[snap.ver] = snaps[snap.ver]
      /\ \A v \in Versions :
           Lookup(v)' = IF snaps[v] # NoGraph THEN snaps[v] ELSE archived[v]
  BY <1>1, <1>2, <1>3, <1>4, RetireKeeps DEF TypeOK
<1>6. RunningIsActive'
  BY <1>1, <1>3, <1>4, <1>5 DEF RunningIsActive
<1>7. active' # NoVersion
  BY <1>1, <1>4
<1>8. RollbackResolvable'
  <2>1. CASE active = NoVersion
    BY <2>1, <1>4 DEF RollbackResolvable, IInv, NoTargetAtFirst
  <2>2. CASE active # NoVersion
    <3>1. active \in Versions /\ snapshots[active] # NoGraph
      BY <2>2, <1>2 DEF IInv, TypeOK, RunningIsActive
    <3>2. PICK v \in Versions : v = active
      BY <3>1
    <3>3. rollback' = v /\ Lookup(v)' # NoGraph
      BY <2>2, <3>1, <3>2, <1>3, <1>4, <1>5
    <3> QED BY <3>3 DEF RollbackResolvable, Lookup
  <2> QED BY <2>1, <2>2
<1> QED BY <1>1, <1>2, <1>4, <1>5, <1>6, <1>7, <1>8 DEF TypeOK, NoTargetAtFirst

(* Saving a record and replacing one keep the list a list of records.      *)
LEMMA CandidateListType ==
    ASSUME candidates \in Seq(CandidateRecords), NEW rec \in CandidateRecords,
           SaveCandidate(rec) \/ UpdateCandidate(rec)
    PROVE  candidates' \in Seq(CandidateRecords)
<1>1. CASE SaveCandidate(rec)
  BY <1>1, AppendProperties DEF SaveCandidate
<1>2. CASE UpdateCandidate(rec)
  BY <1>2, ExceptSeq DEF UpdateCandidate
<1> QED BY <1>1, <1>2

LEMMA CandidateSnapshot ==
    ASSUME candidates \in Seq(CandidateRecords), NEW i \in DOMAIN candidates
    PROVE  candidates[i].snap \in Snapshots
<1>1. candidates[i] \in CandidateRecords
  BY ElementOfSeq, LenProperties
<1> QED BY <1>1 DEF CandidateRecords

------------------------------------------------------------------------------
(* Every order of calls                                                    *)

LEMMA InitIInv == Init => IInv
<1> SUFFICES ASSUME Init PROVE IInv
  OBVIOUS
<1>1. TypeOK
  <2>1. <<>> \in Seq(CandidateRecords)
    BY EmptySeq
  <2> QED BY <2>1, GraphVersionsAssumption DEF Init, TypeOK, NoVersion
<1> QED BY <1>1 DEF IInv, Init, RunningIsActive, RollbackResolvable, NoTargetAtFirst

LEMMA NextIInv == IInv /\ [Next]_vars => IInv'
<1> SUFFICES ASSUME IInv, [Next]_vars PROVE IInv'
  OBVIOUS
<1>0. TypeOK /\ RunningIsActive /\ RollbackResolvable /\ NoTargetAtFirst
  BY DEF IInv
<1>1. ASSUME NEW c \in Callers, NEW g \in Graphs, Stage(c, g) PROVE IInv'
  <2>1. NextVersion \in Versions
    BY <1>0, <1>1, NextVersionIsNew, GraphVersionsAssumption DEF Stage, Versions
  <2>2. [ver |-> NextVersion, graph |-> g] \in Snapshots
    BY <2>1 DEF Snapshots
  <2>3. /\ staged' \in [Callers -> Snapshots \cup {NoSnapshot}]
        /\ candidateGraph' \in Snapshots \cup {NoSnapshot}
    BY <1>0, <1>1, <2>2 DEF Stage, TypeOK
  <2> QED BY <1>0, <1>1, <2>3 DEF Stage, IInv, TypeOK, storeVars, RunningIsActive,
                               RollbackResolvable, NoTargetAtFirst, Lookup
<1>2. ASSUME NEW c \in Callers, NEW id \in Ids, Commit(c, id) PROVE IInv'
  <2>1. staged[c] \in Snapshots
    BY <1>0, <1>2 DEF Commit, TypeOK
  <2>2. candidates' \in Seq(CandidateRecords)
    <3>1. Record(id, staged[c], TRUE, FALSE) \in CandidateRecords
      BY <2>1 DEF Record, CandidateRecords
    <3> QED BY <1>0, <1>2, <3>1, CandidateListType DEF Commit, TypeOK
  <2>3. /\ loaded' \in Snapshots \cup {NoSnapshot}
        /\ candidateGraph' \in Snapshots \cup {NoSnapshot}
        /\ staged' \in [Callers -> Snapshots \cup {NoSnapshot}]
    BY <1>0, <1>2, <2>1 DEF Commit, TypeOK
  <2> QED BY <1>2, <2>1, <2>2, <2>3, StoreCommitKeeps DEF Commit, IInv, TypeOK
<1>3. ASSUME NEW c \in Callers, NEW id \in Ids, CommitInvalid(c, id) PROVE IInv'
  <2>1. staged[c] \in Snapshots
    BY <1>0, <1>3 DEF CommitInvalid, TypeOK
  <2>2. Record(id, staged[c], FALSE, FALSE) \in CandidateRecords
    BY <2>1 DEF Record, CandidateRecords
  <2>3. candidates' \in Seq(CandidateRecords)
    BY <1>0, <1>3, <2>2, CandidateListType DEF CommitInvalid, TypeOK
  <2> QED BY <1>0, <1>3, <2>3 DEF CommitInvalid, IInv, TypeOK, storeVars,
                 RunningIsActive, RollbackResolvable, NoTargetAtFirst, Lookup
<1>4. ASSUME NEW c \in Callers, NEW id \in Ids, NEW d \in BOOLEAN, Discard(c, id, d)
      PROVE  IInv'
  <2>1. staged[c] \in Snapshots
    BY <1>0, <1>4 DEF Discard, TypeOK
  <2>2. Record(id, staged[c], FALSE, d) \in CandidateRecords
    BY <2>1 DEF Record, CandidateRecords
  <2>3. candidates' \in Seq(CandidateRecords)
    BY <1>0, <1>4, <2>2, CandidateListType DEF Discard, TypeOK
  <2> QED BY <1>0, <1>4, <2>3 DEF Discard, IInv, TypeOK, storeVars,
                 RunningIsActive, RollbackResolvable, NoTargetAtFirst, Lookup
<1>5. ASSUME NEW i \in DOMAIN candidates, NEW id \in Ids, CutoverDeferred(i, id)
      PROVE  IInv'
  <2>1. candidates[i].snap \in Snapshots
    BY <1>0, CandidateSnapshot DEF TypeOK
  <2>2. /\ candidates' \in Seq(CandidateRecords)
        /\ loaded' \in Snapshots \cup {NoSnapshot}
        /\ candidateGraph' \in Snapshots \cup {NoSnapshot}
        /\ staged' \in [Callers -> Snapshots \cup {NoSnapshot}]
    BY <1>0, <1>5, <2>1 DEF CutoverDeferred, TypeOK
  <2> QED BY <1>5, <2>1, <2>2, StoreCommitKeeps DEF CutoverDeferred, IInv, TypeOK
<1>6. ASSUME NEW i \in DOMAIN candidates, NEW id \in Ids,
             NEW p \in BOOLEAN, NEW d \in BOOLEAN, RecordReview(i, id, p, d)
      PROVE  IInv'
  <2>1. candidates[i].snap \in Snapshots
    BY <1>0, CandidateSnapshot DEF TypeOK
  <2>2. Record(id, candidates[i].snap, p, d) \in CandidateRecords
    BY <2>1 DEF Record, CandidateRecords
  <2>3. candidates' \in Seq(CandidateRecords)
    BY <1>0, <1>6, <2>2, CandidateListType DEF RecordReview, TypeOK
  <2> QED BY <1>0, <1>6, <2>3 DEF RecordReview, IInv, TypeOK, storeVars,
                 RunningIsActive, RollbackResolvable, NoTargetAtFirst, Lookup
<1>7. CASE Rollback
  <2>1. rollback \in Versions /\ Lookup(rollback) \in Graphs
    BY <1>0, <1>7 DEF Rollback, TypeOK, Lookup
  <2>2. [ver |-> rollback, graph |-> Lookup(rollback)] \in Snapshots
    BY <2>1 DEF Snapshots
  <2>3. TypeOK'
    BY <1>0, <1>7, <2>1, <2>2 DEF Rollback, TypeOK
  <2>4. RunningIsActive'
    BY <1>0, <1>7, <2>1 DEF Rollback, TypeOK, RunningIsActive
  <2> QED BY <1>7, <2>3, <2>4 DEF Rollback, IInv, RollbackResolvable, NoTargetAtFirst
<1>8. ASSUME NEW keep \in Windows, RetireTo(keep) PROVE IInv'
  <2>0. keep \in Nat /\ snapshots \in [Versions -> Graphs \cup {NoGraph}]
    BY <1>0, GraphVersionsAssumption DEF TypeOK
  <2>1. /\ snapshots' \in [Versions -> Graphs \cup {NoGraph}]
        /\ archived' \in [Versions -> Graphs \cup {NoGraph}]
        /\ archivedList' \in SUBSET Versions
        /\ retention' \in Nat
        /\ active \in Versions => snapshots'[active] = snapshots[active]
        /\ \A v \in Versions : Lookup(v)' = Lookup(v)
    BY <1>0, <1>8, <2>0, RetireKeeps DEF RetireTo, Lookup
  <2>2. TypeOK'
    BY <1>0, <1>8, <2>1 DEF RetireTo, TypeOK
  <2>3. RunningIsActive'
    BY <1>0, <1>8, <2>1 DEF RetireTo, TypeOK, RunningIsActive
  <2>4. RollbackResolvable'
    <3>1. rollback' = rollback /\ (rollback # NoVersion => rollback \in Versions)
      BY <1>0, <1>8 DEF RetireTo, TypeOK
    <3>2. rollback # NoVersion => Lookup(rollback)' # NoGraph
      BY <1>0, <2>1, <3>1 DEF RollbackResolvable
    <3> QED BY <3>1, <3>2 DEF RollbackResolvable, Lookup
  <2> QED BY <1>0, <1>8, <2>2, <2>3, <2>4 DEF RetireTo, IInv, NoTargetAtFirst
<1>9. CASE UNCHANGED vars
  BY <1>0, <1>9 DEF vars, storeVars, IInv, TypeOK, RunningIsActive,
                    RollbackResolvable, NoTargetAtFirst, Lookup
<1>10. ASSUME NEW c \in Callers, Abandon(c) PROVE IInv'
  BY <1>0, <1>10 DEF Abandon, IInv, TypeOK, storeVars,
                 RunningIsActive, RollbackResolvable, NoTargetAtFirst, Lookup
<1> QED BY <1>1, <1>2, <1>3, <1>4, <1>5, <1>6, <1>7, <1>8, <1>9, <1>10
        DEF Next, Propose, Decide, Review, Window

(* Whatever the order of calls: the store is well formed, the routes in    *)
(* force are the active snapshot's, and an offered rollback can be made.   *)
THEOREM StoreInvariants == Spec => [](TypeOK /\ RunningIsActive /\ RollbackResolvable)
<1>1. IInv => TypeOK /\ RunningIsActive /\ RollbackResolvable
  BY DEF IInv
<1> QED BY <1>1, InitIInv, NextIInv, PTL DEF Spec

------------------------------------------------------------------------------
(* Serial promotions                                                       *)

(* A stored version is one that Lookup finds.                              *)
LEMMA KnownIsFound ==
    ASSUME TypeOK
    PROVE  \A v \in Versions : v \in Known <=> Lookup(v) # NoGraph
BY DEF TypeOK, Known, LiveVersions, Lookup

(* What a step may do to the stored snapshots and to the two pointers.     *)
Keeps(v) == Lookup(v) # NoGraph => Lookup(v)' = Lookup(v)
Promotes == \E g \in Graphs : AG!Promote(g)
Stutters == UNCHANGED <<runningGraph, previousGraph>>

(* A promotion from a fresh staging keeps every stored snapshot and makes  *)
(* the running graph the one to go back to.                                *)
LEMMA FreshCommit ==
    ASSUME IInv, StoredOnce, NEW snap \in Snapshots, Fresh(snap),
           StoreCommit(snap), loaded' = snap
    PROVE  StoredOnce' /\ Promotes /\ \A v \in Versions : Keeps(v)
<1> DEFINE snaps == [snapshots EXCEPT ![snap.ver] = snap.graph]
<1>1. /\ snap.ver \in Versions /\ snap.graph \in Graphs
      /\ NoGraph \notin Graphs /\ NoVersion \notin Versions
      /\ \A v \in Versions : v \in Int
  BY GraphVersionsAssumption DEF Snapshots, NoVersion, Versions
<1>2. TypeOK /\ RunningIsActive /\ RollbackResolvable /\ NoTargetAtFirst
  BY DEF IInv
<1>3. snapshots[snap.ver] = NoGraph /\ archived[snap.ver] = NoGraph
  <2>1. snap.ver \notin Known
    BY <1>1, <1>2, NextVersionIsNew DEF Fresh
  <2> QED BY <2>1, <1>1 DEF Known, LiveVersions
<1>4. /\ snaps \in [Versions -> Graphs \cup {NoGraph}]
      /\ \A v \in Versions :
           snaps[v] = IF v = snap.ver THEN snap.graph ELSE snapshots[v]
  BY <1>1, <1>2 DEF TypeOK
<1>5. /\ active' = snap.ver
      /\ rollback' = IF active # NoVersion THEN active ELSE rollback
      /\ Retire(snaps, snap.ver, retention)
  BY DEF StoreCommit
<1> HIDE DEF snaps
<1>6. /\ \A v \in Versions :
           Lookup(v)' = IF snaps[v] # NoGraph THEN snaps[v] ELSE archived[v]
      /\ \A v \in Versions : snapshots'[v] # NoGraph => snapshots'[v] = snaps[v]
      /\ \A v \in Versions :
           archived'[v] # NoGraph =>
               archived'[v] = archived[v] \/ snapshots'[v] = NoGraph
  BY <1>2, <1>4, <1>5, RetireKeeps DEF TypeOK
<1>7. StoredOnce'
  BY <1>3, <1>4, <1>6 DEF StoredOnce, LiveVersions
<1>8. \A v \in Versions : Keeps(v)
  BY <1>3, <1>4, <1>6 DEF Keeps, Lookup
<1>9. Promotes
  <2>1. runningGraph' = snap.graph
    BY <1>1, <1>4, <1>5, <1>6 DEF runningGraph, GraphAt, Lookup
  <2>2. previousGraph' = runningGraph
    <3>1. CASE active = NoVersion
      <4>1. rollback' = NoVersion
        BY <3>1, <1>2, <1>5 DEF NoTargetAtFirst
      <4> QED BY <3>1, <4>1 DEF previousGraph, runningGraph, GraphAt
    <3>2. CASE active # NoVersion
      <4>1. PICK v \in Versions : v = active
        BY <3>2, <1>2 DEF TypeOK
      <4>2. Lookup(v) # NoGraph
        BY <3>2, <4>1, <1>2 DEF RunningIsActive, Lookup
      <4>3. Lookup(v)' = Lookup(v)
        BY <4>2, <1>8 DEF Keeps
      <4>4. rollback' = v
        BY <3>2, <4>1, <1>5
      <4> QED BY <3>2, <4>1, <4>3, <4>4, <1>1
              DEF previousGraph, runningGraph, GraphAt, Lookup
    <3> QED BY <3>1, <3>2
  <2> QED BY <2>1, <2>2, <1>1 DEF Promotes, AG!Promote
<1> QED BY <1>7, <1>8, <1>9

LEMMA SerialIsNext == SerialNext => Next
BY DEF SerialNext, Next, Propose, Decide, Review, Window

LEMMA SerialStep ==
    ASSUME IInv, StoredOnce, [SerialNext]_vars
    PROVE  /\ StoredOnce'
           /\ \A v \in Versions : Keeps(v)
           /\ Promotes \/ AG!Restore \/ Stutters
<1>0. TypeOK /\ RunningIsActive /\ RollbackResolvable /\ NoTargetAtFirst
  BY DEF IInv
<1>1. ASSUME NEW snap \in Snapshots, Fresh(snap), StoreCommit(snap), loaded' = snap
      PROVE  StoredOnce' /\ Promotes /\ \A v \in Versions : Keeps(v)
  BY <1>1, FreshCommit
<1>2. CASE UNCHANGED storeVars
  BY <1>2 DEF storeVars, StoredOnce, LiveVersions, Keeps, Lookup, Stutters,
              runningGraph, previousGraph, GraphAt
<1>3. CASE Rollback
  <2>1. PICK v \in Versions : v = rollback
    BY <1>0, <1>3 DEF Rollback, TypeOK
  <2>2. /\ snapshots' = [snapshots EXCEPT ![v] = Lookup(v)]
        /\ archived' = [archived EXCEPT ![v] = NoGraph]
        /\ Lookup(v) # NoGraph
        /\ active' = v /\ rollback' = NoVersion
    BY <2>1, <1>3 DEF Rollback
  <2>3. StoredOnce'
    BY <1>0, <2>1, <2>2 DEF StoredOnce, LiveVersions, TypeOK
  <2>4. \A w \in Versions : Lookup(w)' = Lookup(w)
    BY <1>0, <2>2 DEF Lookup, TypeOK
  <2>5. v # NoVersion
    BY GraphVersionsAssumption DEF Versions, NoVersion
  <2>6. runningGraph' = Lookup(v) /\ previousGraph = Lookup(v) /\ previousGraph' = NoGraph
    BY <2>1, <2>2, <2>4, <2>5 DEF runningGraph, previousGraph, GraphAt, Lookup
  <2> QED BY <2>2, <2>3, <2>4, <2>6 DEF Keeps, AG!Restore
<1>4. ASSUME NEW keep \in Windows, RetireTo(keep)
      PROVE  StoredOnce' /\ Stutters /\ \A v \in Versions : Keeps(v)
  <2>0. keep \in Nat /\ snapshots \in [Versions -> Graphs \cup {NoGraph}]
    BY <1>0, GraphVersionsAssumption DEF TypeOK
  <2>1. /\ \A v \in Versions : Lookup(v)' = Lookup(v)
        /\ \A v \in Versions : snapshots'[v] # NoGraph => snapshots'[v] = snapshots[v]
        /\ \A v \in Versions :
             archived'[v] # NoGraph =>
                 archived'[v] = archived[v] \/ snapshots'[v] = NoGraph
    BY <1>0, <1>4, <2>0, RetireKeeps DEF RetireTo, Lookup
  <2>2. StoredOnce'
    BY <2>1 DEF StoredOnce, LiveVersions
  <2>3. active' = active /\ rollback' = rollback
    BY <1>4 DEF RetireTo
  <2>4. active \in Versions \cup {NoVersion} /\ rollback \in Versions \cup {NoVersion}
    BY <1>0 DEF TypeOK
  <2>5. runningGraph' = runningGraph
    BY <2>1, <2>3, <2>4 DEF runningGraph, GraphAt, Lookup
  <2>6. previousGraph' = previousGraph
    BY <2>1, <2>3, <2>4 DEF previousGraph, GraphAt, Lookup
  <2> QED BY <2>1, <2>2, <2>5, <2>6 DEF Keeps, Stutters
<1>5. ASSUME NEW c \in Callers, NEW id \in Ids, staged[c] # NoSnapshot,
             Fresh(staged[c]), Commit(c, id)
      PROVE  StoredOnce' /\ Promotes /\ \A v \in Versions : Keeps(v)
  BY <1>0, <1>1, <1>5 DEF Commit, TypeOK
<1>6. ASSUME NEW i \in DOMAIN candidates, NEW id \in Ids,
             Fresh(candidates[i].snap), CutoverDeferred(i, id)
      PROVE  StoredOnce' /\ Promotes /\ \A v \in Versions : Keeps(v)
  <2>1. candidates[i].snap \in Snapshots
    BY <1>0, CandidateSnapshot DEF TypeOK
  <2> QED BY <2>1, <1>1, <1>6 DEF CutoverDeferred
<1>7. ASSUME NEW c \in Callers, NEW id \in Ids,
             CommitInvalid(c, id) \/ (\E d \in BOOLEAN : Discard(c, id, d)) \/ Abandon(c)
      PROVE  UNCHANGED storeVars
  BY <1>7 DEF CommitInvalid, Discard, Abandon
<1>8. ASSUME NEW i \in DOMAIN candidates, NEW id \in Ids,
             \E p, d \in BOOLEAN : RecordReview(i, id, p, d)
      PROVE  UNCHANGED storeVars
  BY <1>8 DEF RecordReview
<1>9. Propose \/ UNCHANGED vars => UNCHANGED storeVars
  BY DEF Propose, Stage, vars
<1> QED BY <1>2, <1>3, <1>4, <1>5, <1>6, <1>7, <1>8, <1>9 DEF SerialNext, Window

(* Serial promotions: every version is stored once.                        *)
THEOREM SerialStoredOnce == SerialSpec => [](IInv /\ StoredOnce)
<1>1. Init => IInv /\ StoredOnce
  BY InitIInv DEF Init, StoredOnce, LiveVersions
<1>2. (IInv /\ StoredOnce) /\ [SerialNext]_vars => (IInv /\ StoredOnce)'
  BY NextIInv, SerialIsNext, SerialStep
<1> QED BY <1>1, <1>2, PTL DEF SerialSpec

(* Serial promotions: a stored snapshot is immutable and never forgotten.  *)
THEOREM SerialSnapshotsImmutable == SerialSpec => SnapshotsImmutable
<1>1. (IInv /\ StoredOnce) /\ IInv' /\ [SerialNext]_vars =>
          [\A v \in Known : v \in Known' /\ Lookup(v)' = Lookup(v)]_vars
  <2> SUFFICES ASSUME IInv, StoredOnce, IInv', [SerialNext]_vars, NEW v \in Known
               PROVE  v \in Known' /\ Lookup(v)' = Lookup(v)
    OBVIOUS
  <2>1. TypeOK /\ TypeOK'
    BY DEF IInv
  <2>2. v \in Versions
    BY DEF Known, LiveVersions
  <2>3. Lookup(v) # NoGraph
    BY <2>1, <2>2, KnownIsFound
  <2>4. Lookup(v)' = Lookup(v)
    BY <2>2, <2>3, SerialStep DEF Keeps
  <2>5. v \in Known'
    BY <2>1, <2>2, <2>3, <2>4 DEF TypeOK, Known, LiveVersions, Lookup
  <2> QED BY <2>4, <2>5
<1> QED BY <1>1, SerialStoredOnce, PTL DEF SerialSpec, SnapshotsImmutable

(* Serial promotions implement ActiveGraph: a rollback restores exactly    *)
(* the graph that was running before the last promotion.                   *)
THEOREM SerialRestoresPrevious == SerialSpec => RestoresPrevious
<1>1. Init => AG!Init
  BY DEF Init, AG!Init, runningGraph, previousGraph, GraphAt
<1>2. (IInv /\ StoredOnce) /\ [SerialNext]_vars => [AG!Next]_(AG!vars)
  BY SerialStep DEF Promotes, Stutters, AG!Next, AG!vars
<1> QED BY <1>1, <1>2, SerialStoredOnce, PTL DEF SerialSpec, RestoresPrevious, AG!Spec


------------------------------------------------------------------------------
(* The candidate list                                                      *)

(* Serial callers give every candidate an identifier of its own.           *)
UniqueIds ==
    \A i, j \in DOMAIN candidates : candidates[i].id = candidates[j].id => i = j

LEMMA SaveKeepsUnique ==
    ASSUME TypeOK, UniqueIds, NEW rec \in CandidateRecords, Unused(rec.id),
           SaveCandidate(rec)
    PROVE  UniqueIds'
<1>1. /\ Len(candidates) \in Nat /\ DOMAIN candidates = 1 .. Len(candidates)
      /\ candidates' \in Seq(CandidateRecords) /\ Len(candidates') = Len(candidates) + 1
      /\ \A i \in 1 .. Len(candidates) : candidates'[i] = candidates[i]
      /\ candidates'[Len(candidates) + 1] = rec
  BY AppendProperties, LenProperties DEF TypeOK, SaveCandidate
<1>2. DOMAIN candidates' = 1 .. Len(candidates) + 1
  BY <1>1, LenProperties
<1> QED BY <1>1, <1>2 DEF UniqueIds, Unused

LEMMA UpdateKeepsUnique ==
    ASSUME UniqueIds, NEW rec, UpdateCandidate(rec)
    PROVE  UniqueIds'
<1>1. PICK i \in DOMAIN candidates :
          candidates[i].id = rec.id /\ candidates' = [candidates EXCEPT ![i] = rec]
  BY DEF UpdateCandidate
<1> QED BY <1>1 DEF UniqueIds

LEMMA SerialUniqueIds ==
    ASSUME TypeOK, UniqueIds, [SerialNext]_vars
    PROVE  UniqueIds'
<1>1. ASSUME NEW c \in Callers, NEW id \in Ids, Unused(id),
             \/ Commit(c, id) \/ CommitInvalid(c, id)
             \/ \E d \in BOOLEAN : Discard(c, id, d)
      PROVE  UniqueIds'
  <2>1. staged[c] \in Snapshots
    BY <1>1 DEF TypeOK, Commit, CommitInvalid, Discard
  <2>2. PICK p \in BOOLEAN, d \in BOOLEAN : SaveCandidate(Record(id, staged[c], p, d))
    BY <1>1 DEF Commit, CommitInvalid, Discard
  <2>3. Record(id, staged[c], p, d) \in CandidateRecords
        /\ Record(id, staged[c], p, d).id = id
    BY <2>1 DEF Record, CandidateRecords
  <2> QED BY <1>1, <2>2, <2>3, SaveKeepsUnique
<1>2. ASSUME NEW i \in DOMAIN candidates, NEW id \in Ids, NEW p \in BOOLEAN,
             NEW d \in BOOLEAN, RecordReview(i, id, p, d)
      PROVE  UniqueIds'
  BY <1>2, UpdateKeepsUnique DEF RecordReview
<1>3. UNCHANGED candidates => UniqueIds'
  BY DEF UniqueIds
<1>4. ASSUME \/ Propose \/ Rollback \/ Window \/ UNCHANGED vars
             \/ \E c \in Callers : Abandon(c)
             \/ \E i \in DOMAIN candidates, id \in Ids : CutoverDeferred(i, id)
      PROVE  UNCHANGED candidates
  BY <1>4 DEF Propose, Stage, Rollback, Window, RetireTo, vars, Abandon, CutoverDeferred
<1> QED BY <1>1, <1>2, <1>3, <1>4 DEF SerialNext

(* A candidate whose deferred review has been decided no longer awaits     *)
(* review: update_candidate's first record with the identifier is the last *)
(* deferred one that the review found.                                     *)
THEOREM SerialDecidedNoLongerAwaits == SerialSpec => DecidedNoLongerAwaits
<1>1. Init => UniqueIds
  BY DEF Init, UniqueIds
<1>2. IInv /\ UniqueIds /\ [SerialNext]_vars => UniqueIds'
  BY SerialUniqueIds DEF IInv
<1>3. IInv /\ UniqueIds =>
          [\A i \in DOMAIN candidates, id \in Ids, p \in BOOLEAN :
             RecordReview(i, id, p, FALSE) => ~candidates'[i].deferred]_vars
  <2> SUFFICES ASSUME UniqueIds, NEW i \in DOMAIN candidates, NEW id \in Ids,
                      NEW p \in BOOLEAN, RecordReview(i, id, p, FALSE)
               PROVE  ~candidates'[i].deferred
    OBVIOUS
  <2> DEFINE rec == Record(id, candidates[i].snap, p, FALSE)
  <2>1. candidates[i].id = id /\ UpdateCandidate(rec) /\ rec.id = id /\ rec.deferred = FALSE
    BY DEF RecordReview, IsLastDeferred, Record
  <2> HIDE DEF rec
  <2>2. PICK j \in DOMAIN candidates :
            candidates[j].id = rec.id /\ candidates' = [candidates EXCEPT ![j] = rec]
    BY <2>1 DEF UpdateCandidate
  <2>3. j = i
    BY <2>1, <2>2 DEF UniqueIds
  <2>4. candidates'[i] = rec
    BY <2>2, <2>3
  <2> QED BY <2>1, <2>4, Zenon
<1> QED BY <1>1, <1>2, <1>3, SerialStoredOnce, PTL DEF SerialSpec, DecidedNoLongerAwaits

------------------------------------------------------------------------------
(* The runtime                                                             *)

(* The call at level d waits in its BEFORE_COMMIT_GRAPH for a nested one.  *)
Publishing(d) == stack[d].kind = "commit" /\ stack[d].step = "allowed"

(* What a call that has not cut over yet will promote.                     *)
Holds(d) ==
    stack[d].step \in {"staged", "allowed"} =>
        IF stack[d].kind = "review"
        THEN \A i \in DOMAIN candidates :
                IsLastDeferred(i, stack[d].id) => candidates[i].snap = stack[d].snap
        ELSE staged[d] = stack[d].snap

(* What a call that has cut over has promoted.                             *)
Promoted(d) ==
    stack[d].step \in {"cutover", "recorded"} =>
        active = stack[d].snap.ver /\ loaded = stack[d].snap

Shape ==
    /\ raising => Level > 0 /\ Publishing(Level)
    /\ \A d \in 1 .. Level : d < Level => Publishing(d)
    /\ \A d \in 1 .. Level : Holds(d) /\ Promoted(d)

PInv == IInv /\ PromotionTypeOK /\ Shape

------------------------------------------------------------------------------
(* The stack                                                               *)

(* The innermost call is a frame, and its level one of the callers.        *)
LEMMA TopFrame ==
    ASSUME PromotionTypeOK
    PROVE  /\ Level \in Nat
           /\ DOMAIN stack = 1 .. Level
           /\ \A d \in 1 .. Level : d \in Callers /\ stack[d] \in Frames
           /\ Level > 0 => /\ Level \in 1 .. Level
                           /\ Level \in Callers
                           /\ Top \in Frames
                           /\ Top.id \in Ids
                           /\ Top.snap \in Snapshots
                           /\ Top.target \in Versions \cup {NoVersion}
                           /\ Top.was \in Snapshots \cup {NoSnapshot}
<1>1. stack \in Seq(Frames) /\ Level <= Cardinality(Callers)
  BY DEF PromotionTypeOK
<1>2. Level \in Nat /\ DOMAIN stack = 1 .. Level
  BY <1>1, LenProperties DEF Level
<1>3. Cardinality(Callers) \in Nat /\ Callers = 1 .. Cardinality(Callers)
  BY PromotionAssumption, FS_CardinalityType
<1>4. \A d \in 1 .. Level : d \in Callers
  BY <1>1, <1>2, <1>3
<1>5. \A d \in 1 .. Level : stack[d] \in Frames
  BY <1>1, ElementOfSeq DEF Level
<1>6. Level > 0 => Level \in 1 .. Level
  BY <1>2
<1> QED BY <1>2, <1>4, <1>5, <1>6 DEF Top, Frames

LEMMA PushStack ==
    ASSUME PromotionTypeOK, NEW f \in Frames, stack' = Append(stack, f)
    PROVE  /\ stack' \in Seq(Frames)
           /\ Level' = Level + 1
           /\ Top' = f
           /\ stack'[Level + 1] = f
           /\ \A d \in 1 .. Level : stack'[d] = stack[d]
<1>1. stack \in Seq(Frames) /\ Level \in Nat
  BY LenProperties DEF PromotionTypeOK, Level
<1> QED BY <1>1, AppendProperties DEF Level, Top

LEMMA PopStack ==
    ASSUME PromotionTypeOK, Level > 0, stack' = SubSeq(stack, 1, Level - 1)
    PROVE  /\ stack' \in Seq(Frames)
           /\ Level' = Level - 1
           /\ \A d \in 1 .. Level - 1 : stack'[d] = stack[d]
<1>1. Level \in Nat /\ \A d \in 1 .. Level - 1 : stack[d] \in Frames
  BY TopFrame
<1>2. /\ SubSeq(stack, 1, Level - 1) \in Seq(Frames)
      /\ Len(SubSeq(stack, 1, Level - 1)) =
             IF 1 <= Level - 1 THEN (Level - 1) - 1 + 1 ELSE 0
      /\ \A d \in 1 .. (Level - 1) - 1 + 1 :
             SubSeq(stack, 1, Level - 1)[d] = stack[1 + d - 1]
  BY <1>1, SubSeqProperties
<1>3. Level' = Level - 1
  <2>1. Len(stack') = Level - 1
    BY <1>1, <1>2
  <2> QED BY <2>1 DEF Level
<1>4. \A d \in 1 .. Level - 1 : stack'[d] = stack[d]
  <2> SUFFICES ASSUME NEW d \in 1 .. Level - 1 PROVE stack'[d] = stack[d]
    OBVIOUS
  <2>1. d \in 1 .. (Level - 1) - 1 + 1 /\ 1 + d - 1 = d
    BY <1>1
  <2> QED BY <2>1, <1>2
<1> QED BY <1>2, <1>3, <1>4

LEMMA StepStack ==
    ASSUME PromotionTypeOK, Level > 0,
           NEW step \in {"staged", "allowed", "cutover", "recorded"}, Goto(step)
    PROVE  /\ stack' \in Seq(Frames)
           /\ Level' = Level
           /\ Top' = [Top EXCEPT !.step = step]
           /\ stack'[Level] = [Top EXCEPT !.step = step]
           /\ \A d \in 1 .. Level : d # Level => stack'[d] = stack[d]
           /\ raising' = raising
<1>1. stack \in Seq(Frames) /\ Level \in 1 .. Len(stack) /\ Top \in Frames
  BY TopFrame DEF PromotionTypeOK, Level
<1>2. [Top EXCEPT !.step = step] \in Frames
  BY <1>1 DEF Frames
<1>3. stack' = [stack EXCEPT ![Level] = [Top EXCEPT !.step = step]]
  BY DEF Goto, Top
<1>4. /\ stack' \in Seq(Frames)
      /\ Len(stack') = Len(stack)
      /\ \A d \in 1 .. Len(stack) :
             stack'[d] = IF d = Level THEN [Top EXCEPT !.step = step] ELSE stack[d]
  BY <1>1, <1>2, <1>3, ExceptSeq
<1>5. Level' = Level
  BY <1>4 DEF Level
<1>6. Top' = stack'[Level]
  BY <1>5 DEF Top
<1> QED BY <1>1, <1>4, <1>5, <1>6 DEF Level, Goto

------------------------------------------------------------------------------
(* The runtime's steps are steps of the store                              *)

LEMMA StoreStep ==
    ASSUME PInv, PromotionNext
    PROVE  Next \/ UNCHANGED vars
<1>0. /\ Level > 0 => Level \in Callers /\ Top.id \in Ids
      /\ Level \in Nat
  BY TopFrame DEF PInv
<1>1. ASSUME NEW g \in Graphs, NEW id \in Ids, Submit(g, id) \/ SubmitMutation(g, id)
      PROVE  Next
  BY <1>1 DEF Submit, SubmitMutation, MayCall, Next, Propose
<1>2. ASSUME NEW i \in DOMAIN candidates, NEW id \in Ids, StartReview(i, id)
      PROVE  UNCHANGED vars
  BY <1>2 DEF StartReview
<1>3. CASE DecideMutation
  BY <1>0, <1>3 DEF DecideMutation, At, Next, Decide
<1>4. ASSUME NEW kind \in {"commit", "review"}, Allow(kind) PROVE UNCHANGED vars
  BY <1>4 DEF Allow
<1>5. ASSUME NEW deferred \in BOOLEAN, Refuse(deferred) PROVE Next
  BY <1>0, <1>5 DEF Refuse, At, Next, Decide
<1>6. ASSUME NEW deferred \in BOOLEAN, RefuseReviewed(deferred) PROVE Next
  BY <1>0, <1>6 DEF RefuseReviewed, At, Next, Review
<1>7. ASSUME AtCutover PROVE (Exchange => Next) /\ (Forget => Next \/ UNCHANGED vars)
  BY <1>0, <1>7 DEF AtCutover, At, Exchange, Forget, Next, Decide, Review
<1>8. CASE Cutover \/ BeginRaises \/ CutoverAborts \/ ReplayRaises
  BY <1>7, <1>8 DEF Cutover, BeginRaises, CutoverAborts, ReplayRaises
<1>9. CASE RecordPhases \/ RecordNothing \/ TargetLost \/ Catch
  BY <1>9 DEF RecordPhases, RecordNothing, TargetLost, Catch
<1>10. CASE Committed
  BY <1>0, <1>10 DEF Committed, At, Next, Review
<1>11. CASE Unhealthy \/ WindowFails
  BY <1>11 DEF Unhealthy, WindowFails, RollBack, Next
<1>12. CASE Unwind
  <2>1. Level > 0 /\ Abandon(Level)
    BY <1>12 DEF Unwind, PInv, Shape
  <2> QED BY <2>1, <1>0 DEF Next, Decide
<1> QED BY <1>1, <1>2, <1>3, <1>4, <1>5, <1>6, <1>8, <1>9, <1>10, <1>11, <1>12
        DEF PromotionNext

------------------------------------------------------------------------------
(* The shape of the calls under way, step by step                          *)

(* A call begins.                                                          *)
LEMMA ShapePush ==
    ASSUME PromotionTypeOK, Shape, NEW f \in Frames, stack' = Append(stack, f),
           ~raising', Level > 0 => Publishing(Level), f.step = "staged",
           \A d \in 1 .. Level : staged'[d] = staged[d],
           IF f.kind = "review"
           THEN \A i \in DOMAIN candidates :
                   IsLastDeferred(i, f.id) => candidates[i].snap = f.snap
           ELSE staged'[Level + 1] = f.snap,
           UNCHANGED candidates
    PROVE  Shape'
<1>0. Level \in Nat
  BY TopFrame
<1>1. /\ Level' = Level + 1
      /\ stack'[Level + 1] = f
      /\ \A d \in 1 .. Level : stack'[d] = stack[d]
  BY PushStack
<1>2. \A d \in 1 .. Level : Publishing(d)
  BY <1>0 DEF Shape
<1>3. ASSUME NEW d \in 1 .. Level + 1, d # Level + 1
      PROVE  Publishing(d)' /\ Holds(d)' /\ Promoted(d)'
  <2>1. d \in 1 .. Level
    BY <1>0, <1>3
  <2>2. stack'[d] = stack[d] /\ staged'[d] = staged[d] /\ Publishing(d) /\ Holds(d)
    BY <1>1, <1>2, <2>1 DEF Shape
  <2> QED BY <2>2 DEF Publishing, Holds, Promoted
<1>4. PICK n \in Nat : n = Level + 1
  BY <1>0
<1>5. Holds(n)' /\ Promoted(n)'
  <2>1. stack'[n] = f /\ candidates' = candidates
    BY <1>1, <1>4
  <2>2. Promoted(n)'
    BY <2>1 DEF Promoted
  <2>3. CASE f.kind = "review"
    BY <2>1, <2>2, <2>3 DEF Holds, IsLastDeferred
  <2>4. CASE f.kind # "review"
    BY <1>4, <2>1, <2>2, <2>4 DEF Holds
  <2> QED BY <2>3, <2>4
<1>6. \A d \in 1 .. Level' : d < Level' => Publishing(d)'
  BY <1>0, <1>1, <1>3
<1>7. \A d \in 1 .. Level' : Holds(d)' /\ Promoted(d)'
  BY <1>0, <1>1, <1>3, <1>4, <1>5
<1> QED BY <1>6, <1>7 DEF Shape

(* The innermost call ends: the one around it goes on where it was.        *)
LEMMA ShapePop ==
    ASSUME PromotionTypeOK, Shape, Level > 0, NEW raises, Leave(raises),
           \A d \in 1 .. Level - 1 : staged'[d] = staged[d]
    PROVE  Shape'
<1>0. Level \in Nat
  BY TopFrame
<1>1. /\ Level' = Level - 1
      /\ \A d \in 1 .. Level - 1 : stack'[d] = stack[d]
      /\ raising' => Level > 1
  BY PopStack DEF Leave
<1>2. ASSUME NEW d \in 1 .. Level - 1
      PROVE  Publishing(d)' /\ Holds(d)' /\ Promoted(d)'
  <2>1. d \in 1 .. Level /\ d < Level
    BY <1>0
  <2>2. stack'[d] = stack[d] /\ staged'[d] = staged[d] /\ Publishing(d) /\ Holds(d)
    BY <1>1, <2>1 DEF Shape
  <2> QED BY <2>2 DEF Publishing, Holds, Promoted
<1>3. raising' => Level' > 0 /\ stack'[Level'].kind = "commit"
                            /\ stack'[Level'].step = "allowed"
  BY <1>0, <1>1, <1>2 DEF Publishing
<1>4. \A d \in 1 .. Level' : Publishing(d)' /\ Holds(d)' /\ Promoted(d)'
  BY <1>1, <1>2
<1> QED BY <1>3, <1>4 DEF Shape, Publishing

(* The innermost call goes a step further.                                 *)
LEMMA ShapeGoto ==
    ASSUME PromotionTypeOK, Shape, Level > 0, ~raising,
           NEW step \in {"allowed", "cutover", "recorded"}, Goto(step),
           \A d \in 1 .. Level : d # Level => staged'[d] = staged[d],
           step = "allowed" => Top.step = "staged" /\ UNCHANGED <<candidates, staged>>,
           step \in {"cutover", "recorded"} => active' = Top.snap.ver /\ loaded' = Top.snap
    PROVE  Shape'
<1>0. Level \in Nat /\ Level \in 1 .. Level /\ Top \in Frames
  BY TopFrame
<1>1. /\ Level' = Level
      /\ stack'[Level] = [Top EXCEPT !.step = step]
      /\ \A d \in 1 .. Level : d # Level => stack'[d] = stack[d]
      /\ raising' = raising
  BY StepStack
<1>2. ASSUME NEW d \in 1 .. Level, d # Level
      PROVE  Publishing(d)' /\ Holds(d)' /\ Promoted(d)'
  <2>1. d < Level
    BY <1>0, <1>2
  <2>2. stack'[d] = stack[d] /\ staged'[d] = staged[d] /\ Publishing(d) /\ Holds(d)
    BY <1>1, <1>2, <2>1 DEF Shape
  <2> QED BY <2>2 DEF Publishing, Holds, Promoted
<1>3. PICK n \in 1 .. Level : n = Level
  BY <1>0
<1>4. /\ stack[n] = Top
      /\ stack'[n] = [Top EXCEPT !.step = step]
      /\ stack'[n].step = step /\ stack'[n].kind = Top.kind /\ stack'[n].id = Top.id
      /\ stack'[n].snap = Top.snap /\ stack'[n].target = Top.target
  BY <1>0, <1>1, <1>3 DEF Top, Frames
<1>5. Promoted(n)'
  BY <1>4 DEF Promoted
<1>6. Holds(n)'
  <2>1. CASE step = "allowed"
    <3>1. Holds(n) /\ stack[n].step = "staged"
      BY <2>1, <1>4 DEF Shape
    <3> QED BY <2>1, <3>1, <1>4 DEF Holds, IsLastDeferred
  <2>2. CASE step # "allowed"
    BY <2>2, <1>4 DEF Holds
  <2> QED BY <2>1, <2>2
<1> QED BY <1>0, <1>1, <1>2, <1>3, <1>5, <1>6 DEF Shape
------------------------------------------------------------------------------
(* The log and the phases                                                  *)

LEMMA EventType ==
    ASSUME NEW type \in EventTypes, NEW id \in Ids \cup {NoCandidate},
           NEW ver \in Versions \cup {NoVersion}, NEW target \in Versions \cup {NoVersion},
           NEW graph \in Graphs \cup {NoGraph}
    PROVE  Event(type, id, ver, target, graph) \in SessionEvents
BY DEF Event, SessionEvents

LEMMA NoteType ==
    ASSUME PromotionTypeOK, Level > 0, NEW type \in EventTypes,
           NEW ver \in Versions \cup {NoVersion}
    PROVE  Note(type, ver) \in SessionEvents
BY TopFrame, EventType DEF Note, Snapshots

(* The log keeps what it has and grows by events of S only.                *)
Grows(S) == /\ log' \in Seq(SessionEvents)
            /\ DOMAIN log \subseteq DOMAIN log'
            /\ \A n \in DOMAIN log : log'[n] = log[n]
            /\ \A n \in DOMAIN log' \ DOMAIN log : log'[n] \in S

LEMMA GrowsBy ==
    ASSUME log \in Seq(SessionEvents), NEW S \in SUBSET SessionEvents,
           NEW e \in S, NEW f \in S,
           \/ log' = log              \/ log' = Append(log, e)
           \/ log' = log \o <<e, f>>  \/ log' = log \o <<e>> \o <<f>>
           \/ log' = log \o <<e>> \o <<>>
    PROVE  Grows(S)
<1>1. ASSUME NEW l \in Seq(SessionEvents), NEW x \in Seq(S)
      PROVE  /\ l \o x \in Seq(SessionEvents)
             /\ DOMAIN l \subseteq DOMAIN (l \o x)
             /\ \A n \in DOMAIN l : (l \o x)[n] = l[n]
             /\ \A n \in DOMAIN (l \o x) \ DOMAIN l : (l \o x)[n] \in S
  <2>1. x \in Seq(SessionEvents) /\ \A k \in 1 .. Len(x) : x[k] \in S
    BY <1>1, ElementOfSeq
  <2>2. /\ l \o x \in Seq(SessionEvents)
        /\ Len(l) \in Nat /\ DOMAIN l = 1 .. Len(l) /\ Len(x) \in Nat
        /\ DOMAIN (l \o x) = 1 .. Len(l) + Len(x)
        /\ \A n \in 1 .. Len(l) + Len(x) :
               (l \o x)[n] = IF n <= Len(l) THEN l[n] ELSE x[n - Len(l)]
    BY <2>1, ConcatProperties, LenProperties
  <2> QED BY <2>1, <2>2
<1>2. /\ <<e>> \in Seq(S) /\ <<f>> \in Seq(S) /\ <<e, f>> \in Seq(S)
      /\ <<>> \in Seq(S)
  OBVIOUS
<1>3. CASE log' = log
  BY <1>3 DEF Grows
<1>4. CASE log' = Append(log, e)
  <2>1. Append(log, e) = log \o <<e>>
    BY AppendIsConcat
  <2> QED BY <1>1, <1>2, <1>4, <2>1 DEF Grows
<1>5. CASE log' = log \o <<e, f>>
  BY <1>1, <1>2, <1>5 DEF Grows
<1>6. ASSUME NEW x \in {<<>>, <<f>>}, log' = (log \o <<e>>) \o x
      PROVE  Grows(S)
  <2> DEFINE l == log \o <<e>>
  <2>1. /\ l \in Seq(SessionEvents) /\ DOMAIN log \subseteq DOMAIN l
        /\ \A n \in DOMAIN log : l[n] = log[n]
        /\ \A n \in DOMAIN l \ DOMAIN log : l[n] \in S
    <3>1. log \in Seq(SessionEvents) /\ <<e>> \in Seq(S)
      BY <1>2
    <3> QED BY ONLY <1>1, <3>1
  <2> HIDE DEF l
  <2>2. /\ l \o x \in Seq(SessionEvents) /\ DOMAIN l \subseteq DOMAIN (l \o x)
        /\ \A n \in DOMAIN l : (l \o x)[n] = l[n]
        /\ \A n \in DOMAIN (l \o x) \ DOMAIN l : (l \o x)[n] \in S
    <3>1. l \in Seq(SessionEvents) /\ x \in Seq(S)
      BY <1>2, <2>1
    <3> QED BY ONLY <1>1, <3>1
  <2>3. log' = l \o x
    BY <1>6 DEF l
  <2> QED BY <2>1, <2>2, <2>3 DEF Grows
<1> QED BY <1>3, <1>4, <1>5, <1>6

(* What each step records.                                                 *)
Others == {e \in SessionEvents : e.type # "GRAPH_COMMITTED"}

LEMMA OtherEvent ==
    ASSUME NEW type \in EventTypes \ {"GRAPH_COMMITTED"}, NEW id \in Ids \cup {NoCandidate},
           NEW ver \in Versions \cup {NoVersion}, NEW target \in Versions \cup {NoVersion},
           NEW graph \in Graphs \cup {NoGraph}
    PROVE  Event(type, id, ver, target, graph) \in Others
BY EventType DEF Event, Others

LEMMA OtherNote ==
    ASSUME PromotionTypeOK, Level > 0, NEW type \in EventTypes \ {"GRAPH_COMMITTED"},
           NEW ver \in Versions \cup {NoVersion}
    PROVE  Note(type, ver) \in Others
BY TopFrame, OtherEvent DEF Note, Snapshots

LEMMA LogStep ==
    ASSUME PInv, TypeOK', [PromotionNext]_allVars
    PROVE  Grows(IF Committed THEN {Note("GRAPH_COMMITTED", Top.snap.ver)} ELSE Others)
<1>0. /\ PromotionTypeOK /\ TypeOK /\ log \in Seq(SessionEvents)
      /\ Others \in SUBSET SessionEvents
  BY DEF PInv, IInv, PromotionTypeOK, Others
<1>1. CASE Committed
  <2>1. Level > 0 /\ log' = Append(log, Note("GRAPH_COMMITTED", Top.snap.ver))
    BY <1>1 DEF Committed, At
  <2>2. Note("GRAPH_COMMITTED", Top.snap.ver) \in SessionEvents
    BY <1>0, <2>1, TopFrame, NoteType DEF EventTypes, Snapshots
  <2> QED BY <1>0, <1>1, <2>1, <2>2, GrowsBy
<1>2. CASE ~Committed
  <2> SUFFICES Grows(Others)
    BY <1>2
  <2>1. ASSUME NEW g \in Graphs, NEW id \in Ids, Submit(g, id)
        PROVE  Grows(Others)
    <3>1. NextVersion \in Versions
      BY <1>0, <2>1, NextVersionIsNew, GraphVersionsAssumption DEF Submit, Stage, Versions
    <3>2. /\ Event("CANDIDATE_CREATED", id, NextVersion, active, g) \in Others
          /\ Event("CANDIDATE_VALIDATED", id, NextVersion, active, g) \in Others
      BY <1>0, <3>1, OtherEvent DEF TypeOK, EventTypes
    <3> QED BY <1>0, <2>1, <3>2, GrowsBy DEF Submit
  <2>2. ASSUME NEW kind \in {"commit", "review"}, NEW deferred \in BOOLEAN,
               Allow(kind) \/ Refuse(deferred) \/ RefuseReviewed(deferred)
        PROVE  Grows(Others)
    <3>1. Level > 0
      BY <2>2 DEF Allow, Refuse, RefuseReviewed, At
    <3>2. /\ Note("SAFETY_GATE_EVALUATED", Top.snap.ver) \in Others
          /\ Note(Verdict(deferred), Top.snap.ver) \in Others
      BY <1>0, <3>1, TopFrame, OtherNote DEF EventTypes, Verdict, Snapshots
    <3>3. CASE Failed(Top.snap.graph) = {}
      BY <1>0, <2>2, <3>2, <3>3, GrowsBy DEF Allow, Refuse, RefuseReviewed
    <3>4. CASE Failed(Top.snap.graph) # {}
      BY <1>0, <2>2, <3>2, <3>4, GrowsBy DEF Allow, Refuse, RefuseReviewed
    <3> QED BY <3>3, <3>4
  <2>3. CASE Cutover \/ BeginRaises \/ CutoverAborts \/ ReplayRaises
    <3>1. Level > 0
      BY <2>3 DEF Cutover, BeginRaises, CutoverAborts, ReplayRaises, AtCutover, At
    <3>2. /\ Note("DRAIN_STARTED", Top.snap.ver) \in Others
          /\ Note("DRAIN_COMPLETED", Top.snap.ver) \in Others
          /\ Note("DRAIN_FAILED", Top.snap.ver) \in Others
      BY <1>0, <3>1, TopFrame, OtherNote DEF EventTypes, Snapshots
    <3> QED BY <1>0, <2>3, <3>2, GrowsBy
            DEF Cutover, BeginRaises, CutoverAborts, ReplayRaises
  <2>4. CASE Unhealthy
    <3>1. Level > 0 /\ log' = Append(log, Note("GRAPH_ROLLED_BACK", active'))
      BY <2>4 DEF Unhealthy, At
    <3>2. Note("GRAPH_ROLLED_BACK", active') \in Others
      BY <1>0, <3>1, OtherNote DEF EventTypes, TypeOK
    <3> QED BY <1>0, <3>1, <3>2, GrowsBy
  <2>5. CASE WindowFails
    <3>1. Event("GRAPH_ROLLED_BACK", NoCandidate, active', rollback, NoGraph) \in Others
      BY <1>0, OtherEvent DEF EventTypes, TypeOK
    <3> QED BY <1>0, <2>5, <3>1, GrowsBy DEF WindowFails
  <2>6. log' = log => Grows(Others)
    BY <1>0 DEF Grows
  <2>7. ASSUME \/ \E g \in Graphs, id \in Ids : SubmitMutation(g, id)
               \/ \E i \in DOMAIN candidates, id \in Ids : StartReview(i, id)
               \/ DecideMutation \/ RecordPhases \/ RecordNothing \/ TargetLost
               \/ Catch \/ Unwind \/ UNCHANGED allVars
        PROVE  log' = log
    BY <2>7 DEF SubmitMutation, StartReview, DecideMutation, RecordPhases, RecordNothing,
                TargetLost, Catch, Unwind, allVars, runtimeVars
  <2> QED BY <1>2, <2>1, <2>2, <2>3, <2>4, <2>5, <2>6, <2>7 DEF PromotionNext
<1> QED BY <1>1, <1>2

LEMMA LoopType ==
    ASSUME phase \in [Components -> Phases], NEW nodes,
           NEW next \in [Phases -> Phases], Loop(nodes, next)
    PROVE  phase' \in [Components -> Phases]
<1>1. PICK done : phase' = [k \in Components |->
                              IF k \in done THEN next[phase[k]] ELSE phase[k]]
  BY DEF Loop
<1> QED BY <1>1

LEMMA VerdictPhases ==
    /\ OnDefer \in [Phases -> Phases]
    /\ OnReject \in [Phases -> Phases]
    /\ OnCommit \in [Phases -> Phases]
BY DEF OnDefer, OnReject, OnCommit, Phases

------------------------------------------------------------------------------
(* PInv is inductive                                                       *)

LEMMA InitPInv == PromotionInit => PInv
<1> SUFFICES ASSUME PromotionInit PROVE PInv
  OBVIOUS
<1>1. IInv
  BY InitIInv DEF PromotionInit
<1>2. stack = <<>> /\ Level = 0
  BY DEF PromotionInit, Level
<1>3. Cardinality(Callers) \in Nat
  BY PromotionAssumption, FS_CardinalityType
<1>4. PromotionTypeOK
  <2>1. stack \in Seq(Frames) /\ log \in Seq(SessionEvents)
    BY EmptySeq DEF PromotionInit
  <2>2. phase \in [Components -> Phases]
    BY DEF PromotionInit, Phases
  <2>3. calls \in 0 .. MaxCalls
    BY PromotionAssumption DEF PromotionInit
  <2>4. raising \in BOOLEAN /\ stuck \in BOOLEAN
    BY DEF PromotionInit
  <2> QED BY <1>2, <1>3, <2>1, <2>2, <2>3, <2>4 DEF PromotionTypeOK
<1> QED BY <1>1, <1>2, <1>4 DEF PInv, Shape, PromotionInit

(* The innermost call returns or raises.                                   *)
LEMMA PopTypeOK ==
    ASSUME PromotionTypeOK, Level > 0, NEW raises \in BOOLEAN, Leave(raises),
           phase' \in [Components -> Phases], log' \in Seq(SessionEvents),
           stuck' \in BOOLEAN, UNCHANGED calls
    PROVE  PromotionTypeOK'
<1>1. Level \in Nat /\ Level <= Cardinality(Callers) /\ Cardinality(Callers) \in Nat
  BY TopFrame, PromotionAssumption, FS_CardinalityType DEF PromotionTypeOK
<1>2. stack' \in Seq(Frames) /\ Level' = Level - 1
  BY PopStack DEF Leave
<1>3. Level' <= Cardinality(Callers)
  BY <1>1, <1>2
<1>4. raising' \in BOOLEAN
  BY DEF Leave
<1> QED BY <1>2, <1>3, <1>4 DEF PromotionTypeOK

(* The innermost call goes a step further.                                 *)
LEMMA GotoTypeOK ==
    ASSUME PromotionTypeOK, Level > 0,
           NEW step \in {"allowed", "cutover", "recorded"}, Goto(step),
           phase' \in [Components -> Phases], log' \in Seq(SessionEvents),
           UNCHANGED <<stuck, calls>>
    PROVE  PromotionTypeOK'
<1>1. stack' \in Seq(Frames) /\ Level' = Level /\ raising' = raising
  BY StepStack
<1> QED BY <1>1 DEF PromotionTypeOK

(* A call begins.                                                          *)
LEMMA CallBegins ==
    ASSUME PInv, MayCall, NEW kind \in {"commit", "review", "mutation"}, NEW id \in Ids,
           NEW snap \in Snapshots, Call(kind, id, snap),
           log' \in Seq(SessionEvents), UNCHANGED candidates,
           \A d \in 1 .. Level : staged'[d] = staged[d],
           IF kind = "review"
           THEN \A i \in DOMAIN candidates :
                   IsLastDeferred(i, id) => candidates[i].snap = snap
           ELSE staged'[Level + 1] = snap
    PROVE  PromotionTypeOK' /\ Shape'
<1>0. PromotionTypeOK /\ Shape /\ TypeOK /\ Level \in Nat
  BY TopFrame DEF PInv, IInv
<1> DEFINE f == [kind |-> kind, id |-> id, snap |-> snap, was |-> loaded,
                 target |-> active, step |-> "staged"]
<1>1. /\ f \in Frames /\ stack' = Append(stack, f)
      /\ f.kind = kind /\ f.id = id /\ f.snap = snap /\ f.step = "staged"
  BY <1>0 DEF Frames, Call, TypeOK
<1>2. Level > 0 => ~raising /\ Publishing(Level)
  BY DEF MayCall, At, Publishing, Top, Level
<1>3. ~raising /\ ~raising'
  BY <1>0, <1>2 DEF MayCall, Shape
<1> HIDE DEF f
<1>4. Shape'
  BY <1>0, <1>1, <1>2, <1>3, ShapePush
<1>5. /\ Level + 1 <= Cardinality(Callers)
      /\ calls < MaxCalls /\ calls' = calls + 1 /\ UNCHANGED <<phase, stuck>>
  BY <1>0, PromotionAssumption, FS_CardinalityType DEF MayCall
<1>6. stack' \in Seq(Frames) /\ Level' = Level + 1
  BY <1>0, <1>1, PushStack
<1>7. calls' \in 0 .. MaxCalls
  BY <1>0, <1>5, PromotionAssumption DEF PromotionTypeOK
<1>8. raising' \in BOOLEAN
  BY <1>0 DEF MayCall, PromotionTypeOK
<1> QED BY <1>0, <1>4, <1>5, <1>6, <1>7, <1>8 DEF PromotionTypeOK
(* The cutover promotes the snapshot its call was made for, and no other   *)
(* call's staging is touched.                                              *)
LEMMA ExchangePromotes ==
    ASSUME PInv, AtCutover, Exchange
    PROVE  /\ StoreCommit(Top.snap) /\ active' = Top.snap.ver /\ loaded' = Top.snap
           /\ \A d \in 1 .. Level : d # Level => staged'[d] = staged[d]
<1>0. /\ PromotionTypeOK /\ Shape /\ TypeOK
      /\ Level > 0 /\ Level \in 1 .. Level
      /\ \A d \in 1 .. Level : d \in Callers
      /\ Top.kind \in {"commit", "review"} /\ Top.step = "allowed"
  BY TopFrame DEF PInv, IInv, AtCutover, At
<1>1. Holds(Level)
  BY <1>0 DEF Shape
<1>2. CASE Top.kind = "commit"
  <2>1. Commit(Level, Top.id) /\ staged[Level] = Top.snap
    BY <1>0, <1>1, <1>2 DEF Exchange, Holds, Top
  <2> QED BY <1>0, <2>1 DEF Commit, StoreCommit, TypeOK
<1>3. CASE Top.kind = "review"
  <2>1. PICK i \in DOMAIN candidates : CutoverDeferred(i, Top.id)
    BY <1>3 DEF Exchange
  <2>2. candidates[i].snap = Top.snap
    BY <1>0, <1>1, <1>3, <2>1 DEF CutoverDeferred, Holds, Top
  <2> QED BY <2>1, <2>2 DEF CutoverDeferred, StoreCommit
<1> QED BY <1>0, <1>2, <1>3

LEMMA NextPInv == PInv /\ [PromotionNext]_allVars => PInv'
<1> SUFFICES ASSUME PInv, [PromotionNext]_allVars PROVE PInv'
  OBVIOUS
<1>0. /\ IInv /\ TypeOK /\ PromotionTypeOK /\ Shape
      /\ log \in Seq(SessionEvents) /\ phase \in [Components -> Phases]
      /\ stuck \in BOOLEAN /\ Level \in Nat
  BY TopFrame DEF PInv, IInv, PromotionTypeOK
<1>1. IInv'
  <2>1. [Next]_vars
    BY StoreStep DEF allVars
  <2> QED BY <1>0, <2>1, NextIInv
<1>2. TypeOK' /\ log' \in Seq(SessionEvents)
  <2>1. TypeOK'
    BY <1>1 DEF IInv
  <2> QED BY <2>1, LogStep DEF Grows
<1>3. \A d \in 1 .. Level : d \in Callers
  BY <1>0, TopFrame
<1>4. Level > 0 => /\ Level \in Callers /\ Top \in Frames
                   /\ Top.snap \in Snapshots /\ Top.snap.ver \in Versions
  BY <1>0, TopFrame DEF Snapshots
<1>5. ASSUME Level > 0, NEW raises \in BOOLEAN, Leave(raises),
             phase' \in [Components -> Phases], log' \in Seq(SessionEvents),
             stuck' \in BOOLEAN, UNCHANGED calls,
             \A d \in 1 .. Level : d # Level => staged'[d] = staged[d]
      PROVE  PromotionTypeOK' /\ Shape'
  <2>1. \A d \in 1 .. Level - 1 : staged'[d] = staged[d]
    BY <1>0, <1>5
  <2> QED BY <1>0, <1>5, <2>1, PopTypeOK, ShapePop
<1>6. ASSUME UNCHANGED staged \/ staged' = [staged EXCEPT ![Level] = NoSnapshot]
      PROVE  \A d \in 1 .. Level : d # Level => staged'[d] = staged[d]
  BY <1>0, <1>3, <1>6 DEF TypeOK
<1>7. ASSUME NEW g \in Graphs, NEW id \in Ids, Submit(g, id) \/ SubmitMutation(g, id)
      PROVE  PromotionTypeOK' /\ Shape'
  <2>1. MayCall /\ Stage(Level + 1, g) /\ Level + 1 \in Callers
    BY <1>7 DEF Submit, SubmitMutation, MayCall
  <2>2. /\ NextVersion \in Versions
        /\ staged'[Level + 1] = [ver |-> NextVersion, graph |-> g]
        /\ \A d \in 1 .. Level : staged'[d] = staged[d]
        /\ UNCHANGED candidates
    <3>1. NextVersion \in Versions
      BY <1>0, <2>1, NextVersionIsNew, GraphVersionsAssumption DEF Stage, Versions
    <3>2. /\ staged' = [staged EXCEPT ![Level + 1] = [ver |-> NextVersion, graph |-> g]]
          /\ UNCHANGED candidates
      BY <2>1 DEF Stage
    <3> QED BY <1>0, <1>3, <2>1, <3>1, <3>2 DEF TypeOK
  <2>3. staged'[Level + 1] \in Snapshots
    BY <2>2 DEF Snapshots
  <2>4. PICK kind \in {"commit", "mutation"} : Call(kind, id, staged'[Level + 1])
    BY <1>7 DEF Submit, SubmitMutation
  <2>5. kind # "review"
    BY <2>4
  <2> QED BY <1>2, <2>1, <2>2, <2>3, <2>4, <2>5, CallBegins
<1>8. ASSUME NEW i \in DOMAIN candidates, NEW id \in Ids, StartReview(i, id)
      PROVE  PromotionTypeOK' /\ Shape'
  <2>1. candidates[i].snap \in Snapshots
    BY <1>0, CandidateSnapshot DEF TypeOK
  <2>2. \A j \in DOMAIN candidates :
           IsLastDeferred(j, id) => candidates[j].snap = candidates[i].snap
    <3> SUFFICES ASSUME NEW j \in DOMAIN candidates, IsLastDeferred(j, id) PROVE j = i
      OBVIOUS
    <3>1. i \in Int /\ j \in Int
      BY <1>0, LenProperties DEF TypeOK
    <3> QED BY <1>8, <3>1 DEF StartReview, IsLastDeferred
  <2>3. /\ MayCall /\ Call("review", id, candidates[i].snap)
        /\ UNCHANGED <<candidates, staged, log>>
    BY <1>8 DEF StartReview, vars
  <2> QED BY <1>0, <2>1, <2>2, <2>3, CallBegins
<1>9. ASSUME DecideMutation PROVE PromotionTypeOK' /\ Shape'
  <2>1. /\ Level > 0 /\ Leave(FALSE) /\ UNCHANGED <<phase, log, stuck, calls>>
        /\ staged' = [staged EXCEPT ![Level] = NoSnapshot]
    BY <1>9 DEF DecideMutation, At, Returns, Commit, CommitInvalid, Discard
  <2> QED BY <1>0, <1>5, <1>6, <2>1
<1>10. ASSUME NEW kind \in {"commit", "review"}, Allow(kind)
       PROVE  PromotionTypeOK' /\ Shape'
  <2>1. /\ Level > 0 /\ ~raising /\ Top.step = "staged" /\ Goto("allowed")
        /\ UNCHANGED <<candidates, staged, phase, stuck, calls>>
    BY <1>10 DEF Allow, At, vars
  <2> QED BY <1>0, <1>2, <2>1, GotoTypeOK, ShapeGoto
<1>11. ASSUME NEW deferred \in BOOLEAN, Refuse(deferred) \/ RefuseReviewed(deferred)
       PROVE  PromotionTypeOK' /\ Shape'
  <2>1. Level > 0 /\ stuck' \in BOOLEAN /\ UNCHANGED calls
    BY <1>0, <1>11 DEF Refuse, RefuseReviewed, At
  <2>2. PICK raises \in BOOLEAN : Leave(raises)
    BY <1>11 DEF Refuse, RefuseReviewed, Raises, Returns
  <2>3. UNCHANGED staged \/ staged' = [staged EXCEPT ![Level] = NoSnapshot]
    BY <1>11 DEF Refuse, RefuseReviewed, Discard, RecordReview
  <2>4. phase' \in [Components -> Phases]
    BY <1>0, <1>11, LoopType, VerdictPhases DEF Refuse, RefuseReviewed
  <2> QED BY <1>2, <1>5, <1>6, <2>1, <2>2, <2>3, <2>4
<1>12. ASSUME Cutover PROVE PromotionTypeOK' /\ Shape'
  <2>1. /\ AtCutover /\ Exchange /\ Goto("cutover") /\ UNCHANGED <<phase, stuck, calls>>
        /\ Level > 0 /\ ~raising
    BY <1>12 DEF Cutover, AtCutover, At
  <2>2. /\ active' = Top.snap.ver /\ loaded' = Top.snap
        /\ \A d \in 1 .. Level : d # Level => staged'[d] = staged[d]
    BY <2>1, ExchangePromotes
  <2> QED BY <1>0, <1>2, <2>1, <2>2, GotoTypeOK, ShapeGoto
<1>13. ASSUME BeginRaises \/ CutoverAborts \/ ReplayRaises
       PROVE  PromotionTypeOK' /\ Shape'
  <2>1. /\ AtCutover /\ Leave(TRUE) /\ UNCHANGED <<phase, calls>>
        /\ Level > 0 /\ stuck' \in BOOLEAN
    BY <1>0, <1>13 DEF BeginRaises, CutoverAborts, ReplayRaises, Raises, AtCutover, At
  <2>2. CASE Forget
    <3>1. UNCHANGED staged \/ staged' = [staged EXCEPT ![Level] = NoSnapshot]
      BY <2>2 DEF Forget, Abandon, vars
    <3> QED BY <1>0, <1>2, <1>5, <1>6, <2>1, <3>1
  <2>3. CASE Exchange
    BY <1>0, <1>2, <1>5, <2>1, <2>3, ExchangePromotes
  <2> QED BY <1>13, <2>2, <2>3 DEF BeginRaises, CutoverAborts, ReplayRaises
<1>14. ASSUME RecordPhases \/ RecordNothing PROVE PromotionTypeOK' /\ Shape'
  <2>1. /\ Level > 0 /\ ~raising /\ Top.step = "cutover" /\ TargetKept
        /\ UNCHANGED <<active, loaded, staged, log, stuck, calls>>
    BY <1>14 DEF RecordPhases, RecordNothing, At, vars, storeVars
  <2>2. phase' \in [Components -> Phases]
    BY <1>0, <1>14, LoopType, VerdictPhases DEF RecordPhases, RecordNothing
  <2>3. active' = Top.snap.ver /\ loaded' = Top.snap
    <3>1. Promoted(Level) /\ stack[Level].step = "cutover"
      BY <1>0, <2>1 DEF Shape, Top
    <3> QED BY <2>1, <3>1 DEF Promoted, Top
  <2>4. CASE Goto("recorded")
    BY <1>0, <2>1, <2>2, <2>3, <2>4, GotoTypeOK, ShapeGoto
  <2>5. CASE Raises
    BY <1>0, <1>5, <2>1, <2>2, <2>5 DEF Raises
  <2> QED BY <1>14, <2>4, <2>5 DEF RecordPhases, RecordNothing
<1>15. ASSUME TargetLost PROVE PromotionTypeOK' /\ Shape'
  <2>1. /\ Level > 0 /\ Leave(TRUE) /\ UNCHANGED <<staged, phase, log, stuck, calls>>
    BY <1>15 DEF TargetLost, At, Raises, vars
  <2> QED BY <1>0, <1>5, <2>1
<1>16. ASSUME Committed \/ Unhealthy PROVE PromotionTypeOK' /\ Shape'
  <2>1. /\ Level > 0 /\ UNCHANGED <<staged, phase, stuck, calls>>
    BY <1>16 DEF Committed, Unhealthy, At, RecordReview, RollBack, Rollback, vars
  <2>2. PICK raises \in BOOLEAN : Leave(raises)
    BY <1>16 DEF Committed, Unhealthy, Returns, Raises
  <2> QED BY <1>0, <1>2, <1>5, <2>1, <2>2
<1>17. ASSUME WindowFails PROVE PromotionTypeOK' /\ Shape'
  <2>1. /\ stack = <<>> /\ UNCHANGED <<stack, raising, phase, stuck>>
        /\ calls < MaxCalls /\ calls' = calls + 1
    BY <1>17 DEF WindowFails
  <2>2. calls' \in 0 .. MaxCalls
    BY <1>0, <2>1, PromotionAssumption DEF PromotionTypeOK
  <2>3. Level = 0 /\ Level' = 0
    BY <2>1 DEF Level
  <2>4. PromotionTypeOK'
    BY <1>0, <1>2, <2>1, <2>2, <2>3 DEF PromotionTypeOK
  <2> QED BY <1>0, <2>1, <2>3, <2>4 DEF Shape
<1>18. ASSUME Catch \/ UNCHANGED allVars PROVE PromotionTypeOK' /\ Shape'
  <2>1. /\ UNCHANGED <<vars, stack, phase, log, stuck, calls>>
        /\ raising' = FALSE \/ raising' = raising
    BY <1>18 DEF Catch, allVars, runtimeVars
  <2>2. /\ Level' = Level /\ UNCHANGED <<candidates, active, loaded, staged>>
    BY <2>1 DEF Level, vars, storeVars
  <2>3. PromotionTypeOK'
    BY <1>0, <2>1, <2>2 DEF PromotionTypeOK
  <2> QED BY <1>0, <2>1, <2>2, <2>3
          DEF Shape, Publishing, Holds, Promoted, IsLastDeferred
<1>19. ASSUME Unwind PROVE PromotionTypeOK' /\ Shape'
  <2>1. /\ Level > 0 /\ Leave(TRUE) /\ UNCHANGED <<phase, log, stuck, calls>>
        /\ staged' = [staged EXCEPT ![Level] = NoSnapshot]
    BY <1>0, <1>19 DEF Unwind, Shape, Abandon, Raises
  <2> QED BY <1>0, <1>5, <1>6, <2>1
<1> QED BY <1>1, <1>7, <1>8, <1>9, <1>10, <1>11, <1>12, <1>13, <1>14, <1>15, <1>16,
           <1>17, <1>18, <1>19 DEF PromotionNext, PInv

------------------------------------------------------------------------------
(* Theorems                                                                *)

(* The runtime's state is well formed, the routes in force are those of    *)
(* the active graph, and a rollback the store offers can be carried out.   *)
THEOREM RuntimeInvariants ==
    PromotionSpec => [](PromotionTypeOK /\ RunningIsActive /\ RollbackResolvable)
<1>1. PInv => PromotionTypeOK /\ RunningIsActive /\ RollbackResolvable
  BY DEF PInv, IInv
<1> QED BY <1>1, InitPInv, NextPInv, PTL DEF PromotionSpec

------------------------------------------------------------------------------
(* One commit_graph at a time                                              *)

(* No nested calls, reviews, mutations or reused identifiers.              *)
OneAtATime == May \cap {"nested", "review", "mutation", "reuse"} = {}

(* The only call under way will promote the version that is still the next *)
(* one, under an identifier that is still unused.                          *)
SInv ==
    /\ Level <= 1 /\ ~raising
    /\ Level = 1 => /\ Top.kind = "commit"
                    /\ Top.step \in {"staged", "allowed"} =>
                           Fresh(Top.snap) /\ Unused(Top.id)

LEMMA SerialCommit ==
    ASSUME PInv, SInv, Level > 0, Top.step \in {"staged", "allowed"}
    PROVE  /\ Top.kind = "commit" /\ Level \in Callers /\ Top.id \in Ids
           /\ Fresh(staged[Level]) /\ Unused(Top.id)
<1>1. Level = 1 /\ Level \in 1 .. Level
  BY TopFrame DEF PInv, SInv
<1>2. Holds(Level)
  BY <1>1 DEF PInv, Shape
<1> QED BY <1>1, <1>2, TopFrame DEF PInv, SInv, Holds, Top

LEMMA SerialStoreStep ==
    ASSUME OneAtATime, PInv, SInv, [PromotionNext]_allVars
    PROVE  [SerialNext]_vars
<1>0. Level \in Nat
  BY TopFrame DEF PInv
<1>1. ASSUME NEW g \in Graphs, NEW id \in Ids, Submit(g, id) PROVE SerialNext
  BY <1>1 DEF Submit, MayCall, SerialNext, Propose
<1>2. ASSUME NEW deferred \in BOOLEAN, Refuse(deferred) PROVE SerialNext
  BY <1>2, SerialCommit DEF Refuse, At, SerialNext
<1>3. ASSUME AtCutover
      PROVE  (Exchange => SerialNext) /\ (Forget => SerialNext)
  <2>1. Level > 0 /\ Top.step = "allowed"
    BY <1>3 DEF AtCutover, At
  <2>2. /\ Top.kind = "commit" /\ Level \in Callers /\ Top.id \in Ids
        /\ Fresh(staged[Level]) /\ Unused(Top.id)
    BY <2>1, SerialCommit
  <2> QED BY <2>2 DEF Exchange, Forget, SerialNext, Commit
<1>4. ASSUME Cutover \/ BeginRaises \/ CutoverAborts \/ ReplayRaises PROVE SerialNext
  BY <1>3, <1>4 DEF Cutover, BeginRaises, CutoverAborts, ReplayRaises
<1>5. ASSUME Unhealthy \/ WindowFails PROVE SerialNext \/ UNCHANGED vars
  BY <1>5 DEF Unhealthy, WindowFails, RollBack, SerialNext
<1>6. ASSUME \/ \E kind \in {"commit", "review"} : Allow(kind)
             \/ RecordPhases \/ RecordNothing \/ TargetLost \/ Catch
      PROVE  UNCHANGED vars
  BY <1>6 DEF Allow, RecordPhases, RecordNothing, TargetLost, Catch
<1>7. Level > 0 => Top.kind = "commit"
  BY <1>0 DEF SInv
<1>8. Committed => UNCHANGED vars
  BY <1>7 DEF Committed, At
<1>9. ~DecideMutation /\ ~Unwind /\ \A d \in BOOLEAN : ~RefuseReviewed(d)
  BY <1>7 DEF DecideMutation, Unwind, SInv, RefuseReviewed, At
<1>10. /\ \A g \in Graphs, id \in Ids : ~SubmitMutation(g, id)
       /\ \A i \in DOMAIN candidates, id \in Ids : ~StartReview(i, id)
  BY DEF OneAtATime, SubmitMutation, StartReview
<1>11. UNCHANGED allVars => UNCHANGED vars
  BY DEF allVars
<1> QED BY <1>1, <1>2, <1>4, <1>5, <1>6, <1>8, <1>9, <1>10, <1>11 DEF PromotionNext

LEMMA NextSInv ==
    ASSUME OneAtATime, PInv, SInv, [PromotionNext]_allVars
    PROVE  SInv'
<1>0. PromotionTypeOK /\ TypeOK /\ Level \in Nat
  BY TopFrame DEF PInv, IInv
<1>1. ASSUME Level > 0, NEW raises \in BOOLEAN, Leave(raises) PROVE SInv'
  <2>1. Level = 1
    BY <1>0, <1>1 DEF SInv
  <2>2. Level' = 0
    BY <1>0, <1>1, <2>1, PopStack DEF Leave
  <2>3. ~raising'
    <3>1. ~(Level > 1) /\ raising' = (raises /\ Level > 1)
      BY <1>0, <1>1, <2>1 DEF Leave
    <3> QED BY <3>1, Zenon
  <2> QED BY <2>2, <2>3 DEF SInv
<1>2. ASSUME Level > 0, NEW step \in {"allowed", "cutover", "recorded"}, Goto(step),
             step = "allowed" => Top.step = "staged" /\ UNCHANGED vars
      PROVE  SInv'
  <2>1. Top \in Frames
    BY <1>0, <1>2, TopFrame
  <2>2. Level' = Level /\ Top' = [Top EXCEPT !.step = step] /\ raising' = raising
    BY <1>0, <1>2, StepStack
  <2>3. /\ Top'.kind = Top.kind /\ Top'.step = step
        /\ Top'.snap = Top.snap /\ Top'.id = Top.id
    BY <2>1, <2>2 DEF Frames
  <2>4. step = "allowed" => (Fresh(Top.snap) /\ Unused(Top.id) /\ Level = 1 =>
                                (Fresh(Top.snap) /\ Unused(Top.id))')
    BY <1>2, <2>2, <2>3 DEF Fresh, Unused, NextVersion, Known, LiveVersions,
                            vars, storeVars
  <2> QED BY <1>2, <2>2, <2>3, <2>4 DEF SInv
<1>3. ASSUME NEW g \in Graphs, NEW id \in Ids, Submit(g, id) PROVE SInv'
  <2>1. /\ stack = <<>> /\ MayUse(id) /\ Stage(Level + 1, g)
        /\ raising' = raising /\ Call("commit", id, staged'[Level + 1])
        /\ Level + 1 \in Callers
    BY <1>3 DEF Submit, MayCall, OneAtATime
  <2>2. /\ Level = 0 /\ Len(stack') = 1
        /\ stack'[1] = [kind |-> "commit", id |-> id, snap |-> staged'[1],
                        was |-> loaded, target |-> active, step |-> "staged"]
    BY <2>1 DEF Call, Level
  <2>3. staged'[1].ver = NextVersion
    BY <1>0, <2>1, <2>2 DEF Stage, TypeOK
  <2>4. NextVersion' = NextVersion /\ candidates' = candidates
    BY <2>1 DEF Stage, storeVars, NextVersion, Known, LiveVersions
  <2>5. \A i \in DOMAIN candidates : candidates[i].id # id
    BY <2>1 DEF MayUse, OneAtATime, Unused
  <2>6. Level' = 1 /\ Top' = stack'[1]
    BY <2>2 DEF Level, Top
  <2>7. /\ Top'.kind = "commit" /\ Top'.snap.ver = NextVersion' /\ Top'.id = id
    BY <2>2, <2>3, <2>4, <2>6
  <2>8. (Fresh(Top.snap) /\ Unused(Top.id))'
    BY <2>4, <2>5, <2>7 DEF Fresh, Unused
  <2> QED BY <2>1, <2>6, <2>7, <2>8 DEF SInv
<1>4. ASSUME NEW kind \in {"commit", "review"}, Allow(kind) PROVE SInv'
  BY <1>2, <1>4 DEF Allow, At
<1>5. ASSUME \/ \E deferred \in BOOLEAN : Refuse(deferred) \/ RefuseReviewed(deferred)
             \/ BeginRaises \/ CutoverAborts \/ ReplayRaises
             \/ TargetLost \/ Committed \/ Unhealthy \/ DecideMutation
      PROVE  SInv'
  <2>1. Level > 0 /\ \E raises \in BOOLEAN : Leave(raises)
    BY <1>5 DEF Refuse, RefuseReviewed, BeginRaises, CutoverAborts, ReplayRaises,
                TargetLost, Committed, Unhealthy, DecideMutation, AtCutover, At,
                Raises, Returns
  <2> QED BY <1>1, <2>1
<1>6. ASSUME Cutover \/ RecordPhases \/ RecordNothing PROVE SInv'
  <2>1. /\ Level > 0
        /\ Goto("cutover") \/ Goto("recorded") \/ Leave(TRUE)
    BY <1>6 DEF Cutover, RecordPhases, RecordNothing, AtCutover, At, Raises
  <2> QED BY <1>1, <1>2, <2>1
<1>7. ASSUME WindowFails PROVE SInv'
  <2>1. Level' = 0 /\ raising' = raising
    BY <1>7 DEF WindowFails, Level
  <2> QED BY <2>1 DEF SInv
<1>8. ~Unwind /\ ~Catch
  BY DEF SInv, Unwind, Catch
<1>9. /\ \A g \in Graphs, id \in Ids : ~SubmitMutation(g, id)
      /\ \A i \in DOMAIN candidates, id \in Ids : ~StartReview(i, id)
  BY DEF OneAtATime, SubmitMutation, StartReview
<1>10. ASSUME UNCHANGED allVars PROVE SInv'
  BY <1>10 DEF allVars, runtimeVars, vars, storeVars, SInv, Level, Top, Fresh, Unused,
               NextVersion, Known, LiveVersions
<1> QED BY <1>3, <1>4, <1>5, <1>6, <1>7, <1>8, <1>9, <1>10 DEF PromotionNext

(* One commit_graph at a time: whatever fails, the runtime implements the  *)
(* serial store.                                                           *)
THEOREM RuntimeUsesStoreSerially ==
    ASSUME OneAtATime PROVE PromotionSpec => UsesStoreSerially
<1>1. PromotionInit => Init /\ SInv
  BY DEF PromotionInit, SInv, Level
<1>2. PInv /\ SInv /\ [PromotionNext]_allVars => [SerialNext]_vars /\ SInv'
  BY SerialStoreStep, NextSInv
<1> QED BY <1>1, <1>2, InitPInv, NextPInv, PTL
        DEF PromotionSpec, UsesStoreSerially, SerialSpec

(* One commit_graph at a time: a rollback, after failed health probes or a *)
(* failed observation window, restores exactly the graph that was running  *)
(* before the last promotion.                                              *)
THEOREM RuntimeRestoresPrevious ==
    ASSUME OneAtATime PROVE PromotionSpec => RestoresPrevious
BY RuntimeUsesStoreSerially, SerialRestoresPrevious, PTL DEF UsesStoreSerially

------------------------------------------------------------------------------
(* No call within a call                                                   *)

Alone == "nested" \notin May

(* What the only call under way knows of the graph that ran before it.     *)
NInv ==
    /\ Level <= 1 /\ ~raising
    /\ Level > 0 =>
          /\ Top.target = VersionOf(Top.was)
          /\ Top.step \in {"staged", "allowed"} => loaded = Top.was
          /\ Top.step \in {"cutover", "recorded"} => rollback = Top.target

LEMMA ActiveIsLoaded ==
    ASSUME IInv PROVE active = VersionOf(loaded)
<1>1. TypeOK /\ RunningIsActive /\ NoSnapshot \notin Snapshots
  BY GraphVersionsAssumption DEF IInv
<1>2. CASE active = NoVersion
  BY <1>1, <1>2 DEF RunningIsActive, VersionOf
<1>3. CASE active # NoVersion
  <2>1. loaded = [ver |-> active, graph |-> snapshots[active]]
    BY <1>1, <1>3 DEF RunningIsActive
  <2>2. active \in Versions /\ snapshots[active] \in Graphs
    BY <1>1, <1>3 DEF TypeOK, RunningIsActive
  <2>3. loaded \in Snapshots
    BY <2>1, <2>2 DEF Snapshots
  <2> QED BY <1>1, <2>1, <2>3 DEF VersionOf
<1> QED BY <1>2, <1>3

(* The cutover leaves to go back to what ran before it, or nothing.        *)
LEMMA ExchangeTarget ==
    ASSUME PInv, NInv, AtCutover, Exchange
    PROVE  rollback' = Top.target
<1>1. Top.target = active
  BY ActiveIsLoaded DEF PInv, NInv, AtCutover, At
<1>2. rollback' = IF active # NoVersion THEN active ELSE rollback
  BY DEF Exchange, Commit, CutoverDeferred, StoreCommit
<1>3. active = NoVersion => rollback = NoVersion
  BY DEF PInv, IInv, NoTargetAtFirst
<1> QED BY <1>1, <1>2, <1>3

LEMMA LeaveNInv ==
    ASSUME PInv, NInv, Level > 0, NEW raises, Leave(raises)
    PROVE  NInv' /\ Level' = 0
<1>1. Level \in Nat /\ Level = 1
  BY TopFrame DEF PInv, NInv
<1>2. Level' = 0
  BY <1>1, PopStack DEF PInv, Leave
<1>3. ~raising'
  <2>1. ~(Level > 1) /\ raising' = (raises /\ Level > 1)
    BY <1>1 DEF Leave
  <2> QED BY <2>1, Zenon
<1> QED BY <1>2, <1>3 DEF NInv

LEMMA GotoNInv ==
    ASSUME PInv, NInv, Level > 0,
           NEW step \in {"allowed", "cutover", "recorded"}, Goto(step),
           step = "allowed" => loaded' = Top.was,
           step # "allowed" => rollback' = Top.target
    PROVE  NInv'
<1>1. Level \in Nat /\ Top \in Frames
  BY TopFrame DEF PInv
<1>2. Level' = Level /\ Top' = [Top EXCEPT !.step = step] /\ raising' = raising
  BY StepStack DEF PInv
<1>3. Top'.target = Top.target /\ Top'.was = Top.was /\ Top'.step = step
  BY <1>1, <1>2 DEF Frames
<1> QED BY <1>2, <1>3 DEF NInv

(* The frame of a call that is made at rest.                               *)
LEMMA CallAlone ==
    ASSUME stack = <<>>, NEW kind, NEW id, NEW snap, Call(kind, id, snap)
    PROVE  /\ Level' = 1 /\ Top'.kind = kind /\ Top'.id = id /\ Top'.snap = snap
           /\ Top'.was = loaded /\ Top'.target = active /\ Top'.step = "staged"
<1>1. /\ Len(stack') = 1
      /\ stack'[1] = [kind |-> kind, id |-> id, snap |-> snap, was |-> loaded,
                      target |-> active, step |-> "staged"]
  BY DEF Call
<1>2. Level' = 1 /\ Top' = stack'[1]
  BY <1>1 DEF Level, Top
<1> QED BY <1>1, <1>2

LEMMA InitNInv == PromotionInit => NInv
BY DEF PromotionInit, NInv, Level

LEMMA NextNInv ==
    ASSUME Alone, PInv, NInv, [PromotionNext]_allVars
    PROVE  NInv'
<1>0. Level \in Nat
  BY TopFrame DEF PInv
<1>1. ASSUME MayCall, UNCHANGED loaded, NEW kind, NEW id, NEW snap, Call(kind, id, snap)
      PROVE  NInv'
  <2>1. stack = <<>> /\ raising' = raising
    BY <1>1 DEF MayCall, Alone
  <2>2. active = VersionOf(loaded)
    BY ActiveIsLoaded DEF PInv
  <2> QED BY <1>1, <2>1, <2>2, CallAlone DEF NInv
<1>2. ASSUME NEW g \in Graphs, NEW id \in Ids, Submit(g, id) \/ SubmitMutation(g, id)
      PROVE  NInv'
  BY <1>1, <1>2 DEF Submit, SubmitMutation, Stage
<1>3. ASSUME NEW i \in DOMAIN candidates, NEW id \in Ids, StartReview(i, id) PROVE NInv'
  BY <1>1, <1>3 DEF StartReview, vars
<1>4. ASSUME NEW kind \in {"commit", "review"}, Allow(kind) PROVE NInv'
  <2>1. Level > 0 /\ Goto("allowed") /\ Top.step = "staged" /\ UNCHANGED loaded
    BY <1>4 DEF Allow, At, vars
  <2>2. loaded' = Top.was
    BY <2>1 DEF NInv
  <2> QED BY <2>1, <2>2, GotoNInv
<1>5. ASSUME \/ \E deferred \in BOOLEAN : Refuse(deferred) \/ RefuseReviewed(deferred)
             \/ BeginRaises \/ CutoverAborts \/ ReplayRaises
             \/ TargetLost \/ Committed \/ Unhealthy \/ DecideMutation
      PROVE  NInv'
  <2>1. Level > 0 /\ \E raises \in BOOLEAN : Leave(raises)
    BY <1>5 DEF Refuse, RefuseReviewed, BeginRaises, CutoverAborts, ReplayRaises,
                TargetLost, Committed, Unhealthy, DecideMutation, AtCutover, At,
                Raises, Returns
  <2> QED BY <2>1, LeaveNInv
<1>6. ASSUME Cutover PROVE NInv'
  <2>1. Level > 0 /\ AtCutover /\ Exchange /\ Goto("cutover")
    BY <1>6 DEF Cutover, AtCutover, At
  <2> QED BY <2>1, ExchangeTarget, GotoNInv
<1>7. ASSUME RecordPhases \/ RecordNothing PROVE NInv'
  <2>1. /\ Level > 0 /\ Top.step = "cutover" /\ UNCHANGED rollback
        /\ Goto("recorded") \/ Leave(TRUE)
    BY <1>7 DEF RecordPhases, RecordNothing, At, Raises, vars, storeVars
  <2>2. rollback' = Top.target
    BY <2>1 DEF NInv
  <2> QED BY <2>1, <2>2, GotoNInv, LeaveNInv
<1>8. ASSUME WindowFails PROVE NInv'
  <2>1. Level' = 0 /\ raising' = raising
    BY <1>8 DEF WindowFails, Level
  <2> QED BY <2>1 DEF NInv
<1>9. ~Unwind /\ ~Catch
  BY DEF NInv, Unwind, Catch
<1>10. ASSUME UNCHANGED allVars PROVE NInv'
  BY <1>10 DEF allVars, runtimeVars, vars, storeVars, NInv, Level, Top
<1> QED BY <1>2, <1>3, <1>4, <1>5, <1>6, <1>7, <1>8, <1>9, <1>10 DEF PromotionNext

(* Where no call is nested in another, and whatever else happens: a        *)
(* GRAPH_COMMITTED event names the version of the graph that was submitted *)
(* and now runs, and the version that ran when the call was made, which is *)
(* the one a rollback would restore.                                       *)
THEOREM CommitEvidence ==
    ASSUME Alone PROVE PromotionSpec => CommitEvidenceTrue
<1>1. PInv /\ NInv /\ [PromotionNext]_allVars =>
          [\A n \in DOMAIN log' \ DOMAIN log :
             log'[n].type = "GRAPH_COMMITTED" =>
                 /\ loaded' = Top.snap /\ log'[n].ver = active'
                 /\ log'[n].target = VersionOf(Top.was)
                 /\ log'[n].target = rollback']_allVars
  <2> SUFFICES ASSUME PInv, NInv, PromotionNext, NEW n \in DOMAIN log' \ DOMAIN log,
                      log'[n].type = "GRAPH_COMMITTED"
               PROVE  /\ loaded' = Top.snap /\ log'[n].ver = active'
                      /\ log'[n].target = VersionOf(Top.was)
                      /\ log'[n].target = rollback'
    BY DEF allVars, runtimeVars
  <2>1. Grows(IF Committed THEN {Note("GRAPH_COMMITTED", Top.snap.ver)} ELSE Others)
    BY NextPInv, LogStep DEF PInv, IInv
  <2>2. Committed /\ log'[n] = Note("GRAPH_COMMITTED", Top.snap.ver)
    BY <2>1 DEF Grows, Others
  <2>3. /\ Level > 0 /\ Level \in 1 .. Level /\ Top.step = "recorded"
        /\ UNCHANGED <<active, rollback, loaded>>
    BY <2>2, TopFrame DEF PInv, Committed, At, RecordReview, vars, storeVars
  <2>4. Promoted(Level)
    BY <2>3 DEF PInv, Shape
  <2>5. log'[n].ver = Top.snap.ver /\ log'[n].target = Top.target
    BY <2>2 DEF Note, Event
  <2>6. Top.target = VersionOf(Top.was) /\ rollback = Top.target
    BY <2>3 DEF NInv
  <2> QED BY <2>3, <2>4, <2>5, <2>6 DEF Promoted, Top
<1>2. PInv /\ NInv /\ [PromotionNext]_allVars => NInv'
  BY NextNInv
<1> QED BY <1>1, <1>2, InitPInv, NextPInv, InitNInv, PTL
        DEF PromotionSpec, CommitEvidenceTrue

------------------------------------------------------------------------------
(* Recovery                                                                *)

(* Nothing but the health probes fails once the graph has been exchanged:  *)
(* no component is FAILED, no drain is left open and no promotion goes     *)
(* past the runtime.  And no deferred candidate is adopted under a version *)
(* that has gone to another graph.                                         *)
Calm == May \cap {"reject", "nested", "replay", "window", "mutation", "stale"} = {}

(* The graph that ran when the call under way began, or runs at rest.      *)
Before == IF Level = 0 THEN loaded ELSE Top.was

RInv ==
    /\ \A k \in Components : phase[k] # "FAILED"
    /\ Commits # {} => Recovered = Before /\ Before # NoSnapshot
    /\ Level > 0 =>
          /\ Top.kind # "mutation"
          /\ Top.step \in {"staged", "allowed"} => Unclaimed(Top.snap)
          /\ Top.step \in {"cutover", "recorded"} /\ Top.was # NoSnapshot =>
                 Lookup(Top.was.ver) = Top.was.graph

(* What a recovery reads changes with a GRAPH_COMMITTED only.              *)
LEMMA RecoveredKept ==
    ASSUME PInv, Grows(Others)
    PROVE  Commits' = Commits /\ Recovered' = Recovered
<1>1. \A n \in DOMAIN log' \ DOMAIN log : log'[n].type # "GRAPH_COMMITTED"
  BY DEF Grows, Others
<1>2. Commits' = Commits
  BY <1>1 DEF Commits, Grows
<1>3. ASSUME Commits # {} PROVE Highest(Commits) \in DOMAIN log
  <2>1. Len(log) \in Nat /\ DOMAIN log = 1 .. Len(log)
    BY LenProperties DEF PInv, PromotionTypeOK
  <2>2. Commits \in SUBSET (1 .. Len(log))
    BY <2>1 DEF Commits
  <2> QED BY <1>3, <2>1, <2>2, HighestExists
<1> QED BY <1>2, <1>3 DEF Recovered, RecoveredVersion, Grows

LEMMA RecoveredNew ==
    ASSUME PInv, Level > 0, log' = Append(log, Note("GRAPH_COMMITTED", Top.snap.ver))
    PROVE  Commits' # {} /\ Recovered' = Top.snap
<1> DEFINE e == Note("GRAPH_COMMITTED", Top.snap.ver)
<1>1. e \in SessionEvents /\ e.type = "GRAPH_COMMITTED"
      /\ e.ver = Top.snap.ver /\ e.graph = Top.snap.graph
  BY TopFrame, NoteType DEF PInv, EventTypes, Snapshots, Note, Event
<1> HIDE DEF e
<1>2. log' = Append(log, e)
  BY DEF e
<1>3. /\ Len(log) \in Nat /\ log' \in Seq(SessionEvents)
      /\ Len(log') = Len(log) + 1 /\ log'[Len(log) + 1] = e
  BY <1>1, <1>2, AppendProperties, LenProperties DEF PInv, PromotionTypeOK
<1>4. DOMAIN log' = 1 .. Len(log) + 1
  BY <1>3, LenProperties
<1> DEFINE C == Commits'
           N == Len(log) + 1
<1>5. N \in Nat /\ C \in SUBSET (1 .. N) /\ N \in C
  BY <1>1, <1>3, <1>4 DEF Commits
<1>6. Highest(C) = N
  <2> HIDE DEF C, N
  <2>1. Highest(C) \in C /\ \A w \in C : w <= Highest(C)
    BY <1>5, HighestExists
  <2>2. Highest(C) \in 1 .. N /\ N <= Highest(C)
    BY <1>5, <2>1
  <2> QED BY <1>5, <2>2
<1>7. Highest(Commits)' = Highest(Commits')
  BY DEF Highest
<1>8. Top.snap = [ver |-> Top.snap.ver, graph |-> Top.snap.graph]
  BY TopFrame DEF PInv, Snapshots
<1> QED BY <1>1, <1>3, <1>5, <1>6, <1>7, <1>8 DEF Recovered, RecoveredVersion

(* The promotion of an unclaimed snapshot keeps every stored one.          *)
LEMMA UnclaimedCommit ==
    ASSUME IInv, NEW snap \in Snapshots, StoreCommit(snap), Unclaimed(snap),
           NEW v \in Versions, Lookup(v) # NoGraph
    PROVE  Lookup(v)' = Lookup(v)
<1> DEFINE snaps == [snapshots EXCEPT ![snap.ver] = snap.graph]
<1>1. TypeOK /\ snap.ver \in Versions /\ snap.graph \in Graphs /\ NoGraph \notin Graphs
  BY GraphVersionsAssumption DEF IInv, Snapshots
<1>2. /\ snaps \in [Versions -> Graphs \cup {NoGraph}]
      /\ \A w \in Versions : snaps[w] = IF w = snap.ver THEN snap.graph ELSE snapshots[w]
  BY <1>1 DEF TypeOK
<1>3. Retire(snaps, snap.ver, retention)
  BY DEF StoreCommit
<1> HIDE DEF snaps
<1>4. Lookup(v)' = IF snaps[v] # NoGraph THEN snaps[v] ELSE archived[v]
  BY <1>1, <1>2, <1>3, RetireKeeps DEF TypeOK
<1>5. CASE v = snap.ver
  <2>1. Lookup(v) = snap.graph
    BY <1>5 DEF Unclaimed
  <2> QED BY <1>1, <1>2, <1>4, <1>5, <2>1
<1>6. CASE v # snap.ver
  BY <1>2, <1>4, <1>6 DEF Lookup
<1> QED BY <1>5, <1>6

(* After a calm cutover the graph that ran before is still stored.         *)
LEMMA ExchangeKeepsBefore ==
    ASSUME PInv, NInv, RInv, AtCutover, Exchange, Top.was # NoSnapshot
    PROVE  \E v \in Versions : v = Top.was.ver /\ Lookup(v)' = Top.was.graph
<1>1. /\ IInv /\ Level > 0 /\ Unclaimed(Top.snap) /\ loaded = Top.was
      /\ StoreCommit(Top.snap) /\ Top.snap \in Snapshots /\ Top.was \in Snapshots
  BY TopFrame, ExchangePromotes DEF PInv, NInv, RInv, AtCutover, At
<1>2. /\ Top.was.ver \in Versions /\ Top.was.graph \in Graphs /\ NoGraph \notin Graphs
      /\ active = Top.was.ver /\ active # NoVersion
  BY <1>1, ActiveIsLoaded, GraphVersionsAssumption
     DEF VersionOf, Snapshots, Versions, NoVersion
<1>3. snapshots[Top.was.ver] = Top.was.graph
  BY <1>1, <1>2 DEF IInv, RunningIsActive
<1>4. Lookup(Top.was.ver) = Top.was.graph
  BY <1>2, <1>3 DEF Lookup
<1>5. PICK v \in Versions : v = Top.was.ver
  BY <1>2
<1>6. Lookup(v)' = Lookup(v)
  <2>1. Lookup(v) # NoGraph
    BY <1>2, <1>4, <1>5
  <2> QED BY <1>1, <2>1, UnclaimedCommit
<1>7. Lookup(v) = Top.was.graph
  BY <1>4, <1>5
<1> QED BY <1>5, <1>6, <1>7

(* A failed probe brings back what ran before, if anything did.            *)
LEMMA UnhealthyRestores ==
    ASSUME PInv, NInv, RInv, Unhealthy
    PROVE  loaded' = IF Top.was = NoSnapshot THEN Top.snap ELSE Top.was
<1>1. /\ Level > 0 /\ Level \in 1 .. Level /\ Top.step = "recorded" /\ RollBack
      /\ rollback = VersionOf(Top.was)
      /\ Top.was \in Snapshots \cup {NoSnapshot}
  BY TopFrame DEF PInv, NInv, Unhealthy, At
<1>2. CASE Top.was = NoSnapshot
  <2>1. loaded' = loaded
    BY <1>1, <1>2 DEF VersionOf, RollBack, vars
  <2>2. Promoted(Level)
    BY <1>1 DEF PInv, Shape
  <2> QED BY <1>1, <1>2, <2>1, <2>2 DEF Promoted, Top
<1>3. CASE Top.was # NoSnapshot
  <2>1. /\ rollback = Top.was.ver /\ rollback # NoVersion
        /\ Top.was = [ver |-> Top.was.ver, graph |-> Top.was.graph]
    BY <1>1, <1>3 DEF VersionOf, Snapshots, Versions, NoVersion
  <2>2. loaded' = [ver |-> rollback, graph |-> Lookup(rollback)]
    BY <1>1, <2>1 DEF RollBack, Rollback
  <2>3. Lookup(Top.was.ver) = Top.was.graph
    BY <1>1, <1>3 DEF RInv
  <2> QED BY <1>3, <2>1, <2>2, <2>3
<1> QED BY <1>2, <1>3

LEMMA LeaveRInv ==
    ASSUME PInv, NInv, Level > 0, NEW raises, Leave(raises),
           \A k \in Components : phase'[k] # "FAILED",
           Commits' # {} => Recovered' = loaded' /\ loaded' # NoSnapshot
    PROVE  RInv'
<1>1. Level' = 0
  BY LeaveNInv
<1>2. Before' = loaded'
  BY <1>1 DEF Before
<1> QED BY <1>1, <1>2 DEF RInv

LEMMA GotoRInv ==
    ASSUME PInv, NInv, RInv, Level > 0,
           NEW step \in {"allowed", "cutover", "recorded"}, Goto(step),
           \A k \in Components : phase'[k] # "FAILED",
           Commits' = Commits, Recovered' = Recovered,
           step = "allowed" => Top.step = "staged" /\ UNCHANGED storeVars,
           step # "allowed" /\ Top.was # NoSnapshot =>
               \E v \in Versions : v = Top.was.ver /\ Lookup(v)' = Top.was.graph
    PROVE  RInv'
<1>1. Level \in Nat /\ Top \in Frames
  BY TopFrame DEF PInv
<1>2. Level' = Level /\ Top' = [Top EXCEPT !.step = step]
  BY StepStack DEF PInv
<1>3. /\ Top'.kind = Top.kind /\ Top'.was = Top.was /\ Top'.snap = Top.snap
      /\ Top'.step = step
  BY <1>1, <1>2 DEF Frames
<1>4. Before' = Before
  BY <1>1, <1>2, <1>3 DEF Before
<1>5. step = "allowed" => Unclaimed(Top.snap)'
  BY <1>3 DEF RInv, Unclaimed, Lookup, storeVars
<1>6. step # "allowed" /\ Top'.was # NoSnapshot =>
          Lookup(Top.was.ver)' = Top'.was.graph
  BY <1>3 DEF Lookup
<1> QED BY <1>2, <1>3, <1>4, <1>5, <1>6 DEF RInv

LEMMA CallRInv ==
    ASSUME PInv, NInv, RInv, stack = <<>>, UNCHANGED <<phase, storeVars, loaded>>,
           NEW kind \in {"commit", "review"}, NEW id, NEW snap, Unclaimed(snap),
           Call(kind, id, snap), Commits' = Commits, Recovered' = Recovered
    PROVE  RInv'
<1>1. /\ Level' = 1 /\ Top'.kind = kind /\ Top'.snap = snap
      /\ Top'.was = loaded /\ Top'.step = "staged"
  BY CallAlone
<1>2. Level = 0
  BY DEF Level
<1>3. Before' = loaded /\ Before = loaded
  BY <1>1, <1>2 DEF Before
<1>4. Unclaimed(Top.snap)'
  BY <1>1 DEF Unclaimed, Lookup, storeVars
<1> QED BY <1>1, <1>3, <1>4 DEF RInv

(* A note that is appended is the last of the log.                         *)
LEMMA NoteIsLast ==
    ASSUME PromotionTypeOK, Level > 0, NEW type \in EventTypes,
           NEW ver \in Versions \cup {NoVersion}, log' = Append(log, Note(type, ver))
    PROVE  log' # log /\ log'[Len(log')].type = type
<1>1. Note(type, ver) \in SessionEvents /\ Note(type, ver).type = type
  BY NoteType DEF Note, Event
<1>2. /\ Len(log) \in Nat /\ Len(log') = Len(log) + 1
      /\ log'[Len(log) + 1] = Note(type, ver)
  BY <1>1, AppendProperties, LenProperties DEF PromotionTypeOK
<1> QED BY <1>1, <1>2

LEMMA CommittedIsLast ==
    ASSUME PInv, Committed
    PROVE  log' # log /\ log'[Len(log')].type = "GRAPH_COMMITTED"
<1>1. Level > 0 /\ log' = Append(log, Note("GRAPH_COMMITTED", Top.snap.ver))
  BY DEF Committed, At
<1>2. Top.snap.ver \in Versions
  BY <1>1, TopFrame DEF PInv, Snapshots
<1> QED BY <1>1, <1>2, NoteIsLast DEF PInv, EventTypes

(* Where a calm promotion can be.                                          *)
LEMMA CalmCall ==
    ASSUME Calm, PInv, NInv, RInv
    PROVE  /\ Alone /\ (MayCall => stack = <<>>)
           /\ \A g \in Graphs, id \in Ids : ~SubmitMutation(g, id)
           /\ ~DecideMutation /\ ~ReplayRaises /\ ~TargetLost
           /\ ~WindowFails /\ ~Catch /\ ~Unwind
           /\ \A deferred \in BOOLEAN : MayRefuse(deferred) => deferred
<1>1. Alone /\ (MayCall => stack = <<>>)
  BY DEF MayCall, Calm, Alone
<1>2. /\ \A g \in Graphs, id \in Ids : ~SubmitMutation(g, id)
      /\ ~ReplayRaises /\ ~WindowFails
  BY DEF Calm, SubmitMutation, ReplayRaises, WindowFails
<1>3. ~DecideMutation
  BY DEF RInv, DecideMutation, At
<1>4. ~TargetLost
  BY DEF NInv, TargetLost, TargetKept, At
<1>5. ~Catch /\ ~Unwind
  BY DEF NInv, Catch, Unwind
<1>6. \A deferred \in BOOLEAN : MayRefuse(deferred) => deferred
  BY DEF Calm, MayRefuse
<1> QED BY <1>1, <1>2, <1>3, <1>4, <1>5, <1>6

(* Allowing, deferring and committing never fail a component.              *)
LEMMA LoopHealthy ==
    ASSUME PromotionTypeOK, \A k \in Components : phase[k] # "FAILED", NEW nodes,
           Loop(nodes, OnDefer) \/ Loop(nodes, OnCommit)
    PROVE  \A k \in Components : phase'[k] # "FAILED"
<1>1. PICK next \in {OnDefer, OnCommit} : Loop(nodes, next)
  OBVIOUS
<1>2. \A p \in Phases : OnDefer[p] # "FAILED" /\ OnCommit[p] # "FAILED"
  BY DEF OnDefer, OnCommit
<1>3. \A k \in Components : phase[k] \in Phases
  BY DEF PromotionTypeOK
<1>4. PICK done :
          phase' = [k \in Components |-> IF k \in done THEN next[phase[k]] ELSE phase[k]]
  BY <1>1 DEF Loop
<1> QED BY <1>2, <1>3, <1>4

LEMMA ForgetKeeps ==
    ASSUME Forget PROVE UNCHANGED loaded
BY DEF Forget, Abandon, vars

LEMMA InitRInv == PromotionInit => RInv
<1> SUFFICES ASSUME PromotionInit PROVE RInv
  OBVIOUS
<1>1. Level = 0
  BY DEF PromotionInit, Level
<1>2. Commits = {}
  BY DEF PromotionInit, Commits
<1>3. \A k \in Components : phase[k] # "FAILED"
  BY DEF PromotionInit
<1> QED BY <1>1, <1>2, <1>3 DEF RInv

LEMMA NextRInv ==
    ASSUME Calm, PInv, PInv', NInv, RInv, [PromotionNext]_allVars
    PROVE  RInv'
<1>0. /\ PromotionTypeOK /\ TypeOK /\ IInv /\ Shape /\ Level \in Nat
      /\ Level > 0 => Level = 1 /\ Level \in 1 .. Level
      /\ \A k \in Components : phase[k] # "FAILED"
  BY TopFrame DEF PInv, IInv, NInv, RInv
<1>1. ~Committed => Commits' = Commits /\ Recovered' = Recovered
  <2>1. TypeOK'
    BY DEF PInv, IInv
  <2> QED BY <2>1, LogStep, RecoveredKept
<1>2. Level > 0 => Before = Top.was
  BY <1>0 DEF Before
(* A call that ends without exchanging the graph.                          *)
<1>3. ASSUME Level > 0, Top.step \in {"staged", "allowed"}, ~Committed,
             NEW raises, Leave(raises), UNCHANGED loaded,
             \A k \in Components : phase'[k] # "FAILED"
      PROVE  RInv'
  <2>1. /\ loaded' = Before
        /\ Commits # {} => Recovered = Before /\ Before # NoSnapshot
    BY <1>2, <1>3 DEF RInv, NInv
  <2> QED BY <1>1, <1>3, <2>1, LeaveRInv
<1>4. ASSUME NEW g \in Graphs, NEW id \in Ids, Submit(g, id) PROVE RInv'
  <2>1. /\ stack = <<>> /\ UNCHANGED <<phase, storeVars, loaded>>
        /\ Call("commit", id, staged'[Level + 1]) /\ Level + 1 \in Callers
    BY <1>4, CalmCall DEF Submit, MayCall, Stage
  <2>2. Unclaimed(staged'[Level + 1])
    <3>1. NextVersion \in Versions /\ NextVersion \notin Known
      BY <1>0, <1>4, NextVersionIsNew, GraphVersionsAssumption DEF Submit, Stage, Versions
    <3>2. Lookup(NextVersion) = NoGraph
      BY <3>1 DEF Known, LiveVersions, Lookup
    <3>3. staged'[Level + 1].ver = NextVersion
      BY <1>0, <1>4, <2>1 DEF Submit, Stage, TypeOK
    <3> QED BY <3>2, <3>3 DEF Unclaimed
  <2>3. ~Committed
    BY <2>1 DEF Committed, At, Level
  <2> QED BY <1>1, <2>1, <2>2, <2>3, CallRInv
<1>5. ASSUME NEW i \in DOMAIN candidates, NEW id \in Ids, StartReview(i, id) PROVE RInv'
  <2>1. /\ stack = <<>> /\ UNCHANGED <<phase, storeVars, loaded>>
        /\ Call("review", id, candidates[i].snap) /\ Unclaimed(candidates[i].snap)
    BY <1>5, CalmCall DEF StartReview, MayCall, vars, Calm
  <2>2. ~Committed
    BY <2>1 DEF Committed, At, Level
  <2> QED BY <1>1, <2>1, <2>2, CallRInv
<1>6. ASSUME NEW kind \in {"commit", "review"}, Allow(kind) PROVE RInv'
  <2>1. /\ Level > 0 /\ Top.step = "staged" /\ Goto("allowed")
        /\ UNCHANGED <<storeVars, phase>>
    BY <1>6 DEF Allow, At, vars
  <2>2. ~Committed
    BY <2>1 DEF Committed, At
  <2> QED BY <1>0, <1>1, <2>1, <2>2, GotoRInv
<1>7. ASSUME NEW deferred \in BOOLEAN, Refuse(deferred) \/ RefuseReviewed(deferred)
      PROVE  RInv'
  <2>1. /\ Level > 0 /\ Top.step = "staged" /\ UNCHANGED loaded
        /\ \E raises \in BOOLEAN : Leave(raises)
    BY <1>7 DEF Refuse, RefuseReviewed, At, Raises, Returns, Discard, RecordReview
  <2>2. ~Committed
    BY <2>1 DEF Committed, At
  <2>3. \A k \in Components : phase'[k] # "FAILED"
    <3>1. deferred
      BY <1>7, CalmCall DEF Refuse, RefuseReviewed
    <3>2. Refuse(deferred) => Loop(Top.snap.graph, OnDefer)
      BY <3>1 DEF Refuse
    <3>3. RefuseReviewed(deferred) => phase' = phase
      BY DEF RefuseReviewed
    <3> QED BY <1>0, <1>7, <3>2, <3>3, LoopHealthy
  <2> QED BY <1>3, <2>1, <2>2, <2>3
<1>8. ASSUME Cutover PROVE RInv'
  <2>1. /\ Level > 0 /\ Top.step = "allowed" /\ AtCutover /\ Exchange
        /\ Goto("cutover") /\ UNCHANGED phase
    BY <1>8 DEF Cutover, AtCutover, At
  <2>2. ~Committed
    BY <2>1 DEF Committed, At
  <2> QED BY <1>0, <1>1, <2>1, <2>2, ExchangeKeepsBefore, GotoRInv
<1>9. ASSUME BeginRaises \/ CutoverAborts PROVE RInv'
  <2>1. /\ Level > 0 /\ Top.step = "allowed" /\ Forget /\ Leave(TRUE) /\ UNCHANGED phase
    BY <1>9 DEF BeginRaises, CutoverAborts, AtCutover, At, Raises
  <2>2. ~Committed
    BY <2>1 DEF Committed, At
  <2> QED BY <1>0, <1>3, <2>1, <2>2, ForgetKeeps
<1>10. ASSUME RecordPhases \/ RecordNothing PROVE RInv'
  <2>1. /\ Level > 0 /\ Top.step = "cutover" /\ UNCHANGED storeVars
        /\ Top.was \in Snapshots \cup {NoSnapshot}
    BY <1>0, <1>10, TopFrame DEF RecordPhases, RecordNothing, At, vars
  <2>2. ~Committed
    BY <2>1 DEF Committed, At
  <2>3. Failed(Top.snap.graph) = {}
    <3>1. Top.snap.graph \subseteq Components
      BY <2>1, TopFrame, <1>0 DEF Snapshots, Components
    <3> QED BY <1>0, <3>1 DEF Failed
  <2>4. /\ Goto("recorded")
        /\ Loop(Top.snap.graph, OnCommit) \/ UNCHANGED phase
    BY <1>10, <2>3 DEF RecordPhases, RecordNothing
  <2>5. \A k \in Components : phase'[k] # "FAILED"
    BY <1>0, <2>4, LoopHealthy
  <2>6. Top.was # NoSnapshot =>
            \E v \in Versions : v = Top.was.ver /\ Lookup(v)' = Top.was.graph
    <3>1. Top.was # NoSnapshot =>
              Top.was.ver \in Versions /\ Lookup(Top.was.ver) = Top.was.graph
      BY <2>1 DEF RInv, Snapshots
    <3> QED BY <2>1, <3>1 DEF Lookup, storeVars
  <2> QED BY <1>1, <2>1, <2>2, <2>4, <2>5, <2>6, GotoRInv
<1>11. ASSUME Committed PROVE RInv'
  <2>1. /\ Level > 0 /\ Top.step = "recorded" /\ Leave(FALSE) /\ UNCHANGED <<loaded, phase>>
        /\ log' = Append(log, Note("GRAPH_COMMITTED", Top.snap.ver))
    BY <1>11 DEF Committed, At, Returns, RecordReview, vars
  <2>2. loaded = Top.snap
    BY <1>0, <2>1 DEF Shape, Promoted, Top
  <2>3. loaded # NoSnapshot
    BY <1>0, <2>1, <2>2, TopFrame, GraphVersionsAssumption
  <2>4. Recovered' = loaded'
    BY <2>1, <2>2, RecoveredNew
  <2> QED BY <1>0, <2>1, <2>3, <2>4, LeaveRInv
<1>12. ASSUME Unhealthy PROVE RInv'
  <2>1. /\ Level > 0 /\ Top.step = "recorded" /\ Leave(TRUE) /\ UNCHANGED phase
        /\ log' = Append(log, Note("GRAPH_ROLLED_BACK", active'))
    BY <1>12 DEF Unhealthy, At, Raises
  <2>2. ~Committed
    <3>1. log'[Len(log')].type = "GRAPH_ROLLED_BACK"
      BY <1>0, <2>1, NoteIsLast DEF EventTypes, PInv, IInv, TypeOK
    <3>2. Committed => log'[Len(log')].type = "GRAPH_COMMITTED"
      BY <2>1, CommittedIsLast
    <3> QED BY <3>1, <3>2
  <2>3. Commits' # {} => Recovered' = loaded' /\ loaded' # NoSnapshot
    BY <1>1, <1>2, <1>12, <2>1, <2>2, UnhealthyRestores DEF RInv
  <2> QED BY <1>0, <2>1, <2>3, LeaveRInv
<1>13. ASSUME UNCHANGED allVars PROVE RInv'
  <2>1. UNCHANGED <<stack, phase, log, storeVars, loaded>>
    BY <1>13 DEF allVars, runtimeVars, vars
  <2> QED BY <2>1 DEF RInv, Level, Top, Before, Commits, Recovered, RecoveredVersion,
                      Unclaimed, Lookup, Highest, storeVars
<1> QED BY <1>4, <1>5, <1>6, <1>7, <1>8, <1>9, <1>10, <1>11, <1>12, <1>13, CalmCall
        DEF PromotionNext

(* A calm promotion that ends unrecorded.                                  *)
LEMMA CalmEnd ==
    ASSUME Calm, PInv, PInv', NInv, RInv, PromotionNext, Level' < Level, ~Committed
    PROVE  \/ loaded' = Top.was
           \/ /\ Top.was = NoSnapshot /\ loaded' = Top.snap
              /\ log' # log /\ LastType' = "GRAPH_ROLLED_BACK"
<1>0. /\ PromotionTypeOK /\ Level \in Nat /\ Level <= 1
      /\ \A k \in Components : phase[k] # "FAILED"
      /\ Top.step \in {"staged", "allowed"} /\ Level > 0 => loaded = Top.was
  BY TopFrame DEF PInv, NInv, RInv
<1>1. ASSUME Level > 0, NEW step \in {"staged", "allowed", "cutover", "recorded"}, Goto(step)
      PROVE  FALSE
  BY <1>0, <1>1, StepStack
<1>2. ~MayCall
  <2> SUFFICES ASSUME MayCall PROVE FALSE
    OBVIOUS
  <2>1. Level = 0 /\ Level' \in Nat
    BY CalmCall, LenProperties DEF Level, PInv, PromotionTypeOK
  <2> QED BY <2>1
<1>3. ASSUME NEW kind \in {"commit", "review"}, Allow(kind) PROVE FALSE
  BY <1>1, <1>3 DEF Allow, At
<1>4. ASSUME NEW deferred \in BOOLEAN, Refuse(deferred) \/ RefuseReviewed(deferred)
      PROVE  loaded' = Top.was
  BY <1>0, <1>4 DEF Refuse, RefuseReviewed, At, Discard, RecordReview
<1>5. ~Cutover /\ ~RecordNothing
  BY <1>1 DEF Cutover, RecordNothing, AtCutover, At
<1>6. ASSUME BeginRaises \/ CutoverAborts PROVE loaded' = Top.was
  BY <1>0, <1>6, ForgetKeeps DEF BeginRaises, CutoverAborts, AtCutover, At
<1>7. ~RecordPhases
  <2> SUFFICES ASSUME RecordPhases PROVE FALSE
    OBVIOUS
  <2>1. Level > 0
    BY DEF RecordPhases, At
  <2>2. Failed(Top.snap.graph) = {}
    <3>1. Top.snap.graph \subseteq Components
      BY <2>1, TopFrame, <1>0 DEF Snapshots, Components
    <3> QED BY <1>0, <3>1 DEF Failed
  <2> QED BY <1>1, <2>1, <2>2 DEF RecordPhases
<1>8. ASSUME Unhealthy
      PROVE  /\ loaded' = IF Top.was = NoSnapshot THEN Top.snap ELSE Top.was
             /\ log' # log /\ LastType' = "GRAPH_ROLLED_BACK"
  <2>1. Level > 0 /\ log' = Append(log, Note("GRAPH_ROLLED_BACK", active'))
    BY <1>8 DEF Unhealthy, At
  <2>2. log' # log /\ log'[Len(log')].type = "GRAPH_ROLLED_BACK"
    BY <1>0, <2>1, NoteIsLast DEF EventTypes, PInv, IInv, TypeOK
  <2>3. log' # <<>>
    BY <1>0, <2>1, AppendProperties, LenProperties, NoteType
       DEF PromotionTypeOK, PInv, IInv, TypeOK, EventTypes
  <2> QED BY <1>8, <2>2, <2>3, UnhealthyRestores DEF LastType
<1> QED BY <1>2, <1>3, <1>4, <1>5, <1>6, <1>7, <1>8, CalmCall
        DEF PromotionNext, Submit, StartReview

(* Whatever is deferred, reviewed under its own version, aborted, timed    *)
(* out or found unhealthy: a recovery between two calls finds the version  *)
(* that is active, and what runs is the graph that was promoted under it.  *)
(* Rejections, nested calls, replays that raise, observation windows,      *)
(* mutations and stale reviews are excluded by Calm; the README says which *)
(* of them TLC finds to break it.                                          *)
THEOREM RecoveryFindsActive ==
    ASSUME Calm PROVE PromotionSpec => []RecoveredIsActive
<1>1. PInv /\ RInv => RecoveredIsActive
  <2> SUFFICES ASSUME PInv, RInv, stack = <<>>, Commits # {}
               PROVE  RecoveredVersion = active /\ Recovered = loaded
    BY DEF RecoveredIsActive
  <2>1. Recovered = loaded /\ loaded # NoSnapshot
    BY DEF RInv, Before, Level
  <2>2. active = loaded.ver
    BY <2>1, ActiveIsLoaded DEF PInv, VersionOf
  <2>3. Recovered.ver = RecoveredVersion
    BY DEF Recovered
  <2> QED BY <2>1, <2>2, <2>3
<1>2. PInv /\ PInv' /\ NInv /\ RInv /\ [PromotionNext]_allVars => NInv' /\ RInv'
  BY NextNInv, NextRInv, CalmCall
<1> QED BY <1>1, <1>2, InitPInv, NextPInv, InitNInv, InitRInv, PTL DEF PromotionSpec

(* Under the same conditions a promotion that ends without its             *)
(* GRAPH_COMMITTED event, deferred, aborted, timed out or found unhealthy, *)
(* leaves running the very graph that ran when it began; a first promotion *)
(* found unhealthy has nothing to go back to and its graph runs on.        *)
THEOREM UnrecordedPromotionKeepsGraph ==
    ASSUME Calm PROVE PromotionSpec => UnrecordedKeepsGraph
<1>1. PInv /\ PInv' /\ NInv /\ RInv /\ [PromotionNext]_allVars =>
          [Len(stack') < Level /\ (log' = log \/ LastType' # "GRAPH_COMMITTED") =>
             \/ loaded' = Top.was
             \/ /\ Top.was = NoSnapshot /\ loaded' = Top.snap
                /\ log' # log /\ LastType' = "GRAPH_ROLLED_BACK"]_allVars
  <2> SUFFICES ASSUME PInv, PInv', NInv, RInv, PromotionNext, Len(stack') < Level,
                      log' = log \/ LastType' # "GRAPH_COMMITTED"
               PROVE  \/ loaded' = Top.was
                      \/ /\ Top.was = NoSnapshot /\ loaded' = Top.snap
                         /\ log' # log /\ LastType' = "GRAPH_ROLLED_BACK"
    BY DEF allVars
  <2>1. Level' < Level
    BY DEF Level
  <2>2. CASE Committed
    <3>1. log' # log /\ log'[Len(log')].type = "GRAPH_COMMITTED"
      BY <2>2, CommittedIsLast
    <3>2. log' # <<>>
      BY <2>2, NoteType, TopFrame, AppendProperties, LenProperties
         DEF Committed, At, PInv, PromotionTypeOK, EventTypes, Snapshots
    <3> QED BY <3>1, <3>2 DEF LastType
  <2> QED BY <2>1, <2>2, CalmEnd
<1>2. PInv /\ PInv' /\ NInv /\ RInv /\ [PromotionNext]_allVars => NInv' /\ RInv'
  BY NextNInv, NextRInv, CalmCall
<1> QED BY <1>1, <1>2, InitPInv, NextPInv, InitNInv, InitRInv, PTL
        DEF PromotionSpec, UnrecordedKeepsGraph
====
