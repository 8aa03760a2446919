--------------------------- MODULE EvidenceRecords ----------------------------
(***************************************************************************)
(* The three stores a runtime keeps its evidence in, each over a file of   *)
(* one line per entry: the artifact snapshots                              *)
(* (provenance/artifact_store.py), the session events                      *)
(* (FileSessionStore, observability/events.py) and the audit log with its  *)
(* Merkle tree (provenance/audit_log.py, merkle.py); and the calls that    *)
(* write an entry after another into them: record of                       *)
(* ExecutionEvidenceRecorder (core/execution.py), _append_runtime_evidence *)
(* and _persist_dependency_graph (core/boot.py).                           *)
(*                                                                         *)
(* None of these calls awaits, so one is made at a time; but each of its   *)
(* writes may raise, with a part of the line written or with none of it,   *)
(* and the process may end between two writes or within one and be started *)
(* again over the same files.                                              *)
(***************************************************************************)
EXTENDS MerkleTree, FiniteSets


CONSTANTS MaxCalls,      \* bound on the calls that record something
          MaxFaults,     \* bound on the writes that raise and on the crashes
          Seeded         \* whether the audit file may hold a record, and may
                         \* hold none, when the runtime is first started

ASSUME EvidenceAssumption ==
         /\ MaxCalls \in Nat /\ MaxFaults \in Nat
         /\ Seeded \subseteq BOOLEAN

Stores == {"artifacts", "session", "audit"}

VARIABLES up,            \* the process runs
          calls,         \* calls begun so far
          writes,        \* what the current call writes, <<>> between calls
          step,          \* the write it is at
          artifacts,     \* ArtifactSnapshotStore._snapshots, in order
          artifactFile,
          sessionFile,   \* FileSessionStore keeps nothing in memory
          tree, records, \* AuditLog._tree and _records
          auditFile,
          damaged,       \* the files with a line that is no JSON: what such
                         \* a file holds is not read again
          faults,        \* faults so far
          failed,        \* history: the stores a write of which raised
          returned       \* history: what the calls that returned were to write

artifactVars == <<artifacts, artifactFile>>
auditVars == <<tree, records, auditFile>>
histVars == <<faults, failed, returned>>
callVars == <<calls, writes, step>>
vars == <<up, callVars, artifactVars, sessionFile, auditVars, damaged,
          histVars>>

------------------------------------------------------------------------------
(* What is written                                                         *)

(* An entry is known by the call that made it, the store it is put in and  *)
(* its type (the code draws a uuid), and names the entries it refers to.   *)
Id(n, store, type) == [call |-> n, store |-> store, type |-> type]
Entry(n, store, type, names) == [id |-> Id(n, store, type), names |-> names]
Named(n, store, types) == {Id(n, store, type) : type \in types}

Ids(file) == {file[i].id : i \in DOMAIN file}

(* What record is called with: whether there is an instantiation record or *)
(* an execution context to make one from, the decision, and whether a      *)
(* safety payload came with it.                                            *)
Outcomes == [instantiated : BOOLEAN, decision : {"allow", "defer", "reject"},
             payload : BOOLEAN]

When(condition, sequence) == IF condition THEN sequence ELSE <<>>

(* A snapshot names its parent, the instantiation record all before it.    *)
Snapshots(n, o) ==
    LET Saved(type, names) ==
            Entry(n, "artifacts", type, Named(n, "artifacts", names))
    IN  <<Saved("run", {}), Saved("validation", {"run"}),
          Saved("evidence", {"validation"})>>
        \o When(o.instantiated,
                <<Saved("instantiation", {"run", "validation", "evidence"})>>)

Events(n, o) ==
    LET Noted(type, names) ==
            Entry(n, "session", type, Named(n, "artifacts", names))
        judged == {"run", "validation", "evidence"}
    IN  <<Noted("candidate_validated", judged)>>
        \o When(o.instantiated,
                <<Noted("instantiation_recorded", {"instantiation"}),
                  Noted("execution_reconciled", judged \cup {"instantiation"})>>)
        \o When(o.decision # "allow" \/ o.payload,
                <<Noted("safety_gate_evaluated", judged)>>)
        \o When(o.decision = "reject", <<Noted("candidate_rejected", judged)>>)

(* One record for all the snapshots, and one for each event.               *)
Audits(n, snapshots, events) ==
    <<Entry(n, "audit", "snapshots", Ids(snapshots))>>
    \o [i \in DOMAIN events |->
            Entry(n, "audit", events[i].id.type, {events[i].id})]

(* A wrong form of RecordWrites: the session hears of it first.            *)
RecordWrites_EventsFirst(n, o) ==
    Events(n, o) \o Snapshots(n, o) \o Audits(n, Snapshots(n, o), Events(n, o))

(* The writes of the three calls, in their order.                          *)
RecordWrites(n, o) ==
    Snapshots(n, o) \o Events(n, o) \o Audits(n, Snapshots(n, o), Events(n, o))
RuntimeEventWrites(n) ==
    <<Entry(n, "session", "event", {}),
      Entry(n, "audit", "event", Named(n, "session", {"event"}))>>
DependencyGraphWrites(n) ==
    <<Entry(n, "artifacts", "graph", {}),
      Entry(n, "audit", "graph", Named(n, "artifacts", {"graph"}))>>

------------------------------------------------------------------------------
(* The audit log                                                           *)

(* A wrong form of RecordOf: the index counts the record itself.           *)
RecordOf_OneOff(log, entry) ==
    [entry |-> entry, index |-> Len(log.records) + 1,
     root |-> RootHash(Asked(Grow(log.tree, entry)))]

(* append, but for the file: the record is anchored in the tree and keeps  *)
(* its index and the root of that moment.                                  *)
RecordOf(log, entry) ==
    [entry |-> entry, index |-> Len(log.records),
     root |-> RootHash(Asked(Grow(log.tree, entry)))]
Anchored(log, entry) ==
    [tree |-> Asked(Grow(log.tree, entry)),
     records |-> Append(log.records, RecordOf(log, entry))]

NoLog == [tree |-> NoTree, records |-> <<>>]

(* _load: every line is anchored anew, whatever index and root it carries. *)
Again(log, line) == Anchored(log, line.entry)
Reloaded(file) == FoldLeft(Again, NoLog, file)

(* A runtime writes to the audit file only when it was not empty when the  *)
(* runtime was made: "audit_log or AuditLog()" takes an AuditLog of length *)
(* 0 for none, and one without a path in its place.  The recorder takes    *)
(* the log it is given as it is; it is taken to be given the runtime's     *)
(* own, as runtime_handoff.py of DeepMD and JEDI gives it when they have   *)
(* no other.                                                               *)
Kept == auditFile # <<>>

------------------------------------------------------------------------------
(* The process                                                             *)

Seed == Entry(0, "audit", "seed", {})

Init ==
    /\ up = FALSE
    /\ calls = 0 /\ writes = <<>> /\ step = 1
    /\ artifacts = <<>> /\ artifactFile = <<>> /\ sessionFile = <<>>
    /\ tree = NoTree /\ records = <<>>
    /\ \E seeded \in Seeded :
          auditFile = IF seeded THEN <<RecordOf(NoLog, Seed)>> ELSE <<>>
    /\ damaged = {} /\ faults = 0 /\ failed = {} /\ returned = {}

(* A wrong form of Start: the records are read, the tree is not grown.     *)
Start_NoTree ==
    /\ ~up /\ damaged = {}
    /\ up' = TRUE
    /\ artifacts' = artifactFile
    /\ tree' = NoTree
    /\ records' = Reloaded(auditFile).records
    /\ UNCHANGED <<callVars, artifactFile, sessionFile, auditFile, damaged,
                   histVars>>

(* The stores are made, the runtime over them, and what the files hold is  *)
(* read.  A line that is no JSON makes it raise: the runtime stays down.   *)
Start ==
    /\ ~up /\ damaged = {}
    /\ up' = TRUE
    /\ artifacts' = artifactFile
    /\ tree' = Reloaded(auditFile).tree
    /\ records' = Reloaded(auditFile).records
    /\ UNCHANGED <<callVars, artifactFile, sessionFile, auditFile, damaged,
                   histVars>>

Begin(entries) ==
    /\ up /\ writes = <<>> /\ calls < MaxCalls
    /\ calls' = calls + 1
    /\ writes' = entries
    /\ UNCHANGED <<up, step, artifactVars, sessionFile, auditVars, damaged,
                   histVars>>

Record(o) == Begin(RecordWrites(calls + 1, o))
RuntimeEvent == Begin(RuntimeEventWrites(calls + 1))
DependencyGraph == Begin(DependencyGraphWrites(calls + 1))

(* The write that comes next, and what remains of a call after it.         *)
Coming == writes[step]
Doing(store) == up /\ step \in DOMAIN writes /\ Coming.id.store = store
GoOn == step' = step + 1 /\ UNCHANGED <<up, calls, writes, damaged, histVars>>
NoCall == writes' = <<>> /\ step' = 1 /\ UNCHANGED calls

Log == [tree |-> tree, records |-> records]

(* What a store does before it opens its file.                             *)
Remember(store) ==
    /\ artifacts' = IF store = "artifacts" THEN Append(artifacts, Coming)
                    ELSE artifacts
    /\ IF store = "audit"
         THEN /\ tree' = Anchored(Log, Coming).tree
              /\ records' = Anchored(Log, Coming).records
         ELSE UNCHANGED <<tree, records>>

Save ==
    /\ Doing("artifacts") /\ GoOn
    /\ Remember("artifacts")
    /\ artifactFile' = Append(artifactFile, Coming)
    /\ UNCHANGED <<sessionFile, auditFile>>

AppendEvent ==
    /\ Doing("session") /\ GoOn
    /\ Remember("session")
    /\ sessionFile' = Append(sessionFile, Coming)
    /\ UNCHANGED <<artifactFile, auditFile>>

AppendAudit ==
    /\ Doing("audit") /\ GoOn
    /\ Remember("audit")
    /\ auditFile' = IF Kept THEN Append(auditFile, RecordOf(Log, Coming))
                  ELSE auditFile
    /\ UNCHANGED <<artifactFile, sessionFile>>

Opens(store) == Doing(store) /\ (store = "audit" => Kept)

(* A wrong form of WriteRaises: the call goes on without the line.         *)
WriteRaises_GoesOn(store) ==
    /\ Opens(store) /\ faults < MaxFaults
    /\ Remember(store)
    /\ faults' = faults + 1
    /\ failed' = failed \cup {store}
    /\ step' = step + 1
    /\ UNCHANGED <<up, calls, writes, artifactFile, sessionFile, auditFile,
                   damaged, returned>>

(* The file cannot be opened or written; torn, when a part of the line is  *)
(* in it already.  The call raises and writes nothing more.                *)
WriteRaises(store) ==
    /\ Opens(store) /\ faults < MaxFaults
    /\ Remember(store)
    /\ \E torn \in BOOLEAN :
          damaged' = IF torn THEN damaged \cup {store} ELSE damaged
    /\ faults' = faults + 1
    /\ failed' = failed \cup {store}
    /\ NoCall
    /\ UNCHANGED <<up, artifactFile, sessionFile, auditFile, returned>>

Return ==
    /\ up /\ writes # <<>> /\ step > Len(writes)
    /\ returned' = returned \cup Ids(writes)
    /\ NoCall
    /\ UNCHANGED <<up, artifactVars, sessionFile, auditVars, damaged, faults,
                   failed>>

(* The process ends, between two writes or within one.                     *)
Crash ==
    /\ up /\ faults < MaxFaults
    /\ up' = FALSE
    /\ faults' = faults + 1
    /\ artifacts' = <<>> /\ tree' = NoTree /\ records' = <<>>
    /\ \E torn \in SUBSET {store \in Stores : Opens(store)} :
          damaged' = damaged \cup torn
    /\ NoCall
    /\ UNCHANGED <<artifactFile, sessionFile, auditFile, failed, returned>>

Next ==
    \/ Start
    \/ \E o \in Outcomes : Record(o)
    \/ RuntimeEvent
    \/ DependencyGraph
    \/ Save
    \/ AppendEvent
    \/ AppendAudit
    \/ \E store \in Stores : WriteRaises(store)
    \/ Return
    \/ Crash

Spec == Init /\ [][Next]_vars

------------------------------------------------------------------------------
(* Properties                                                              *)

(* AuditLog.verify: a record is verified against the root of now, however  *)
(* many records came after it, and no other record is in its place.        *)
RecordsVerify ==
    \A i \in DOMAIN records :
        LET proof == ProofFor(tree.leaves, records[i].index)
        IN  {j \in DOMAIN records :
                Verify(records[j].entry, proof, RootHash(tree))} = {i}

(* The index and the root that were written with a record are those a      *)
(* later start computes for it, as long as no write to the file raised.    *)
RootsSurvive ==
    "audit" \notin failed => Reloaded(auditFile).records = auditFile

(* Wherever a crash or a write that raises cut a call short, what can be   *)
(* read back names only what can be read back: a snapshot its parent, an   *)
(* event its snapshots, an audit record its event or snapshots.            *)
NamesResolve ==
    damaged = {} =>
    LET held == Ids(artifactFile) \cup Ids(sessionFile)
        OnlyHeld(file) == \A i \in DOMAIN file : file[i].names \subseteq held
    IN  /\ OnlyHeld(artifactFile) /\ OnlyHeld(sessionFile)
        /\ \A i \in DOMAIN auditFile : auditFile[i].entry.names \subseteq held

InAuditFile == {auditFile[i].entry.id : i \in DOMAIN auditFile}
Of(store) == {id \in returned : id.store = store}

(* What a call that returned wrote can be read back, whatever came after.  *)
ReturnedIsStored ==
    damaged = {} =>
    /\ Of("artifacts") \subseteq Ids(artifactFile)
    /\ Of("session") \subseteq Ids(sessionFile)
    /\ Kept => Of("audit") \subseteq InAuditFile
===============================================================================
