------------------------ MODULE EvidenceRecordsProofs -------------------------
(***************************************************************************)
(* What holds of EvidenceRecords for any number of calls and of faults:    *)
(* what can be read back names only what can be read back, what a call     *)
(* that returned wrote can be read back, and the audit log proves each of  *)
(* its records and no other, before and after a restart.                   *)
(***************************************************************************)
EXTENDS EvidenceRecords, Recursion, SequenceTheorems

------------------------------------------------------------------------------
(* What is written names only what is written before it                    *)

Types ==
    {"run", "validation", "evidence", "instantiation", "graph", "event",
     "snapshots", "seed", "candidate_validated", "instantiation_recorded",
     "execution_reconciled", "safety_gate_evaluated", "candidate_rejected"}

EntryIds == [call : Nat, store : Stores, type : Types]
Entries == [id : EntryIds, names : SUBSET EntryIds]

NamesIn(B, s) == \A i \in DOMAIN s : s[i].names \subseteq B

(* Every entry of s names only entries of B and earlier ones of s, and     *)
(* none in the audit log.                                                  *)
Grounded(B, s) ==
    \A i \in DOMAIN s : \A id \in s[i].names :
        /\ id.store # "audit"
        /\ id \in B \/ \E j \in DOMAIN s : j < i /\ s[j].id = id

LEMMA IdsConcat ==
    ASSUME NEW s \in Seq(Entries), NEW t \in Seq(Entries)
    PROVE  Ids(s \o t) = Ids(s) \cup Ids(t)
<1>1. /\ s \o t \in Seq(Entries) /\ Len(s \o t) = Len(s) + Len(t)
      /\ \A i \in 1 .. Len(s) : (s \o t)[i] = s[i]
      /\ \A i \in 1 .. Len(t) : (s \o t)[Len(s) + i] = t[i]
  BY ConcatProperties
<1>2. /\ DOMAIN s = 1 .. Len(s) /\ DOMAIN t = 1 .. Len(t)
      /\ DOMAIN (s \o t) = 1 .. Len(s) + Len(t)
      /\ Len(s) \in Nat /\ Len(t) \in Nat
  BY <1>1, LenProperties
<1>3. ASSUME NEW i \in DOMAIN (s \o t)
      PROVE  (s \o t)[i].id \in Ids(s) \cup Ids(t)
  <2>1. CASE i <= Len(s)
    BY <1>1, <1>2, <2>1 DEF Ids
  <2>2. CASE i > Len(s)
    <3>1. i - Len(s) \in DOMAIN t /\ (s \o t)[i] = t[i - Len(s)]
      BY <1>1, <1>2, <2>2
    <3> QED  BY <3>1 DEF Ids
  <2> QED  BY <1>2, <2>1, <2>2
<1>4. ASSUME NEW i \in DOMAIN s PROVE s[i].id \in Ids(s \o t)
  BY <1>1, <1>2 DEF Ids
<1>5. ASSUME NEW i \in DOMAIN t PROVE t[i].id \in Ids(s \o t)
  <2>1. Len(s) + i \in DOMAIN (s \o t) /\ (s \o t)[Len(s) + i] = t[i]
    BY <1>1, <1>2
  <2> QED  BY <2>1 DEF Ids
<1> QED  BY <1>3, <1>4, <1>5 DEF Ids

LEMMA NamesInConcat ==
    ASSUME NEW s \in Seq(Entries), NEW t \in Seq(Entries), NEW B,
           NamesIn(B, s), NamesIn(B, t)
    PROVE  NamesIn(B, s \o t)
<1>1. /\ s \o t \in Seq(Entries) /\ Len(s \o t) = Len(s) + Len(t)
      /\ \A i \in 1 .. Len(s) : (s \o t)[i] = s[i]
      /\ \A i \in 1 .. Len(t) : (s \o t)[Len(s) + i] = t[i]
  BY ConcatProperties
<1>2. /\ DOMAIN s = 1 .. Len(s) /\ DOMAIN t = 1 .. Len(t)
      /\ DOMAIN (s \o t) = 1 .. Len(s) + Len(t)
      /\ Len(s) \in Nat /\ Len(t) \in Nat
  BY <1>1, LenProperties
<1>3. SUFFICES ASSUME NEW i \in DOMAIN (s \o t)
               PROVE  (s \o t)[i].names \subseteq B
  BY DEF NamesIn
<1>4. CASE i <= Len(s)
  BY <1>1, <1>2, <1>4 DEF NamesIn
<1>5. CASE i > Len(s)
  <2>1. i - Len(s) \in DOMAIN t /\ (s \o t)[i] = t[i - Len(s)]
    BY <1>1, <1>2, <1>5
  <2> QED  BY <2>1 DEF NamesIn
<1> QED  BY <1>2, <1>4, <1>5

LEMMA GroundedConcat ==
    ASSUME NEW s \in Seq(Entries), NEW t \in Seq(Entries), NEW B,
           Grounded(B, s), Grounded(B \cup Ids(s), t)
    PROVE  Grounded(B, s \o t)
<1>1. /\ s \o t \in Seq(Entries) /\ Len(s \o t) = Len(s) + Len(t)
      /\ \A i \in 1 .. Len(s) : (s \o t)[i] = s[i]
      /\ \A i \in 1 .. Len(t) : (s \o t)[Len(s) + i] = t[i]
  BY ConcatProperties
<1>2. /\ DOMAIN s = 1 .. Len(s) /\ DOMAIN t = 1 .. Len(t)
      /\ DOMAIN (s \o t) = 1 .. Len(s) + Len(t)
      /\ Len(s) \in Nat /\ Len(t) \in Nat
  BY <1>1, LenProperties
<1>3. SUFFICES ASSUME NEW i \in DOMAIN (s \o t), NEW id \in (s \o t)[i].names
               PROVE  /\ id.store # "audit"
                      /\ \/ id \in B
                         \/ \E j \in DOMAIN (s \o t) : j < i /\ (s \o t)[j].id = id
  BY DEF Grounded
<1>4. CASE i <= Len(s)
  <2>1. i \in DOMAIN s /\ (s \o t)[i] = s[i]
    BY <1>1, <1>2, <1>4
  <2>2. CASE \E j \in DOMAIN s : j < i /\ s[j].id = id
    <3>1. PICK j \in DOMAIN s : j < i /\ s[j].id = id
      BY <2>2
    <3>2. j \in DOMAIN (s \o t) /\ (s \o t)[j] = s[j]
      BY <1>1, <1>2
    <3> QED  BY <2>1, <3>1, <3>2 DEF Grounded
  <2> QED  BY <2>1, <2>2 DEF Grounded
<1>5. CASE i > Len(s)
  <2>1. i - Len(s) \in DOMAIN t /\ (s \o t)[i] = t[i - Len(s)]
    BY <1>1, <1>2, <1>5
  <2>2. CASE \E j \in DOMAIN t : j < i - Len(s) /\ t[j].id = id
    <3>1. PICK j \in DOMAIN t : j < i - Len(s) /\ t[j].id = id
      BY <2>2
    <3>2. /\ Len(s) + j \in DOMAIN (s \o t) /\ Len(s) + j < i
          /\ (s \o t)[Len(s) + j] = t[j]
      BY <1>1, <1>2, <3>1
    <3> QED  BY <2>1, <3>1, <3>2 DEF Grounded
  <2>3. CASE id \in Ids(s)
    <3>1. PICK j \in DOMAIN s : s[j].id = id
      BY <2>3 DEF Ids
    <3>2. j \in DOMAIN (s \o t) /\ j < i /\ (s \o t)[j] = s[j]
      BY <1>1, <1>2, <1>5
    <3> QED  BY <2>1, <3>1, <3>2 DEF Grounded
  <2> QED  BY <2>1, <2>2, <2>3 DEF Grounded
<1> QED  BY <1>2, <1>4, <1>5

(* What names only entries of B is grounded in B.                          *)
LEMMA NamesInGrounded ==
    ASSUME NEW s, NEW B, NamesIn(B, s), \A id \in B : id.store # "audit"
    PROVE  Grounded(B, s)
  BY DEF NamesIn, Grounded

LEMMA EmptyEntries == <<>> \in Seq(Entries) /\ Ids(<<>>) = {}
  BY EmptySeq DEF Ids

LEMMA EntryType ==
    \A n \in Nat, store \in Stores, type \in Types, names \in SUBSET EntryIds :
        /\ Entry(n, store, type, names) \in Entries
        /\ Entry(n, store, type, names).id = Id(n, store, type)
        /\ Entry(n, store, type, names).names = names
        /\ Id(n, store, type) \in EntryIds
  BY DEF Entry, Id, Entries, EntryIds

LEMMA NamedType ==
    \A n \in Nat, types \in SUBSET Types :
        Named(n, "artifacts", types) \in SUBSET EntryIds
  BY DEF Named, Id, EntryIds, Stores

LEMMA SnapshotsWritten ==
    ASSUME NEW n \in Nat, NEW o \in Outcomes
    PROVE  /\ Snapshots(n, o) \in Seq(Entries)
           /\ Grounded({}, Snapshots(n, o))
           /\ Ids(Snapshots(n, o)) =
                 Named(n, "artifacts",
                       {"run", "validation", "evidence"}
                         \cup IF o.instantiated THEN {"instantiation"} ELSE {})
<1> DEFINE Saved(type, names) ==
              Entry(n, "artifacts", type, Named(n, "artifacts", names))
           first == <<Saved("run", {}), Saved("validation", {"run"}),
                      Saved("evidence", {"validation"})>>
           more == <<Saved("instantiation", {"run", "validation", "evidence"})>>
           judged == {"run", "validation", "evidence"}
<1>1. /\ Saved("run", {}) \in Entries
      /\ Saved("validation", {"run"}) \in Entries
      /\ Saved("evidence", {"validation"}) \in Entries
      /\ Saved("instantiation", judged) \in Entries
  <2>1. ASSUME NEW type \in Types, NEW names \in SUBSET Types
        PROVE  Saved(type, names) \in Entries
    BY EntryType, NamedType DEF Stores
  <2>2. /\ {} \in SUBSET Types /\ {"run"} \in SUBSET Types
        /\ {"validation"} \in SUBSET Types /\ judged \in SUBSET Types
        /\ "run" \in Types /\ "validation" \in Types
        /\ "evidence" \in Types /\ "instantiation" \in Types
    BY DEF Types
  <2> HIDE DEF Saved, judged
  <2> QED  BY <2>1, <2>2
<1>2. first \in Seq(Entries) /\ more \in Seq(Entries)
  BY <1>1
<1>3. Snapshots(n, o) = first \o When(o.instantiated, more)
  BY DEF Snapshots
<1>4. Ids(first) = Named(n, "artifacts", judged)
  <2>1. DOMAIN first = {1, 2, 3}
    OBVIOUS
  <2>2. /\ first[1].id = Id(n, "artifacts", "run")
        /\ first[2].id = Id(n, "artifacts", "validation")
        /\ first[3].id = Id(n, "artifacts", "evidence")
    BY DEF Entry
  <2>3. Named(n, "artifacts", judged) =
          {Id(n, "artifacts", "run"), Id(n, "artifacts", "validation"),
           Id(n, "artifacts", "evidence")}
    BY DEF Named
  <2>4. Ids(first) = {first[1].id, first[2].id, first[3].id}
    BY <2>1 DEF Ids
  <2> QED  BY <2>2, <2>3, <2>4
<1>5. Grounded({}, first)
  <2>1. DOMAIN first = {1, 2, 3}
    OBVIOUS
  <2>2. /\ first[1].names = {}
        /\ first[2].names = {Id(n, "artifacts", "run")}
        /\ first[3].names = {Id(n, "artifacts", "validation")}
        /\ first[1].id = Id(n, "artifacts", "run")
        /\ first[2].id = Id(n, "artifacts", "validation")
    BY DEF Entry, Named
  <2>3. /\ Id(n, "artifacts", "run").store # "audit"
        /\ Id(n, "artifacts", "validation").store # "audit"
    BY DEF Id
  <2> QED  BY <2>1, <2>2, <2>3 DEF Grounded
<1>6. Ids(more) = {Id(n, "artifacts", "instantiation")}
  BY DEF Ids, Entry
<1>7. Grounded(Named(n, "artifacts", judged), more)
  <2>1. NamesIn(Named(n, "artifacts", judged), more)
    BY DEF NamesIn, Entry
  <2>2. \A id \in Named(n, "artifacts", judged) : id.store # "audit"
    BY DEF Named, Id
  <2> QED  BY <2>1, <2>2, NamesInGrounded
<1>8. CASE o.instantiated
  <2>1. Snapshots(n, o) = first \o more
    BY <1>3, <1>8 DEF When
  <2>2. Named(n, "artifacts", judged \cup {"instantiation"}) =
          Named(n, "artifacts", judged) \cup {Id(n, "artifacts", "instantiation")}
    BY DEF Named
  <2>3. Snapshots(n, o) \in Seq(Entries)
    BY <1>2, <2>1, ConcatProperties
  <2>4. Ids(Snapshots(n, o)) = Ids(first) \cup Ids(more)
    BY <1>2, <2>1, IdsConcat
  <2>5. Grounded({} \cup Ids(first), more)
    BY <1>4, <1>7
  <2>6. Grounded({}, first \o more)
    BY <1>2, <1>5, <2>5, GroundedConcat
  <2> QED  BY <1>4, <1>6, <1>8, <2>1, <2>2, <2>3, <2>4, <2>6
<1>9. CASE ~o.instantiated
  <2>1. Snapshots(n, o) = first
    BY <1>2, <1>3, <1>9, ConcatEmptySeq DEF When
  <2> QED  BY <1>2, <1>4, <1>5, <1>9, <2>1
<1> QED  BY <1>8, <1>9

LEMMA EventsWritten ==
    ASSUME NEW n \in Nat, NEW o \in Outcomes
    PROVE  /\ Events(n, o) \in Seq(Entries)
           /\ NamesIn(Ids(Snapshots(n, o)), Events(n, o))
           /\ \A id \in Ids(Events(n, o)) : id.store = "session"
<1> DEFINE Noted(type, names) ==
              Entry(n, "session", type, Named(n, "artifacts", names))
           judged == {"run", "validation", "evidence"}
           B == Ids(Snapshots(n, o))
           a == <<Noted("candidate_validated", judged)>>
           b == When(o.instantiated,
                     <<Noted("instantiation_recorded", {"instantiation"}),
                       Noted("execution_reconciled", judged \cup {"instantiation"})>>)
           c == When(o.decision # "allow" \/ o.payload,
                     <<Noted("safety_gate_evaluated", judged)>>)
           d == When(o.decision = "reject", <<Noted("candidate_rejected", judged)>>)
           Good(s) == /\ s \in Seq(Entries) /\ NamesIn(B, s)
                      /\ \A id \in Ids(s) : id.store = "session"
<1>1. ASSUME NEW type \in Types, NEW names \in SUBSET Types
      PROVE  /\ Noted(type, names) \in Entries
             /\ Noted(type, names).id.store = "session"
             /\ Noted(type, names).names = Named(n, "artifacts", names)
  BY EntryType, NamedType DEF Stores, Entry, Id
<1>2. /\ Named(n, "artifacts", judged) \subseteq B
      /\ o.instantiated => /\ Named(n, "artifacts", {"instantiation"}) \subseteq B
                           /\ Named(n, "artifacts", judged \cup {"instantiation"})
                                \subseteq B
  BY SnapshotsWritten DEF Named
<1>3. Good(<<>>)
  BY EmptyEntries DEF NamesIn
<1>4. Good(a) /\ Good(c) /\ Good(d)
  <2>1. ASSUME NEW type \in Types PROVE Good(<<Noted(type, judged)>>)
    <3> DEFINE e == Noted(type, judged)
    <3>1. e \in Entries /\ e.id.store = "session" /\ e.names \subseteq B
      <4>1. judged \in SUBSET Types
        BY DEF Types
      <4> HIDE DEF judged, Noted
      <4> QED  BY <1>1, <1>2, <4>1
    <3> HIDE DEF e
    <3>2. Good(<<e>>)
      BY <3>1 DEF NamesIn, Ids
    <3> QED  BY <3>2 DEF e
  <2>2. /\ Good(<<Noted("candidate_validated", judged)>>)
        /\ Good(<<Noted("safety_gate_evaluated", judged)>>)
        /\ Good(<<Noted("candidate_rejected", judged)>>)
    <3>1. /\ "candidate_validated" \in Types
          /\ "safety_gate_evaluated" \in Types
          /\ "candidate_rejected" \in Types
      BY DEF Types
    <3> HIDE DEF Good, Noted, judged
    <3> QED  BY <2>1, <3>1
  <2> HIDE DEF Good, Noted, judged
  <2> QED  BY <1>3, <2>2 DEF When
<1>5. Good(b)
  <2>1. CASE o.instantiated
    <3> DEFINE e == Noted("instantiation_recorded", {"instantiation"})
               f == Noted("execution_reconciled", judged \cup {"instantiation"})
    <3>1. /\ e \in Entries /\ e.id.store = "session" /\ e.names \subseteq B
          /\ f \in Entries /\ f.id.store = "session" /\ f.names \subseteq B
      <4>1. /\ {"instantiation"} \in SUBSET Types
            /\ judged \cup {"instantiation"} \in SUBSET Types
            /\ "instantiation_recorded" \in Types
            /\ "execution_reconciled" \in Types
        BY DEF Types
      <4> HIDE DEF judged, Noted
      <4> QED  BY <1>1, <1>2, <2>1, <4>1
    <3>2. b = <<e, f>>
      BY <2>1 DEF When
    <3> HIDE DEF e, f
    <3>3. Good(<<e, f>>)
      BY <3>1 DEF NamesIn, Ids
    <3> QED  BY <3>2, <3>3
  <2>2. CASE ~o.instantiated
    BY <1>3, <2>2 DEF When
  <2> QED  BY <2>1, <2>2
<1>6. ASSUME NEW s, NEW t, Good(s), Good(t) PROVE Good(s \o t)
  BY <1>6, ConcatProperties, NamesInConcat, IdsConcat
<1>7. Events(n, o) = a \o b \o c \o d
  BY DEF Events
<1> HIDE DEF a, b, c, d, Good
<1>8. Good(a \o b \o c \o d)
  BY <1>4, <1>5, <1>6
<1> QED  BY <1>7, <1>8 DEF Good

LEMMA AuditsWritten ==
    ASSUME NEW n \in Nat, NEW s \in Seq(Entries), NEW t \in Seq(Entries)
    PROVE  /\ Audits(n, s, t) \in Seq(Entries)
           /\ NamesIn(Ids(s) \cup Ids(t), Audits(n, s, t))
<1> DEFINE first == <<Entry(n, "audit", "snapshots", Ids(s))>>
           E(i) == Entry(n, "audit", t[i].id.type, {t[i].id})
           each == [i \in DOMAIN t |-> E(i)]
           B == Ids(s) \cup Ids(t)
<1>1. ASSUME NEW u \in Seq(Entries), NEW i \in DOMAIN u
      PROVE  u[i] \in Entries /\ u[i].id \in EntryIds /\ u[i].id.type \in Types
  <2>1. u[i] \in Entries
    BY ElementOfSeq, LenProperties
  <2> QED  BY <2>1 DEF Entries, EntryIds
<1>2. first \in Seq(Entries) /\ NamesIn(B, first)
  <2> DEFINE e == Entry(n, "audit", "snapshots", Ids(s))
  <2>1. Ids(s) \in SUBSET EntryIds
    BY <1>1 DEF Ids
  <2>2. e \in Entries /\ e.names \subseteq B
    BY <2>1, EntryType DEF Types, Stores
  <2> HIDE DEF e
  <2>3. <<e>> \in Seq(Entries) /\ NamesIn(B, <<e>>)
    BY <2>2 DEF NamesIn
  <2> QED  BY <2>3 DEF e
<1>3. each \in Seq(Entries) /\ NamesIn(B, each)
  <2>1. ASSUME NEW i \in DOMAIN t
        PROVE  E(i) \in Entries /\ E(i).names \subseteq B
    <3>1. t[i].id \in EntryIds /\ t[i].id.type \in Types /\ t[i].id \in B
      BY <1>1 DEF Ids
    <3> QED  BY <3>1, EntryType DEF Stores
  <2>2. DOMAIN t = 1 .. Len(t) /\ Len(t) \in Nat
    BY LenProperties
  <2> HIDE DEF E
  <2>3. each \in [1 .. Len(t) -> Entries]
    BY <2>1, <2>2
  <2>4. each \in Seq(Entries)
    BY <2>2, <2>3, SeqDef
  <2> QED  BY <2>1, <2>4 DEF NamesIn
<1>4. Audits(n, s, t) = first \o each
  BY DEF Audits
<1> HIDE DEF first, each, B
<1>5. first \o each \in Seq(Entries) /\ NamesIn(B, first \o each)
  BY <1>2, <1>3, ConcatProperties, NamesInConcat
<1> QED  BY <1>4, <1>5 DEF B

Written(w) == w \in Seq(Entries) /\ Grounded({}, w)

(* The order in which record writes is a grounded one, whatever it is      *)
(* called with.                                                            *)
LEMMA RecordGrounded ==
    \A n \in Nat, o \in Outcomes : Written(RecordWrites(n, o))
<1>1. SUFFICES ASSUME NEW n \in Nat, NEW o \in Outcomes
               PROVE  Written(RecordWrites(n, o))
  OBVIOUS
<1> DEFINE s == Snapshots(n, o)
           t == Events(n, o)
           a == Audits(n, s, t)
<1>2. /\ s \in Seq(Entries) /\ Grounded({}, s)
      /\ \A id \in Ids(s) : id.store # "audit"
  BY SnapshotsWritten DEF Named, Id
<1>3. /\ t \in Seq(Entries) /\ NamesIn(Ids(s), t)
      /\ \A id \in Ids(t) : id.store # "audit"
  BY EventsWritten
<1>4. a \in Seq(Entries) /\ NamesIn(Ids(s) \cup Ids(t), a)
  BY <1>2, <1>3, AuditsWritten
<1>5. RecordWrites(n, o) = (s \o t) \o a
  BY DEF RecordWrites
<1> HIDE DEF s, t, a
<1>6. Grounded({} \cup Ids(s), t)
  BY <1>2, <1>3, NamesInGrounded
<1>7. /\ s \o t \in Seq(Entries) /\ Grounded({}, s \o t)
      /\ Ids(s \o t) = Ids(s) \cup Ids(t)
  BY <1>2, <1>3, <1>6, ConcatProperties, GroundedConcat, IdsConcat
<1>8. Grounded({} \cup Ids(s \o t), a)
  <2>1. \A id \in Ids(s \o t) : id.store # "audit"
    BY <1>2, <1>3, <1>7
  <2> QED  BY <1>4, <1>7, <2>1, NamesInGrounded
<1>9. (s \o t) \o a \in Seq(Entries) /\ Grounded({}, (s \o t) \o a)
  BY <1>4, <1>7, <1>8, ConcatProperties, GroundedConcat
<1> QED  BY <1>5, <1>9 DEF Written

LEMMA PairGrounded ==
    \A n \in Nat, store \in {"artifacts", "session"}, type \in Types :
        Written(<<Entry(n, store, type, {}),
                  Entry(n, "audit", type, Named(n, store, {type}))>>)
<1>1. SUFFICES ASSUME NEW n \in Nat, NEW store \in {"artifacts", "session"},
                      NEW type \in Types
               PROVE  Written(<<Entry(n, store, type, {}),
                                Entry(n, "audit", type, Named(n, store, {type}))>>)
  OBVIOUS
<1> DEFINE e == Entry(n, store, type, {})
           f == Entry(n, "audit", type, Named(n, store, {type}))
<1>2. /\ Named(n, store, {type}) = {Id(n, store, type)}
      /\ Id(n, store, type) \in EntryIds /\ Id(n, store, type).store # "audit"
  BY DEF Named, Id, EntryIds, Stores
<1>3. /\ e \in Entries /\ e.names = {} /\ e.id = Id(n, store, type)
      /\ f \in Entries /\ f.names = {Id(n, store, type)}
  <2>1. {} \in SUBSET EntryIds /\ {Id(n, store, type)} \in SUBSET EntryIds
    BY <1>2
  <2>2. store \in Stores /\ "audit" \in Stores
    BY DEF Stores
  <2>3. e \in Entries /\ e.names = {} /\ e.id = Id(n, store, type)
    BY <2>1, <2>2, EntryType
  <2>4. f = Entry(n, "audit", type, {Id(n, store, type)})
    BY <1>2
  <2> HIDE DEF f
  <2>5. f \in Entries /\ f.names = {Id(n, store, type)}
    BY <2>1, <2>2, <2>4, EntryType
  <2> QED  BY <2>3, <2>5
<1> HIDE DEF e, f
<1>4. <<e, f>> \in Seq(Entries) /\ DOMAIN <<e, f>> = {1, 2}
  BY <1>3
<1>5. Grounded({}, <<e, f>>)
  BY <1>2, <1>3, <1>4 DEF Grounded
<1>6. Written(<<e, f>>)
  BY <1>4, <1>5 DEF Written
<1> QED  BY <1>6 DEF e, f

LEMMA PairsWritten ==
    \A n \in Nat : /\ Written(RuntimeEventWrites(n))
                   /\ Written(DependencyGraphWrites(n))
  BY PairGrounded DEF RuntimeEventWrites, DependencyGraphWrites, Types

------------------------------------------------------------------------------
(* What the files hold                                                     *)

LEMMA AppendEntry ==
    \A s \in Seq(Entries), e \in Entries :
        /\ Append(s, e) \in Seq(Entries)
        /\ Ids(Append(s, e)) = Ids(s) \cup {e.id}
        /\ \A B, C : B \subseteq C /\ NamesIn(B, s) /\ e.names \subseteq C
                        => NamesIn(C, Append(s, e))
<1>1. SUFFICES ASSUME NEW s \in Seq(Entries), NEW e \in Entries
               PROVE  /\ Append(s, e) \in Seq(Entries)
                      /\ Ids(Append(s, e)) = Ids(s) \cup {e.id}
                      /\ \A B, C : B \subseteq C /\ NamesIn(B, s) /\ e.names \subseteq C
                                      => NamesIn(C, Append(s, e))
  OBVIOUS
<1>2. /\ Append(s, e) \in Seq(Entries) /\ Len(Append(s, e)) = Len(s) + 1
      /\ \A i \in 1 .. Len(s) : Append(s, e)[i] = s[i]
      /\ Append(s, e)[Len(s) + 1] = e
  BY AppendProperties
<1>3. /\ DOMAIN s = 1 .. Len(s) /\ Len(s) \in Nat
      /\ DOMAIN Append(s, e) = 1 .. Len(s) + 1
  BY <1>2, LenProperties
<1>4. \A i \in DOMAIN Append(s, e) : i \in DOMAIN s \/ i = Len(s) + 1
  BY <1>3
<1>5. DOMAIN s \subseteq DOMAIN Append(s, e) /\ Len(s) + 1 \in DOMAIN Append(s, e)
  BY <1>3
<1>6. \A i \in DOMAIN s : Append(s, e)[i] = s[i]
  BY <1>2, <1>3
<1> HIDE DEF Entries
<1>7. Ids(Append(s, e)) = Ids(s) \cup {e.id}
  <2>1. Ids(Append(s, e)) \subseteq Ids(s) \cup {e.id}
    BY <1>2, <1>4, <1>6 DEF Ids
  <2>2. Ids(s) \cup {e.id} \subseteq Ids(Append(s, e))
    BY <1>2, <1>5, <1>6 DEF Ids
  <2> QED  BY <2>1, <2>2
<1>8. ASSUME NEW B, NEW C, B \subseteq C, NamesIn(B, s), e.names \subseteq C
      PROVE  NamesIn(C, Append(s, e))
  BY <1>2, <1>4, <1>6, <1>8 DEF NamesIn
<1> QED  BY <1>2, <1>7, <1>8


(* The lines of the audit file carry roots, of which nothing needs saying. *)
IsFile(s) == \E T : s \in Seq(T)
LineIds(s) == {s[i].entry.id : i \in DOMAIN s}
LinesNameIn(B, s) == \A i \in DOMAIN s : s[i].entry.names \subseteq B

LEMMA AppendLine ==
    \A s, line : IsFile(s) =>
        /\ IsFile(Append(s, line)) /\ Append(s, line) # <<>>
        /\ LineIds(Append(s, line)) = LineIds(s) \cup {line.entry.id}
        /\ \A B, C : B \subseteq C /\ LinesNameIn(B, s) /\ line.entry.names \subseteq C
                        => LinesNameIn(C, Append(s, line))
<1>1. SUFFICES ASSUME NEW s, NEW line, NEW T, s \in Seq(T)
               PROVE  /\ IsFile(Append(s, line)) /\ Append(s, line) # <<>>
                      /\ LineIds(Append(s, line)) = LineIds(s) \cup {line.entry.id}
                      /\ \A B, C : B \subseteq C /\ LinesNameIn(B, s)
                                     /\ line.entry.names \subseteq C
                                      => LinesNameIn(C, Append(s, line))
  BY DEF IsFile
<1> DEFINE U == T \cup {line}
<1>2. s \in Seq(U) /\ line \in U
  <2>1. s \in [1 .. Len(s) -> T] /\ Len(s) \in Nat
    BY <1>1, LenProperties
  <2>2. s \in [1 .. Len(s) -> U]
    BY <2>1
  <2> QED  BY <2>1, <2>2, SeqDef
<1> HIDE DEF U
<1>3. /\ Append(s, line) \in Seq(U) /\ Len(Append(s, line)) = Len(s) + 1
      /\ \A i \in 1 .. Len(s) : Append(s, line)[i] = s[i]
      /\ Append(s, line)[Len(s) + 1] = line
  BY <1>2, AppendProperties
<1>4. /\ DOMAIN s = 1 .. Len(s) /\ Len(s) \in Nat
      /\ DOMAIN Append(s, line) = 1 .. Len(s) + 1
  BY <1>2, <1>3, LenProperties
<1>5. \A i \in DOMAIN Append(s, line) : i \in DOMAIN s \/ i = Len(s) + 1
  BY <1>4
<1>6. /\ DOMAIN s \subseteq DOMAIN Append(s, line)
      /\ Len(s) + 1 \in DOMAIN Append(s, line)
  BY <1>4
<1>7. \A i \in DOMAIN s : Append(s, line)[i] = s[i]
  BY <1>3, <1>4
<1>8. LineIds(Append(s, line)) = LineIds(s) \cup {line.entry.id}
  <2>1. LineIds(Append(s, line)) \subseteq LineIds(s) \cup {line.entry.id}
    BY <1>3, <1>5, <1>7 DEF LineIds
  <2>2. LineIds(s) \cup {line.entry.id} \subseteq LineIds(Append(s, line))
    BY <1>3, <1>6, <1>7 DEF LineIds
  <2> QED  BY <2>1, <2>2
<1>9. ASSUME NEW B, NEW C, B \subseteq C, LinesNameIn(B, s),
             line.entry.names \subseteq C
      PROVE  LinesNameIn(C, Append(s, line))
  BY <1>3, <1>5, <1>7, <1>9 DEF LinesNameIn
<1>10. IsFile(Append(s, line)) /\ Append(s, line) # <<>>
  BY <1>3, <1>6 DEF IsFile
<1> QED  BY <1>8, <1>9, <1>10

------------------------------------------------------------------------------
(* The invariant                                                           *)

Held == Ids(artifactFile) \cup Ids(sessionFile)

(* The entry of this id can be read back, if its store has a file.         *)
InFile(id) ==
    /\ id.store = "artifacts" => id \in Ids(artifactFile)
    /\ id.store = "session" => id \in Ids(sessionFile)
    /\ id.store = "audit" /\ Kept => id \in LineIds(auditFile)

FilesTyped ==
    /\ artifactFile \in Seq(Entries) /\ sessionFile \in Seq(Entries)
    /\ IsFile(auditFile)

CallTyped ==
    /\ calls \in Nat /\ step \in Nat \ {0} /\ Written(writes)
    /\ writes = <<>> => step = 1

AllNamesHeld ==
    /\ NamesIn(Held, artifactFile) /\ NamesIn(Held, sessionFile)
    /\ LinesNameIn(Held, auditFile)

WrittenSoFar == \A i \in DOMAIN writes : i < step => InFile(writes[i].id)
ReturnedInFile == \A id \in returned : InFile(id)

Inv == FilesTyped /\ CallTyped /\ AllNamesHeld /\ WrittenSoFar /\ ReturnedInFile

LEMMA EmptyWritten == Written(<<>>)
  BY EmptyEntries DEF Written, Grounded

LEMMA InvInit == Init => Inv
<1>1. SUFFICES ASSUME Init PROVE Inv
  OBVIOUS
<1> USE <1>1
<1>2. FilesTyped
  <2>1. \A r : IsFile(<<r>>)
    <3>1. ASSUME NEW r PROVE <<r>> \in Seq({r})
      OBVIOUS
    <3> QED  BY <3>1 DEF IsFile
  <2>2. IsFile(<<>>)
    BY EmptyEntries DEF IsFile
  <2> QED  BY <2>1, <2>2, EmptyEntries DEF FilesTyped, Init
<1>3. CallTyped
  BY EmptyWritten DEF CallTyped, Init
<1>4. AllNamesHeld
  <2>1. \A r : r.entry.names = {} => LinesNameIn(Held, <<r>>)
    BY DEF LinesNameIn
  <2>2. RecordOf(NoLog, Seed).entry.names = {}
    BY DEF RecordOf, Seed, Entry
  <2>3. LinesNameIn(Held, <<>>) /\ NamesIn(Held, <<>>)
    BY DEF LinesNameIn, NamesIn
  <2> QED  BY <2>1, <2>2, <2>3 DEF AllNamesHeld, Init
<1>5. WrittenSoFar /\ ReturnedInFile
  BY DEF WrittenSoFar, ReturnedInFile, Init
<1> QED  BY <1>2, <1>3, <1>4, <1>5 DEF Inv

(* What the next write names is held already: it was written before.       *)
LEMMA ComingHeld ==
    ASSUME Inv, step \in DOMAIN writes
    PROVE  Coming \in Entries /\ Coming.names \subseteq Held
<1>1. Coming \in Entries
  BY ElementOfSeq, LenProperties DEF Inv, CallTyped, Written, Coming
<1>2. ASSUME NEW id \in Coming.names PROVE id \in Held
  <2>1. id \in EntryIds
    BY <1>1 DEF Entries
  <2>2. PICK j \in DOMAIN writes : j < step /\ writes[j].id = id
    BY <1>2 DEF Inv, CallTyped, Written, Grounded, Coming
  <2>3. id.store # "audit"
    BY <1>2 DEF Inv, CallTyped, Written, Grounded, Coming
  <2>4. InFile(id)
    BY <2>2 DEF Inv, WrittenSoFar
  <2> QED  BY <2>1, <2>3, <2>4 DEF InFile, Held, EntryIds, Stores
<1> QED  BY <1>1, <1>2

(* A step that leaves the files alone.                                     *)
LEMMA FilesSame ==
    ASSUME Inv, UNCHANGED <<artifactFile, sessionFile, auditFile>>
    PROVE  /\ FilesTyped' /\ AllNamesHeld'
           /\ \A id : InFile(id) => InFile(id)'
  BY DEF Inv, FilesTyped, AllNamesHeld, InFile, Held, Kept, NamesIn,
         LinesNameIn

(* A write that has reached its file.                                      *)
LEMMA GoneOn ==
    ASSUME Inv, GoOn, step \in DOMAIN writes,
           \A id : InFile(id) \/ id = Coming.id => InFile(id)'
    PROVE  CallTyped' /\ WrittenSoFar' /\ ReturnedInFile'
<1>1. writes' = writes /\ step' = step + 1 /\ calls' = calls
      /\ returned' = returned /\ step \in Nat \ {0}
  BY DEF GoOn, histVars, Inv, CallTyped
<1>2. CallTyped'
  <2>1. writes # <<>>
    OBVIOUS
  <2> QED  BY <1>1, <2>1 DEF Inv, CallTyped
<1>3. WrittenSoFar'
  <2>1. SUFFICES ASSUME NEW i \in DOMAIN writes, i < step + 1
                 PROVE  InFile(writes[i].id)'
    BY <1>1 DEF WrittenSoFar
  <2>2. DOMAIN writes = 1 .. Len(writes) /\ Len(writes) \in Nat
    BY LenProperties DEF Inv, CallTyped, Written
  <2>3. i < step \/ i = step
    BY <1>1, <2>1, <2>2
  <2>4. InFile(writes[i].id) \/ writes[i].id = Coming.id
    BY <2>3 DEF Inv, WrittenSoFar, Coming
  <2>5. \A id : id = writes[i].id => InFile(id)'
    BY <2>4
  <2> QED  BY <1>1, <2>5
<1>4. ReturnedInFile'
  BY <1>1 DEF Inv, ReturnedInFile
<1> QED  BY <1>2, <1>3, <1>4

(* A step after which no call is going on.                                 *)
LEMMA NoneGoingOn ==
    ASSUME Inv, NoCall, UNCHANGED <<artifactFile, sessionFile, auditFile>>,
           \A id \in returned' : InFile(id)
    PROVE  Inv'
<1>1. /\ FilesTyped' /\ AllNamesHeld'
      /\ \A id : InFile(id) => InFile(id)'
  BY FilesSame
<1>2. CallTyped'
  BY EmptyWritten DEF NoCall, Inv, CallTyped
<1>3. WrittenSoFar' /\ ReturnedInFile'
  BY <1>1 DEF NoCall, WrittenSoFar, ReturnedInFile
<1> QED  BY <1>1, <1>2, <1>3 DEF Inv

(* A call begins with nothing written yet.                                 *)
LEMMA BeginKeeps ==
    \A entries : Inv /\ Written(entries) /\ Begin(entries) => Inv'
<1>1. SUFFICES ASSUME NEW entries, Inv, Written(entries), Begin(entries)
               PROVE  Inv'
  OBVIOUS
<1>2. /\ writes' = entries /\ calls' = calls + 1 /\ step' = 1
      /\ returned' = returned
      /\ UNCHANGED <<artifactFile, sessionFile, auditFile>>
  BY <1>1 DEF Begin, Inv, CallTyped, histVars, artifactVars, auditVars
<1>3. /\ FilesTyped' /\ AllNamesHeld'
      /\ \A id : InFile(id) => InFile(id)'
  BY <1>1, <1>2, FilesSame
<1>4. CallTyped'
  <2>1. calls' \in Nat
    BY <1>1, <1>2 DEF Inv, CallTyped
  <2> QED  BY <1>1, <1>2, <2>1 DEF CallTyped
<1>5. WrittenSoFar'
  <2>1. DOMAIN entries = 1 .. Len(entries) /\ Len(entries) \in Nat
    BY <1>1, LenProperties DEF Written
  <2>2. \A i \in DOMAIN entries : ~(i < 1)
    BY <2>1
  <2> QED  BY <1>2, <2>2 DEF WrittenSoFar
<1>6. ReturnedInFile'
  BY <1>1, <1>2, <1>3 DEF Inv, ReturnedInFile
<1> QED  BY <1>3, <1>4, <1>5, <1>6 DEF Inv

LEMMA SaveKeeps == Inv /\ Save => Inv'
<1>1. SUFFICES ASSUME Inv, Save PROVE Inv'
  OBVIOUS
<1>2. /\ step \in DOMAIN writes /\ Coming.id.store = "artifacts" /\ GoOn
      /\ artifactFile' = Append(artifactFile, Coming)
      /\ UNCHANGED <<sessionFile, auditFile>>
  BY <1>1 DEF Save, Doing
<1>3. Coming \in Entries /\ Coming.names \subseteq Held
  BY <1>1, <1>2, ComingHeld
<1>4. /\ artifactFile' \in Seq(Entries)
      /\ Ids(artifactFile') = Ids(artifactFile) \cup {Coming.id}
      /\ \A B, C : B \subseteq C /\ NamesIn(B, artifactFile)
                     /\ Coming.names \subseteq C => NamesIn(C, artifactFile')
  BY <1>1, <1>2, <1>3, AppendEntry DEF Inv, FilesTyped
<1>5. Held' = Held \cup {Coming.id}
  BY <1>2, <1>4 DEF Held
<1>6. FilesTyped'
  BY <1>1, <1>2, <1>4 DEF Inv, FilesTyped
<1>7. AllNamesHeld'
  BY <1>1, <1>2, <1>3, <1>4, <1>5 DEF Inv, AllNamesHeld, NamesIn, LinesNameIn
<1>8. \A id : InFile(id) \/ id = Coming.id => InFile(id)'
  BY <1>2, <1>4 DEF InFile, Kept
<1> QED  BY <1>1, <1>2, <1>6, <1>7, <1>8, GoneOn DEF Inv

LEMMA AppendEventKeeps == Inv /\ AppendEvent => Inv'
<1>1. SUFFICES ASSUME Inv, AppendEvent PROVE Inv'
  OBVIOUS
<1>2. /\ step \in DOMAIN writes /\ Coming.id.store = "session" /\ GoOn
      /\ sessionFile' = Append(sessionFile, Coming)
      /\ UNCHANGED <<artifactFile, auditFile>>
  BY <1>1 DEF AppendEvent, Doing
<1>3. Coming \in Entries /\ Coming.names \subseteq Held
  BY <1>1, <1>2, ComingHeld
<1>4. /\ sessionFile' \in Seq(Entries)
      /\ Ids(sessionFile') = Ids(sessionFile) \cup {Coming.id}
      /\ \A B, C : B \subseteq C /\ NamesIn(B, sessionFile)
                     /\ Coming.names \subseteq C => NamesIn(C, sessionFile')
  BY <1>1, <1>2, <1>3, AppendEntry DEF Inv, FilesTyped
<1>5. Held' = Held \cup {Coming.id}
  BY <1>2, <1>4 DEF Held
<1>6. FilesTyped'
  BY <1>1, <1>2, <1>4 DEF Inv, FilesTyped
<1>7. AllNamesHeld'
  BY <1>1, <1>2, <1>3, <1>4, <1>5 DEF Inv, AllNamesHeld, NamesIn, LinesNameIn
<1>8. \A id : InFile(id) \/ id = Coming.id => InFile(id)'
  BY <1>2, <1>4 DEF InFile, Kept
<1> QED  BY <1>1, <1>2, <1>6, <1>7, <1>8, GoneOn DEF Inv

LEMMA AppendAuditKeeps == Inv /\ AppendAudit => Inv'
<1>1. SUFFICES ASSUME Inv, AppendAudit PROVE Inv'
  OBVIOUS
<1>2. /\ step \in DOMAIN writes /\ Coming.id.store = "audit" /\ GoOn
      /\ auditFile' = IF Kept THEN Append(auditFile, RecordOf(Log, Coming))
                      ELSE auditFile
      /\ UNCHANGED <<artifactFile, sessionFile>>
  BY <1>1 DEF AppendAudit, Doing
<1>3. Coming \in Entries /\ Coming.names \subseteq Held
  BY <1>1, <1>2, ComingHeld
<1>4. Held' = Held
  BY <1>2 DEF Held
<1>5. RecordOf(Log, Coming).entry = Coming
  BY DEF RecordOf
<1>6. CASE Kept
  <2> DEFINE line == RecordOf(Log, Coming)
  <2>1. line.entry = Coming /\ auditFile' = Append(auditFile, line)
    BY <1>2, <1>5, <1>6
  <2> HIDE DEF line
  <2>2. /\ IsFile(auditFile') /\ auditFile' # <<>>
        /\ LineIds(auditFile') = LineIds(auditFile) \cup {Coming.id}
        /\ \A B, C : B \subseteq C /\ LinesNameIn(B, auditFile)
                       /\ Coming.names \subseteq C => LinesNameIn(C, auditFile')
    BY <1>1, <2>1, AppendLine DEF Inv, FilesTyped
  <2>3. FilesTyped'
    BY <1>1, <1>2, <2>2 DEF Inv, FilesTyped
  <2>4. AllNamesHeld'
    BY <1>1, <1>2, <1>3, <1>4, <2>2 DEF Inv, AllNamesHeld
  <2>5. \A id : InFile(id) \/ id = Coming.id => InFile(id)'
    BY <1>2, <1>6, <2>2 DEF InFile, Kept
  <2> QED  BY <1>1, <1>2, <2>3, <2>4, <2>5, GoneOn DEF Inv
<1>7. CASE ~Kept
  <2>1. UNCHANGED <<artifactFile, sessionFile, auditFile>>
    BY <1>2, <1>7
  <2>2. /\ FilesTyped' /\ AllNamesHeld'
        /\ \A id : InFile(id) => InFile(id)'
    BY <1>1, <2>1, FilesSame
  <2>3. \A id : InFile(id) \/ id = Coming.id => InFile(id)'
    BY <1>2, <1>7, <2>1, <2>2 DEF InFile, Kept
  <2> QED  BY <1>1, <1>2, <2>2, <2>3, GoneOn DEF Inv
<1> QED  BY <1>6, <1>7

LEMMA ReturnKeeps == Inv /\ Return => Inv'
<1>1. SUFFICES ASSUME Inv, Return PROVE Inv'
  OBVIOUS
<1>2. /\ step > Len(writes) /\ returned' = returned \cup Ids(writes) /\ NoCall
      /\ UNCHANGED <<artifactFile, sessionFile, auditFile>>
  BY <1>1 DEF Return, artifactVars, auditVars
<1>3. DOMAIN writes = 1 .. Len(writes) /\ Len(writes) \in Nat /\ step \in Nat
  BY <1>1, LenProperties DEF Inv, CallTyped, Written
<1>4. \A i \in DOMAIN writes : i < step
  BY <1>2, <1>3
<1>5. \A id \in Ids(writes) : InFile(id)
  BY <1>1, <1>4 DEF Inv, WrittenSoFar, Ids
<1>6. \A id \in returned' : InFile(id)
  BY <1>1, <1>2, <1>5 DEF Inv, ReturnedInFile
<1> QED  BY <1>1, <1>2, <1>6, NoneGoingOn

LEMMA FaultKeeps ==
    Inv /\ (Crash \/ \E store \in Stores : WriteRaises(store)) => Inv'
<1>1. SUFFICES ASSUME Inv, Crash \/ \E store \in Stores : WriteRaises(store)
               PROVE  Inv'
  OBVIOUS
<1>2. /\ NoCall /\ returned' = returned
      /\ UNCHANGED <<artifactFile, sessionFile, auditFile>>
  BY <1>1 DEF Crash, WriteRaises
<1>3. \A id \in returned' : InFile(id)
  BY <1>1, <1>2 DEF Inv, ReturnedInFile
<1> QED  BY <1>1, <1>2, <1>3, NoneGoingOn

LEMMA UnchangedKeeps ==
    ASSUME Inv, UNCHANGED <<callVars, returned, artifactFile, sessionFile,
                            auditFile>>
    PROVE  Inv'
<1>1. /\ FilesTyped' /\ AllNamesHeld'
      /\ \A id : InFile(id) => InFile(id)'
  BY FilesSame
<1>2. CallTyped'
  BY DEF callVars, Inv, CallTyped
<1>3. WrittenSoFar'
  BY <1>1 DEF callVars, Inv, WrittenSoFar
<1>4. ReturnedInFile'
  BY <1>1 DEF Inv, ReturnedInFile
<1> QED  BY <1>1, <1>2, <1>3, <1>4 DEF Inv

LEMMA InvNext == Inv /\ [Next]_vars => Inv'
<1>1. SUFFICES ASSUME Inv, [Next]_vars PROVE Inv'
  OBVIOUS
<1>2. calls + 1 \in Nat
  BY <1>1 DEF Inv, CallTyped
<1>3. CASE Start
  BY <1>1, <1>3, UnchangedKeeps DEF Start, histVars
<1>4. CASE \E o \in Outcomes : Record(o)
  BY <1>1, <1>2, <1>4, BeginKeeps, RecordGrounded DEF Record
<1>5. CASE RuntimeEvent \/ DependencyGraph
  BY <1>1, <1>2, <1>5, BeginKeeps, PairsWritten DEF RuntimeEvent, DependencyGraph
<1>6. CASE Save
  BY <1>1, <1>6, SaveKeeps
<1>7. CASE AppendEvent
  BY <1>1, <1>7, AppendEventKeeps
<1>8. CASE AppendAudit
  BY <1>1, <1>8, AppendAuditKeeps
<1>9. CASE \E store \in Stores : WriteRaises(store)
  BY <1>1, <1>9, FaultKeeps
<1>10. CASE Return
  BY <1>1, <1>10, ReturnKeeps
<1>11. CASE Crash
  BY <1>1, <1>11, FaultKeeps
<1>12. CASE UNCHANGED vars
  BY <1>1, <1>12, UnchangedKeeps DEF vars, histVars, artifactVars, auditVars
<1> QED  BY <1>1, <1>3, <1>4, <1>5, <1>6, <1>7, <1>8, <1>9, <1>10, <1>11, <1>12
         DEF Next

LEMMA InvAlways == Spec => []Inv
  BY InvInit, InvNext, PTL DEF Spec

(* Of any number of calls and with any number of writes that raise and of  *)
(* crashes, what can be read back names only what can be read back         *)
(* (record, _append_runtime_evidence, _persist_dependency_graph).          *)
THEOREM NamesAlwaysResolve == Spec => []NamesResolve
<1>1. Inv => NamesResolve
  BY DEF Inv, AllNamesHeld, NamesIn, LinesNameIn, Held, NamesResolve
<1> QED  BY <1>1, InvAlways, PTL

(* What a call that returned was to write can be read back ever after; an  *)
(* audit record when the runtime's audit log has its file.                 *)
THEOREM ReturnedAlwaysStored == Spec => []ReturnedIsStored
<1>1. Inv => ReturnedIsStored
  BY DEF Inv, ReturnedInFile, InFile, ReturnedIsStored, Of, InAuditFile, LineIds
<1> QED  BY <1>1, InvAlways, PTL

------------------------------------------------------------------------------
(* Folds: a fold over a sequence takes its elements from the first on      *)

LEMMA GreatestOf ==
    ASSUME NEW n \in Nat, NEW s \in SUBSET (1 .. n), s # {}
    PROVE  Max(s) \in s /\ \A y \in s : Max(s) >= y
<1> DEFINE U == {u \in Nat : \A y \in s : y <= u}
<1>1. U \subseteq Nat /\ n \in U
  OBVIOUS
<1>2. PICK u \in U : \A v \in U : u <= v
  <2> HIDE DEF U
  <2> QED  BY <1>1, LeastOfNaturals
<1>3. ASSUME u \notin s PROVE FALSE
  <2>1. PICK y \in s : TRUE
    OBVIOUS
  <2>2. u \in Nat /\ y \in 1 .. n /\ y <= u
    BY <1>2, <2>1
  <2>3. u - 1 \in Nat
    BY <2>2
  <2>4. \A z \in s : z \in Nat /\ z <= u /\ z # u
    BY <1>2, <1>3
  <2>5. \A z \in s : z <= u - 1
    BY <2>2, <2>4
  <2>6. ~(u <= u - 1)
    BY <2>2
  <2> QED  BY <1>2, <2>3, <2>5, <2>6
<1>4. u \in s /\ \A y \in s : u >= y
  BY <1>2, <1>3
<1>5. \E x \in s : \A y \in s : x >= y
  BY <1>4
<1> QED  BY <1>5 DEF Max

LEMMA GreatestIs ==
    ASSUME NEW n \in Nat, NEW s \in SUBSET (1 .. n), NEW x \in s,
           \A y \in s : x >= y
    PROVE  Max(s) = x
<1>1. Max(s) \in s /\ \A y \in s : Max(s) >= y
  BY GreatestOf
<1>2. x \in Nat /\ Max(s) \in Nat /\ x >= Max(s) /\ Max(s) >= x
  <2>1. \A y \in s : y \in Nat
    OBVIOUS
  <2> HIDE DEF Max
  <2> QED  BY <1>1, <2>1
<1> QED  BY <1>2

(* The logs a reload goes through, line by line.                           *)
Reloads(log, file) ==
    /\ log[0] = NoLog
    /\ \A k \in 1 .. Len(file) : log[k] = Anchored(log[k - 1], file[k].entry)

LEMMA ReloadedInSteps ==
    ASSUME NEW T, NEW file \in Seq(T)
    PROVE  \E log : Reloads(log, file) /\ Reloaded(file) = log[Len(file)]
<1> DEFINE n == Len(file)
           Body(g, s) == IF s = {} THEN NoLog
                         ELSE Anchored(g[s \ {Max(s)}], file[Max(s)].entry)
           Eq(g, m) == g = [s \in SUBSET (1 .. m) |-> Body(g, s)]
           S == {m \in Nat : m <= n => \E g : Eq(g, m)}
<1>1. n \in Nat /\ DOMAIN file = 1 .. n
  BY LenProperties
<1>2. 0 \in S
  <2> DEFINE g == [s \in SUBSET (1 .. 0) |-> NoLog]
  <2>1. \A s \in SUBSET (1 .. 0) : s = {}
    OBVIOUS
  <2>2. Eq(g, 0)
    BY <2>1
  <2> QED  BY <2>2
<1>3. ASSUME NEW m \in Nat, m \in S PROVE m + 1 \in S
  <2>1. SUFFICES ASSUME m + 1 <= n PROVE \E g : Eq(g, m + 1)
    <3> HIDE DEF Eq
    <3> QED  OBVIOUS
  <2>2. PICK g : Eq(g, m)
    <3> HIDE DEF Eq
    <3>1. m <= n
      BY <1>1, <2>1
    <3> QED  BY <1>3, <3>1
  <2> DEFINE h == [s \in SUBSET (1 .. m + 1) |->
                      IF m + 1 \in s
                        THEN Anchored(g[s \ {m + 1}], file[m + 1].entry)
                        ELSE g[s]]
  <2>3. ASSUME NEW s \in SUBSET (1 .. m + 1) PROVE h[s] = Body(h, s)
    <3>1. CASE m + 1 \in s
      <4>1. Max(s) = m + 1
        <5>1. m + 1 \in Nat /\ \A y \in s : m + 1 >= y
          OBVIOUS
        <5> QED  BY <3>1, <5>1, GreatestIs
      <4>2. s \ {m + 1} \in SUBSET (1 .. m + 1) /\ m + 1 \notin s \ {m + 1}
        OBVIOUS
      <4>3. h[s \ {m + 1}] = g[s \ {m + 1}]
        BY <4>2
      <4>4. h[s] = Anchored(g[s \ {m + 1}], file[m + 1].entry)
        BY <3>1
      <4> HIDE DEF h
      <4> QED  BY <3>1, <4>1, <4>3, <4>4
    <3>2. CASE m + 1 \notin s
      <4>1. s \in SUBSET (1 .. m) /\ s \ {Max(s)} \in SUBSET (1 .. m)
        <5>1. \A x \in s : x \in 1 .. m
          BY <3>2
        <5> QED  BY <5>1
      <4>2. h[s] = g[s] /\ h[s \ {Max(s)}] = g[s \ {Max(s)}]
        <5>1. s \ {Max(s)} \in SUBSET (1 .. m + 1) /\ m + 1 \notin s \ {Max(s)}
          BY <3>2
        <5> QED  BY <3>2, <5>1
      <4>3. g[s] = Body(g, s)
        <5> HIDE DEF Body
        <5> QED  BY <2>2, <4>1
      <4> HIDE DEF h
      <4> QED  BY <4>2, <4>3
    <3> QED  BY <3>1, <3>2
  <2>4. h = [s \in SUBSET (1 .. m + 1) |-> h[s]]
    OBVIOUS
  <2> HIDE DEF h, Body
  <2>5. Eq(h, m + 1)
    BY <2>3, <2>4
  <2> QED  BY <2>5
<1>4. \E g : Eq(g, n)
  <2>1. Nat \subseteq S
    <3> HIDE DEF S
    <3> QED  BY <1>2, <1>3, NaturalsByInduction
  <2>2. n \in S /\ n <= n
    <3> HIDE DEF S, n
    <3> QED  BY <1>1, <2>1
  <2> HIDE DEF Eq, n
  <2> QED  BY <2>2
<1> DEFINE F == CHOOSE g : Eq(g, n)
<1>5. Reloaded(file) = F[1 .. n]
  BY <1>1 DEF Reloaded, FoldLeft, MapThenFoldSet, Again
<1>6. Eq(F, n)
  <2> HIDE DEF Eq
  <2> QED  BY <1>4
<1> HIDE DEF F
<1> DEFINE log == [k \in 0 .. n |-> F[1 .. k]]
<1>7. log[0] = NoLog
  <2>1. 1 .. 0 = {} /\ 1 .. 0 \in SUBSET (1 .. n) /\ 0 \in 0 .. n
    BY <1>1
  <2> QED  BY <1>6, <2>1
<1>8. ASSUME NEW k \in 1 .. n
      PROVE  log[k] = Anchored(log[k - 1], file[k].entry)
  <2> HIDE DEF n
  <2>1. /\ 1 .. k \in SUBSET (1 .. n) /\ k \in 1 .. k
        /\ k \in 0 .. n /\ k - 1 \in 0 .. n
    BY <1>1
  <2>2. (1 .. k) \ {k} = 1 .. k - 1
    BY <1>1
  <2>3. Max(1 .. k) = k
    <3>1. k \in Nat /\ 1 .. k \in SUBSET (1 .. k) /\ \A y \in 1 .. k : k >= y
      BY <1>1
    <3> QED  BY <2>1, <3>1, GreatestIs
  <2>4. F[1 .. k] = Body(F, 1 .. k)
    <3> HIDE DEF Body
    <3> QED  BY <1>6, <2>1
  <2> QED  BY <2>1, <2>2, <2>3, <2>4
<1>9. log[n] = F[1 .. n]
  BY <1>1
<1> HIDE DEF log
<1> QED  BY <1>5, <1>7, <1>8, <1>9 DEF Reloads
(* The hashes a verification goes through, from the leaf to the root.       *)
Climbs(path, data, proof) ==
    /\ path[0] = Leaf(data)
    /\ \A k \in 1 .. Len(proof) : path[k] = Combine(path[k - 1], proof[k])

LEMMA VerifyInSteps ==
    ASSUME NEW T, NEW proof \in Seq(T), NEW data, NEW root
    PROVE  \E path : /\ Climbs(path, data, proof)
                     /\ Verify(data, proof, root) <=> path[Len(proof)] = root
<1> DEFINE n == Len(proof)
           Body(g, s) == IF s = {} THEN Leaf(data)
                         ELSE Combine(g[s \ {Max(s)}], proof[Max(s)])
           Eq(g, m) == g = [s \in SUBSET (1 .. m) |-> Body(g, s)]
           S == {m \in Nat : m <= n => \E g : Eq(g, m)}
<1>1. n \in Nat /\ DOMAIN proof = 1 .. n
  BY LenProperties
<1>2. 0 \in S
  <2> DEFINE g == [s \in SUBSET (1 .. 0) |-> Leaf(data)]
  <2>1. \A s \in SUBSET (1 .. 0) : s = {}
    OBVIOUS
  <2>2. Eq(g, 0)
    BY <2>1
  <2> QED  BY <2>2
<1>3. ASSUME NEW m \in Nat, m \in S PROVE m + 1 \in S
  <2>1. SUFFICES ASSUME m + 1 <= n PROVE \E g : Eq(g, m + 1)
    <3> HIDE DEF Eq
    <3> QED  OBVIOUS
  <2>2. PICK g : Eq(g, m)
    <3> HIDE DEF Eq
    <3>1. m <= n
      BY <1>1, <2>1
    <3> QED  BY <1>3, <3>1
  <2> DEFINE h == [s \in SUBSET (1 .. m + 1) |->
                      IF m + 1 \in s
                        THEN Combine(g[s \ {m + 1}], proof[m + 1])
                        ELSE g[s]]
  <2>3. ASSUME NEW s \in SUBSET (1 .. m + 1) PROVE h[s] = Body(h, s)
    <3>1. CASE m + 1 \in s
      <4>1. Max(s) = m + 1
        <5>1. m + 1 \in Nat /\ \A y \in s : m + 1 >= y
          OBVIOUS
        <5> QED  BY <3>1, <5>1, GreatestIs
      <4>2. s \ {m + 1} \in SUBSET (1 .. m + 1) /\ m + 1 \notin s \ {m + 1}
        OBVIOUS
      <4>3. h[s \ {m + 1}] = g[s \ {m + 1}]
        BY <4>2
      <4>4. h[s] = Combine(g[s \ {m + 1}], proof[m + 1])
        BY <3>1
      <4> HIDE DEF h
      <4> QED  BY <3>1, <4>1, <4>3, <4>4
    <3>2. CASE m + 1 \notin s
      <4>1. s \in SUBSET (1 .. m) /\ s \ {Max(s)} \in SUBSET (1 .. m)
        <5>1. \A x \in s : x \in 1 .. m
          BY <3>2
        <5> QED  BY <5>1
      <4>2. h[s] = g[s] /\ h[s \ {Max(s)}] = g[s \ {Max(s)}]
        <5>1. s \ {Max(s)} \in SUBSET (1 .. m + 1) /\ m + 1 \notin s \ {Max(s)}
          BY <3>2
        <5> QED  BY <3>2, <5>1
      <4>3. g[s] = Body(g, s)
        <5> HIDE DEF Body
        <5> QED  BY <2>2, <4>1
      <4> HIDE DEF h
      <4> QED  BY <4>2, <4>3
    <3> QED  BY <3>1, <3>2
  <2>4. h = [s \in SUBSET (1 .. m + 1) |-> h[s]]
    OBVIOUS
  <2> HIDE DEF h, Body
  <2>5. Eq(h, m + 1)
    BY <2>3, <2>4
  <2> QED  BY <2>5
<1>4. \E g : Eq(g, n)
  <2>1. Nat \subseteq S
    <3> HIDE DEF S
    <3> QED  BY <1>2, <1>3, NaturalsByInduction
  <2>2. n \in S /\ n <= n
    <3> HIDE DEF S, n
    <3> QED  BY <1>1, <2>1
  <2> HIDE DEF Eq, n
  <2> QED  BY <2>2
<1> DEFINE F == CHOOSE g : Eq(g, n)
<1>5. Verify(data, proof, root) <=> F[1 .. n] = root
  BY <1>1 DEF Verify, FoldLeft, MapThenFoldSet
<1>6. Eq(F, n)
  <2> HIDE DEF Eq
  <2> QED  BY <1>4
<1> HIDE DEF F
<1> DEFINE path == [k \in 0 .. n |-> F[1 .. k]]
<1>7. path[0] = Leaf(data)
  <2>1. 1 .. 0 = {} /\ 1 .. 0 \in SUBSET (1 .. n) /\ 0 \in 0 .. n
    BY <1>1
  <2> QED  BY <1>6, <2>1
<1>8. ASSUME NEW k \in 1 .. n
      PROVE  path[k] = Combine(path[k - 1], proof[k])
  <2> HIDE DEF n
  <2>1. /\ 1 .. k \in SUBSET (1 .. n) /\ k \in 1 .. k
        /\ k \in 0 .. n /\ k - 1 \in 0 .. n
    BY <1>1
  <2>2. (1 .. k) \ {k} = 1 .. k - 1
    BY <1>1
  <2>3. Max(1 .. k) = k
    <3>1. k \in Nat /\ 1 .. k \in SUBSET (1 .. k) /\ \A y \in 1 .. k : k >= y
      BY <1>1
    <3> QED  BY <2>1, <3>1, GreatestIs
  <2>4. F[1 .. k] = Body(F, 1 .. k)
    <3> HIDE DEF Body
    <3> QED  BY <1>6, <2>1
  <2> QED  BY <2>1, <2>2, <2>3, <2>4
<1>9. path[n] = F[1 .. n]
  BY <1>1
<1> HIDE DEF path
<1> QED  BY <1>5, <1>7, <1>8, <1>9 DEF Climbs

------------------------------------------------------------------------------
(* The tree: a proof leads from its leaf to the root, and from no other    *)

LEMMA LengthOf ==
    ASSUME NEW n \in Nat, NEW s, s = [k \in 1 .. n |-> s[k]]
    PROVE  Len(s) = n
<1>1. s \in Seq({s[k] : k \in 1 .. n})
  <2>1. s \in [1 .. n -> {s[k] : k \in 1 .. n}]
    OBVIOUS
  <2> QED  BY <2>1, SeqDef
<1>2. DOMAIN s = 1 .. Len(s) /\ Len(s) \in Nat /\ DOMAIN s = 1 .. n
  BY <1>1, LenProperties
<1> QED  BY <1>2

(* A level of n nodes.                                                     *)
LevelOf(s, n) == n \in Nat /\ s = [k \in 1 .. n |-> s[k]] /\ Len(s) = n

LEMMA AboveLevel ==
    ASSUME NEW n, NEW s, LevelOf(s, n)
    PROVE  /\ LevelOf(Above(s), (n + 1) \div 2)
           /\ \A k \in 1 .. (n + 1) \div 2 :
                 Above(s)[k] = Node(s[2 * k - 1],
                                    IF 2 * k <= n THEN s[2 * k] ELSE s[2 * k - 1])
<1>1. (n + 1) \div 2 \in Nat /\ Len(s) = n
  BY DEF LevelOf
<1>2. /\ Above(s) = [k \in 1 .. (n + 1) \div 2 |-> Above(s)[k]]
      /\ \A k \in 1 .. (n + 1) \div 2 :
            Above(s)[k] = Node(s[2 * k - 1],
                               IF 2 * k <= n THEN s[2 * k] ELSE s[2 * k - 1])
  BY <1>1 DEF Above
<1>3. Len(Above(s)) = (n + 1) \div 2
  BY <1>1, <1>2, LengthOf
<1> QED  BY <1>1, <1>2, <1>3 DEF LevelOf

(* The levels as the passes of root_hash and of proof_for make them.       *)
Passes(level, leaves) ==
    /\ level[0] = leaves
    /\ \A h \in 1 .. Len(leaves) : level[h] = Above(level[h - 1])

LEMMA LevelsInPasses ==
    ASSUME NEW n, NEW leaves, LevelOf(leaves, n)
    PROVE  Passes(Levels(leaves), leaves)
<1> DEFINE Body(f, h) == IF h = 0 THEN leaves ELSE Above(f[h - 1])
           Eq(f, m) == f = [h \in 0 .. m |-> Body(f, h)]
           S == {m \in Nat : \E f : Eq(f, m)}
<1>1. n \in Nat /\ Len(leaves) = n
  BY DEF LevelOf
<1>2. 0 \in S
  <2> DEFINE f == [h \in 0 .. 0 |-> leaves]
  <2>1. Eq(f, 0)
    OBVIOUS
  <2> QED  BY <2>1
<1>3. ASSUME NEW m \in Nat, m \in S PROVE m + 1 \in S
  <2>1. PICK f : Eq(f, m)
    <3> HIDE DEF Eq
    <3> QED  BY <1>3
  <2> DEFINE g == [h \in 0 .. m + 1 |-> IF h <= m THEN f[h] ELSE Above(f[m])]
  <2>2. ASSUME NEW h \in 0 .. m + 1 PROVE g[h] = Body(g, h)
    <3>1. CASE h <= m
      <4>1. g[h] = f[h] /\ h \in 0 .. m
        BY <3>1
      <4>2. h # 0 => g[h - 1] = f[h - 1]
        BY <3>1
      <4>3. f[h] = Body(f, h)
        <5> HIDE DEF Body
        <5> QED  BY <2>1, <4>1
      <4> HIDE DEF g
      <4> QED  BY <4>1, <4>2, <4>3
    <3>2. CASE h = m + 1
      <4>1. h # 0 /\ h - 1 = m /\ g[m] = f[m]
        BY <3>2
      <4> QED  BY <3>2, <4>1
    <3> QED  BY <3>1, <3>2
  <2>3. g = [h \in 0 .. m + 1 |-> g[h]]
    OBVIOUS
  <2> HIDE DEF g, Body
  <2>4. Eq(g, m + 1)
    BY <2>2, <2>3
  <2> HIDE DEF Eq
  <2> QED  BY <2>4
<1>4. \E f : Eq(f, n)
  <2>1. n \in S
    <3>1. Nat \subseteq S
      <4> HIDE DEF S
      <4> QED  BY <1>2, <1>3, NaturalsByInduction
    <3> HIDE DEF S
    <3> QED  BY <1>1, <3>1
  <2> HIDE DEF Eq
  <2> QED  BY <2>1
<1> DEFINE F == CHOOSE f : Eq(f, n)
<1>5. Levels(leaves) = F
  BY <1>1 DEF Levels
<1>6. Eq(F, n)
  <2> HIDE DEF Eq
  <2> QED  BY <1>4
<1> HIDE DEF F
<1>7. F[0] = leaves
  BY <1>1, <1>6
<1>8. ASSUME NEW h \in 1 .. n PROVE F[h] = Above(F[h - 1])
  BY <1>1, <1>6
<1> QED  BY <1>1, <1>5, <1>7, <1>8 DEF Passes

(* Each pass halves a level, so the tree has a height.                     *)
LEMMA LevelSizes ==
    ASSUME NEW n, NEW leaves, LevelOf(leaves, n), n > 0
    PROVE  /\ \A h \in 0 .. n : /\ LevelOf(Levels(leaves)[h], Len(Levels(leaves)[h]))
                                /\ Len(Levels(leaves)[h]) > 0
           /\ Len(Levels(leaves)[n]) = 1
<1> DEFINE L == Levels(leaves)
           S == {h \in Nat : h <= n =>
                    /\ LevelOf(L[h], Len(L[h]))
                    /\ Len(L[h]) > 0
                    /\ Len(L[h]) = 1 \/ Len(L[h]) <= n - h}
<1>1. n \in Nat /\ Len(leaves) = n
  BY DEF LevelOf
<1>2. Passes(L, leaves)
  BY LevelsInPasses
<1> HIDE DEF L
<1>3. 0 \in S
  BY <1>1, <1>2 DEF Passes
<1>4. ASSUME NEW h \in Nat, h \in S PROVE h + 1 \in S
  <2>1. SUFFICES ASSUME h + 1 <= n
                 PROVE  /\ LevelOf(L[h + 1], Len(L[h + 1]))
                        /\ Len(L[h + 1]) > 0
                        /\ Len(L[h + 1]) = 1 \/ Len(L[h + 1]) <= n - (h + 1)
    OBVIOUS
  <2> DEFINE m == Len(L[h])
  <2>2. LevelOf(L[h], m) /\ m > 0 /\ (m = 1 \/ m <= n - h)
    BY <1>1, <1>4, <2>1
  <2>3. m \in Nat
    BY <2>2 DEF LevelOf
  <2>4. L[h + 1] = Above(L[h])
    BY <1>1, <1>2, <2>1 DEF Passes
  <2> HIDE DEF m
  <2>5. LevelOf(L[h + 1], (m + 1) \div 2)
    BY <2>2, <2>4, AboveLevel
  <2>6. Len(L[h + 1]) = (m + 1) \div 2
    BY <2>5 DEF LevelOf
  <2>7. (m + 1) \div 2 > 0 /\ (m = 1 => (m + 1) \div 2 = 1)
        /\ (m > 1 => (m + 1) \div 2 <= m - 1)
    BY <2>2, <2>3
  <2>8. Len(L[h + 1]) = 1 \/ Len(L[h + 1]) <= n - (h + 1)
    BY <1>1, <2>2, <2>3, <2>6, <2>7
  <2> QED  BY <2>5, <2>6, <2>7, <2>8
<1>5. Nat \subseteq S
  <2> HIDE DEF S
  <2> QED  BY <1>3, <1>4, NaturalsByInduction
<1>6. ASSUME NEW h \in 0 .. n PROVE LevelOf(L[h], Len(L[h])) /\ Len(L[h]) > 0
  BY <1>1, <1>5
<1>7. Len(L[n]) = 1
  <2>1. /\ Len(L[n]) > 0 /\ (Len(L[n]) = 1 \/ Len(L[n]) <= n - n)
        /\ LevelOf(L[n], Len(L[n]))
    BY <1>1, <1>5
  <2>2. Len(L[n]) \in Nat
    BY <2>1 DEF LevelOf
  <2> QED  BY <1>1, <2>1, <2>2
<1> QED  BY <1>6, <1>7 DEF L

IsHeight(leaves, h) ==
    /\ h \in 0 .. Len(leaves)
    /\ Len(Levels(leaves)[h]) = 1
    /\ \A lower \in 0 .. h - 1 : Len(Levels(leaves)[lower]) > 1

LEMMA HeightIs ==
    ASSUME NEW n, NEW leaves, LevelOf(leaves, n), n > 0
    PROVE  IsHeight(leaves, Height(leaves))
<1> DEFINE L == Levels(leaves)
           S == {h \in 0 .. n : Len(L[h]) = 1}
<1>1. n \in Nat /\ Len(leaves) = n
  BY DEF LevelOf
<1>2. /\ \A h \in 0 .. n : LevelOf(L[h], Len(L[h])) /\ Len(L[h]) > 0
      /\ Len(L[n]) = 1
  BY LevelSizes
<1> HIDE DEF L
<1>3. S \subseteq Nat /\ n \in S
  BY <1>1, <1>2
<1>4. PICK h \in S : \A k \in S : h <= k
  <2> HIDE DEF S
  <2> QED  BY <1>3, LeastOfNaturals
<1>5. ASSUME NEW lower \in 0 .. h - 1 PROVE Len(L[lower]) > 1
  <2>1. lower \in 0 .. n /\ lower \notin S
    BY <1>1, <1>4
  <2> DEFINE m == Len(L[lower])
  <2>2. m # 1 /\ m > 0 /\ m \in Nat
    BY <1>2, <2>1 DEF LevelOf
  <2> HIDE DEF m
  <2>3. m > 1
    BY <2>2
  <2> QED  BY <2>3 DEF m
<1>6. IsHeight(leaves, h)
  BY <1>1, <1>4, <1>5 DEF IsHeight, L
<1> QED  BY <1>6 DEF IsHeight, Height

(* The way from a leaf to the root: half the index at every level.         *)
Halves(at, index, n) ==
    /\ at[0] = index
    /\ \A h \in 0 .. n : at[h] \in Nat
    /\ \A h \in 1 .. n : at[h] = at[h - 1] \div 2

LEMMA WayInSteps ==
    ASSUME NEW n \in Nat, NEW index \in Nat
    PROVE  Halves(Way(index, n), index, n)
<1> DEFINE half == [h \in 1 .. n |-> [v \in Nat |-> v \div 2]]
           Eq(f) == f = [h \in 0 .. n |-> IF h = 0 THEN index ELSE f[h - 1] \div 2]
<1>1. \A h \in 1 .. n : \A v \in Nat : half[h][v] \in Nat /\ half[h][v] = v \div 2
  OBVIOUS
<1> HIDE DEF half
<1>2. PICK f : Iterates(f, n, Nat, index, half)
  BY <1>1, RecursionExists
<1>3. Eq(f)
  <2>1. \A h \in 0 .. n : f[h] = IF h = 0 THEN index ELSE f[h - 1] \div 2
    <3>1. ASSUME NEW h \in 1 .. n PROVE f[h] = f[h - 1] \div 2
      <4>1. h - 1 \in 0 .. n
        OBVIOUS
      <4>2. f[h - 1] \in Nat /\ f[h] = half[h][f[h - 1]]
        BY <1>2, <4>1 DEF Iterates
      <4> QED  BY <1>1, <4>2
    <3>2. f[0] = index /\ \A h \in 0 .. n : h = 0 \/ h \in 1 .. n
      BY <1>2 DEF Iterates
    <3> QED  BY <3>1, <3>2
  <2>2. f = [h \in 0 .. n |-> f[h]]
    BY <1>2 DEF Iterates
  <2> QED  BY <2>1, <2>2
<1> DEFINE F == CHOOSE g : Eq(g)
<1>4. Eq(F)
  <2> HIDE DEF Eq
  <2> QED  BY <1>3
<1>5. Way(index, n) = F
  BY DEF Way
<1> HIDE DEF F
<1>6. /\ F[0] = index
      /\ \A h \in 1 .. n : F[h] = F[h - 1] \div 2
  BY <1>4
<1>7. ASSUME NEW m \in 0 .. n PROVE F[m] \in Nat
  <2>1. StepAlike(F, f, m)
    <3>1. F[0] = f[0]
      BY <1>2, <1>6 DEF Iterates
    <3>2. \A h \in 1 .. m : h \in 1 .. n
      OBVIOUS
    <3>3. \A h \in 1 .. n : f[h] = f[h - 1] \div 2
      BY <1>3
    <3> QED  BY <1>6, <3>1, <3>2, <3>3 DEF StepAlike
  <2>2. F[m] = f[m]
    BY <2>1, RecursionUnique
  <2> QED  BY <1>2, <2>2 DEF Iterates
<1> QED  BY <1>5, <1>6, <1>7 DEF Halves

(* What the proof of a leaf is made from: the levels up to the height and  *)
(* the way through them.                                                   *)
LEMMA WayInLevels ==
    ASSUME NEW n, NEW leaves, LevelOf(leaves, n), NEW index \in 0 .. n - 1
    PROVE  LET height == Height(leaves)
               at == Way(index, height)
           IN  \A h \in 0 .. height : /\ at[h] \in Nat
                                      /\ at[h] < Len(Levels(leaves)[h])
<1> DEFINE L == Levels(leaves)
           height == Height(leaves)
           at == Way(index, height)
           S == {h \in Nat : h <= height => at[h] \in Nat /\ at[h] < Len(L[h])}
<1>1. n \in Nat /\ n > 0 /\ Len(leaves) = n /\ index \in Nat /\ index < n
  BY DEF LevelOf
<1>2. IsHeight(leaves, height)
  BY <1>1, HeightIs
<1>3. height \in 0 .. n /\ height \in Nat
  BY <1>1, <1>2 DEF IsHeight
<1>4. Passes(L, leaves)
  BY LevelsInPasses
<1>5. \A h \in 0 .. n : LevelOf(L[h], Len(L[h]))
  BY <1>1, LevelSizes
<1> HIDE DEF height
<1>6. Halves(at, index, height)
  BY <1>1, <1>3, WayInSteps
<1> HIDE DEF L, at
<1>7. 0 \in S
  BY <1>1, <1>4, <1>6 DEF Passes, Halves
<1>8. ASSUME NEW h \in Nat, h \in S PROVE h + 1 \in S
  <2>1. SUFFICES ASSUME h + 1 <= height
                 PROVE  at[h + 1] \in Nat /\ at[h + 1] < Len(L[h + 1])
    OBVIOUS
  <2>2. h \in 0 .. n /\ h + 1 \in 1 .. n /\ h + 1 \in 1 .. height /\ (h + 1) - 1 = h
    BY <1>1, <1>3, <2>1
  <2>3. at[h] \in Nat /\ at[h] < Len(L[h])
    BY <1>3, <1>8, <2>1
  <2>4. at[h + 1] = at[h] \div 2
    BY <1>6, <2>2 DEF Halves
  <2>5. L[h + 1] = Above(L[h])
    BY <1>1, <1>4, <2>2 DEF Passes
  <2> DEFINE m == Len(L[h])
  <2>6. LevelOf(L[h], m)
    BY <1>5, <2>2
  <2>7. LevelOf(L[h + 1], (m + 1) \div 2)
    BY <2>5, <2>6, AboveLevel
  <2>8. m \in Nat /\ Len(L[h + 1]) = (m + 1) \div 2 /\ at[h] < m
    BY <2>3, <2>6, <2>7 DEF LevelOf
  <2> HIDE DEF m
  <2> QED  BY <2>3, <2>4, <2>8
<1>9. Nat \subseteq S
  <2> HIDE DEF S
  <2> QED  BY <1>7, <1>8, NaturalsByInduction
<1>10. \A h \in 0 .. height : at[h] \in Nat /\ at[h] < Len(L[h])
  BY <1>3, <1>9
<1> QED  BY <1>10 DEF at, L, height

(* Each step of a proof goes from a node of one level to the node over it. *)
LEMMA ProofClimbs ==
    ASSUME NEW n, NEW level, LevelOf(level, n), NEW a \in 0 .. n - 1
    PROVE  Combine(level[a + 1],
                   [sibling |-> Beside(level, a),
                    side |-> IF a % 2 = 0 THEN "right" ELSE "left"])
             = Above(level)[a \div 2 + 1]
<1> DEFINE k == a \div 2 + 1
           e == [sibling |-> Beside(level, a),
                 side |-> IF a % 2 = 0 THEN "right" ELSE "left"]
<1>1. n \in Nat /\ Len(level) = n /\ a \in Nat /\ a < n
  BY DEF LevelOf
<1>2. k \in 1 .. (n + 1) \div 2
  BY <1>1
<1>3. Above(level)[k] = Node(level[2 * k - 1],
                             IF 2 * k <= n THEN level[2 * k] ELSE level[2 * k - 1])
  BY <1>2, AboveLevel
<1>4. CASE a % 2 = 0
  <2>1. 2 * k - 1 = a + 1 /\ 2 * k = a + 2
    BY <1>1, <1>4
  <2>2. Beside(level, a) = IF a + 2 <= n THEN level[a + 2] ELSE level[a + 1]
    <3>1. a + 1 >= n <=> ~(a + 2 <= n)
      BY <1>1
    <3>2. (a + 1) + 1 = a + 2
      BY <1>1
    <3> QED  BY <1>1, <1>4, <3>1, <3>2 DEF Beside
  <2>3. Combine(level[a + 1], e) = Node(level[a + 1], Beside(level, a))
    BY <1>4 DEF Combine
  <2> HIDE DEF k
  <2> QED  BY <1>3, <2>1, <2>2, <2>3 DEF k
<1>5. CASE a % 2 # 0
  <2>1. 2 * k - 1 = a /\ 2 * k = a + 1 /\ 2 * k <= n
    BY <1>1, <1>5
  <2>2. Beside(level, a) = level[a]
    <3>1. ~(a - 1 >= n) /\ (a - 1) + 1 = a
      BY <1>1
    <3> QED  BY <1>1, <1>5, <3>1 DEF Beside
  <2>3. Combine(level[a + 1], e) = Node(Beside(level, a), level[a + 1])
    BY <1>5 DEF Combine
  <2> HIDE DEF k
  <2> QED  BY <1>3, <2>1, <2>2, <2>3 DEF k
<1> QED  BY <1>4, <1>5

(* A hash leads to one hash only, and two hashes never to the same.        *)
LEMMA CombineTells ==
    ASSUME NEW x, NEW y, NEW e, Combine(x, e) = Combine(y, e)
    PROVE  x = y
<1>1. \A p, q, r, s : Node(p, q) = Node(r, s) => p = r /\ q = s
  <2>1. SUFFICES ASSUME NEW p, NEW q, NEW r, NEW s, Node(p, q) = Node(r, s)
                 PROVE  p = r /\ q = s
    OBVIOUS
  <2>2. <<p, q>> = <<r, s>>
    BY <2>1 DEF Node
  <2> QED  BY <2>2
<1> QED  BY <1>1 DEF Combine

LEMMA ProofSteps ==
    ASSUME NEW n, NEW leaves, LevelOf(leaves, n), NEW index \in 0 .. n - 1
    PROVE  LET height == Height(leaves)
               proof == ProofFor(leaves, index)
               at == Way(index, height)
               L == Levels(leaves)
           IN  /\ height \in 0 .. n /\ Len(proof) = height
               /\ \E T : proof \in Seq(T)
               /\ L[0] = leaves /\ at[0] = index
               /\ \A h \in 1 .. height : Combine(L[h - 1][at[h - 1] + 1], proof[h])
                                           = L[h][at[h] + 1]
               /\ RootOf(leaves) = L[height][at[height] + 1]
<1> DEFINE L == Levels(leaves)
           height == Height(leaves)
           at == Way(index, height)
           proof == ProofFor(leaves, index)
           pr(h) == [sibling |-> Beside(L[h - 1], at[h - 1]),
                     side |-> IF at[h - 1] % 2 = 0 THEN "right" ELSE "left"]
<1>1. n \in Nat /\ n > 0 /\ Len(leaves) = n /\ index \in Nat
  BY DEF LevelOf
<1>2. IsHeight(leaves, height)
  BY <1>1, HeightIs
<1>3. height \in 0 .. n /\ height \in Nat /\ Len(L[height]) = 1
  BY <1>1, <1>2 DEF IsHeight
<1>4. Passes(L, leaves)
  BY LevelsInPasses
<1>5. \A h \in 0 .. n : LevelOf(L[h], Len(L[h]))
  BY <1>1, LevelSizes
<1>6. \A h \in 0 .. height : at[h] \in Nat /\ at[h] < Len(L[h])
  BY WayInLevels
<1>7. proof = [h \in 1 .. height |-> pr(h)]
  BY DEF ProofFor
<1>8. RootOf(leaves) = L[height][1]
  <2>1. leaves # <<>>
    BY <1>1
  <2> QED  BY <2>1 DEF RootOf
<1> HIDE DEF height
<1>9. Halves(at, index, height)
  BY <1>1, <1>3, WayInSteps
<1> HIDE DEF L, at, proof
<1>10. L[0] = leaves /\ at[0] = index
  BY <1>4, <1>9 DEF Passes, Halves
<1>11. Len(proof) = height /\ \E T : proof \in Seq(T)
  <2> HIDE DEF pr
  <2>1. proof = [h \in 1 .. height |-> proof[h]]
    BY <1>7
  <2>2. proof \in Seq({pr(h) : h \in 1 .. height})
    <3>1. proof \in [1 .. height -> {pr(h) : h \in 1 .. height}]
      BY <1>7
    <3> QED  BY <1>3, <3>1, SeqDef
  <2>3. Len(proof) = height
    BY <1>3, <2>1, LengthOf
  <2> QED  BY <2>2, <2>3
<1>12. ASSUME NEW h \in 1 .. height
       PROVE  Combine(L[h - 1][at[h - 1] + 1], proof[h]) = L[h][at[h] + 1]
  <2> DEFINE m == Len(L[h - 1])
             a == at[h - 1]
  <2>1. h - 1 \in 0 .. n /\ h - 1 \in 0 .. height /\ h \in 1 .. n
    BY <1>1, <1>3
  <2>2. LevelOf(L[h - 1], m)
    BY <1>5, <2>1
  <2>3. a \in 0 .. m - 1
    <3>1. m \in Nat
      BY <2>2 DEF LevelOf
    <3>2. a \in Nat /\ a < m
      BY <1>6, <2>1
    <3> HIDE DEF a, m
    <3> QED  BY <3>1, <3>2
  <2>4. Combine(L[h - 1][a + 1], pr(h)) = Above(L[h - 1])[a \div 2 + 1]
    <3> HIDE DEF m
    <3> QED  BY <2>2, <2>3, ProofClimbs
  <2>5. L[h] = Above(L[h - 1]) /\ at[h] = a \div 2
    BY <1>1, <1>4, <1>9, <2>1 DEF Passes, Halves
  <2>6. proof[h] = pr(h)
    BY <1>7
  <2> QED  BY <2>4, <2>5, <2>6
<1>13. at[height] = 0
  <2>1. height \in 0 .. height
    BY <1>3
  <2>2. at[height] \in Nat /\ at[height] < 1
    BY <1>3, <1>6, <2>1
  <2> QED  BY <2>2
<1> QED  BY <1>3, <1>8, <1>10, <1>11, <1>12, <1>13 DEF height, L, at, proof

(* Verify accepts a proof against the root it was made under for the data  *)
(* of its own leaf and for no other.                                       *)
LEMMA VerifyExact ==
    ASSUME NEW n, NEW leaves, LevelOf(leaves, n), NEW index \in 0 .. n - 1,
           NEW data
    PROVE  Verify(data, ProofFor(leaves, index), RootOf(leaves))
             <=> Leaf(data) = leaves[index + 1]
<1> DEFINE L == Levels(leaves)
           height == Height(leaves)
           at == Way(index, height)
           proof == ProofFor(leaves, index)
           root == RootOf(leaves)
           node(h) == L[h][at[h] + 1]
<1>1. /\ height \in 0 .. n /\ Len(proof) = height
      /\ \E T : proof \in Seq(T)
      /\ node(0) = leaves[index + 1]
      /\ \A h \in 1 .. height : Combine(node(h - 1), proof[h]) = node(h)
      /\ root = node(height)
  BY ProofSteps
<1>2. height \in Nat
  BY <1>1 DEF LevelOf
<1>3. PICK T : proof \in Seq(T)
  BY <1>1
<1> HIDE DEF proof, root
<1>4. PICK path : /\ Climbs(path, data, proof)
                  /\ Verify(data, proof, root) <=> path[Len(proof)] = root
  BY <1>3, VerifyInSteps
<1> HIDE DEF height, node
<1>5. /\ path[0] = Leaf(data)
      /\ \A h \in 1 .. height : path[h] = Combine(path[h - 1], proof[h])
  BY <1>1, <1>4 DEF Climbs
<1>6. ASSUME path[0] = node(0) PROVE path[height] = node(height)
  <2> DEFINE S == {h \in Nat : h <= height => path[h] = node(h)}
  <2>1. 0 \in S
    BY <1>6
  <2>2. ASSUME NEW h \in Nat, h \in S PROVE h + 1 \in S
    <3>1. SUFFICES ASSUME h + 1 <= height PROVE path[h + 1] = node(h + 1)
      OBVIOUS
    <3>2. h + 1 \in 1 .. height /\ (h + 1) - 1 = h /\ h <= height
      BY <1>2, <3>1
    <3>3. path[h] = node(h)
      BY <2>2, <3>2
    <3> QED  BY <1>1, <1>5, <3>2, <3>3
  <2>3. Nat \subseteq S
    <3> HIDE DEF S
    <3> QED  BY <2>1, <2>2, NaturalsByInduction
  <2> QED  BY <1>2, <2>3
<1>7. ASSUME path[height] = node(height) PROVE path[0] = node(0)
  <2> DEFINE S == {h \in Nat : h <= height => path[height - h] = node(height - h)}
  <2>1. 0 \in S
    BY <1>2, <1>7
  <2>2. ASSUME NEW h \in Nat, h \in S PROVE h + 1 \in S
    <3>1. SUFFICES ASSUME h + 1 <= height
                   PROVE  path[height - (h + 1)] = node(height - (h + 1))
      OBVIOUS
    <3>2. /\ height - h \in 1 .. height /\ (height - h) - 1 = height - (h + 1)
          /\ h <= height
      BY <1>2, <3>1
    <3>3. path[height - h] = node(height - h)
      BY <2>2, <3>2
    <3>4. Combine(path[height - (h + 1)], proof[height - h])
            = Combine(node(height - (h + 1)), proof[height - h])
      BY <1>1, <1>5, <3>2, <3>3
    <3> QED  BY <3>4, CombineTells
  <2>3. Nat \subseteq S
    <3> HIDE DEF S
    <3> QED  BY <2>1, <2>2, NaturalsByInduction
  <2>4. height \in S /\ height - height = 0
    BY <1>2, <2>3
  <2> QED  BY <1>2, <2>4
<1>8. Verify(data, proof, root) <=> Leaf(data) = leaves[index + 1]
  BY <1>1, <1>4, <1>5, <1>6, <1>7
<1> QED  BY <1>8 DEF proof, root

LEMMA LeafTells == \A x, y : Leaf(x) = Leaf(y) => x = y
<1> SUFFICES ASSUME NEW x, NEW y, Leaf(x) = Leaf(y) PROVE x = y
  OBVIOUS
<1>1. {x} = {y}
  BY DEF Leaf
<1> QED  BY <1>1

------------------------------------------------------------------------------
(* A call writes no entry twice                                            *)

(* The entries of s differ by their ids, all of which are in K.            *)
Apart(s, K) ==
    /\ s \in Seq(Entries)
    /\ \A i \in DOMAIN s : s[i].id \in K
    /\ \A i, j \in DOMAIN s : s[i].id = s[j].id => i = j

LEMMA ApartConcat ==
    ASSUME NEW s, NEW t, NEW K, NEW M, Apart(s, K), Apart(t, M), K \cap M = {}
    PROVE  Apart(s \o t, K \cup M)
<1>1. s \in Seq(Entries) /\ t \in Seq(Entries)
  BY DEF Apart
<1>2. /\ s \o t \in Seq(Entries) /\ Len(s \o t) = Len(s) + Len(t)
      /\ \A i \in 1 .. Len(s) : (s \o t)[i] = s[i]
      /\ \A i \in 1 .. Len(t) : (s \o t)[Len(s) + i] = t[i]
  BY <1>1, ConcatProperties
<1>3. /\ DOMAIN s = 1 .. Len(s) /\ DOMAIN t = 1 .. Len(t)
      /\ DOMAIN (s \o t) = 1 .. Len(s) + Len(t)
      /\ Len(s) \in Nat /\ Len(t) \in Nat
  BY <1>1, <1>2, LenProperties
<1> DEFINE u == s \o t  n == Len(s)
<1>4. \A i \in DOMAIN u : \/ i \in DOMAIN s /\ u[i] = s[i]
                          \/ /\ i - n \in DOMAIN t /\ u[i] = t[i - n]
                             /\ i \in Nat
  <2>1. SUFFICES ASSUME NEW i \in DOMAIN u, i \notin DOMAIN s
                 PROVE  i - n \in DOMAIN t /\ u[i] = t[i - n] /\ i \in Nat
    BY <1>2, <1>3
  <2>2. i \in Nat /\ i - n \in 1 .. Len(t) /\ n + (i - n) = i
    BY <1>3, <2>1
  <2> QED  BY <1>2, <1>3, <2>2
<1>5. n \in Nat
  BY <1>3
<1> HIDE DEF u, n
<1>6. \A i \in DOMAIN u : u[i].id \in K \cup M
  BY <1>4 DEF Apart
<1>7. ASSUME NEW i \in DOMAIN u, NEW j \in DOMAIN u, u[i].id = u[j].id
      PROVE  i = j
  <2>1. CASE i \in DOMAIN s /\ u[i] = s[i] /\ j \in DOMAIN s /\ u[j] = s[j]
    BY <1>7, <2>1 DEF Apart
  <2>2. CASE /\ i - n \in DOMAIN t /\ u[i] = t[i - n] /\ i \in Nat
             /\ j - n \in DOMAIN t /\ u[j] = t[j - n] /\ j \in Nat
    <3>1. i - n = j - n
      BY <1>7, <2>2 DEF Apart
    <3> QED  BY <1>5, <2>2, <3>1
  <2>3. \A a \in DOMAIN s, b \in DOMAIN t : s[a].id # t[b].id
    BY DEF Apart
  <2> QED  BY <1>4, <1>7, <2>1, <2>2, <2>3
<1> QED  BY <1>2, <1>6, <1>7 DEF u, Apart

LEMMA ApartOne ==
    \A e \in Entries : Apart(<<e>>, {e.id})
<1> SUFFICES ASSUME NEW e \in Entries PROVE Apart(<<e>>, {e.id})
  OBVIOUS
<1>1. DOMAIN <<e>> = {1} /\ <<e>> \in Seq(Entries) /\ <<e>>[1] = e
  OBVIOUS
<1> HIDE DEF Entries
<1> QED  BY <1>1 DEF Apart

LEMMA ApartNone == \A K : Apart(<<>>, K)
  BY EmptySeq DEF Apart

LEMMA ApartMore == \A s, K, M : Apart(s, K) /\ K \subseteq M => Apart(s, M)
  BY DEF Apart

(* Ids that differ in store or in type.                                    *)
LEMMA NamedApart ==
    \A n, a, b, A, B : a # b \/ A \cap B = {} =>
        Named(n, a, A) \cap Named(n, b, B) = {}
  BY DEF Named, Id

LEMMA NamedUnion ==
    \A n, store, A, B : Named(n, store, A) \cup Named(n, store, B)
                          = Named(n, store, A \cup B)
  BY DEF Named

(* Two groups of entries of one store, of other types.                     *)
LEMMA ApartTypes ==
    ASSUME NEW s, NEW t, NEW n, NEW store, NEW A, NEW B,
           Apart(s, Named(n, store, A)), Apart(t, Named(n, store, B)),
           A \cap B = {}
    PROVE  Apart(s \o t, Named(n, store, A \cup B))
<1>1. Named(n, store, A) \cap Named(n, store, B) = {}
  BY NamedApart
<1>2. Apart(s \o t, Named(n, store, A) \cup Named(n, store, B))
  BY <1>1, ApartConcat
<1>3. Named(n, store, A) \cup Named(n, store, B) = Named(n, store, A \cup B)
  BY NamedUnion
<1> DEFINE K == Named(n, store, A) \cup Named(n, store, B)
           M == Named(n, store, A \cup B)
<1>4. Apart(s \o t, K) /\ K = M
  BY <1>2, <1>3
<1> HIDE DEF K, M
<1>5. Apart(s \o t, M)
  BY <1>4
<1> QED  BY <1>5 DEF M

LEMMA ApartEntry ==
    \A n \in Nat, store \in Stores, type \in Types, names \in SUBSET EntryIds :
        Apart(<<Entry(n, store, type, names)>>, Named(n, store, {type}))
<1> SUFFICES ASSUME NEW n \in Nat, NEW store \in Stores, NEW type \in Types,
                    NEW names \in SUBSET EntryIds
             PROVE  Apart(<<Entry(n, store, type, names)>>, Named(n, store, {type}))
  OBVIOUS
<1> DEFINE e == Entry(n, store, type, names)
<1>1. e \in Entries /\ e.id = Id(n, store, type)
  BY EntryType
<1> HIDE DEF e
<1>2. Apart(<<e>>, {Id(n, store, type)})
  BY <1>1, ApartOne
<1>3. Named(n, store, {type}) = {Id(n, store, type)}
  BY DEF Named
<1> QED  BY <1>2, <1>3 DEF e

LEMMA ApartWhen ==
    \A c, s, K : Apart(s, K) => Apart(When(c, s), K)
  BY ApartNone DEF When

SnapshotTypes == {"run", "validation", "evidence", "instantiation"}
EventTypes == {"candidate_validated", "instantiation_recorded",
               "execution_reconciled", "safety_gate_evaluated",
               "candidate_rejected"}

LEMMA SnapshotsApart ==
    ASSUME NEW n \in Nat, NEW o \in Outcomes
    PROVE  Apart(Snapshots(n, o), Named(n, "artifacts", SnapshotTypes))
<1> DEFINE one(type, names) ==
              <<Entry(n, "artifacts", type, Named(n, "artifacts", names))>>
           K(A) == Named(n, "artifacts", A)
           first == (one("run", {}) \o one("validation", {"run"}))
                       \o one("evidence", {"validation"})
           more == When(o.instantiated,
                        one("instantiation", {"run", "validation", "evidence"}))
<1>1. ASSUME NEW type \in Types, NEW names \in SUBSET Types
      PROVE  Apart(one(type, names), K({type}))
  BY NamedType, ApartEntry DEF Stores
<1>2. /\ Apart(one("run", {}), K({"run"}))
      /\ Apart(one("validation", {"run"}), K({"validation"}))
      /\ Apart(one("evidence", {"validation"}), K({"evidence"}))
      /\ Apart(one("instantiation", {"run", "validation", "evidence"}),
               K({"instantiation"}))
  <2>1. /\ {} \in SUBSET Types /\ {"run"} \in SUBSET Types
        /\ {"validation"} \in SUBSET Types
        /\ {"run", "validation", "evidence"} \in SUBSET Types
        /\ "run" \in Types /\ "validation" \in Types
        /\ "evidence" \in Types /\ "instantiation" \in Types
    BY DEF Types
  <2> HIDE DEF one, K
  <2> QED  BY <1>1, <2>1
<1>3. Snapshots(n, o) = first \o more
  BY DEF Snapshots
<1>4. Apart(more, K({"instantiation"}))
  <2> HIDE DEF one, K
  <2> QED  BY <1>2, ApartWhen
<1> HIDE DEF one, more
<1>5. Apart(one("run", {}) \o one("validation", {"run"}),
            K({"run"} \cup {"validation"}))
  BY <1>2, ApartTypes
<1>6. Apart(first, K(({"run"} \cup {"validation"}) \cup {"evidence"}))
  BY <1>2, <1>5, ApartTypes
<1> HIDE DEF first
<1>7. Apart(first \o more,
            K((({"run"} \cup {"validation"}) \cup {"evidence"})
                 \cup {"instantiation"}))
  BY <1>4, <1>6, ApartTypes
<1>8. (({"run"} \cup {"validation"}) \cup {"evidence"}) \cup {"instantiation"}
        = SnapshotTypes
  BY DEF SnapshotTypes
<1> QED  BY <1>3, <1>7, <1>8

LEMMA PairOf ==
    ASSUME NEW x, NEW y
    PROVE  <<x>> \o <<y>> = <<x, y>>
<1> DEFINE p == <<x>> \o <<y>>
           q == <<x, y>>
<1>1. <<x>> \in Seq({x, y}) /\ <<y>> \in Seq({x, y}) /\ q \in Seq({x, y})
  OBVIOUS
<1>2. p \in Seq({x, y}) /\ Len(p) = 2 /\ p[1] = x
  BY <1>1, ConcatProperties
<1>3. p[2] = y
  BY <1>1, ConcatProperties
<1>4. Len(q) = 2 /\ q[1] = x /\ q[2] = y
  OBVIOUS
<1> HIDE DEF p, q
<1>5. \A i \in 1 .. 2 : p[i] = q[i]
  <2>1. \A i \in 1 .. 2 : i = 1 \/ i = 2
    OBVIOUS
  <2> QED  BY <1>2, <1>3, <1>4, <2>1
<1>6. p = q
  BY <1>1, <1>2, <1>4, <1>5, SeqEqual
<1> QED  BY <1>6 DEF p, q

LEMMA EventsApart ==
    ASSUME NEW n \in Nat, NEW o \in Outcomes
    PROVE  Apart(Events(n, o), Named(n, "session", EventTypes))
<1> DEFINE one(type, names) ==
              <<Entry(n, "session", type, Named(n, "artifacts", names))>>
           K(A) == Named(n, "session", A)
           judged == {"run", "validation", "evidence"}
           a == one("candidate_validated", judged)
           b == When(o.instantiated,
                     one("instantiation_recorded", {"instantiation"})
                     \o one("execution_reconciled", judged \cup {"instantiation"}))
           c == When(o.decision # "allow" \/ o.payload,
                     one("safety_gate_evaluated", judged))
           d == When(o.decision = "reject", one("candidate_rejected", judged))
           B == {"instantiation_recorded"} \cup {"execution_reconciled"}
<1>1. ASSUME NEW type \in Types, NEW names \in SUBSET Types
      PROVE  Apart(one(type, names), K({type}))
  BY NamedType, ApartEntry DEF Stores
<1>2. /\ judged \in SUBSET Types /\ {"instantiation"} \in SUBSET Types
      /\ judged \cup {"instantiation"} \in SUBSET Types
      /\ EventTypes \subseteq Types
  BY DEF Types, EventTypes
<1> HIDE DEF one, K, judged
<1>3. /\ Apart(a, K({"candidate_validated"}))
      /\ Apart(one("instantiation_recorded", {"instantiation"}),
               K({"instantiation_recorded"}))
      /\ Apart(one("execution_reconciled", judged \cup {"instantiation"}),
               K({"execution_reconciled"}))
      /\ Apart(one("safety_gate_evaluated", judged), K({"safety_gate_evaluated"}))
      /\ Apart(one("candidate_rejected", judged), K({"candidate_rejected"}))
  BY <1>1, <1>2 DEF EventTypes
<1>4. Apart(b, K(B)) /\ Apart(c, K({"safety_gate_evaluated"}))
      /\ Apart(d, K({"candidate_rejected"}))
  <2>1. Apart(one("instantiation_recorded", {"instantiation"})
              \o one("execution_reconciled", judged \cup {"instantiation"}), K(B))
    BY <1>3, ApartTypes DEF K
  <2> QED  BY <1>3, <2>1, ApartWhen
<1>5. Events(n, o) = ((a \o b) \o c) \o d
  <2> DEFINE Noted(type, names) ==
                Entry(n, "session", type, Named(n, "artifacts", names))
             x == Noted("instantiation_recorded", {"instantiation"})
             y == Noted("execution_reconciled", judged \cup {"instantiation"})
  <2>1. b = When(o.instantiated, <<x, y>>)
    <3> HIDE DEF Noted
    <3>1. <<x>> \o <<y>> = <<x, y>>
      BY PairOf
    <3> QED  BY <3>1 DEF one, Noted
  <2> HIDE DEF b
  <2> QED  BY <2>1 DEF Events, one, judged
<1> HIDE DEF a, b, c, d
<1> DEFINE A == {"candidate_validated"} \cup B
           C == A \cup {"safety_gate_evaluated"}
<1>6. Apart(a \o b, K(A))
  <2>1. {"candidate_validated"} \cap B = {}
    OBVIOUS
  <2> HIDE DEF B
  <2> QED  BY <1>3, <1>4, <2>1, ApartTypes DEF K
<1>7. Apart((a \o b) \o c, K(C))
  <2>1. A \cap {"safety_gate_evaluated"} = {}
    OBVIOUS
  <2> HIDE DEF A
  <2> QED  BY <1>4, <1>6, <2>1, ApartTypes DEF K
<1>8. Apart(((a \o b) \o c) \o d, K(C \cup {"candidate_rejected"}))
  <2>1. C \cap {"candidate_rejected"} = {}
    OBVIOUS
  <2> HIDE DEF C
  <2> QED  BY <1>4, <1>7, <2>1, ApartTypes DEF K
<1>9. C \cup {"candidate_rejected"} = EventTypes
  BY DEF EventTypes
<1> HIDE DEF C
<1> QED  BY <1>5, <1>8, <1>9 DEF K

LEMMA AuditsApart ==
    ASSUME NEW n \in Nat, NEW s \in Seq(Entries), NEW t,
           Apart(t, Named(n, "session", EventTypes))
    PROVE  Apart(Audits(n, s, t), Named(n, "audit", {"snapshots"} \cup EventTypes))
<1> DEFINE first == <<Entry(n, "audit", "snapshots", Ids(s))>>
           E(i) == Entry(n, "audit", t[i].id.type, {t[i].id})
           each == [i \in DOMAIN t |-> E(i)]
<1>1. t \in Seq(Entries) /\ DOMAIN t = 1 .. Len(t) /\ Len(t) \in Nat
  BY LenProperties DEF Apart
<1>2. ASSUME NEW i \in DOMAIN t
      PROVE  /\ t[i].id.type \in EventTypes
             /\ t[i].id = Id(n, "session", t[i].id.type)
             /\ t[i].id \in EntryIds
  <2>1. t[i].id \in Named(n, "session", EventTypes)
    BY DEF Apart
  <2>2. PICK type \in EventTypes : t[i].id = Id(n, "session", type)
    BY <2>1 DEF Named
  <2>3. t[i].id.type = type
    BY <2>2 DEF Id
  <2>4. t[i] \in Entries
    BY <1>1, ElementOfSeq
  <2> QED  BY <2>2, <2>3, <2>4 DEF Entries
<1>3. Apart(first, Named(n, "audit", {"snapshots"}))
  <2>1. Ids(s) \in SUBSET EntryIds
    <3>1. \A i \in DOMAIN s : s[i] \in Entries
      BY ElementOfSeq, LenProperties
    <3> QED  BY <3>1 DEF Ids, Entries
  <2>2. "audit" \in Stores /\ "snapshots" \in Types
    BY DEF Stores, Types
  <2> QED  BY <2>1, <2>2, ApartEntry
<1>4. ASSUME NEW i \in DOMAIN t
      PROVE  E(i) \in Entries /\ E(i).id = Id(n, "audit", t[i].id.type)
  <2>1. "audit" \in Stores /\ t[i].id.type \in Types /\ {t[i].id} \in SUBSET EntryIds
    BY <1>2 DEF Stores, Types, EventTypes
  <2> QED  BY <2>1, EntryType
<1> HIDE DEF E
<1>5. each \in Seq(Entries) /\ DOMAIN each = DOMAIN t
  <2>1. each \in [1 .. Len(t) -> Entries]
    BY <1>1, <1>4
  <2> QED  BY <1>1, <2>1, SeqDef
<1>6. ASSUME NEW i \in DOMAIN t PROVE each[i].id \in Named(n, "audit", EventTypes)
  BY <1>2, <1>4 DEF Named
<1>7. ASSUME NEW i \in DOMAIN t, NEW j \in DOMAIN t, each[i].id = each[j].id
      PROVE  i = j
  <2>1. Id(n, "audit", t[i].id.type) = Id(n, "audit", t[j].id.type)
    BY <1>4, <1>7
  <2>2. t[i].id.type = t[j].id.type
    BY <2>1 DEF Id
  <2>3. t[i].id = t[j].id
    BY <1>2, <2>2
  <2> QED  BY <2>3 DEF Apart
<1>8. Apart(each, Named(n, "audit", EventTypes))
  BY <1>5, <1>6, <1>7 DEF Apart
<1>9. {"snapshots"} \cap EventTypes = {}
  BY DEF EventTypes
<1>10. Audits(n, s, t) = first \o each
  BY DEF Audits, E
<1> HIDE DEF first, each
<1> QED  BY <1>3, <1>8, <1>9, <1>10, ApartTypes

(* What a call is to write: no id twice, and all of them of this call.     *)
OfCall(s, n) ==
    /\ \A i \in DOMAIN s : s[i].id.call = n
    /\ \A i, j \in DOMAIN s : s[i].id = s[j].id => i = j

LEMMA RecordApart ==
    \A n \in Nat, o \in Outcomes : OfCall(RecordWrites(n, o), n)
<1> SUFFICES ASSUME NEW n \in Nat, NEW o \in Outcomes
             PROVE  OfCall(RecordWrites(n, o), n)
  OBVIOUS
<1> DEFINE s == Snapshots(n, o)
           t == Events(n, o)
           a == Audits(n, s, t)
           A == Named(n, "artifacts", SnapshotTypes)
           B == Named(n, "session", EventTypes)
           C == Named(n, "audit", {"snapshots"} \cup EventTypes)
<1>1. Apart(s, A) /\ s \in Seq(Entries)
  BY SnapshotsApart DEF Apart
<1>2. Apart(t, B)
  BY EventsApart
<1>3. Apart(a, C)
  BY <1>1, <1>2, AuditsApart
<1>4. RecordWrites(n, o) = (s \o t) \o a
  BY DEF RecordWrites
<1>5. A \cap B = {} /\ (A \cup B) \cap C = {}
  BY DEF Named, Id
<1>6. \A id \in (A \cup B) \cup C : id.call = n
  BY DEF Named, Id
<1> HIDE DEF s, t, a, A, B, C
<1>7. Apart(s \o t, A \cup B)
  BY <1>1, <1>2, <1>5, ApartConcat
<1>8. Apart((s \o t) \o a, (A \cup B) \cup C)
  BY <1>3, <1>5, <1>7, ApartConcat
<1> QED  BY <1>4, <1>6, <1>8 DEF OfCall, Apart

LEMMA PairsApart ==
    \A n \in Nat : /\ OfCall(RuntimeEventWrites(n), n)
                   /\ OfCall(DependencyGraphWrites(n), n)
<1> SUFFICES ASSUME NEW n \in Nat
             PROVE  /\ OfCall(RuntimeEventWrites(n), n)
                    /\ OfCall(DependencyGraphWrites(n), n)
  OBVIOUS
<1>1. ASSUME NEW x, NEW y, x.id.call = n, y.id.call = n, x.id.store # y.id.store
      PROVE  OfCall(<<x, y>>, n)
  <2>1. DOMAIN <<x, y>> = {1, 2} /\ <<x, y>>[1] = x /\ <<x, y>>[2] = y
    OBVIOUS
  <2> QED  BY <1>1, <2>1 DEF OfCall
<1>2. ASSUME NEW type, NEW store, NEW names, NEW more, store # "audit"
      PROVE  OfCall(<<Entry(n, store, type, names), Entry(n, "audit", type, more)>>, n)
  <2> DEFINE x == Entry(n, store, type, names)
             y == Entry(n, "audit", type, more)
  <2>1. x.id.call = n /\ y.id.call = n /\ x.id.store # y.id.store
    BY <1>2 DEF Entry, Id
  <2> HIDE DEF x, y
  <2>2. OfCall(<<x, y>>, n)
    BY <1>1, <2>1
  <2> QED  BY <2>2 DEF x, y
<1> QED  BY <1>2 DEF RuntimeEventWrites, DependencyGraphWrites

------------------------------------------------------------------------------
(* The audit log: each record is a leaf, at its index, and the root is     *)
(* that of the leaves                                                      *)

(* t is s, of n nodes, and e.                                              *)
OneMore(t, s, n, e) ==
    LevelOf(t, n + 1) /\ t[n + 1] = e /\ \A k \in 1 .. n : t[k] = s[k]

LEMMA LevelAppend ==
    ASSUME NEW n, NEW s, LevelOf(s, n), NEW e
    PROVE  OneMore(Append(s, e), s, n, e)
<1> DEFINE T == {s[k] : k \in 1 .. n} \cup {e}
<1>1. n \in Nat /\ s = [k \in 1 .. n |-> s[k]] /\ Len(s) = n
  BY DEF LevelOf
<1>2. s \in Seq(T) /\ e \in T
  <2>1. s \in [1 .. n -> T]
    BY <1>1
  <2> QED  BY <1>1, <2>1, SeqDef
<1> HIDE DEF T
<1>3. /\ Append(s, e) \in Seq(T) /\ Len(Append(s, e)) = n + 1
      /\ \A k \in 1 .. n : Append(s, e)[k] = s[k]
      /\ Append(s, e)[n + 1] = e
  BY <1>1, <1>2, AppendProperties
<1>4. Append(s, e) = [k \in 1 .. n + 1 |-> Append(s, e)[k]]
  <2>1. DOMAIN Append(s, e) = 1 .. n + 1
    BY <1>3, LenProperties
  <2>2. Append(s, e) \in [1 .. n + 1 -> T]
    BY <1>3, LenProperties
  <2> QED  BY <2>2
<1>5. n + 1 \in Nat
  BY <1>1
<1> QED  BY <1>3, <1>4, <1>5 DEF LevelOf, OneMore

(* The file is a level too, as the tree sees it.                           *)
LEMMA FileLevel ==
    \A s : IsFile(s) => LevelOf(s, Len(s)) /\ DOMAIN s = 1 .. Len(s)
<1> SUFFICES ASSUME NEW s, NEW T, s \in Seq(T)
             PROVE  LevelOf(s, Len(s)) /\ DOMAIN s = 1 .. Len(s)
  BY DEF IsFile
<1>1. Len(s) \in Nat /\ s \in [1 .. Len(s) -> T] /\ DOMAIN s = 1 .. Len(s)
  BY LenProperties
<1> QED  BY <1>1 DEF LevelOf

Exact(log, n) ==
    /\ log = [tree |-> log.tree, records |-> log.records]
    /\ LevelOf(log.records, n) /\ LevelOf(log.tree.leaves, n)
    /\ \A k \in 1 .. n : /\ log.tree.leaves[k] = Leaf(log.records[k].entry)
                         /\ log.records[k].index = k - 1
    /\ log.tree = [leaves |-> log.tree.leaves, cached |-> log.tree.cached]
    /\ log.tree.cached \in {{}, {RootOf(log.tree.leaves)}}

LEMMA EmptyLevel == LevelOf(<<>>, 0)
<1>1. <<>> = [k \in 1 .. 0 |-> <<>>[k]] /\ Len(<<>>) = 0
  OBVIOUS
<1> QED  BY <1>1 DEF LevelOf

LEMMA NoLogExact == Exact(NoLog, 0)
  BY EmptyLevel DEF Exact, NoLog, NoTree

LEMMA ExactRoot ==
    ASSUME NEW n, NEW log, Exact(log, n)
    PROVE  RootHash(log.tree) = RootOf(log.tree.leaves)
<1>1. \A x : (CHOOSE root \in {x} : TRUE) = x
  OBVIOUS
<1>2. CASE log.tree.cached = {}
  BY <1>2 DEF RootHash
<1>3. CASE log.tree.cached = {RootOf(log.tree.leaves)}
  BY <1>1, <1>3 DEF RootHash
<1> QED  BY <1>2, <1>3 DEF Exact

LEMMA AnchoredExact ==
    ASSUME NEW n, NEW log, Exact(log, n), NEW e
    PROVE  /\ Exact(Anchored(log, e), n + 1)
           /\ Anchored(log, e).records = Append(log.records, RecordOf(log, e))
           /\ RecordOf(log, e).entry = e
<1> DEFINE g == Grow(log.tree, e)
           a == Anchored(log, e)
           r == RecordOf(log, e)
           L == Append(log.tree.leaves, Leaf(e))
<1>1. n \in Nat /\ Len(log.records) = n
  BY DEF Exact, LevelOf
<1>2. g = [leaves |-> L, cached |-> {}]
  BY DEF Grow
<1>3. /\ LevelOf(L, n + 1) /\ \A k \in 1 .. n : L[k] = log.tree.leaves[k]
      /\ L[n + 1] = Leaf(e)
  <2>1. LevelOf(log.tree.leaves, n)
    BY DEF Exact
  <2>2. OneMore(L, log.tree.leaves, n, Leaf(e))
    BY <2>1, LevelAppend
  <2> HIDE DEF L
  <2> QED  BY <2>2 DEF OneMore
<1>4. r.entry = e /\ r.index = n
  BY <1>1 DEF RecordOf
<1>5. a.records = Append(log.records, r) /\ a.tree = Asked(g)
      /\ a = [tree |-> a.tree, records |-> a.records]
  BY DEF Anchored
<1> HIDE DEF a, r, L
<1>6. /\ LevelOf(a.records, n + 1)
      /\ \A k \in 1 .. n : a.records[k] = log.records[k]
      /\ a.records[n + 1] = r
  <2>1. LevelOf(log.records, n)
    BY DEF Exact
  <2>2. OneMore(a.records, log.records, n, r)
    BY <1>5, <2>1, LevelAppend
  <2> QED  BY <2>2 DEF OneMore
<1>7. L # <<>>
  BY <1>1, <1>3, EmptyLevel DEF LevelOf
<1>8. a.tree = [leaves |-> L, cached |-> {RootOf(L)}]
  <2>1. RootHash(g) = RootOf(L)
    BY <1>2 DEF RootHash
  <2>2. Asked(g) = [leaves |-> L, cached |-> {RootHash(g)}]
    <3> HIDE DEF g
    <3>1. g.leaves = L /\ [g EXCEPT !.cached = {RootHash(g)}]
                            = [leaves |-> L, cached |-> {RootHash(g)}]
      BY <1>2
    <3> QED  BY <1>7, <3>1 DEF Asked
  <2> QED  BY <1>5, <2>1, <2>2
<1>9. ASSUME NEW k \in 1 .. n + 1
      PROVE  a.tree.leaves[k] = Leaf(a.records[k].entry) /\ a.records[k].index = k - 1
  <2>1. CASE k = n + 1
    BY <1>1, <1>3, <1>4, <1>6, <1>8, <2>1
  <2>2. CASE k \in 1 .. n
    BY <1>3, <1>6, <1>8, <2>2 DEF Exact
  <2> QED  BY <1>1, <2>1, <2>2
<1>10. Exact(a, n + 1)
  <2>1. a.tree.leaves = L /\ a.tree.cached = {RootOf(L)}
    BY <1>8
  <2> QED  BY <1>3, <1>5, <1>6, <1>8, <1>9, <2>1 DEF Exact
<1> QED  BY <1>4, <1>5, <1>10 DEF a, r

(* A reload anchors the entries of the file's lines, one after the other.  *)
LEMMA ReloadExact ==
    ASSUME NEW file, IsFile(file)
    PROVE  /\ Exact(Reloaded(file), Len(file))
           /\ \A k \in 1 .. Len(file) :
                 Reloaded(file).records[k].entry = file[k].entry
<1> DEFINE n == Len(file)
<1>1. PICK T : file \in Seq(T)
  BY DEF IsFile
<1>2. n \in Nat
  BY <1>1, LenProperties
<1>3. PICK log : Reloads(log, file) /\ Reloaded(file) = log[n]
  BY <1>1, ReloadedInSteps
<1> DEFINE S == {k \in Nat : k <= n =>
                    /\ Exact(log[k], k)
                    /\ \A i \in 1 .. k : log[k].records[i].entry = file[i].entry}
<1>4. 0 \in S
  BY <1>3, NoLogExact DEF Reloads
<1>5. ASSUME NEW k \in Nat, k \in S PROVE k + 1 \in S
  <2>1. SUFFICES ASSUME k + 1 <= n
                 PROVE  /\ Exact(log[k + 1], k + 1)
                        /\ \A i \in 1 .. k + 1 :
                              log[k + 1].records[i].entry = file[i].entry
    OBVIOUS
  <2>2. /\ Exact(log[k], k)
        /\ \A i \in 1 .. k : log[k].records[i].entry = file[i].entry
    BY <1>2, <1>5, <2>1
  <2> DEFINE e == file[k + 1].entry
             r == RecordOf(log[k], e)
  <2>3. log[k + 1] = Anchored(log[k], e)
    <3>1. k + 1 \in 1 .. n /\ (k + 1) - 1 = k
      BY <1>2, <2>1
    <3> QED  BY <1>3, <3>1 DEF Reloads
  <2> HIDE DEF e
  <2>4. /\ Exact(log[k + 1], k + 1) /\ r.entry = e
        /\ log[k + 1].records = Append(log[k].records, r)
    BY <2>2, <2>3, AnchoredExact
  <2> HIDE DEF r
  <2>5. /\ \A i \in 1 .. k : log[k + 1].records[i] = log[k].records[i]
        /\ log[k + 1].records[k + 1] = r
    <3>1. LevelOf(log[k].records, k)
      BY <2>2 DEF Exact
    <3>2. OneMore(log[k + 1].records, log[k].records, k, r)
      BY <2>4, <3>1, LevelAppend
    <3> QED  BY <3>2 DEF OneMore
  <2>6. \A i \in 1 .. k + 1 : i \in 1 .. k \/ i = k + 1
    OBVIOUS
  <2> QED  BY <2>2, <2>4, <2>5, <2>6 DEF e
<1>6. Nat \subseteq S
  <2> HIDE DEF S
  <2> QED  BY <1>4, <1>5, NaturalsByInduction
<1> QED  BY <1>2, <1>3, <1>6

LEMMA ReloadNothing == Reloaded(<<>>) = NoLog
<1>1. <<>> \in Seq({}) /\ Len(<<>>) = 0
  OBVIOUS
<1>2. \E log : Reloads(log, <<>>) /\ Reloaded(<<>>) = log[Len(<<>>)]
  BY <1>1, ReloadedInSteps
<1> QED  BY <1>1, <1>2 DEF Reloads

(* One line more is one entry more in the log.                             *)
LEMMA ReloadAppend ==
    ASSUME NEW file, IsFile(file), NEW line
    PROVE  Reloaded(Append(file, line)) = Anchored(Reloaded(file), line.entry)
<1> DEFINE n == Len(file)
           more == Append(file, line)
<1>1. LevelOf(file, n) /\ n \in Nat
  BY FileLevel DEF LevelOf
<1>2. /\ IsFile(more) /\ Len(more) = n + 1 /\ more[n + 1] = line
      /\ \A k \in 1 .. n : more[k] = file[k]
  <2>1. OneMore(more, file, n, line)
    BY <1>1, LevelAppend
  <2>2. IsFile(more)
    BY AppendLine
  <2> HIDE DEF more
  <2> QED  BY <2>1, <2>2 DEF OneMore, LevelOf
<1> HIDE DEF more
<1>3. PICK a : Reloads(a, file) /\ Reloaded(file) = a[n]
  BY ReloadedInSteps DEF IsFile
<1>4. PICK b : Reloads(b, more) /\ Reloaded(more) = b[n + 1]
  BY <1>2, ReloadedInSteps DEF IsFile
<1>5. StepAlike(b, a, n)
  <2>1. \A k \in 1 .. n : k \in 1 .. n + 1
    OBVIOUS
  <2>2. a[0] = NoLog /\ b[0] = NoLog
    BY <1>3, <1>4 DEF Reloads
  <2>3. ASSUME NEW k \in 1 .. n, b[k - 1] = a[k - 1] PROVE b[k] = a[k]
    <3>1. b[k] = Anchored(b[k - 1], more[k].entry)
      BY <1>2, <1>4, <2>1 DEF Reloads
    <3>2. a[k] = Anchored(a[k - 1], file[k].entry)
      BY <1>3 DEF Reloads
    <3> QED  BY <1>2, <2>3, <3>1, <3>2
  <2> QED  BY <2>2, <2>3 DEF StepAlike
<1>6. b[n] = a[n]
  BY <1>1, <1>5, RecursionUnique
<1>7. b[n + 1] = Anchored(b[n], line.entry)
  <2>1. n + 1 \in 1 .. n + 1 /\ (n + 1) - 1 = n
    BY <1>1
  <2> QED  BY <1>2, <1>4, <2>1 DEF Reloads
<1> QED  BY <1>3, <1>4, <1>6, <1>7 DEF more

------------------------------------------------------------------------------
(* No entry is in the log twice                                            *)

(* The lines s differ by the ids of their entries, come from calls up to   *)
(* the c-th, and hold nothing of what w is to write from the k-th on.      *)
Once(s) == \A i, j \in DOMAIN s : s[i].entry.id = s[j].entry.id => i = j
Lines(s, c, w, k) ==
    /\ IsFile(s) /\ Once(s)
    /\ \A i \in DOMAIN s :
          /\ s[i].entry.id.call \in Nat /\ s[i].entry.id.call <= c
          /\ \A j \in DOMAIN w : j >= k => s[i].entry.id # w[j].id

LEMMA LineWritten ==
    ASSUME NEW s, NEW c \in Nat, NEW w \in Seq(Entries), NEW k \in DOMAIN w,
           Lines(s, c, w, k), OfCall(w, c), NEW line, line.entry = w[k]
    PROVE  Lines(Append(s, line), c, w, k + 1)
<1> DEFINE n == Len(s)
           t == Append(s, line)
<1>1. LevelOf(s, n) /\ DOMAIN s = 1 .. n /\ n \in Nat
  BY FileLevel DEF Lines, LevelOf
<1>2. IsFile(t) /\ OneMore(t, s, n, line)
  BY <1>1, AppendLine, LevelAppend DEF Lines
<1>3. DOMAIN t = 1 .. n + 1
  BY <1>2 DEF OneMore, LevelOf
<1>4. DOMAIN w \subseteq Nat /\ k \in Nat
  BY LenProperties
<1> HIDE DEF t, n
<1>5. \A i \in DOMAIN t : \/ i \in DOMAIN s /\ t[i] = s[i]
                          \/ i = n + 1 /\ t[i] = line
  BY <1>1, <1>2, <1>3 DEF OneMore
<1>6. \A i \in DOMAIN s : s[i].entry.id # line.entry.id
  BY <1>4 DEF Lines
<1>7. Once(t)
  BY <1>5, <1>6 DEF Once, Lines
<1>8. ASSUME NEW i \in DOMAIN t
      PROVE  /\ t[i].entry.id.call \in Nat /\ t[i].entry.id.call <= c
             /\ \A j \in DOMAIN w : j >= k + 1 => t[i].entry.id # w[j].id
  <2>1. CASE i \in DOMAIN s /\ t[i] = s[i]
    BY <1>4, <2>1 DEF Lines
  <2>2. CASE t[i] = line
    <3>1. line.entry.id.call = c
      BY DEF OfCall
    <3>2. \A j \in DOMAIN w : j >= k + 1 => j # k
      BY <1>4
    <3> QED  BY <2>2, <3>1, <3>2 DEF OfCall
  <2> QED  BY <1>5, <2>1, <2>2
<1> QED  BY <1>2, <1>7, <1>8 DEF Lines, t

LEMMA LinesWait ==
    ASSUME NEW s, NEW c \in Nat, NEW w \in Seq(Entries), NEW k \in Nat,
           Lines(s, c, w, k)
    PROVE  Lines(s, c, w, k + 1) /\ Lines(s, c, <<>>, 1)
<1>1. \A j \in DOMAIN w : j \in Nat /\ (j >= k + 1 => j >= k)
  BY LenProperties
<1>2. DOMAIN <<>> = {}
  OBVIOUS
<1> QED  BY <1>1, <1>2 DEF Lines

LEMMA LinesBegin ==
    ASSUME NEW s, NEW c \in Nat, Lines(s, c, <<>>, 1), NEW w, OfCall(w, c + 1)
    PROVE  Lines(s, c + 1, w, 1)
<1>1. ASSUME NEW i \in DOMAIN s
      PROVE  /\ s[i].entry.id.call \in Nat /\ s[i].entry.id.call <= c + 1
             /\ s[i].entry.id.call # c + 1
  BY DEF Lines
<1>2. \A i \in DOMAIN s, j \in DOMAIN w : s[i].entry.id # w[j].id
  BY <1>1 DEF OfCall
<1> QED  BY <1>1, <1>2 DEF Lines

LEMMA LinesSame ==
    ASSUME NEW s, NEW c, NEW w, NEW k, Lines(s, c, w, k),
           NEW t, LevelOf(t, Len(s)), \A i \in 1 .. Len(s) : t[i].entry = s[i].entry
    PROVE  Lines(t, c, w, k)
<1>1. DOMAIN s = 1 .. Len(s) /\ DOMAIN t = 1 .. Len(s) /\ Len(s) \in Nat
  BY FileLevel DEF Lines, LevelOf
<1>2. IsFile(t)
  <2>1. t \in [1 .. Len(s) -> {t[i] : i \in 1 .. Len(s)}]
    BY DEF LevelOf
  <2>2. t \in Seq({t[i] : i \in 1 .. Len(s)})
    BY <1>1, <2>1, SeqDef
  <2> QED  BY <2>2 DEF IsFile
<1> QED  BY <1>1, <1>2 DEF Lines, Once

AuditInv ==
    /\ ~up => writes = <<>>
    /\ OfCall(writes, calls)
    /\ Exact(Log, Len(records))
    /\ Lines(records, calls, writes, step)
    /\ Lines(auditFile, calls, writes, step)
    /\ "audit" \notin failed =>
          /\ Reloaded(auditFile).records = auditFile
          /\ up /\ Kept => Reloaded(auditFile) = Log

LEMMA OfNoCall == \A n : OfCall(<<>>, n)
<1>1. DOMAIN <<>> = {}
  OBVIOUS
<1> QED  BY <1>1 DEF OfCall

LEMMA AuditInit == Init => AuditInv
<1> SUFFICES ASSUME Init PROVE AuditInv
  OBVIOUS
<1>1. \A c, w, k : Lines(<<>>, c, w, k)
  <2>1. DOMAIN <<>> = {} /\ IsFile(<<>>)
    BY EmptySeq DEF IsFile
  <2> QED  BY <2>1 DEF Lines, Once
<1>2. Exact(Log, Len(records))
  BY NoLogExact DEF Init, Log, NoLog
<1> DEFINE line == RecordOf(NoLog, Seed)
<1>3. /\ Anchored(NoLog, Seed).records = <<line>>
      /\ line.entry = Seed
  <2>1. Append(NoLog.records, line) = <<line>>
    BY DEF NoLog
  <2>2. Anchored(NoLog, Seed).records = Append(NoLog.records, line)
    BY DEF Anchored
  <2>3. line.entry = Seed
    BY DEF RecordOf
  <2> QED  BY <2>1, <2>2, <2>3
<1>4. Append(<<>>, line) = <<line>> /\ IsFile(<<>>)
  BY EmptySeq DEF IsFile
<1> HIDE DEF line
<1>5. Reloaded(<<line>>) = Anchored(NoLog, Seed)
  BY <1>3, <1>4, ReloadAppend, ReloadNothing
<1>6. Lines(<<line>>, 0, <<>>, 1)
  <2>1. DOMAIN <<line>> = {1} /\ <<line>>[1] = line /\ DOMAIN <<>> = {}
        /\ <<line>> \in Seq({line})
    OBVIOUS
  <2>2. line.entry.id.call = 0
    BY <1>3 DEF Seed, Entry, Id
  <2>3. IsFile(<<line>>)
    BY <2>1 DEF IsFile
  <2>4. Once(<<line>>)
    BY <2>1 DEF Once
  <2>5. \A i \in DOMAIN <<line>> : <<line>>[i].entry.id.call = 0
    BY <2>1, <2>2
  <2>6. DOMAIN <<>> = {} /\ 0 \in Nat /\ 0 <= 0
    OBVIOUS
  <2> QED  BY <2>3, <2>4, <2>5, <2>6 DEF Lines
<1>7. Reloaded(<<>>).records = <<>>
  BY ReloadNothing DEF NoLog
<1>8. auditFile = <<>> \/ auditFile = <<line>>
  BY DEF Init, line
<1>9. Lines(auditFile, 0, <<>>, 1) /\ Reloaded(auditFile).records = auditFile
  BY <1>1, <1>3, <1>5, <1>6, <1>7, <1>8
<1> QED  BY <1>1, <1>2, <1>9, OfNoCall DEF Init, AuditInv

LEMMA AuditBegin ==
    ASSUME Inv, AuditInv, NEW entries, OfCall(entries, calls + 1), Begin(entries)
    PROVE  AuditInv'
<1>1. /\ calls \in Nat /\ writes = <<>> /\ step = 1
      /\ calls' = calls + 1 /\ writes' = entries /\ step' = 1 /\ up /\ up'
      /\ UNCHANGED <<tree, records, auditFile, failed>>
  BY DEF Begin, Inv, CallTyped, auditVars, histVars
<1>2. Lines(records, calls, <<>>, 1) /\ Lines(auditFile, calls, <<>>, 1)
  BY <1>1 DEF AuditInv
<1>3. /\ Lines(records, calls + 1, entries, 1)
      /\ Lines(auditFile, calls + 1, entries, 1)
  BY <1>1, <1>2, LinesBegin
<1>4. Log' = Log /\ Kept' = Kept
  BY <1>1 DEF Log, Kept
<1> QED  BY <1>1, <1>3, <1>4 DEF AuditInv

(* What an entry that is anchored leaves of the log, in memory.            *)
LEMMA AuditRemembered ==
    ASSUME Inv, AuditInv, step \in DOMAIN writes, Remember("audit")
    PROVE  /\ Log' = Anchored(Log, Coming) /\ Exact(Log', Len(records'))
           /\ Lines(records', calls, writes, step + 1)
           /\ Lines(records', calls, <<>>, 1)
<1>1. /\ tree' = Anchored(Log, Coming).tree
      /\ records' = Anchored(Log, Coming).records
  BY DEF Remember
<1> DEFINE a == Anchored(Log, Coming)
           r == RecordOf(Log, Coming)
           n == Len(records)
<1>2. Exact(Log, n) /\ Log.records = records
  BY DEF AuditInv, Log
<1> HIDE DEF n
<1>3. /\ Exact(a, n + 1) /\ a.records = Append(records, r) /\ r.entry = Coming
  BY <1>2, AnchoredExact
<1> HIDE DEF a, r
<1>4. Log' = [tree |-> a.tree, records |-> a.records]
  BY <1>1 DEF Log, a
<1>5. Log' = a
  BY <1>3, <1>4 DEF Exact
<1>6. Len(records') = n + 1
  BY <1>1, <1>3 DEF Exact, LevelOf, a
<1>7. calls \in Nat /\ writes \in Seq(Entries) /\ step \in Nat
  BY DEF Inv, CallTyped, Written
<1>8. Lines(Append(records, r), calls, writes, step + 1)
  <2>1. Lines(records, calls, writes, step) /\ OfCall(writes, calls)
    BY DEF AuditInv
  <2>2. r.entry = writes[step]
    BY <1>3 DEF Coming
  <2> QED  BY <1>7, <2>1, <2>2, LineWritten
<1>9. step + 1 \in Nat /\ records' = Append(records, r)
  BY <1>1, <1>3, <1>7 DEF a
<1>10. Lines(Append(records, r), calls, <<>>, 1)
  BY <1>7, <1>8, <1>9, LinesWait
<1> QED  BY <1>3, <1>5, <1>6, <1>8, <1>9, <1>10 DEF a

(* A write to another store leaves the log alone.                          *)
LEMMA AuditElsewhere ==
    ASSUME Inv, AuditInv, step \in DOMAIN writes, up, GoOn,
           UNCHANGED <<tree, records, auditFile>>
    PROVE  AuditInv'
<1>1. /\ step' = step + 1 /\ up' /\ calls' = calls /\ writes' = writes
      /\ failed' = failed
  BY DEF GoOn, histVars
<1>2. calls \in Nat /\ writes \in Seq(Entries) /\ step \in Nat
  BY DEF Inv, CallTyped, Written
<1>3. /\ Lines(records, calls, writes, step + 1)
      /\ Lines(auditFile, calls, writes, step + 1)
  BY <1>2, LinesWait DEF AuditInv
<1>4. Log' = Log /\ Kept' = Kept
  BY DEF Log, Kept
<1> QED  BY <1>1, <1>3, <1>4 DEF AuditInv

LEMMA AuditAppended ==
    ASSUME Inv, AuditInv, AppendAudit
    PROVE  AuditInv'
<1>1. /\ step \in DOMAIN writes /\ up /\ Remember("audit")
      /\ step' = step + 1 /\ up' /\ calls' = calls /\ writes' = writes
      /\ failed' = failed
      /\ auditFile' = IF Kept THEN Append(auditFile, RecordOf(Log, Coming))
                      ELSE auditFile
  BY DEF AppendAudit, Doing, GoOn, histVars
<1>2. /\ Log' = Anchored(Log, Coming) /\ Exact(Log', Len(records'))
      /\ Lines(records', calls, writes, step + 1)
  BY <1>1, AuditRemembered
<1>3. calls \in Nat /\ writes \in Seq(Entries) /\ step \in Nat
  BY DEF Inv, CallTyped, Written
<1> DEFINE r == RecordOf(Log, Coming)
<1>4. r.entry = Coming /\ IsFile(auditFile)
  BY DEF RecordOf, Inv, FilesTyped
<1>5. Anchored(Log, Coming).records = Append(Log.records, r)
  BY DEF Anchored
<1> HIDE DEF r
<1>6. CASE Kept
  <2>1. auditFile' = Append(auditFile, r)
    BY <1>1, <1>6 DEF r
  <2>2. Lines(auditFile', calls, writes, step + 1)
    <3>1. Lines(auditFile, calls, writes, step) /\ OfCall(writes, calls)
      BY DEF AuditInv
    <3>2. r.entry = writes[step]
      BY <1>4 DEF Coming
    <3> QED  BY <1>1, <1>3, <2>1, <3>1, <3>2, LineWritten
  <2>3. ASSUME "audit" \notin failed
        PROVE  Reloaded(auditFile').records = auditFile' /\ Reloaded(auditFile') = Log'
    <3>1. Reloaded(auditFile).records = auditFile /\ Reloaded(auditFile) = Log
      BY <1>1, <1>6, <2>3 DEF AuditInv
    <3>2. Reloaded(auditFile') = Anchored(Reloaded(auditFile), r.entry)
      BY <1>4, <2>1, ReloadAppend
    <3>3. Reloaded(auditFile') = Log'
      BY <1>2, <1>4, <3>1, <3>2
    <3>4. Log'.records = Append(Log.records, r)
      BY <1>2, <1>5
    <3> QED  BY <2>1, <3>1, <3>3, <3>4
  <2> QED  BY <1>1, <1>2, <2>2, <2>3 DEF AuditInv
<1>7. CASE ~Kept
  <2>1. auditFile' = auditFile /\ ~Kept'
    BY <1>1, <1>7 DEF Kept
  <2>2. Lines(auditFile, calls, writes, step + 1)
    BY <1>3, LinesWait DEF AuditInv
  <2> QED  BY <1>1, <1>2, <2>1, <2>2 DEF AuditInv
<1> QED  BY <1>6, <1>7

LEMMA AuditRaised ==
    ASSUME Inv, AuditInv, NEW store \in Stores, WriteRaises(store)
    PROVE  AuditInv'
<1>1. /\ step \in DOMAIN writes /\ up /\ up' /\ Remember(store)
      /\ failed' = failed \cup {store} /\ auditFile' = auditFile
      /\ writes' = <<>> /\ step' = 1 /\ calls' = calls
  BY DEF WriteRaises, Opens, Doing, NoCall
<1>2. calls \in Nat /\ writes \in Seq(Entries) /\ step \in Nat
  BY DEF Inv, CallTyped, Written
<1>3. Lines(auditFile, calls, <<>>, 1) /\ Lines(records, calls, <<>>, 1)
  BY <1>2, LinesWait DEF AuditInv
<1>4. CASE store = "audit"
  <2>1. Exact(Log', Len(records')) /\ Lines(records', calls, <<>>, 1)
    BY <1>1, <1>4, AuditRemembered
  <2>2. "audit" \in failed'
    BY <1>1, <1>4
  <2> QED  BY <1>1, <1>3, <2>1, <2>2, OfNoCall DEF AuditInv
<1>5. CASE store # "audit"
  <2>1. UNCHANGED <<tree, records>> /\ ("audit" \in failed' <=> "audit" \in failed)
    BY <1>1, <1>5 DEF Remember
  <2>2. Log' = Log /\ Kept' = Kept
    BY <1>1, <2>1 DEF Log, Kept
  <2> QED  BY <1>1, <1>3, <2>1, <2>2, OfNoCall DEF AuditInv
<1> QED  BY <1>4, <1>5

LEMMA AuditStarted ==
    ASSUME Inv, AuditInv, Start
    PROVE  AuditInv'
<1>1. /\ up' /\ tree' = Reloaded(auditFile).tree
      /\ records' = Reloaded(auditFile).records
      /\ UNCHANGED <<calls, writes, step, auditFile, failed>>
  BY DEF Start, callVars, histVars
<1> DEFINE log == Reloaded(auditFile)
           n == Len(auditFile)
<1>2. /\ Exact(log, n)
      /\ \A k \in 1 .. n : log.records[k].entry = auditFile[k].entry
  BY ReloadExact DEF Inv, FilesTyped
<1>3. Log' = log
  <2>1. Log' = [tree |-> log.tree, records |-> log.records]
    BY <1>1 DEF Log
  <2> HIDE DEF log
  <2> QED  BY <1>2, <2>1 DEF Exact
<1>4. Len(records') = n
  BY <1>1, <1>2 DEF Exact, LevelOf
<1>5. Lines(records', calls, writes, step)
  <2>1. Lines(auditFile, calls, writes, step)
    BY DEF AuditInv
  <2>2. LevelOf(log.records, n)
    BY <1>2 DEF Exact
  <2> HIDE DEF log
  <2>3. Lines(log.records, calls, writes, step)
    BY <1>2, <2>1, <2>2, LinesSame
  <2> QED  BY <1>1, <2>3 DEF log
<1>6. Lines(auditFile, calls, writes, step) /\ OfCall(writes, calls)
  BY DEF AuditInv
<1>7. "audit" \notin failed => log.records = auditFile
  BY DEF AuditInv
<1> HIDE DEF log, n
<1> QED  BY <1>1, <1>2, <1>3, <1>4, <1>5, <1>6, <1>7 DEF AuditInv, log

LEMMA AuditEnded ==
    ASSUME Inv, AuditInv, Crash \/ Return
    PROVE  AuditInv'
<1>1. /\ writes' = <<>> /\ step' = 1 /\ calls' = calls
      /\ UNCHANGED <<auditFile, failed>>
  BY DEF Crash, Return, NoCall, auditVars
<1>2. calls \in Nat /\ writes \in Seq(Entries) /\ step \in Nat
  BY DEF Inv, CallTyped, Written
<1>3. Lines(auditFile, calls, <<>>, 1) /\ Lines(records, calls, <<>>, 1)
  BY <1>2, LinesWait DEF AuditInv
<1>4. CASE Crash
  <2>1. ~up' /\ tree' = NoTree /\ records' = <<>>
    BY <1>4 DEF Crash
  <2>2. Log' = NoLog /\ Len(records') = 0
    BY <2>1 DEF Log, NoLog
  <2>3. Lines(<<>>, calls, <<>>, 1)
    <3>1. DOMAIN <<>> = {} /\ IsFile(<<>>)
      BY EmptySeq DEF IsFile
    <3> QED  BY <3>1 DEF Lines, Once
  <2> QED  BY <1>1, <1>3, <2>1, <2>2, <2>3, NoLogExact, OfNoCall DEF AuditInv
<1>5. CASE Return
  <2>1. UNCHANGED <<up, tree, records>> /\ up
    BY <1>5 DEF Return, auditVars
  <2>2. Log' = Log /\ Kept' = Kept
    BY <1>1, <2>1 DEF Log, Kept
  <2> QED  BY <1>1, <1>3, <2>1, <2>2, OfNoCall DEF AuditInv
<1> QED  BY <1>4, <1>5

LEMMA AuditNext == Inv /\ AuditInv /\ [Next]_vars => AuditInv'
<1> SUFFICES ASSUME Inv, AuditInv, [Next]_vars PROVE AuditInv'
  OBVIOUS
<1>1. calls + 1 \in Nat
  BY DEF Inv, CallTyped
<1>2. CASE Start
  BY <1>2, AuditStarted
<1>3. CASE \E o \in Outcomes : Record(o)
  BY <1>1, <1>3, RecordApart, AuditBegin DEF Record
<1>4. CASE RuntimeEvent
  BY <1>1, <1>4, PairsApart, AuditBegin DEF RuntimeEvent
<1>5. CASE DependencyGraph
  BY <1>1, <1>5, PairsApart, AuditBegin DEF DependencyGraph
<1>6. CASE Save
  <2>1. step \in DOMAIN writes /\ up /\ GoOn /\ UNCHANGED <<tree, records, auditFile>>
    BY <1>6 DEF Save, Doing, Remember
  <2> QED  BY <2>1, AuditElsewhere
<1>7. CASE AppendEvent
  <2>1. step \in DOMAIN writes /\ up /\ GoOn /\ UNCHANGED <<tree, records, auditFile>>
    BY <1>7 DEF AppendEvent, Doing, Remember
  <2> QED  BY <2>1, AuditElsewhere
<1>8. CASE AppendAudit
  BY <1>8, AuditAppended
<1>9. CASE \E store \in Stores : WriteRaises(store)
  BY <1>9, AuditRaised
<1>10. CASE Return \/ Crash
  BY <1>10, AuditEnded
<1>11. CASE UNCHANGED vars
  <2>1. UNCHANGED <<up, calls, writes, step, tree, records, auditFile, failed>>
    BY <1>11 DEF vars, callVars, auditVars, histVars
  <2>2. Log' = Log /\ Kept' = Kept
    BY <2>1 DEF Log, Kept
  <2> QED  BY <2>1, <2>2 DEF AuditInv
<1> QED  BY <1>2, <1>3, <1>4, <1>5, <1>6, <1>7, <1>8, <1>9, <1>10, <1>11
         DEF Next

LEMMA AuditAlways == Spec => []AuditInv
  BY InvAlways, InvInit, InvNext, AuditInit, AuditNext, PTL DEF Spec

(* Whatever raises and whenever the process ends: the index and the root   *)
(* an audit record was written with are those a later start computes for   *)
(* it (AuditLog._load), unless a write to the audit file raised.           *)
THEOREM RootsAlwaysSurvive == Spec => []RootsSurvive
<1>1. AuditInv => RootsSurvive
  BY DEF AuditInv, RootsSurvive
<1> QED  BY <1>1, AuditAlways, PTL

(* AuditLog.verify, for a log of any length: the proof that the tree makes *)
(* for a record leads from that record to the root of now, and from no     *)
(* other record, before and after any number of restarts.                  *)
THEOREM RecordsAlwaysVerify == Spec => []RecordsVerify
<1>1. AuditInv => RecordsVerify
  <2> SUFFICES ASSUME AuditInv, NEW i \in DOMAIN records
               PROVE  {j \in DOMAIN records :
                          Verify(records[j].entry,
                                 ProofFor(tree.leaves, records[i].index),
                                 RootHash(tree))} = {i}
    BY DEF RecordsVerify
  <2> DEFINE n == Len(records)
  <2>1. /\ Exact(Log, n) /\ Log.tree = tree /\ Log.records = records
        /\ Once(records) /\ DOMAIN records = 1 .. n
    BY FileLevel DEF AuditInv, Lines, Log
  <2> HIDE DEF n
  <2>2. RootHash(tree) = RootOf(tree.leaves)
    BY <2>1, ExactRoot
  <2>3. LevelOf(tree.leaves, n) /\ n \in Nat
    BY <2>1 DEF Exact, LevelOf
  <2>4. \A k \in 1 .. n : /\ tree.leaves[k] = Leaf(records[k].entry)
                          /\ records[k].index = k - 1
    BY <2>1 DEF Exact
  <2>5. i - 1 \in 0 .. n - 1 /\ (i - 1) + 1 = i
    BY <2>1, <2>3
  <2>6. ASSUME NEW j \in DOMAIN records
        PROVE  Verify(records[j].entry, ProofFor(tree.leaves, records[i].index),
                      RootHash(tree)) <=> j = i
    <3>1. Verify(records[j].entry, ProofFor(tree.leaves, i - 1),
                 RootOf(tree.leaves))
            <=> Leaf(records[j].entry) = tree.leaves[(i - 1) + 1]
      BY <2>3, <2>5, VerifyExact
    <3>2. tree.leaves[i] = Leaf(records[i].entry) /\ records[i].index = i - 1
      BY <2>1, <2>4
    <3>3. Leaf(records[j].entry) = Leaf(records[i].entry)
            => records[j].entry = records[i].entry
      BY LeafTells
    <3>4. records[j].entry = records[i].entry => j = i
      BY <2>1 DEF Once
    <3> QED  BY <2>2, <2>5, <3>1, <3>2, <3>3, <3>4
  <2> QED  BY <2>6
<1> QED  BY <1>1, AuditAlways, PTL
===============================================================================
