--------------------------- MODULE AdmissionProofs ---------------------------
(***************************************************************************)
(* What holds of Admission, and of the boot before it, for any setups,     *)
(* components, graphs, actors and approvals, any number of calls and any   *)
(* depth of nesting.                                                       *)
(***************************************************************************)
EXTENDS Admission, Recursion, FiniteSetTheorems, SequenceTheorems

------------------------------------------------------------------------------
(* What follows a node of a finite graph                                   *)

(* next maps each of finitely many nodes to its neighbours, nodes again.   *)
Digraph(next) ==
    /\ next \in [DOMAIN next -> SUBSET DOMAIN next]
    /\ IsFiniteSet(DOMAIN next)

(* One step of Reach.                                                      *)
Wider(next, r) ==
    [c \in DOMAIN next |-> r[c] \cup UNION {next[d] : d \in r[c]}]

LEMMA ReachSteps ==
    ASSUME NEW next, Digraph(next)
    PROVE  /\ Cardinality(DOMAIN next) \in Nat
           /\ Reach(next)[0] = next
           /\ \A n \in 1..Cardinality(DOMAIN next) :
                Reach(next)[n] = Wider(next, Reach(next)[n - 1])
           /\ \A n \in 0..Cardinality(DOMAIN next) :
                Reach(next)[n] \in [DOMAIN next -> SUBSET DOMAIN next]
<1> DEFINE N == Cardinality(DOMAIN next)
           V == [DOMAIN next -> SUBSET DOMAIN next]
           step == [k \in 1..N |-> [v \in V |-> Wider(next, v)]]
           Eq(f) == f = [n \in 0..N |->
                           IF n = 0 THEN next
                           ELSE [c \in DOMAIN next |->
                                   f[n - 1][c] \cup UNION {next[d] : d \in f[n - 1][c]}]]
<1>1. N \in Nat /\ next \in V
  BY FS_CardinalityType DEF Digraph
<1>2. ASSUME NEW v \in V PROVE Wider(next, v) \in V
  <2>1. ASSUME NEW c \in DOMAIN next PROVE v[c] \cup UNION {next[d] : d \in v[c]} \in SUBSET DOMAIN next
    BY <1>1
  <2> QED BY <2>1 DEF Wider
<1>3. \A k \in 1..N : \A v \in V : step[k][v] \in V
  BY <1>2
<1> HIDE DEF N, V
<1>4. PICK f : Iterates(f, N, V, next, step)
  <2> HIDE DEF step
  <2> QED BY <1>1, <1>3, RecursionExists
<1>5. ASSUME NEW n \in 1..N PROVE f[n] = Wider(next, f[n - 1])
  <2>1. n - 1 \in 0..N
    BY <1>1
  <2> QED BY <1>4, <2>1 DEF Iterates
<1>6. Eq(f)
  <2>1. f = [n \in 0..N |-> f[n]] /\ f[0] = next
    BY <1>4 DEF Iterates
  <2>2. \A n \in 0..N : n # 0 => n \in 1..N
    BY <1>1
  <2>3. \A n \in 0..N : f[n] = IF n = 0 THEN next
                           ELSE [c \in DOMAIN next |->
                                   f[n - 1][c] \cup UNION {next[d] : d \in f[n - 1][c]}]
    BY <1>5, <2>1, <2>2 DEF Wider
  <2> QED BY <2>1, <2>3
<1>7. Reach(next) = CHOOSE g : Eq(g)
  BY DEF Reach, N
<1> DEFINE r == Reach(next)
<1>8. Eq(r)
  <2> HIDE DEF Eq
  <2> QED BY <1>6, <1>7
<1> HIDE DEF r
<1>9. r[0] = next /\ \A n \in 1..N : r[n] = Wider(next, r[n - 1])
  <2>1. 0 \in 0..N /\ \A n \in 1..N : n \in 0..N /\ n # 0
    BY <1>1
  <2>2. r[0] = next
    BY <1>8, <2>1
  <2>3. ASSUME NEW n \in 1..N PROVE r[n] = Wider(next, r[n - 1])
    BY <1>8, <2>1 DEF Wider
  <2> QED BY <2>2, <2>3
<1>10. StepAlike(r, f, N)
  BY <1>4, <1>5, <1>9 DEF StepAlike, Iterates
<1>11. ASSUME NEW n \in 0..N PROVE r[n] \in V
  <2>1. n \in Nat /\ StepAlike(r, f, n)
    BY <1>1, <1>10 DEF StepAlike
  <2>2. r[n] = f[n]
    BY <2>1, RecursionUnique
  <2> QED BY <1>4, <2>2 DEF Iterates
<1> QED BY <1>1, <1>9, <1>11 DEF r, N, V

(* Following holds the neighbours of a node, with every node their         *)
(* neighbours, and nothing that a set closed in this way need not hold.    *)
ClosedUnder(next, S) == \A d \in S : next[d] \subseteq S

LEMMA FollowingCloses ==
    ASSUME NEW next, Digraph(next), NEW c \in DOMAIN next
    PROVE  /\ Following(next)[c] \subseteq DOMAIN next
           /\ next[c] \subseteq Following(next)[c]
           /\ ClosedUnder(next, Following(next)[c])
<1> DEFINE N == Cardinality(DOMAIN next)
           R(n) == Reach(next)[n][c]
           Grown(n) == ClosedUnder(next, R(n)) \/ Cardinality(R(n)) > n
           S == {n \in Nat : n <= N => Grown(n) /\ next[c] \subseteq R(n)}
<1>1. /\ N \in Nat
      /\ R(0) = next[c]
      /\ \A n \in 0..N : R(n) \subseteq DOMAIN next
  BY ReachSteps
<1>2. ASSUME NEW n \in 1..N
      PROVE  R(n) = R(n - 1) \cup UNION {next[d] : d \in R(n - 1)}
  <2>1. Reach(next)[n] = Wider(next, Reach(next)[n - 1])
    BY ReachSteps
  <2> QED BY <2>1 DEF Wider
<1>3. ASSUME NEW n \in 0..N
      PROVE  IsFiniteSet(R(n)) /\ Cardinality(R(n)) \in Nat /\ Cardinality(R(n)) <= N
  <2>1. R(n) \in SUBSET DOMAIN next
    BY <1>1
  <2> HIDE DEF R
  <2> QED BY <2>1, FS_Subset, FS_CardinalityType DEF Digraph
<1>4. Following(next)[c] = R(N)
  BY DEF Following
<1> HIDE DEF R, N
<1>5. 0 \in S
  <2>1. CASE R(0) = {}
    BY <2>1, <1>1 DEF ClosedUnder
  <2>2. CASE R(0) # {}
    <3>1. 0 \in 0..N
      BY <1>1
    <3>2. Cardinality(R(0)) # 0
      BY <1>3, <3>1, <2>2, FS_EmptySet
    <3> QED BY <1>1, <1>3, <3>1, <3>2
  <2> QED BY <2>1, <2>2
<1>6. ASSUME NEW n \in Nat, n \in S PROVE n + 1 \in S
  <2> SUFFICES ASSUME n + 1 <= N PROVE Grown(n + 1) /\ next[c] \subseteq R(n + 1)
    OBVIOUS
  <2>1. n + 1 \in 1..N /\ (n + 1) - 1 = n /\ n \in 0..N /\ n + 1 \in 0..N
    BY <1>1
  <2>2. Grown(n) /\ next[c] \subseteq R(n)
    BY <1>6, <2>1
  <2>3. R(n + 1) = R(n) \cup UNION {next[d] : d \in R(n)}
    BY <1>2, <2>1
  <2>4. CASE ClosedUnder(next, R(n))
    <3>1. R(n + 1) = R(n)
      BY <2>3, <2>4 DEF ClosedUnder
    <3> QED BY <2>2, <2>4, <3>1
  <2>5. CASE ~ ClosedUnder(next, R(n))
    <3>1. R(n) # R(n + 1) /\ R(n) \in SUBSET R(n + 1)
      BY <2>3, <2>5 DEF ClosedUnder
    <3>2. Cardinality(R(n)) <= Cardinality(R(n + 1)) /\ Cardinality(R(n)) # Cardinality(R(n + 1))
      BY <1>3, <2>1, <3>1, FS_Subset
    <3>3. Cardinality(R(n)) > n
      BY <2>2, <2>5
    <3>4. Cardinality(R(n + 1)) > n + 1
      BY <1>3, <2>1, <3>2, <3>3
    <3> QED BY <2>2, <3>1, <3>4
  <2> QED BY <2>4, <2>5
<1>7. N \in S
  <2> HIDE DEF S
  <2> QED BY <1>1, <1>5, <1>6, NaturalsByInduction
<1>8. Grown(N) /\ next[c] \subseteq R(N) /\ N \in 0..N
  BY <1>1, <1>7
<1>9. ClosedUnder(next, R(N))
  BY <1>1, <1>3, <1>8
<1> QED BY <1>1, <1>4, <1>8, <1>9

LEMMA FollowingLeast ==
    ASSUME NEW next, Digraph(next), NEW c \in DOMAIN next, NEW T,
           next[c] \subseteq T, ClosedUnder(next, T)
    PROVE  Following(next)[c] \subseteq T
<1> DEFINE N == Cardinality(DOMAIN next)
           R(n) == Reach(next)[n][c]
           S == {n \in Nat : n <= N => R(n) \subseteq T}
<1>1. N \in Nat /\ R(0) = next[c]
  BY ReachSteps
<1>2. ASSUME NEW n \in 1..N
      PROVE  R(n) = R(n - 1) \cup UNION {next[d] : d \in R(n - 1)}
  <2>1. Reach(next)[n] = Wider(next, Reach(next)[n - 1])
    BY ReachSteps
  <2> QED BY <2>1 DEF Wider
<1>3. Following(next)[c] = R(N)
  BY DEF Following
<1> HIDE DEF R, N
<1>4. 0 \in S
  BY <1>1
<1>5. ASSUME NEW n \in Nat, n \in S PROVE n + 1 \in S
  <2>1. n + 1 <= N => n + 1 \in 1..N /\ (n + 1) - 1 = n /\ n <= N
    BY <1>1
  <2> QED BY <1>2, <1>5, <2>1 DEF ClosedUnder
<1>6. N \in S
  <2> HIDE DEF S
  <2> QED BY <1>1, <1>4, <1>5, NaturalsByInduction
<1> QED BY <1>1, <1>3, <1>6

(* A rank that falls along every edge excludes that a node follows itself. *)
Falls(next, rank, nodes) ==
    \A c \in nodes : next[c] \subseteq nodes /\ \A d \in next[c] : rank[d] < rank[c]

LEMMA RankedIsAcyclic ==
    ASSUME NEW next, Digraph(next), NEW rank \in [DOMAIN next -> Int],
           Falls(next, rank, DOMAIN next), NEW c \in DOMAIN next
    PROVE  \A d \in Following(next)[c] : rank[d] < rank[c]
<1> DEFINE T == {d \in DOMAIN next : rank[d] < rank[c]}
<1>1. next[c] \subseteq T
  BY DEF Falls
<1>2. ClosedUnder(next, T)
  <2>1. ASSUME NEW d \in T, NEW e \in next[d] PROVE e \in T
    <3>1. e \in DOMAIN next /\ rank[e] < rank[d] /\ rank[d] < rank[c]
      BY <2>1 DEF Falls
    <3> QED BY <3>1
  <2> QED BY <2>1 DEF ClosedUnder
<1> HIDE DEF T
<1>3. Following(next)[c] \subseteq T
  BY <1>1, <1>2, FollowingLeast
<1> QED BY <1>3 DEF T

------------------------------------------------------------------------------
(* The search for a cycle                                                  *)

SearchStates(adj) == [path : Seq(DOMAIN adj), visited : SUBSET DOMAIN adj]
OnPath(s) == {s.path[i] : i \in DOMAIN s.path}

(* The search enters a node, or leaves the last one of its path.           *)
Enters(adj, s, t) ==
    \E x \in DOMAIN adj \ (s.visited \cup OnPath(s)) :
        /\ t = [path |-> Append(s.path, x), visited |-> s.visited]
        /\ s.path # <<>> => x \in adj[s.path[Len(s.path)]]
Leaves(adj, s, t) ==
    /\ s.path # <<>>
    /\ adj[s.path[Len(s.path)]] \subseteq s.visited
    /\ t = [path |-> SubSeq(s.path, 1, Len(s.path) - 1),
            visited |-> s.visited \cup {s.path[Len(s.path)]}]
Rests(adj, s, t) == t = s /\ (Closes(adj, s) \/ (s.path = <<>> /\ s.visited = DOMAIN adj))

LEMMA SearchMoves ==
    ASSUME NEW adj, Digraph(adj), NEW s \in SearchStates(adj)
    PROVE  LET t == SearchOn(adj, s)
           IN  /\ t \in SearchStates(adj)
               /\ Rests(adj, s, t) \/ (~ Closes(adj, s) /\ (Enters(adj, s, t) \/ Leaves(adj, s, t)))
<1> DEFINE t == SearchOn(adj, s)
           last == s.path[Len(s.path)]
           fresh == Fresh(adj, s)
           rest == DOMAIN adj \ s.visited
<1>1. /\ s.path \in Seq(DOMAIN adj) /\ s.visited \in SUBSET DOMAIN adj
      /\ s = [path |-> s.path, visited |-> s.visited]
  BY DEF SearchStates
<1>2. CASE Closes(adj, s)
  <2>1. t = s
    BY <1>2 DEF SearchOn
  <2> QED BY <1>2, <2>1 DEF Rests
<1>3. CASE ~ Closes(adj, s) /\ s.path = <<>> /\ rest = {}
  <2>1. t = s
    BY <1>3 DEF SearchOn
  <2>2. s.visited = DOMAIN adj
    BY <1>1, <1>3
  <2> QED BY <1>3, <2>1, <2>2 DEF Rests
<1>4. CASE ~ Closes(adj, s) /\ s.path = <<>> /\ rest # {}
  <2> DEFINE x == CHOOSE c \in rest : TRUE
  <2>1. x \in rest
    BY <1>4
  <2>2. t = [s EXCEPT !.path = Append(@, x)]
    BY <1>4 DEF SearchOn
  <2> HIDE DEF x, t
  <2>3. t = [path |-> Append(s.path, x), visited |-> s.visited]
    BY <1>1, <2>2
  <2>4. x \notin OnPath(s)
    BY <1>4 DEF OnPath
  <2>5. t \in SearchStates(adj)
    BY <1>1, <2>1, <2>3 DEF SearchStates
  <2>6. Enters(adj, s, t)
    BY <1>4, <2>1, <2>3, <2>4 DEF Enters
  <2> QED BY <1>4, <2>5, <2>6 DEF t
<1>5. CASE ~ Closes(adj, s) /\ s.path # <<>> /\ fresh # {}
  <2> DEFINE x == CHOOSE c \in fresh : TRUE
  <2>1. x \in fresh
    BY <1>5
  <2>2. t = [s EXCEPT !.path = Append(@, x)]
    BY <1>5 DEF SearchOn
  <2> HIDE DEF x, t
  <2>3. t = [path |-> Append(s.path, x), visited |-> s.visited]
    BY <1>1, <2>2
  <2>4. x \notin OnPath(s)
    BY <1>5, <2>1 DEF OnPath, Closes
  <2>5. Len(s.path) \in DOMAIN s.path /\ last \in DOMAIN adj
    BY <1>1, <1>5
  <2>6. x \in adj[last] \ s.visited /\ x \in DOMAIN adj
    BY <1>5, <2>1, <2>5 DEF Fresh, Digraph
  <2>7. t \in SearchStates(adj)
    BY <1>1, <2>6, <2>3 DEF SearchStates
  <2>8. Enters(adj, s, t)
    BY <1>5, <2>6, <2>3, <2>4 DEF Enters
  <2> QED BY <1>5, <2>7, <2>8 DEF t
<1>6. CASE ~ Closes(adj, s) /\ s.path # <<>> /\ fresh = {}
  <2>1. t = [path |-> SubSeq(s.path, 1, Len(s.path) - 1), visited |-> s.visited \cup {last}]
    BY <1>6 DEF SearchOn
  <2> HIDE DEF t
  <2>2. Len(s.path) \in DOMAIN s.path /\ last \in DOMAIN adj
    BY <1>1, <1>6
  <2>3. adj[last] \subseteq s.visited
    BY <1>6 DEF Fresh
  <2>4. t \in SearchStates(adj)
    <3>1. SubSeq(s.path, 1, Len(s.path) - 1) \in Seq(DOMAIN adj)
      BY <1>1, <1>6
    <3> QED BY <1>1, <2>1, <2>2, <3>1 DEF SearchStates
  <2>5. Leaves(adj, s, t)
    BY <1>6, <2>1, <2>3 DEF Leaves
  <2> QED BY <1>6, <2>4, <2>5 DEF t
<1> QED BY <1>2, <1>3, <1>4, <1>5, <1>6

LEMMA SearchSteps ==
    ASSUME NEW adj, Digraph(adj)
    PROVE  /\ Search(adj)[0] = [path |-> <<>>, visited |-> {}]
           /\ \A n \in 1..2 * Cardinality(DOMAIN adj) :
                Search(adj)[n] = SearchOn(adj, Search(adj)[n - 1])
           /\ \A n \in 0..2 * Cardinality(DOMAIN adj) : Search(adj)[n] \in SearchStates(adj)
<1> DEFINE N == 2 * Cardinality(DOMAIN adj)
           V == SearchStates(adj)
           b == [path |-> <<>>, visited |-> {}]
           step == [k \in 1..N |-> [v \in V |-> SearchOn(adj, v)]]
           Eq(f) == f = [n \in 0..N |-> IF n = 0 THEN b ELSE SearchOn(adj, f[n - 1])]
<1>1. N \in Nat /\ b \in V
  <2>1. Cardinality(DOMAIN adj) \in Nat
    BY FS_CardinalityType DEF Digraph
  <2>2. b \in V
    BY DEF SearchStates
  <2> QED BY <2>1, <2>2
<1>2. ASSUME NEW v \in V PROVE SearchOn(adj, v) \in V
  BY SearchMoves
<1> HIDE DEF N, V, b
<1>3. \A k \in 1..N : \A v \in V : step[k][v] \in V
  BY <1>2
<1>4. PICK f : Iterates(f, N, V, b, step)
  <2> HIDE DEF step
  <2> QED BY <1>1, <1>3, RecursionExists
<1>5. ASSUME NEW n \in 1..N PROVE f[n] = SearchOn(adj, f[n - 1])
  <2>1. n - 1 \in 0..N
    BY <1>1
  <2> QED BY <1>4, <2>1 DEF Iterates
<1>6. Eq(f)
  <2>1. f = [n \in 0..N |-> f[n]] /\ f[0] = b
    BY <1>4 DEF Iterates
  <2>2. \A n \in 0..N : n # 0 => n \in 1..N
    BY <1>1
  <2>3. \A n \in 0..N : f[n] = IF n = 0 THEN b ELSE SearchOn(adj, f[n - 1])
    BY <1>5, <2>1, <2>2
  <2> QED BY <2>1, <2>3
<1>7. Search(adj) = CHOOSE g : Eq(g)
  BY DEF Search, N, b
<1> DEFINE r == Search(adj)
<1>8. Eq(r)
  <2> HIDE DEF Eq
  <2> QED BY <1>6, <1>7
<1> HIDE DEF r
<1>9. r[0] = b /\ \A n \in 1..N : r[n] = SearchOn(adj, r[n - 1])
  <2>1. 0 \in 0..N /\ \A n \in 1..N : n \in 0..N /\ n # 0
    BY <1>1
  <2>2. r[0] = b
    BY <1>8, <2>1
  <2>3. ASSUME NEW n \in 1..N PROVE r[n] = SearchOn(adj, r[n - 1])
    BY <1>8, <2>1
  <2> QED BY <2>2, <2>3
<1>10. StepAlike(r, f, N)
  BY <1>4, <1>5, <1>9 DEF StepAlike, Iterates
<1>11. ASSUME NEW n \in 0..N PROVE r[n] \in V
  <2>1. n \in Nat /\ StepAlike(r, f, n)
    BY <1>1, <1>10 DEF StepAlike
  <2>2. r[n] = f[n]
    BY <2>1, RecursionUnique
  <2> QED BY <1>4, <2>2 DEF Iterates
<1> QED BY <1>1, <1>9, <1>11 DEF r, N, V, b

(* The path is a walk along the edges; no node is on it twice, or on it    *)
(* and left already; the nodes that were left can be ranked, each above    *)
(* its neighbours; and every step enters or leaves one more node.          *)
Walk(adj, path) ==
    \A i \in DOMAIN path : i + 1 \in DOMAIN path => path[i + 1] \in adj[path[i]]
Unmixed(s) ==
    /\ \A i, j \in DOMAIN s.path : s.path[i] = s.path[j] => i = j
    /\ \A i \in DOMAIN s.path : s.path[i] \notin s.visited
Ranked(adj, visited, n) ==
    \E rank \in [DOMAIN adj -> Int] :
        Falls(adj, rank, visited) /\ \A c \in visited : rank[c] < n
Ahead(adj, s) == DOMAIN adj \ (s.visited \cup OnPath(s))
Spent(adj, s, n) ==
    \/ s.path = <<>> /\ s.visited = DOMAIN adj
    \/ 2 * Cardinality(Ahead(adj, s)) + Len(s.path) + n <= 2 * Cardinality(DOMAIN adj)
Good(adj, s, n) == Unmixed(s) /\ Ranked(adj, s.visited, n) /\ Spent(adj, s, n)

LEMMA EnteringIsGood ==
    ASSUME NEW adj, Digraph(adj), NEW s \in SearchStates(adj), NEW t \in SearchStates(adj),
           NEW n \in Nat, Walk(adj, s.path), Good(adj, s, n), Enters(adj, s, t)
    PROVE  Walk(adj, t.path) /\ Good(adj, t, n + 1)
<1> DEFINE path == s.path
<1>0. path \in Seq(DOMAIN adj) /\ s.visited \in SUBSET DOMAIN adj
  BY DEF SearchStates
<1>1. PICK x \in DOMAIN adj \ (s.visited \cup OnPath(s)) :
        /\ t = [path |-> Append(s.path, x), visited |-> s.visited]
        /\ s.path # <<>> => x \in adj[s.path[Len(s.path)]]
  BY DEF Enters
<1>2. t.path = Append(path, x) /\ t.visited = s.visited
  BY <1>1
<1>3. Len(path) \in Nat /\ DOMAIN path = 1..Len(path)
  BY <1>0
<1>4. /\ Len(t.path) = Len(path) + 1 /\ DOMAIN t.path = 1..(Len(path) + 1)
      /\ t.path[Len(path) + 1] = x
      /\ \A i \in DOMAIN path : t.path[i] = path[i]
  BY <1>0, <1>1, <1>2
<1>5. path # <<>> => x \in adj[path[Len(path)]]
  BY <1>1
<1>6. x \notin s.visited /\ \A i \in DOMAIN path : path[i] # x
  BY <1>1 DEF OnPath
<1>7. ASSUME NEW i \in DOMAIN t.path, i + 1 \in DOMAIN t.path PROVE t.path[i + 1] \in adj[t.path[i]]
  <2>1. i \in DOMAIN path
    BY <1>3, <1>4, <1>7
  <2>2. CASE i + 1 \in DOMAIN path
    BY <1>4, <2>1, <2>2 DEF Walk
  <2>3. CASE i = Len(path)
    <3>1. path # <<>>
      BY <2>1
    <3> QED BY <1>4, <1>5, <2>1, <2>3, <3>1
  <2> QED BY <1>3, <2>1, <2>2, <2>3
<1>8. Unmixed(t)
  <2>1. ASSUME NEW i \in DOMAIN t.path, NEW j \in DOMAIN t.path, t.path[i] = t.path[j]
        PROVE  i = j
    <3>1. CASE i \in DOMAIN path /\ j \in DOMAIN path
      BY <1>4, <2>1, <3>1 DEF Good, Unmixed
    <3>2. CASE i = Len(path) + 1 \/ j = Len(path) + 1
      <4>1. i \in DOMAIN path \/ i = Len(path) + 1
        BY <1>3, <1>4
      <4>2. j \in DOMAIN path \/ j = Len(path) + 1
        BY <1>3, <1>4
      <4> QED BY <1>4, <1>6, <2>1, <3>2, <4>1, <4>2
    <3> QED BY <1>3, <1>4, <3>1, <3>2
  <2>2. ASSUME NEW i \in DOMAIN t.path PROVE t.path[i] \notin t.visited
    <3>1. i \in DOMAIN path \/ i = Len(path) + 1
      BY <1>3, <1>4
    <3> QED BY <1>2, <1>4, <1>6, <3>1 DEF Good, Unmixed
  <2> QED BY <2>1, <2>2 DEF Unmixed
<1>9. Ranked(adj, t.visited, n + 1)
  <2>1. PICK rank \in [DOMAIN adj -> Int] :
          Falls(adj, rank, s.visited) /\ \A c \in s.visited : rank[c] < n
    BY DEF Good, Ranked
  <2>2. \A c \in s.visited : rank[c] < n + 1
    BY <1>0, <2>1
  <2> QED BY <1>2, <2>1, <2>2 DEF Ranked
<1>10. Spent(adj, t, n + 1)
  <2>1. OnPath(t) = OnPath(s) \cup {x}
    <3>1. \A i : i \in DOMAIN t.path <=> i \in DOMAIN path \/ i = Len(path) + 1
      BY <1>3, <1>4
    <3> QED BY <1>4, <3>1 DEF OnPath
  <2>2. Ahead(adj, t) = Ahead(adj, s) \ {x} /\ x \in Ahead(adj, s)
    BY <1>1, <1>2, <2>1 DEF Ahead
  <2>3. IsFiniteSet(Ahead(adj, s))
    <3>1. Ahead(adj, s) \in SUBSET DOMAIN adj
      BY DEF Ahead
    <3> QED BY <3>1, FS_Subset DEF Digraph
  <2> DEFINE a == Cardinality(Ahead(adj, s))
             d == Cardinality(DOMAIN adj)
  <2>4. Cardinality(Ahead(adj, t)) = a - 1 /\ a \in Nat
    BY <2>2, <2>3, FS_RemoveElement, FS_CardinalityType
  <2>5. d \in Nat
    BY FS_CardinalityType DEF Digraph
  <2>6. 2 * a + Len(path) + n <= 2 * d
    <3>1. s.visited # DOMAIN adj
      BY <1>1
    <3> QED BY <3>1 DEF Good, Spent
  <2> DEFINE m == Len(path)
  <2>7. 2 * a + m + n <= 2 * d /\ a \in Nat /\ d \in Nat /\ m \in Nat
    BY <1>3, <2>4, <2>5, <2>6
  <2> HIDE DEF a, d, m
  <2>8. 2 * (a - 1) + (m + 1) + (n + 1) <= 2 * d
    BY <2>7
  <2> QED BY <1>4, <2>4, <2>8 DEF Spent, d, m
<1> QED BY <1>7, <1>8, <1>9, <1>10 DEF Walk, Good

LEMMA LeavingIsGood ==
    ASSUME NEW adj, Digraph(adj), NEW s \in SearchStates(adj), NEW t \in SearchStates(adj),
           NEW n \in Nat, Walk(adj, s.path), Good(adj, s, n), Leaves(adj, s, t)
    PROVE  Walk(adj, t.path) /\ Good(adj, t, n + 1)
<1> DEFINE path == s.path
           m == Len(path)
           x == path[m]
<1>0. path \in Seq(DOMAIN adj) /\ s.visited \in SUBSET DOMAIN adj
  BY DEF SearchStates
<1>1. /\ path # <<>> /\ adj[x] \subseteq s.visited
      /\ t = [path |-> SubSeq(path, 1, m - 1), visited |-> s.visited \cup {x}]
  BY DEF Leaves
<1>2. t.path = SubSeq(path, 1, m - 1) /\ t.visited = s.visited \cup {x}
  BY <1>1
<1>3. m \in Nat \ {0} /\ DOMAIN path = 1..m /\ x \in DOMAIN adj
  BY <1>0, <1>1
<1>4. /\ Len(t.path) = m - 1 /\ DOMAIN t.path = 1..(m - 1)
      /\ \A i \in 1..(m - 1) : t.path[i] = path[i]
  BY <1>0, <1>2, <1>3
<1> HIDE DEF m
<1>5. Walk(adj, t.path)
  <2>1. ASSUME NEW i \in 1..(m - 1), i + 1 \in 1..(m - 1) PROVE t.path[i + 1] \in adj[t.path[i]]
    <3>1. i \in DOMAIN path /\ i + 1 \in DOMAIN path
      BY <1>3, <2>1
    <3> QED BY <1>4, <2>1, <3>1 DEF Walk
  <2> QED BY <1>4, <2>1 DEF Walk
<1>6. Unmixed(t)
  <2>1. \A i \in 1..(m - 1) : i \in DOMAIN path /\ m \in DOMAIN path /\ i # m
    BY <1>3
  <2>2. \A i \in 1..(m - 1) : path[i] # x /\ path[i] \notin s.visited
    BY <2>1 DEF Good, Unmixed
  <2> QED BY <1>2, <1>4, <2>1, <2>2 DEF Good, Unmixed
<1>7. x \notin s.visited
  BY <1>3 DEF Good, Unmixed
<1>8. Ranked(adj, t.visited, n + 1)
  <2>1. PICK rank \in [DOMAIN adj -> Int] :
          Falls(adj, rank, s.visited) /\ \A c \in s.visited : rank[c] < n
    BY DEF Good, Ranked
  <2> DEFINE above == [rank EXCEPT ![x] = n]
  <2>2. above \in [DOMAIN adj -> Int] /\ above[x] = n /\ \A c \in s.visited : above[c] = rank[c]
    BY <1>0, <1>3, <1>7
  <2> HIDE DEF above, x
  <2>3. \A c \in t.visited : above[c] < n + 1
    BY <1>2, <1>0, <2>1, <2>2
  <2>4. Falls(adj, above, t.visited)
    <3>1. ASSUME NEW c \in s.visited
          PROVE  adj[c] \subseteq t.visited /\ \A d \in adj[c] : above[d] < above[c]
      BY <1>2, <2>1, <2>2 DEF Falls
    <3>2. adj[x] \subseteq t.visited /\ \A d \in adj[x] : above[d] < above[x]
      BY <1>1, <1>2, <2>1, <2>2
    <3> QED BY <1>2, <3>1, <3>2 DEF Falls
  <2> QED BY <2>2, <2>3, <2>4 DEF Ranked
<1>9. Spent(adj, t, n + 1)
  <2>1. OnPath(s) = OnPath(t) \cup {x}
    <3>1. \A i : i \in DOMAIN path <=> i \in DOMAIN t.path \/ i = m
      BY <1>3, <1>4
    <3> QED BY <1>4, <3>1 DEF OnPath
  <2>2. Ahead(adj, t) = Ahead(adj, s)
    BY <1>2, <2>1 DEF Ahead
  <2> DEFINE a == Cardinality(Ahead(adj, s))
             d == Cardinality(DOMAIN adj)
  <2>3. a \in Nat /\ d \in Nat
    <3>1. Ahead(adj, s) \in SUBSET DOMAIN adj
      BY DEF Ahead
    <3> QED BY <3>1, FS_Subset, FS_CardinalityType DEF Digraph
  <2>4. 2 * a + m + n <= 2 * d
    BY <1>1 DEF Good, Spent, m
  <2> HIDE DEF a, d
  <2>5. 2 * a + (m - 1) + (n + 1) <= 2 * d
    BY <1>3, <2>3, <2>4
  <2> QED BY <1>4, <2>2, <2>5 DEF Spent, a, d
<1> QED BY <1>5, <1>6, <1>8, <1>9 DEF Good

LEMMA SearchIsGood ==
    ASSUME NEW adj, Digraph(adj), NEW n \in 0..2 * Cardinality(DOMAIN adj)
    PROVE  LET s == Search(adj)[n]
           IN  Walk(adj, s.path) /\ (~ Closes(adj, s) => Good(adj, s, n))
<1> DEFINE N == 2 * Cardinality(DOMAIN adj)
           at(k) == Search(adj)[k]
           Holds(k) == Walk(adj, at(k).path) /\ (~ Closes(adj, at(k)) => Good(adj, at(k), k))
           S == {k \in Nat : k <= N => Holds(k)}
<1>1. /\ at(0) = [path |-> <<>>, visited |-> {}]
      /\ \A k \in 1..N : at(k) = SearchOn(adj, at(k - 1))
      /\ \A k \in 0..N : at(k) \in SearchStates(adj)
  BY SearchSteps
<1>2. Cardinality(DOMAIN adj) \in Nat /\ N \in Nat
  BY FS_CardinalityType DEF Digraph
<1> HIDE DEF at
<1>3. 0 \in S
  <2>1. at(0).path = <<>> /\ at(0).visited = {} /\ OnPath(at(0)) = {}
    BY <1>1 DEF OnPath
  <2>2. Walk(adj, at(0).path) /\ Unmixed(at(0))
    BY <2>1 DEF Walk, Unmixed
  <2>3. Ranked(adj, {}, 0)
    <3>1. [c \in DOMAIN adj |-> 0] \in [DOMAIN adj -> Int]
      OBVIOUS
    <3> QED BY <3>1 DEF Ranked, Falls
  <2>4. Spent(adj, at(0), 0)
    <3>1. Ahead(adj, at(0)) = DOMAIN adj
      BY <2>1 DEF Ahead
    <3> QED BY <1>2, <2>1, <3>1 DEF Spent
  <2> QED BY <2>1, <2>2, <2>3, <2>4 DEF Good
<1>4. ASSUME NEW k \in Nat, k \in S PROVE k + 1 \in S
  <2> SUFFICES ASSUME k + 1 <= N PROVE Holds(k + 1)
    OBVIOUS
  <2> DEFINE s == at(k)
             t == at(k + 1)
  <2>1. k \in 0..N /\ k + 1 \in 0..N /\ k + 1 \in 1..N /\ (k + 1) - 1 = k
    BY <1>2
  <2>2. Holds(k)
    BY <1>4, <2>1
  <2>3. s \in SearchStates(adj) /\ t = SearchOn(adj, s) /\ t \in SearchStates(adj)
    BY <1>1, <2>1
  <2> HIDE DEF s, t
  <2>4. Walk(adj, s.path) /\ (~ Closes(adj, s) => Good(adj, s, k))
    BY <2>2 DEF s
  <2>5. \/ Rests(adj, s, t)
        \/ ~ Closes(adj, s) /\ (Enters(adj, s, t) \/ Leaves(adj, s, t))
    BY <2>3, SearchMoves
  <2>6. CASE Rests(adj, s, t)
    <3>1. CASE Closes(adj, s)
      BY <2>4, <2>6, <3>1 DEF Rests, t
    <3>2. CASE ~ Closes(adj, s)
      <4>1. Good(adj, s, k) /\ t = s /\ s.path = <<>> /\ s.visited = DOMAIN adj
        BY <2>4, <2>6, <3>2 DEF Rests
      <4>2. Ranked(adj, s.visited, k + 1)
        <5>1. PICK rank \in [DOMAIN adj -> Int] :
                Falls(adj, rank, s.visited) /\ \A c \in s.visited : rank[c] < k
          BY <4>1 DEF Good, Ranked
        <5>2. \A c \in s.visited : rank[c] < k + 1
          BY <4>1, <5>1
        <5> QED BY <5>1, <5>2 DEF Ranked
      <4>3. Good(adj, t, k + 1)
        BY <4>1, <4>2 DEF Good, Spent
      <4> QED BY <2>4, <4>1, <4>3 DEF t
    <3> QED BY <3>1, <3>2
  <2>7. CASE ~ Closes(adj, s) /\ Enters(adj, s, t)
    BY <2>3, <2>4, <2>7, EnteringIsGood DEF t
  <2>8. CASE ~ Closes(adj, s) /\ Leaves(adj, s, t)
    BY <2>3, <2>4, <2>8, LeavingIsGood DEF t
  <2> QED BY <2>5, <2>6, <2>7, <2>8
<1>5. Nat \subseteq S
  <2> HIDE DEF S
  <2> QED BY <1>3, <1>4, NaturalsByInduction
<1>6. n \in Nat /\ n <= N
  BY <1>2
<1> QED BY <1>5, <1>6 DEF at

(* From a walk to what follows its nodes.                                  *)
LEMMA WalkFollows ==
    ASSUME NEW adj, Digraph(adj), NEW path \in Seq(DOMAIN adj), Walk(adj, path),
           NEW i \in DOMAIN path, NEW x \in adj[path[Len(path)]]
    PROVE  x \in Following(adj)[path[i]]
<1> DEFINE m == Len(path)
           c == path[i]
           F == Following(adj)[c]
           S == {k \in Nat : i + k + 1 \in DOMAIN path => path[i + k + 1] \in F}
<1>1. m \in Nat /\ DOMAIN path = 1..m /\ c \in DOMAIN adj /\ i \in 1..m
  OBVIOUS
<1>2. adj[c] \subseteq F /\ ClosedUnder(adj, F)
  BY <1>1, FollowingCloses
<1> HIDE DEF m, F
<1>3. 0 \in S
  <2>1. i + 1 \in DOMAIN path => path[i + 1] \in adj[c]
    BY DEF Walk
  <2> QED BY <1>1, <1>2, <2>1
<1>4. ASSUME NEW k \in Nat, k \in S PROVE k + 1 \in S
  <2> SUFFICES ASSUME i + (k + 1) + 1 \in DOMAIN path PROVE path[i + (k + 1) + 1] \in F
    OBVIOUS
  <2>1. i + k + 1 \in DOMAIN path /\ i + (k + 1) + 1 = (i + k + 1) + 1
    BY <1>1
  <2>2. path[i + k + 1] \in F
    BY <1>4, <2>1
  <2>3. path[(i + k + 1) + 1] \in adj[path[i + k + 1]]
    BY <2>1 DEF Walk
  <2> QED BY <1>2, <2>1, <2>2, <2>3 DEF ClosedUnder
<1>5. Nat \subseteq S
  <2> HIDE DEF S
  <2> QED BY <1>3, <1>4, NaturalsByInduction
<1>6. CASE i = m
  BY <1>2, <1>6 DEF m, F
<1>7. CASE i # m
  <2>1. m - i - 1 \in Nat /\ i + (m - i - 1) + 1 = m /\ m \in DOMAIN path
    BY <1>1, <1>7
  <2>2. path[m] \in F
    BY <1>5, <2>1
  <2>3. x \in adj[path[m]]
    BY DEF m
  <2> QED BY <1>2, <2>2, <2>3 DEF ClosedUnder, F
<1> QED BY <1>6, <1>7

(* The search finds a cycle exactly when some node follows itself.         *)
LEMMA SearchExact ==
    ASSUME NEW adj, Digraph(adj)
    PROVE  HasCycle(adj) <=> \E c \in DOMAIN adj : c \in Following(adj)[c]
<1> DEFINE d == Cardinality(DOMAIN adj)
           s == Search(adj)[2 * d]
<1>1. d \in Nat /\ 2 * d \in 0..2 * d
  BY FS_CardinalityType DEF Digraph
<1>2. /\ s \in SearchStates(adj) /\ Walk(adj, s.path)
      /\ ~ Closes(adj, s) => Good(adj, s, 2 * d)
  BY <1>1, SearchSteps, SearchIsGood
<1>3. HasCycle(adj) <=> Closes(adj, s)
  BY DEF HasCycle
<1> HIDE DEF s
<1>4. s.path \in Seq(DOMAIN adj) /\ s.visited \in SUBSET DOMAIN adj
  BY <1>2 DEF SearchStates
<1>5. ASSUME Closes(adj, s) PROVE \E c \in DOMAIN adj : c \in Following(adj)[c]
  <2>1. PICK i \in DOMAIN s.path : s.path[i] \in Fresh(adj, s)
    BY <1>5 DEF Closes
  <2>2. s.path[i] \in adj[s.path[Len(s.path)]]
    BY <2>1 DEF Fresh
  <2>3. s.path[i] \in DOMAIN adj
    BY <1>4
  <2>4. s.path[i] \in Following(adj)[s.path[i]]
    BY <1>2, <1>4, <2>1, <2>2, WalkFollows
  <2> QED BY <2>3, <2>4
<1>6. ASSUME ~ Closes(adj, s), NEW c \in DOMAIN adj PROVE c \notin Following(adj)[c]
  <2>1. Good(adj, s, 2 * d)
    BY <1>2, <1>6
  <2>2. s.visited = DOMAIN adj
    <3> SUFFICES ASSUME 2 * Cardinality(Ahead(adj, s)) + Len(s.path) + 2 * d <= 2 * d
                 PROVE  s.visited = DOMAIN adj
      BY <2>1 DEF Good, Spent
    <3>1. IsFiniteSet(Ahead(adj, s))
      <4>1. Ahead(adj, s) \in SUBSET DOMAIN adj
        BY DEF Ahead
      <4> QED BY <4>1, FS_Subset DEF Digraph
    <3> DEFINE a == Cardinality(Ahead(adj, s))
               m == Len(s.path)
    <3>2. a \in Nat /\ m \in Nat
      BY <1>4, <3>1, FS_CardinalityType
    <3>3. 2 * a + m + 2 * d <= 2 * d
      OBVIOUS
    <3> HIDE DEF a, m, d
    <3>4. a = 0 /\ m = 0
      BY <1>1, <3>2, <3>3
    <3>5. s.path = <<>> /\ Ahead(adj, s) = {}
      BY <1>4, <3>1, <3>4, FS_EmptySet DEF a, m
    <3>6. OnPath(s) = {}
      BY <3>5 DEF OnPath
    <3> QED BY <1>4, <3>5, <3>6 DEF Ahead
  <2>3. PICK rank \in [DOMAIN adj -> Int] : Falls(adj, rank, DOMAIN adj)
    BY <2>1, <2>2 DEF Good, Ranked
  <2>4. \A e \in Following(adj)[c] : rank[e] < rank[c]
    BY <2>3, RankedIsAcyclic
  <2>5. rank[c] \in Int
    OBVIOUS
  <2> QED BY <2>4, <2>5
<1> QED BY <1>3, <1>5, <1>6

------------------------------------------------------------------------------
(* The elements of a queue                                                 *)

Elems(s) == {s[i] : i \in 1..Len(s)}

LEMMA TailElems ==
    ASSUME NEW T, NEW q \in Seq(T), q # <<>>
    PROVE  /\ Tail(q) \in Seq(T) /\ Head(q) \in T
           /\ Elems(q) = {Head(q)} \cup Elems(Tail(q))
           /\ OneToOne(q) => OneToOne(Tail(q)) /\ Head(q) \notin Elems(Tail(q))
<1> DEFINE n == Len(q)
           t == Tail(q)
           x == Head(q)
<1>1. /\ n \in Nat \ {0} /\ t \in Seq(T) /\ Len(t) = n - 1 /\ x = q[1] /\ x \in T
      /\ \A i \in 1..(n - 1) : t[i] = q[i + 1]
  BY HeadTailProperties
<1> HIDE DEF n, t, x
<1>2. \A i \in 1..n : i = 1 \/ (i - 1 \in 1..(n - 1) /\ (i - 1) + 1 = i)
  BY <1>1
<1>3. \A i \in 1..(n - 1) : i + 1 \in 1..n /\ i + 1 # 1
  BY <1>1
<1>4. 1 \in 1..n
  BY <1>1
<1>5. Elems(q) = {q[i] : i \in 1..n} /\ Elems(t) = {t[i] : i \in 1..(n - 1)}
  BY <1>1 DEF Elems, n
<1>6. Elems(q) = {x} \cup Elems(t)
  <2>1. ASSUME NEW i \in 1..n PROVE q[i] \in {x} \cup Elems(t)
    BY <1>1, <1>2, <1>5
  <2>2. \A i \in 1..(n - 1) : t[i] \in Elems(q)
    BY <1>1, <1>3, <1>5
  <2>3. x \in Elems(q)
    BY <1>1, <1>4, <1>5
  <2> QED BY <1>5, <2>1, <2>2, <2>3
<1>7. ASSUME OneToOne(q) PROVE OneToOne(t) /\ x \notin Elems(t)
  <2>1. \A i, j \in 1..n : q[i] = q[j] => i = j
    BY <1>7 DEF OneToOne, n
  <2>2. ASSUME NEW i \in 1..(n - 1), NEW j \in 1..(n - 1), t[i] = t[j] PROVE i = j
    <3>1. i + 1 = j + 1
      BY <1>1, <1>3, <2>1, <2>2
    <3> QED BY <3>1
  <2>3. \A i \in 1..(n - 1) : t[i] # x
    BY <1>1, <1>3, <1>4, <2>1
  <2> QED BY <1>1, <1>5, <2>2, <2>3 DEF OneToOne
<1> QED BY <1>1, <1>6, <1>7 DEF t, x

LEMMA ConcatElems ==
    ASSUME NEW T, NEW u \in Seq(T), NEW v \in Seq(T)
    PROVE  /\ u \o v \in Seq(T)
           /\ Elems(u \o v) = Elems(u) \cup Elems(v)
           /\ OneToOne(u) /\ OneToOne(v) /\ Elems(u) \cap Elems(v) = {} => OneToOne(u \o v)
<1> DEFINE a == Len(u)
           b == Len(v)
           w == u \o v
<1>1. /\ a \in Nat /\ b \in Nat /\ w \in Seq(T) /\ Len(w) = a + b
      /\ \A i \in 1..(a + b) : w[i] = IF i <= a THEN u[i] ELSE v[i - a]
  BY ConcatProperties
<1> HIDE DEF a, b, w
<1>2. /\ Elems(u) = {u[i] : i \in 1..a} /\ Elems(v) = {v[i] : i \in 1..b}
      /\ Elems(w) = {w[i] : i \in 1..(a + b)}
  BY <1>1 DEF Elems, a, b
<1>3. ASSUME NEW i \in 1..(a + b)
      PROVE  \/ i \in 1..a /\ w[i] = u[i]
             \/ i - a \in 1..b /\ w[i] = v[i - a]
  BY <1>1
<1>4. \A i \in 1..a : i \in 1..(a + b) /\ w[i] = u[i]
  BY <1>1
<1>5. ASSUME NEW i \in 1..b PROVE i + a \in 1..(a + b) /\ w[i + a] = v[i]
  <2>1. i + a \in 1..(a + b) /\ ~ (i + a <= a) /\ (i + a) - a = i
    BY <1>1
  <2> QED BY <1>1, <2>1
<1>6. Elems(w) = Elems(u) \cup Elems(v)
  BY <1>2, <1>3, <1>4, <1>5
<1>7. ASSUME OneToOne(u), OneToOne(v), Elems(u) \cap Elems(v) = {} PROVE OneToOne(w)
  <2>1. ASSUME NEW i \in 1..(a + b), NEW j \in 1..(a + b), w[i] = w[j] PROVE i = j
    <3>1. CASE i \in 1..a /\ j \in 1..a
      BY <1>4, <1>7, <2>1, <3>1 DEF OneToOne, a
    <3>2. CASE i \notin 1..a /\ j \notin 1..a
      <4>1. i - a \in 1..b /\ j - a \in 1..b /\ v[i - a] = v[j - a]
        BY <1>3, <2>1, <3>2
      <4>2. i - a = j - a
        BY <1>7, <4>1 DEF OneToOne, b
      <4> QED BY <1>1, <4>2
    <3>3. CASE i \in 1..a /\ j \notin 1..a
      <4>1. w[i] \in Elems(u) /\ w[j] \in Elems(v)
        BY <1>2, <1>3, <1>4, <3>3
      <4> QED BY <1>7, <2>1, <4>1
    <3>4. CASE i \notin 1..a /\ j \in 1..a
      <4>1. w[j] \in Elems(u) /\ w[i] \in Elems(v)
        BY <1>2, <1>3, <1>4, <3>4
      <4> QED BY <1>7, <2>1, <4>1
    <3> QED BY <3>1, <3>2, <3>3, <3>4
  <2> QED BY <1>1, <2>1 DEF OneToOne
<1> QED BY <1>1, <1>6, <1>7 DEF w

LEMMA AppendElems ==
    ASSUME NEW T, NEW u \in Seq(T), NEW x \in T
    PROVE  /\ Append(u, x) \in Seq(T) /\ Len(Append(u, x)) = Len(u) + 1
           /\ Elems(Append(u, x)) = Elems(u) \cup {x}
           /\ OneToOne(u) /\ x \notin Elems(u) => OneToOne(Append(u, x))
<1> DEFINE a == Len(u)
           w == Append(u, x)
<1>1. /\ a \in Nat /\ w \in Seq(T) /\ Len(w) = a + 1 /\ w[a + 1] = x
      /\ \A i \in 1..a : w[i] = u[i]
  BY AppendProperties
<1> HIDE DEF a, w
<1>2. Elems(u) = {u[i] : i \in 1..a} /\ Elems(w) = {w[i] : i \in 1..(a + 1)}
  BY <1>1 DEF Elems, a
<1>3. \A i \in 1..(a + 1) : i \in 1..a \/ i = a + 1
  BY <1>1
<1>4. \A i \in 1..a : i \in 1..(a + 1)
  BY <1>1
<1>5. a + 1 \in 1..(a + 1)
  BY <1>1
<1>6. Elems(w) = Elems(u) \cup {x}
  BY <1>1, <1>2, <1>3, <1>4, <1>5
<1>7. ASSUME OneToOne(u), x \notin Elems(u) PROVE OneToOne(w)
  <2>1. \A i, j \in 1..a : u[i] = u[j] => i = j
    BY <1>7 DEF OneToOne, a
  <2>2. \A i \in 1..a : u[i] # x
    BY <1>2, <1>7
  <2>3. ASSUME NEW i \in 1..(a + 1), NEW j \in 1..(a + 1), w[i] = w[j] PROVE i = j
    BY <1>1, <1>3, <2>1, <2>2, <2>3
  <2> QED BY <1>1, <2>3 DEF OneToOne
<1> QED BY <1>1, <1>6, <1>7 DEF w, a

(* As many elements as places, when none occurs twice.                     *)
LEMMA CountOneToOne ==
    ASSUME NEW T, NEW u \in Seq(T), OneToOne(u)
    PROVE  IsFiniteSet(Elems(u)) /\ Cardinality(Elems(u)) = Len(u)
<1> DEFINE n == Len(u)
           f == [i \in 1..n |-> u[i]]
<1>1. n \in Nat
  OBVIOUS
<1>2. f \in [1..n -> Elems(u)] /\ \A i \in 1..n : f[i] = u[i]
  BY DEF Elems
<1>3. \A i, j \in 1..n : f[i] = f[j] => i = j
  BY <1>2 DEF OneToOne
<1>4. \A x \in Elems(u) : \E i \in 1..n : f[i] = x
  BY <1>2 DEF Elems
<1> HIDE DEF f, n
<1>5. f \in Surjection(1..n, Elems(u)) /\ f \in Injection(1..n, Elems(u))
  BY <1>2, <1>3, <1>4 DEF Surjection, Injection, IsInjective
<1>6. IsFiniteSet(1..n) /\ Cardinality(1..n) = n
  BY <1>1, FS_Interval
<1>7. IsFiniteSet(Elems(u)) /\ Cardinality(Elems(u)) = Cardinality(1..n)
  BY <1>5, <1>6, FS_Surjection
<1> QED BY <1>6, <1>7 DEF n

(* What a function that tells its arguments apart makes of a finite set.   *)
LEMMA CountImage ==
    ASSUME NEW S, IsFiniteSet(S), NEW f, f \in [S -> {f[x] : x \in S}]
    PROVE  /\ IsFiniteSet({f[x] : x \in S})
           /\ (\A x, y \in S : f[x] = f[y] => x = y) => Cardinality({f[x] : x \in S}) = Cardinality(S)
<1> DEFINE T == {f[x] : x \in S}
<1>1. \A t \in T : \E x \in S : f[x] = t
  OBVIOUS
<1> HIDE DEF T
<1>2. f \in Surjection(S, T)
  BY <1>1 DEF Surjection, T
<1>3. ASSUME \A x, y \in S : f[x] = f[y] => x = y PROVE f \in Injection(S, T)
  BY <1>2, <1>3 DEF Surjection, Injection, IsInjective
<1>4. IsFiniteSet(T) /\ (f \in Injection(S, T) => Cardinality(T) = Cardinality(S))
  BY <1>2, FS_Surjection
<1> QED BY <1>3, <1>4 DEF T

------------------------------------------------------------------------------
(* The order of a boot                                                     *)

Alphabet == {Identities[i] : i \in DOMAIN Identities}

LEMMA AlphabetIsFinite == IsFiniteSet(Alphabet)
<1>1. Identities \in Seq(Alphabet) /\ OneToOne(Identities)
  BY BootAssumption DEF Alphabet, OneToOne
<1>2. Alphabet = Elems(Identities)
  BY <1>1 DEF Alphabet, Elems
<1> HIDE DEF Alphabet
<1> QED BY <1>1, <1>2, CountOneToOne

LEMMA SortedElems ==
    ASSUME NEW ids
    PROVE  /\ Sorted(ids) \in Seq(Alphabet) /\ OneToOne(Sorted(ids))
           /\ Elems(Sorted(ids)) = ids \cap Alphabet
<1>1. Identities \in Seq(Alphabet) /\ OneToOne(Identities)
  BY BootAssumption DEF Alphabet, OneToOne
<1>2. Alphabet = {Identities[i] : i \in 1..Len(Identities)}
  BY <1>1 DEF Alphabet
<1> HIDE DEF Alphabet
<1>3. /\ Sorted(ids) \in Seq(Alphabet) /\ OneToOne(Sorted(ids))
      /\ \A x : (\E i \in 1..Len(Sorted(ids)) : Sorted(ids)[i] = x) <=>
                   x \in ids /\ \E i \in 1..Len(Identities) : Identities[i] = x
  BY <1>1, WithinTyped, WithinOneToOne DEF Sorted
<1> QED BY <1>2, <1>3 DEF Elems

KahnStates == [queue : Seq(Alphabet), done : Seq(Alphabet)]

(* What a component waits for comes before it.                             *)
Ordered(before, done) ==
    \A i \in 1..Len(done) : \A d \in before[done[i]] : \E j \in 1..(i - 1) : done[j] = d

(* The queue holds what could be started and has not been.                 *)
KahnInv(before, s) ==
    /\ OneToOne(s.done) /\ OneToOne(s.queue) /\ Elems(s.done) \cap Elems(s.queue) = {}
    /\ Elems(s.done) \cup Elems(s.queue) = Ready(before, Elems(s.done))
    /\ Ordered(before, s.done)

LEMMA OrderedAppend ==
    ASSUME NEW T, NEW done \in Seq(T), NEW x \in T, NEW before, Ordered(before, done),
           before[x] \subseteq Elems(done)
    PROVE  Ordered(before, Append(done, x))
<1> DEFINE n == Len(done)
           w == Append(done, x)
<1>1. /\ n \in Nat /\ Len(w) = n + 1 /\ w[n + 1] = x
      /\ \A i \in 1..n : w[i] = done[i]
  BY AppendProperties
<1> HIDE DEF n, w
<1>2. ASSUME NEW i \in 1..(n + 1), NEW d \in before[w[i]] PROVE \E j \in 1..(i - 1) : w[j] = d
  <2>1. CASE i = n + 1
    <3>1. d \in Elems(done)
      BY <1>1, <1>2, <2>1
    <3>2. PICK j \in 1..n : done[j] = d
      BY <3>1 DEF Elems, n
    <3>3. j \in 1..(i - 1) /\ w[j] = d
      BY <1>1, <2>1, <3>2
    <3> QED BY <3>3
  <2>2. CASE i # n + 1
    <3>1. i \in 1..n
      BY <1>1, <2>2
    <3>2. d \in before[done[i]]
      BY <1>1, <1>2, <3>1
    <3>3. PICK j \in 1..(i - 1) : done[j] = d
      BY <3>1, <3>2 DEF Ordered, n
    <3>4. j \in 1..n
      BY <1>1, <3>1, <3>3
    <3> QED BY <1>1, <3>3, <3>4
  <2> QED BY <2>1, <2>2
<1> QED BY <1>1, <1>2 DEF Ordered, w

LEMMA DequeueKeeps ==
    ASSUME NEW before, DOMAIN before \subseteq Alphabet,
           NEW s \in KahnStates
    PROVE  /\ Dequeue(before, s) \in KahnStates
           /\ KahnInv(before, s) => KahnInv(before, Dequeue(before, s))
           /\ s.queue # <<>> => Len(Dequeue(before, s).done) = Len(s.done) + 1
           /\ s.queue = <<>> => Dequeue(before, s) = s
<1> DEFINE t == Dequeue(before, s)
           q == s.queue
           done == s.done
           x == Head(q)
           earlier == Elems(done)
           freed == Ready(before, earlier \cup {x}) \ Ready(before, earlier)
<1>1. q \in Seq(Alphabet) /\ done \in Seq(Alphabet)
  BY DEF KahnStates
<1>2. CASE q = <<>>
  <2>1. t = s
    BY <1>2 DEF Dequeue
  <2> QED BY <1>2, <2>1
<1>3. CASE q # <<>>
  <2>1. earlier = {done[i] : i \in DOMAIN done}
    BY <1>1 DEF Elems
  <2>2. t = [queue |-> Tail(q) \o Sorted(freed), done |-> Append(done, x)]
    BY <1>3, <2>1 DEF Dequeue
  <2> HIDE DEF t
  <2>3. t.queue = Tail(q) \o Sorted(freed) /\ t.done = Append(done, x)
    BY <2>2
  <2> HIDE DEF q, done, x, freed, earlier
  <2>4. /\ Tail(q) \in Seq(Alphabet) /\ x \in Alphabet
        /\ Elems(q) = {x} \cup Elems(Tail(q))
        /\ OneToOne(q) => OneToOne(Tail(q)) /\ x \notin Elems(Tail(q))
    BY <1>1, <1>3, TailElems DEF x
  <2>5. freed \subseteq Alphabet
    BY DEF freed, Ready
  <2>6. /\ Sorted(freed) \in Seq(Alphabet) /\ OneToOne(Sorted(freed))
        /\ Elems(Sorted(freed)) = freed
    BY <2>5, SortedElems
  <2>7. /\ t.queue \in Seq(Alphabet)
        /\ Elems(t.queue) = Elems(Tail(q)) \cup freed
        /\ OneToOne(Tail(q)) /\ Elems(Tail(q)) \cap freed = {} => OneToOne(t.queue)
    <3> DEFINE u == Tail(q)
               v == Sorted(freed)
    <3>1. u \in Seq(Alphabet) /\ v \in Seq(Alphabet) /\ OneToOne(v) /\ Elems(v) = freed
      BY <2>4, <2>6
    <3> HIDE DEF u, v
    <3>2. /\ u \o v \in Seq(Alphabet) /\ Elems(u \o v) = Elems(u) \cup freed
          /\ OneToOne(u) /\ Elems(u) \cap freed = {} => OneToOne(u \o v)
      BY <3>1, ConcatElems
    <3> QED BY <2>3, <3>2 DEF u, v
  <2>8. /\ t.done \in Seq(Alphabet) /\ Len(t.done) = Len(done) + 1
        /\ Elems(t.done) = earlier \cup {x}
        /\ OneToOne(done) /\ x \notin earlier => OneToOne(t.done)
    BY <1>1, <2>3, <2>4, AppendElems DEF earlier
  <2>9. t \in KahnStates
    BY <2>2, <2>3, <2>7, <2>8 DEF KahnStates
  <2>10. ASSUME KahnInv(before, s) PROVE KahnInv(before, t)
    <3>1. /\ OneToOne(done) /\ OneToOne(q) /\ earlier \cap Elems(q) = {}
          /\ earlier \cup Elems(q) = Ready(before, earlier)
          /\ Ordered(before, done)
      BY <2>10 DEF KahnInv, earlier, done, q
    <3>2. x \in Ready(before, earlier) /\ x \notin earlier /\ x \notin Elems(Tail(q))
      BY <2>4, <3>1
    <3>3. Elems(Tail(q)) \subseteq Ready(before, earlier) /\ Elems(Tail(q)) \cap earlier = {}
      BY <2>4, <3>1
    <3>4. freed \cap Ready(before, earlier) = {}
      BY DEF freed
    <3>5. OneToOne(t.done) /\ OneToOne(t.queue)
      BY <2>4, <2>7, <2>8, <3>1, <3>2, <3>3, <3>4
    <3>6. Elems(t.done) \cap Elems(t.queue) = {}
      BY <2>7, <2>8, <3>1, <3>2, <3>3, <3>4
    <3>7. Elems(t.done) \cup Elems(t.queue) = Ready(before, Elems(t.done))
      <4>1. Ready(before, earlier) \subseteq Ready(before, earlier \cup {x})
        BY DEF Ready
      <4>2. Ready(before, earlier \cup {x}) = Ready(before, earlier) \cup freed
        BY <4>1 DEF freed
      <4>3. Elems(t.done) \cup Elems(t.queue) = (earlier \cup Elems(q)) \cup freed
        BY <2>4, <2>7, <2>8
      <4> QED BY <2>8, <3>1, <4>2, <4>3
    <3>8. Ordered(before, t.done)
      <4>1. before[x] \subseteq Elems(done)
        BY <3>2 DEF Ready, earlier
      <4> QED BY <1>1, <2>3, <2>4, <3>1, <4>1, OrderedAppend
    <3> QED BY <3>5, <3>6, <3>7, <3>8 DEF KahnInv
  <2> QED BY <1>3, <2>8, <2>9, <2>10 DEF t, done, q
<1> QED BY <1>2, <1>3

KahnStart(before) == [queue |-> Sorted(Ready(before, {})), done |-> <<>>]

LEMMA TurnsSteps ==
    ASSUME NEW before, DOMAIN before \subseteq Alphabet
    PROVE  /\ Turns(before)[0] = KahnStart(before)
           /\ \A n \in 1..Cardinality(DOMAIN before) :
                Turns(before)[n] = Dequeue(before, Turns(before)[n - 1])
           /\ \A n \in 0..Cardinality(DOMAIN before) : Turns(before)[n] \in KahnStates
<1> DEFINE N == Cardinality(DOMAIN before)
           V == KahnStates
           b == KahnStart(before)
           step == [k \in 1..N |-> [v \in V |-> Dequeue(before, v)]]
           Eq(f) == f = [n \in 0..N |->
                           IF n = 0 THEN [queue |-> Sorted(Ready(before, {})), done |-> <<>>]
                           ELSE Dequeue(before, f[n - 1])]
<1>1. N \in Nat /\ b \in V
  <2>1. IsFiniteSet(DOMAIN before)
    BY AlphabetIsFinite, FS_Subset
  <2>2. Sorted(Ready(before, {})) \in Seq(Alphabet) /\ <<>> \in Seq(Alphabet)
    BY SortedElems
  <2> QED BY <2>1, <2>2, FS_CardinalityType DEF KahnStart, KahnStates
<1>2. ASSUME NEW v \in V PROVE Dequeue(before, v) \in V
  BY DequeueKeeps
<1> HIDE DEF N, V, b
<1>3. \A k \in 1..N : \A v \in V : step[k][v] \in V
  BY <1>2
<1>4. PICK f : Iterates(f, N, V, b, step)
  <2> HIDE DEF step
  <2> QED BY <1>1, <1>3, RecursionExists
<1>5. ASSUME NEW n \in 1..N PROVE f[n] = Dequeue(before, f[n - 1])
  <2>1. n - 1 \in 0..N
    BY <1>1
  <2> QED BY <1>4, <2>1 DEF Iterates
<1>6. Eq(f)
  <2>1. f = [n \in 0..N |-> f[n]] /\ f[0] = b
    BY <1>4 DEF Iterates
  <2>2. \A n \in 0..N : n # 0 => n \in 1..N
    BY <1>1
  <2>3. \A n \in 0..N : f[n] = IF n = 0 THEN [queue |-> Sorted(Ready(before, {})), done |-> <<>>]
                           ELSE Dequeue(before, f[n - 1])
    BY <1>5, <2>1, <2>2 DEF b, KahnStart
  <2> QED BY <2>1, <2>3
<1>7. Turns(before) = CHOOSE g : Eq(g)
  BY DEF Turns, N
<1> DEFINE r == Turns(before)
<1>8. Eq(r)
  <2> HIDE DEF Eq
  <2> QED BY <1>6, <1>7
<1> HIDE DEF r
<1>9. r[0] = b /\ \A n \in 1..N : r[n] = Dequeue(before, r[n - 1])
  <2>1. 0 \in 0..N /\ \A n \in 1..N : n \in 0..N /\ n # 0
    BY <1>1
  <2>2. r[0] = b
    BY <1>8, <2>1 DEF b, KahnStart
  <2>3. ASSUME NEW n \in 1..N PROVE r[n] = Dequeue(before, r[n - 1])
    BY <1>8, <2>1
  <2> QED BY <2>2, <2>3
<1>10. StepAlike(r, f, N)
  BY <1>4, <1>5, <1>9 DEF StepAlike, Iterates
<1>11. ASSUME NEW n \in 0..N PROVE r[n] \in V
  <2>1. n \in Nat /\ StepAlike(r, f, n)
    BY <1>1, <1>10 DEF StepAlike
  <2>2. r[n] = f[n]
    BY <2>1, RecursionUnique
  <2> QED BY <1>4, <2>2 DEF Iterates
<1> QED BY <1>1, <1>9, <1>11 DEF r, N, V, b

(* When the queue is empty nothing more can be started; it is after as     *)
(* many turns as there are components.                                     *)
Started(before) == Turns(before)[Cardinality(DOMAIN before)].done

LEMMA KahnEnds ==
    ASSUME NEW before, DOMAIN before \subseteq Alphabet
    PROVE  /\ Started(before) \in Seq(DOMAIN before) /\ OneToOne(Started(before))
           /\ Ordered(before, Started(before))
           /\ Ready(before, Elems(Started(before))) = Elems(Started(before))
<1> DEFINE N == Cardinality(DOMAIN before)
           r == Turns(before)
           Fair(n) == /\ r[n] \in KahnStates /\ KahnInv(before, r[n])
                      /\ r[n].queue = <<>> \/ Len(r[n].done) = n
           S == {n \in Nat : n <= N => Fair(n)}
<1>0. IsFiniteSet(DOMAIN before) /\ N \in Nat
  BY AlphabetIsFinite, FS_Subset, FS_CardinalityType
<1>1. /\ r[0] = KahnStart(before)
      /\ \A n \in 1..N : r[n] = Dequeue(before, r[n - 1])
      /\ \A n \in 0..N : r[n] \in KahnStates
  BY TurnsSteps
<1>2. Fair(0)
  <2> DEFINE q == Sorted(Ready(before, {}))
  <2>1. q \in Seq(Alphabet) /\ OneToOne(q) /\ Elems(q) = Ready(before, {}) \cap Alphabet
    BY SortedElems
  <2>2. Elems(q) = Ready(before, {})
    BY <2>1 DEF Ready
  <2>3. r[0] = [queue |-> q, done |-> <<>>]
    BY <1>1 DEF KahnStart
  <2> HIDE DEF q
  <2>4. /\ r[0].queue = q /\ r[0].done = <<>> /\ Len(r[0].done) = 0 /\ r[0] \in KahnStates
    BY <1>0, <1>1, <2>3
  <2>5. Elems(<<>>) = {} /\ OneToOne(<<>>) /\ Ordered(before, <<>>)
    BY DEF Elems, OneToOne, Ordered
  <2>6. KahnInv(before, r[0])
    BY <2>1, <2>2, <2>4, <2>5 DEF KahnInv
  <2> QED BY <2>4, <2>6
<1> HIDE DEF r, N
<1>3. 0 \in S
  BY <1>2
<1>4. ASSUME NEW n \in Nat, n \in S PROVE n + 1 \in S
  <2> SUFFICES ASSUME n + 1 <= N PROVE Fair(n + 1)
    OBVIOUS
  <2>1. Fair(n) /\ n + 1 \in 1..N /\ n + 1 \in 0..N /\ (n + 1) - 1 = n
    BY <1>0, <1>4
  <2>2. r[n + 1] = Dequeue(before, r[n]) /\ r[n] \in KahnStates
    BY <1>1, <2>1
  <2> DEFINE s == r[n]
             t == Dequeue(before, s)
  <2> HIDE DEF s, t
  <2>3. s \in KahnStates /\ KahnInv(before, s) /\ (s.queue = <<>> \/ Len(s.done) = n)
    BY <2>1 DEF s
  <2>4. /\ t \in KahnStates /\ KahnInv(before, t)
        /\ s.queue # <<>> => Len(t.done) = Len(s.done) + 1
        /\ s.queue = <<>> => t = s
    BY <2>3, DequeueKeeps DEF t
  <2>5. t.queue = <<>> \/ Len(t.done) = n + 1
    BY <2>3, <2>4
  <2> QED BY <2>2, <2>4, <2>5 DEF s, t
<1>5. N \in S
  <2> HIDE DEF S
  <2> QED BY <1>0, <1>3, <1>4, NaturalsByInduction
<1> DEFINE s == r[N]
<1>6. s \in KahnStates /\ KahnInv(before, s) /\ (s.queue = <<>> \/ Len(s.done) = N)
  BY <1>0, <1>5
<1>7. Started(before) = s.done
  BY DEF Started, r, N
<1> HIDE DEF s
<1> DEFINE E == Elems(s.done)
<1>8. s.done \in Seq(Alphabet) /\ s.queue \in Seq(Alphabet)
  BY <1>6 DEF KahnStates
<1>9. /\ OneToOne(s.done) /\ E \cap Elems(s.queue) = {} /\ Ordered(before, s.done)
      /\ E \cup Elems(s.queue) = Ready(before, E)
  BY <1>6 DEF KahnInv
<1>10. E \subseteq DOMAIN before /\ Elems(s.queue) \subseteq DOMAIN before
  BY <1>9 DEF Ready
<1>11. s.queue = <<>>
  <2> SUFFICES ASSUME s.queue # <<>> PROVE FALSE
    OBVIOUS
  <2>1. Len(s.done) = N
    BY <1>6
  <2>2. Cardinality(E) = N
    BY <1>8, <1>9, <2>1, CountOneToOne
  <2> HIDE DEF E
  <2>3. E = DOMAIN before
    BY <1>0, <1>10, <2>2, FS_Subset DEF N
  <2>4. Head(s.queue) \in Elems(s.queue)
    BY <1>8, TailElems
  <2> QED BY <1>9, <1>10, <2>3, <2>4
<1>12. Elems(s.queue) = {}
  BY <1>11 DEF Elems
<1>13. s.done \in Seq(DOMAIN before)
  <2>1. \A i \in 1..Len(s.done) : s.done[i] \in DOMAIN before
    BY <1>10 DEF Elems
  <2>2. Len(s.done) \in Nat /\ s.done = [i \in 1..Len(s.done) |-> s.done[i]]
    BY <1>8
  <2> QED BY <2>1, <2>2
<1> QED BY <1>7, <1>9, <1>12, <1>13

(* In such an order come before a component all that it depends on, so it  *)
(* never depends on itself.                                                *)
LEMMA OrderedFollowing ==
    ASSUME NEW before, Digraph(before), NEW done \in Seq(DOMAIN before),
           Ordered(before, done), NEW i \in 1..Len(done)
    PROVE  \A d \in Following(before)[done[i]] : \E j \in 1..(i - 1) : done[j] = d
<1> DEFINE T == {done[j] : j \in 1..(i - 1)}
<1>1. done[i] \in DOMAIN before /\ Len(done) \in Nat
  OBVIOUS
<1>2. before[done[i]] \subseteq T
  BY DEF Ordered
<1>3. ClosedUnder(before, T)
  <2>1. ASSUME NEW j \in 1..(i - 1), NEW d \in before[done[j]] PROVE d \in T
    <3>1. j \in 1..Len(done)
      BY <1>1
    <3>2. PICK k \in 1..(j - 1) : done[k] = d
      BY <2>1, <3>1 DEF Ordered
    <3>3. k \in 1..(i - 1)
      BY <3>2
    <3> QED BY <3>2, <3>3
  <2> QED BY <2>1 DEF ClosedUnder
<1> HIDE DEF T
<1>4. Following(before)[done[i]] \subseteq T
  BY <1>1, <1>2, <1>3, FollowingLeast
<1> QED BY <1>4 DEF T

(* If nothing more can be started and something is left, the one of what   *)
(* is left that the fewest follow is one that follows itself.              *)
LEMMA StuckIsCyclic ==
    ASSUME NEW before, Digraph(before), NEW E \in SUBSET DOMAIN before,
           Ready(before, E) = E, E # DOMAIN before
    PROVE  \E c \in DOMAIN before : c \in Following(before)[c]
<1> DEFINE U == DOMAIN before \ E
           F(c) == Following(before)[c]
           S == {Cardinality(F(c)) : c \in U}
<1>1. ASSUME NEW c \in DOMAIN before
      PROVE  /\ F(c) \in SUBSET DOMAIN before /\ before[c] \subseteq F(c)
             /\ ClosedUnder(before, F(c))
             /\ IsFiniteSet(F(c)) /\ Cardinality(F(c)) \in Nat
  <2>1. F(c) \in SUBSET DOMAIN before /\ before[c] \subseteq F(c) /\ ClosedUnder(before, F(c))
    BY FollowingCloses
  <2> HIDE DEF F
  <2> QED BY <2>1, FS_Subset, FS_CardinalityType DEF Digraph
<1>2. ASSUME NEW c \in U PROVE \E d \in U : d \in before[c]
  <2>1. c \notin Ready(before, E) /\ before[c] \subseteq DOMAIN before
    BY DEF Digraph
  <2> QED BY <2>1 DEF Ready
<1>3. ASSUME NEW c \in DOMAIN before, NEW d \in before[c] PROVE d \in DOMAIN before /\ F(d) \subseteq F(c)
  <2>1. d \in DOMAIN before /\ d \in F(c)
    BY <1>1 DEF Digraph
  <2>2. before[d] \subseteq F(c) /\ ClosedUnder(before, F(c))
    BY <1>1, <2>1 DEF ClosedUnder
  <2> QED BY <2>1, <2>2, FollowingLeast
<1> HIDE DEF F
<1>4. S \subseteq Nat /\ S # {}
  BY <1>1
<1>5. PICK n \in S : \A m \in S : n <= m
  <2> HIDE DEF S
  <2> QED BY <1>4, LeastOfNaturals
<1>6. PICK c \in U : n = Cardinality(F(c))
  OBVIOUS
<1>7. PICK d \in U : d \in before[c]
  BY <1>2
<1>8. F(d) \in SUBSET F(c) /\ d \in F(c)
  BY <1>1, <1>3, <1>7
<1>9. Cardinality(F(c)) <= Cardinality(F(d))
  BY <1>5, <1>6
<1>10. F(c) = F(d)
  <2>1. IsFiniteSet(F(c)) /\ Cardinality(F(c)) \in Nat /\ Cardinality(F(d)) \in Nat
    BY <1>1
  <2>2. Cardinality(F(d)) <= Cardinality(F(c)) /\ (Cardinality(F(c)) = Cardinality(F(d)) => F(c) = F(d))
    BY <1>8, <2>1, FS_Subset
  <2> QED BY <1>9, <2>1, <2>2
<1> QED BY <1>8, <1>10 DEF F

(* Nothing is missing: then all that a component waits for is known.       *)
Distinct(manifests) == \A m, n \in manifests : m.id = n.id => m = n

LEMMA BeforeIsDigraph ==
    ASSUME NEW manifests, Distinct(manifests), Ids(manifests) \subseteq Alphabet,
           ~ Missing(manifests)
    PROVE  Digraph(Before(manifests)) /\ DOMAIN Before(manifests) = Ids(manifests)
<1>1. DOMAIN Before(manifests) = Ids(manifests)
  BY DEF Before
<1>2. IsFiniteSet(Ids(manifests))
  BY AlphabetIsFinite, FS_Subset
<1>3. ASSUME NEW id \in Ids(manifests)
      PROVE  Predecessors(Of(manifests, id), manifests) \subseteq Ids(manifests)
  <2> DEFINE m == Of(manifests, id)
  <2>1. m \in manifests
    BY DEF Of, Ids
  <2>2. m.deps \subseteq Ids(manifests)
    BY <2>1 DEF Missing
  <2>3. \A c : Providers(manifests, c) \subseteq Ids(manifests)
    BY DEF Providers, Ids
  <2> HIDE DEF m
  <2> QED BY <2>2, <2>3 DEF Predecessors, m
<1> QED BY <1>1, <1>2, <1>3 DEF Digraph, Before

LEMMA OfIs ==
    ASSUME NEW manifests, Distinct(manifests), NEW id \in Ids(manifests)
    PROVE  Of(manifests, id) \in manifests /\ Of(manifests, id).id = id
BY DEF Of, Ids

(* The order of a boot, when it has one: every manifest is in it, after    *)
(* all that it depends on; and when it has none there is a cycle.          *)
Complete(manifests) ==
    ~ Missing(manifests) /\ Len(Kahn(manifests)) = Cardinality(manifests)
Cyclic(manifests) == \E id \in Ids(manifests) : id \in Ancestors(manifests)[id]
InOrder(manifests, k) ==
    \A i \in 1..Len(k) : /\ k[i] \in manifests
                         /\ \A d \in Ancestors(manifests)[k[i].id] : \E j \in 1..(i - 1) : k[j].id = d

LEMMA KahnSorts ==
    ASSUME NEW manifests, IsFiniteSet(manifests), Distinct(manifests),
           Ids(manifests) \subseteq Alphabet, ~ Missing(manifests)
    PROVE  /\ Kahn(manifests) \in Seq(manifests)
           /\ InOrder(manifests, Kahn(manifests))
           /\ Complete(manifests) <=> ~ Cyclic(manifests)
<1> DEFINE before == Before(manifests)
           done == Started(before)
           k == Kahn(manifests)
           all == Ids(manifests)
<1>1. Digraph(before) /\ DOMAIN before = all
  BY BeforeIsDigraph
<1> HIDE DEF before
<1>2. /\ done \in Seq(all) /\ OneToOne(done) /\ Ordered(before, done)
      /\ Ready(before, Elems(done)) = Elems(done)
  BY <1>1, KahnEnds
<1>3. k = [i \in DOMAIN done |-> Of(manifests, done[i])]
  BY DEF Kahn, Started, before
<1>4. Ancestors(manifests) = Following(before)
  BY DEF Ancestors, before
<1> HIDE DEF done, k, all
<1>5. Len(done) \in Nat /\ DOMAIN done = 1..Len(done) /\ \A i \in 1..Len(done) : done[i] \in all
  BY <1>2
<1>6. \A i \in 1..Len(done) : Of(manifests, done[i]) \in manifests /\ Of(manifests, done[i]).id = done[i]
  BY <1>5, OfIs DEF all
<1>7. /\ k \in Seq(manifests) /\ Len(k) = Len(done)
      /\ \A i \in 1..Len(k) : k[i] \in manifests /\ k[i].id = done[i]
  BY <1>3, <1>5, <1>6
<1>8. ASSUME NEW i \in 1..Len(done), NEW d \in Following(before)[done[i]]
      PROVE  \E j \in 1..(i - 1) : done[j] = d
  <2>1. done \in Seq(DOMAIN before) /\ Ordered(before, done)
    BY <1>1, <1>2
  <2> QED BY <1>1, <1>8, <2>1, OrderedFollowing
<1>9. InOrder(manifests, k)
  <2> SUFFICES ASSUME NEW i \in 1..Len(k), NEW d \in Ancestors(manifests)[k[i].id]
               PROVE  \E j \in 1..(i - 1) : k[j].id = d
    BY <1>7 DEF InOrder
  <2>1. i \in 1..Len(done) /\ d \in Following(before)[done[i]]
    BY <1>4, <1>7
  <2>2. PICK j \in 1..(i - 1) : done[j] = d
    BY <1>8, <2>1
  <2>3. j \in 1..Len(k)
    BY <1>5, <1>7, <2>2
  <2> QED BY <1>7, <2>2, <2>3
<1>10. Cardinality(all) = Cardinality(manifests) /\ IsFiniteSet(all)
  <2> DEFINE f == [m \in manifests |-> m.id]
  <2>1. {f[m] : m \in manifests} = all /\ f \in [manifests -> {f[m] : m \in manifests}]
    BY DEF all, Ids
  <2>2. \A m, n \in manifests : f[m] = f[n] => m = n
    BY DEF Distinct
  <2> HIDE DEF f
  <2> QED BY <2>1, <2>2, CountImage
<1>11. Elems(done) \in SUBSET all /\ Cardinality(Elems(done)) = Len(done)
  BY <1>2, <1>5, CountOneToOne DEF Elems
<1>12. ASSUME Elems(done) = all PROVE ~ Cyclic(manifests)
  <2> SUFFICES ASSUME NEW id \in all, id \in Following(before)[id] PROVE FALSE
    BY <1>4 DEF Cyclic, all
  <2>1. PICK i \in 1..Len(done) : done[i] = id
    BY <1>12 DEF Elems
  <2>2. PICK j \in 1..(i - 1) : done[j] = id
    BY <1>8, <2>1
  <2>3. j \in 1..Len(done) /\ j # i
    BY <1>5, <2>2
  <2> QED BY <1>2, <2>1, <2>2, <2>3 DEF OneToOne
<1>13. ASSUME Elems(done) # all PROVE Cyclic(manifests)
  <2>1. \E c \in all : c \in Following(before)[c]
    BY <1>1, <1>2, <1>11, <1>13, StuckIsCyclic
  <2> QED BY <1>4, <2>1 DEF Cyclic, all
<1>14. Complete(manifests) <=> Elems(done) = all
  <2>1. Cardinality(Elems(done)) = Cardinality(all) => Elems(done) = all
    BY <1>10, <1>11, FS_Subset
  <2> QED BY <1>7, <1>10, <1>11, <2>1 DEF Complete, k
<1> QED BY <1>7, <1>9, <1>12, <1>13, <1>14 DEF k

------------------------------------------------------------------------------
(* What is started at all                                                  *)

Sourced(k) == k \in Seq(Manifests(k)) /\ \A m \in Manifests(k) : m.source \in Nat

(* The scan's first manifest of the highest source.                        *)
Best(k, of, i) == \A j \in of : k[j].source <= k[i].source /\ (k[j].source = k[i].source => i <= j)

LEMMA BestExists ==
    ASSUME NEW k, Sourced(k), NEW of \in SUBSET DOMAIN k, of # {}
    PROVE  \E i \in of : Best(k, of, i)
<1> DEFINE upTo(n) == {i \in of : i <= n}
           S == {n \in Nat : upTo(n) # {} => \E i \in upTo(n) : Best(k, upTo(n), i)}
<1>0. Len(k) \in Nat /\ DOMAIN k = 1..Len(k) /\ \A i \in 1..Len(k) : k[i].source \in Nat
  BY DEF Sourced, Manifests
<1>1. 0 \in S
  <2>1. upTo(0) = {}
    BY <1>0
  <2> QED BY <2>1
<1>2. ASSUME NEW n \in Nat, n \in S PROVE n + 1 \in S
  <2> SUFFICES ASSUME upTo(n + 1) # {} PROVE \E i \in upTo(n + 1) : Best(k, upTo(n + 1), i)
    OBVIOUS
  <2>1. \A i \in of : i \in Nat /\ k[i].source \in Nat
    BY <1>0
  <2>2. upTo(n + 1) \subseteq upTo(n) \cup {n + 1}
    BY <2>1
  <2>3. upTo(n) \subseteq upTo(n + 1)
    BY <2>1
  <2>4. CASE n + 1 \notin of
    <3>1. upTo(n + 1) = upTo(n)
      BY <2>2, <2>3, <2>4
    <3> QED BY <1>2, <3>1
  <2>5. CASE n + 1 \in of /\ upTo(n) = {}
    <3>1. upTo(n + 1) = {n + 1}
      BY <2>2, <2>5
    <3>2. Best(k, upTo(n + 1), n + 1)
      BY <2>1, <2>5, <3>1 DEF Best
    <3> QED BY <3>1, <3>2
  <2>6. CASE n + 1 \in of /\ upTo(n) # {}
    <3>1. PICK i \in upTo(n) : Best(k, upTo(n), i)
      BY <1>2, <2>6
    <3>2. i \in of /\ i <= n /\ i \in Nat /\ k[i].source \in Nat
      BY <2>1, <3>1
    <3> HIDE DEF upTo
    <3>3. CASE k[n + 1].source > k[i].source
      <4>1. ASSUME NEW j \in upTo(n) PROVE k[j].source < k[n + 1].source
        <5>1. k[j].source \in Nat /\ k[n + 1].source \in Nat /\ k[j].source <= k[i].source
          BY <2>1, <2>6, <3>1 DEF upTo, Best
        <5> QED BY <3>2, <3>3, <5>1
      <4>2. k[n + 1].source \in Nat
        BY <2>1, <2>6
      <4>3. Best(k, upTo(n + 1), n + 1)
        <5> SUFFICES ASSUME NEW j \in upTo(n + 1)
                     PROVE  /\ k[j].source <= k[n + 1].source
                            /\ k[j].source = k[n + 1].source => n + 1 <= j
          BY DEF Best
        <5>1. CASE j = n + 1
          BY <4>2, <5>1
        <5>2. CASE j \in upTo(n)
          <6>1. k[j].source < k[n + 1].source /\ k[j].source \in Nat
            BY <2>1, <4>1, <5>2 DEF upTo
          <6> QED BY <4>2, <6>1
        <5> QED BY <2>2, <5>1, <5>2
      <4>4. n + 1 \in upTo(n + 1)
        BY <2>6 DEF upTo
      <4> QED BY <4>3, <4>4
    <3>4. CASE ~ (k[n + 1].source > k[i].source)
      <4>1. Best(k, upTo(n + 1), i)
        <5> SUFFICES ASSUME NEW j \in upTo(n + 1)
                     PROVE  /\ k[j].source <= k[i].source
                            /\ k[j].source = k[i].source => i <= j
          BY DEF Best
        <5>1. CASE j = n + 1
          <6>1. k[n + 1].source \in Nat
            BY <2>1, <2>6
          <6> QED BY <3>2, <3>4, <5>1, <6>1
        <5>2. CASE j \in upTo(n)
          BY <3>1, <5>2 DEF Best
        <5> QED BY <2>2, <5>1, <5>2
      <4> QED BY <2>3, <3>1, <4>1
    <3> QED BY <3>3, <3>4
  <2> QED BY <2>4, <2>5, <2>6
<1>3. Len(k) \in S
  <2> HIDE DEF S
  <2> QED BY <1>0, <1>1, <1>2, NaturalsByInduction
<1>4. upTo(Len(k)) = of
  BY <1>0
<1> QED BY <1>3, <1>4

LEMMA WinnerWins ==
    ASSUME NEW k, Sourced(k), NEW id \in {m.id : m \in Manifests(k)}
    PROVE  /\ Winner(k, id) \in Manifests(k) /\ Winner(k, id).id = id
           /\ \A n \in Manifests(k) : n.id = id => n.source <= Winner(k, id).source
<1> DEFINE of == {i \in DOMAIN k : k[i].id = id}
           first == CHOOSE i \in of : Best(k, of, i)
<1>1. of # {}
  BY DEF Manifests
<1>2. \E i \in of : Best(k, of, i)
  <2>1. of \in SUBSET DOMAIN k
    OBVIOUS
  <2> HIDE DEF of
  <2> QED BY <1>1, <2>1, BestExists
<1>3. first \in of /\ Best(k, of, first)
  <2> HIDE DEF of
  <2> QED BY <1>2
<1>4. Winner(k, id) = k[first]
  BY DEF Winner, Best
<1> HIDE DEF first
<1>5. ASSUME NEW n \in Manifests(k), n.id = id PROVE n.source <= k[first].source
  <2>1. PICK j \in DOMAIN k : k[j] = n
    BY DEF Manifests
  <2>2. j \in of
    BY <1>5, <2>1
  <2> QED BY <1>3, <2>1, <2>2 DEF Best
<1> QED BY <1>3, <1>4, <1>5 DEF Manifests

LEMMA CandidatesWin ==
    ASSUME NEW k, Sourced(k), Ids(Manifests(k)) \subseteq Alphabet
    PROVE  /\ Candidates(k) \subseteq Manifests(k) /\ IsFiniteSet(Candidates(k))
           /\ Distinct(Candidates(k)) /\ Ids(Candidates(k)) \subseteq Alphabet
           /\ \A m \in Candidates(k) :
                m.enabled /\ \A n \in Manifests(k) : n.id = m.id => n.source <= m.source
<1>1. \A m \in Candidates(k) : m.enabled /\ \E n \in Manifests(k) : m = Winner(k, n.id)
  BY DEF Candidates, FilterEnabled, Winners
<1>2. ASSUME NEW n \in Manifests(k)
      PROVE  /\ Winner(k, n.id) \in Manifests(k) /\ Winner(k, n.id).id = n.id
             /\ \A o \in Manifests(k) : o.id = n.id => o.source <= Winner(k, n.id).source
  <2>1. n.id \in {m.id : m \in Manifests(k)}
    OBVIOUS
  <2> QED BY <2>1, WinnerWins
<1>3. ASSUME NEW m \in Candidates(k)
      PROVE  /\ m \in Manifests(k) /\ m = Winner(k, m.id)
             /\ m.enabled /\ \A n \in Manifests(k) : n.id = m.id => n.source <= m.source
  BY <1>1, <1>2
<1>4. Candidates(k) \subseteq Manifests(k) /\ Distinct(Candidates(k))
  BY <1>3 DEF Distinct
<1>5. Ids(Candidates(k)) \subseteq Alphabet
  BY <1>4 DEF Ids
<1>6. IsFiniteSet(Manifests(k))
  <2> DEFINE n == Len(k)
  <2>1. n \in Nat /\ k \in [1..n -> Manifests(k)] /\ DOMAIN k = 1..n
    BY DEF Sourced
  <2>2. {k[i] : i \in 1..n} = Manifests(k)
    BY <2>1 DEF Manifests
  <2>3. IsFiniteSet(1..n)
    BY <2>1, FS_Interval
  <2> HIDE DEF n
  <2> QED BY <2>1, <2>2, <2>3, CountImage
<1>7. IsFiniteSet(Candidates(k))
  BY <1>4, <1>6, FS_Subset
<1> QED BY <1>3, <1>4, <1>5, <1>7

------------------------------------------------------------------------------
(* A boot, step by step                                                    *)

Chosen == Candidates(setup.disk)

(* Nothing is started, before the order is known or since there is none.   *)
Idle ==
    /\ boot \in {"discover", "raised"}
    /\ order = <<>> /\ registry = <<>> /\ running = <<>>
    /\ boot = "raised" => ~ Complete(Chosen)

(* What runs is the beginning of Kahn's order, what is left to start its   *)
(* end; it raises at a manifest, which stays at the head of what is left.  *)
Underway ==
    /\ boot \in {"start", "booted", "raised"}
    /\ Complete(Chosen)
    /\ running \in Seq({m.instance : m \in Chosen}) /\ order \in Seq(Chosen)
    /\ Len(running) + Len(order) = Len(Kahn(Chosen))
    /\ \A i \in 1..Len(running) : running[i] = Kahn(Chosen)[i].instance
    /\ \A i \in 1..Len(order) : order[i] = Kahn(Chosen)[Len(running) + i]
    /\ boot = "raised" => order # <<>>

Registered ==
    \A c \in DOMAIN registry : \E m \in Chosen : m.instance = c /\ m.decl = registry[c]

OrderInv == setup \in Setups /\ (Idle \/ Underway) /\ Registered

LEMMA ChosenFacts ==
    ASSUME setup \in Setups
    PROVE  /\ Chosen \subseteq Manifests(setup.disk) /\ IsFiniteSet(Chosen)
           /\ Distinct(Chosen) /\ Ids(Chosen) \subseteq Alphabet
           /\ \A m \in Chosen :
                m.enabled /\ \A n \in Manifests(setup.disk) : n.id = m.id => n.source <= m.source
           /\ ~ Missing(Chosen) => /\ Kahn(Chosen) \in Seq(Chosen)
                                   /\ InOrder(Chosen, Kahn(Chosen))
                                   /\ Complete(Chosen) <=> ~ Cyclic(Chosen)
<1> DEFINE k == setup.disk
<1>1. Sourced(k)
  BY BootAssumption DEF Sourced
<1>2. Ids(Manifests(k)) \subseteq Alphabet
  BY BootAssumption DEF Ids, Alphabet
<1> HIDE DEF k
<1>3. /\ Chosen \subseteq Manifests(k) /\ IsFiniteSet(Chosen)
      /\ Distinct(Chosen) /\ Ids(Chosen) \subseteq Alphabet
      /\ \A m \in Chosen :
           m.enabled /\ \A n \in Manifests(k) : n.id = m.id => n.source <= m.source
  BY <1>1, <1>2, CandidatesWin DEF Chosen, k
<1> QED BY <1>3, KahnSorts DEF k

LEMMA OrderInit == BootInit => OrderInv
BY DEF BootInit, OrderInv, Idle, Registered

LEMMA DiscoverStep == ASSUME OrderInv, Discover PROVE OrderInv'
<1>1. /\ boot = "discover" /\ registry = <<>> /\ running = <<>>
      /\ UNCHANGED <<setup, registry, running>>
  BY DEF OrderInv, Idle, Underway, Discover
<1>2. Chosen' = Chosen /\ setup' \in Setups /\ Registered'
  BY <1>1 DEF Chosen, Registered, OrderInv
<1>3. CASE ~ Complete(Chosen)
  <2>1. boot' = "raised" /\ order' = <<>>
    BY <1>3 DEF Discover, Complete, Chosen
  <2>2. Idle'
    BY <1>1, <1>2, <1>3, <2>1 DEF Idle
  <2> QED BY <1>2, <2>2 DEF OrderInv
<1>4. CASE Complete(Chosen)
  <2>1. boot' = "start" /\ order' = Kahn(Chosen)
    BY <1>4 DEF Discover, Complete, Chosen
  <2>2. Kahn(Chosen) \in Seq(Chosen)
    BY <1>4, ChosenFacts DEF OrderInv, Complete
  <2> DEFINE all == Kahn(Chosen)
             n == Len(all)
  <2>3. n \in Nat /\ \A i \in 1..n : 0 + i = i
    BY <2>2
  <2>4. running' = <<>> /\ Len(running') = 0 /\ running' \in Seq({m.instance : m \in Chosen})
    BY <1>1
  <2>5. Underway'
    <3>1. \A i \in 1..Len(running') : FALSE
      BY <2>4
    <3>2. Len(running') + Len(order') = n
      BY <2>1, <2>3, <2>4
    <3>3. \A i \in 1..Len(order') : order'[i] = all[Len(running') + i]
      BY <2>1, <2>3, <2>4
    <3> QED BY <1>2, <1>4, <2>1, <2>2, <2>4, <3>1, <3>2, <3>3 DEF Underway
  <2> QED BY <1>2, <2>5 DEF OrderInv
<1> QED BY <1>3, <1>4

LEMMA StartStep == ASSUME OrderInv, Start PROVE OrderInv'
<1> DEFINE m == Head(order)
           all == Kahn(Chosen)
           n == Len(running)
<1>1. /\ boot = "start" /\ order # <<>> /\ setup' = setup /\ Register(m)
      /\ IF Activates(m)
         THEN running' = Append(running, m.instance) /\ order' = Tail(order) /\ boot' = boot
         ELSE boot' = "raised" /\ order' = order /\ running' = running
  BY DEF Start, Activates
<1>2. Underway /\ Registered /\ setup \in Setups
  BY <1>1 DEF OrderInv, Idle
<1>3. Chosen' = Chosen
  BY <1>1 DEF Chosen
<1>4. order \in Seq(Chosen) /\ m \in Chosen
  BY <1>1, <1>2, TailElems DEF Underway
<1> HIDE DEF m
<1>5. Registered'
  BY <1>1, <1>2, <1>3, <1>4 DEF Registered, Register
<1>6. CASE ~ Activates(m)
  BY <1>1, <1>2, <1>3, <1>5, <1>6 DEF Underway, OrderInv
<1>7. CASE Activates(m)
  <2> DEFINE S == {c.instance : c \in Chosen}
             q == Len(order)
             x == m.instance
  <2>1. running \in Seq(S) /\ x \in S
    BY <1>2, <1>4 DEF Underway
  <2>2. /\ n + q = Len(all) /\ \A i \in 1..n : running[i] = all[i].instance
        /\ \A i \in 1..q : order[i] = all[n + i]
    BY <1>2 DEF Underway
  <2>3. boot' = "start" /\ running' = Append(running, x) /\ order' = Tail(order)
    BY <1>1, <1>7
  <2> HIDE DEF S, x, all
  <2>4. /\ n \in Nat /\ running' \in Seq(S) /\ Len(running') = n + 1
        /\ running'[n + 1] = x /\ \A i \in 1..n : running'[i] = running[i]
    BY <2>1, <2>3
  <2>5. /\ q \in Nat \ {0} /\ order' \in Seq(Chosen) /\ Len(order') = q - 1 /\ m = order[1]
        /\ \A i \in 1..(q - 1) : order'[i] = order[i + 1]
    BY <1>1, <1>4, <2>3, HeadTailProperties DEF m
  <2> HIDE DEF q, n
  <2>6. Len(running') + Len(order') = Len(all)
    <3>1. (n + 1) + (q - 1) = n + q
      BY <2>4, <2>5
    <3>2. Len(running') = n + 1 /\ Len(order') = q - 1 /\ n + q = Len(all)
      BY <2>2, <2>4, <2>5
    <3> QED BY <3>1, <3>2, Zenon
  <2>7. ASSUME NEW i \in 1..(n + 1) PROVE running'[i] = all[i].instance
    <3>1. CASE i \in 1..n
      BY <2>2, <2>4, <3>1
    <3>2. CASE i = n + 1
      <4>1. 1 \in 1..q
        BY <2>5
      <4>2. m = all[n + 1]
        BY <2>2, <2>5, <4>1
      <4> QED BY <2>4, <3>2, <4>2 DEF x
    <3> QED BY <2>4, <3>1, <3>2
  <2>8. ASSUME NEW i \in 1..(q - 1) PROVE order'[i] = all[(n + 1) + i]
    <3>1. i + 1 \in 1..q /\ n + (i + 1) = (n + 1) + i
      BY <2>4, <2>5
    <3>2. order'[i] = order[i + 1] /\ order[i + 1] = all[n + (i + 1)]
      BY <2>2, <2>5, <3>1
    <3> QED BY <3>1, <3>2
  <2>9. /\ running' \in Seq({c.instance : c \in Chosen})
        /\ \A i \in 1..Len(running') : running'[i] = all[i].instance
        /\ \A i \in 1..Len(order') : order'[i] = all[Len(running') + i]
    BY <2>4, <2>5, <2>7, <2>8 DEF S
  <2>10. Underway'
    BY <1>2, <1>3, <2>3, <2>5, <2>6, <2>9 DEF Underway, all
  <2> QED BY <1>1, <1>2, <1>5, <2>10 DEF OrderInv
<1> QED BY <1>6, <1>7

LEMMA OrderNext == ASSUME OrderInv, BootNext \/ UNCHANGED bootVars PROVE OrderInv'
<1>1. CASE StartRaises
  BY <1>1 DEF StartRaises, OrderInv, Idle, Underway, Registered, Chosen
<1>2. CASE Booted
  BY <1>2 DEF Booted, OrderInv, Idle, Underway, Registered, Chosen
<1>3. CASE UNCHANGED bootVars
  BY <1>3 DEF bootVars, OrderInv, Idle, Underway, Registered, Chosen
<1> QED BY <1>1, <1>2, <1>3, DiscoverStep, StartStep DEF BootNext

LEMMA OrderInvIsOrdered == OrderInv => BootedInOrder
<1> SUFFICES ASSUME OrderInv PROVE DependenciesFirst /\ HighestSourceOnly
  BY DEF BootedInOrder
<1> DEFINE k == Kahn(Chosen)
<1>1. /\ Chosen \subseteq Manifests(setup.disk)
      /\ \A m \in Chosen :
           m.enabled /\ \A n \in Manifests(setup.disk) : n.id = m.id => n.source <= m.source
      /\ ~ Missing(Chosen) => /\ k \in Seq(Chosen) /\ InOrder(Chosen, k)
                              /\ Complete(Chosen) <=> ~ Cyclic(Chosen)
  BY ChosenFacts DEF OrderInv
<1>2. HighestSourceOnly
  BY <1>1 DEF OrderInv, Registered, HighestSourceOnly
<1> HIDE DEF k
<1>3. Missing(Chosen) => running = <<>>
  BY DEF OrderInv, Idle, Underway, Complete
<1>4. boot \in {"start", "booted"} => ~ Missing(Chosen) /\ ~ Cyclic(Chosen)
  BY <1>1 DEF OrderInv, Idle, Underway, Complete
<1>5. (boot = "raised" /\ registry = <<>> /\ order = <<>>) => Missing(Chosen) \/ Cyclic(Chosen)
  BY <1>1 DEF OrderInv, Idle, Underway
<1>6. ASSUME NEW i \in DOMAIN running
      PROVE  \E m \in Chosen :
               /\ m.instance = running[i]
               /\ \A d \in Ancestors(Chosen)[m.id] :
                    \E j \in 1..(i - 1) : \E n \in Chosen : n.instance = running[j] /\ n.id = d
  <2>1. Underway
    <3>1. running # <<>>
      BY <1>6
    <3> QED BY <3>1 DEF OrderInv, Idle
  <2>2. /\ running \in Seq({m.instance : m \in Chosen}) /\ order \in Seq(Chosen)
        /\ Len(running) + Len(order) = Len(k)
        /\ \A j \in 1..Len(running) : running[j] = k[j].instance
        /\ ~ Missing(Chosen)
    BY <2>1 DEF Underway, k, Complete
  <2>3. i \in 1..Len(running) /\ Len(running) \in Nat /\ Len(order) \in Nat /\ Len(k) \in Nat
    BY <1>1, <1>6, <2>2
  <2>4. \A j \in 1..i : j \in 1..Len(running) /\ j \in 1..Len(k)
    BY <2>2, <2>3
  <2>5. \A j \in 1..i : running[j] = k[j].instance /\ k[j] \in Chosen
    BY <1>1, <2>2, <2>4
  <2>6. i \in 1..i /\ \A j \in 1..(i - 1) : j \in 1..i
    BY <2>3
  <2>7. \A d \in Ancestors(Chosen)[k[i].id] : \E j \in 1..(i - 1) : k[j].id = d
    BY <1>1, <2>2, <2>4, <2>6 DEF InOrder
  <2> QED BY <2>5, <2>6, <2>7
<1>7. DependenciesFirst
  BY <1>3, <1>4, <1>5, <1>6 DEF DependenciesFirst, Cyclic, Chosen
<1> QED BY <1>2, <1>7

------------------------------------------------------------------------------
(* What the validator's verdict comes to                                   *)

(* Every issue of an empty report, or of one that an approval may lift, is *)
(* about protection.                                                       *)
OnlyProtection(issues) == \A i \in issues : i.code \in ProtectedCodes

(* A graph that fits, whose search finds no cycle, and without orphans.    *)
Passes(g, reg) == Fits(g, reg) /\ ~ HasCycle(Adjacency(g)) /\ DetectOrphans(g, reg) = {}

(* The sandbox validator allows a graph only if nothing but its protection *)
(* speaks against it, and nothing at all when no approval lifts anything.  *)
LEMMA SandboxAllows ==
    ASSUME NEW issues, NEW lifted, Sandbox(issues, lifted) = "allow"
    PROVE  OnlyProtection(issues) /\ (lifted = {} => issues = {})
BY DEF Sandbox, OnlyProtection

(* A pipeline of four gates allows only what its second one allows.        *)
LEMMA SecondGateAllows ==
    ASSUME NEW a, NEW b, NEW c, NEW d, Evaluate(<<a, b, c, d>>) = "allow"
    PROVE  b = "allow"
<1> DEFINE decisions == <<a, b, c, d>>
           Refuses(i) == /\ decisions[i] # "allow"
                         /\ \A j \in 1..(i - 1) : decisions[j] = "allow"
<1>1. DOMAIN decisions = 1..4
  OBVIOUS
<1> SUFFICES ASSUME b # "allow" PROVE FALSE
  OBVIOUS
<1>2. \E i \in DOMAIN decisions : Refuses(i)
  <2>1. CASE a # "allow"
    <3>1. Refuses(1)
      BY <2>1
    <3> QED BY <1>1, <3>1
  <2>2. CASE a = "allow"
    <3>1. Refuses(2)
      BY <2>2
    <3> QED BY <1>1, <3>1
  <2> QED BY <2>1, <2>2
<1> DEFINE first == CHOOSE i \in DOMAIN decisions : Refuses(i)
<1>3. Refuses(first)
  BY <1>2
<1>4. ~ \A i \in DOMAIN decisions : decisions[i] = "allow"
  BY <1>1
<1>5. Evaluate(decisions) = decisions[first]
  BY <1>4 DEF Evaluate
<1> QED BY <1>3, <1>5

(* A report about protection only is that of a graph that can be run.      *)
LEMMA ValidatedPasses ==
    ASSUME NEW g, NEW act, NEW reg, OnlyProtection(ValidateGraph(g, act, reg))
    PROVE  Passes(g, reg)
<1> DEFINE Report == ValidateGraph(g, act, reg)
<1>0. \A code, subject : code \notin ProtectedCodes => Issue(code, subject) \notin Report
  BY DEF OnlyProtection, Issue
<1>1. Nodes(g) \subseteq DOMAIN reg
  <2> SUFFICES ASSUME NEW c \in Nodes(g) \ DOMAIN reg PROVE FALSE
    OBVIOUS
  <2>1. Issue("unknown_component", c) \in Report
    BY DEF ValidateGraph, UnknownComponents
  <2> QED BY <1>0, <2>1 DEF ProtectedCodes
<1>2. ASSUME NEW e \in g.edges
      PROVE  /\ {e.source, e.target} \subseteq Nodes(g)
             /\ \E p \in reg[e.source].outputs : p.name = e.out
             /\ \E p \in reg[e.target].inputs : p.name = e.in /\ p.type = e.payload
             /\ \A other \in g.edges : other.name = e.name => other = e
  <2>1. e.source \in Nodes(g)
    <3>1. Issue("unknown_source_component", e.name) \notin Report
      BY <1>0 DEF ProtectedCodes
    <3> QED BY <3>1 DEF ValidateGraph, UnknownEnds
  <2>2. e.target \in Nodes(g)
    <3>1. Issue("unknown_target_component", e.name) \notin Report
      BY <1>0 DEF ProtectedCodes
    <3> QED BY <3>1 DEF ValidateGraph, UnknownEnds
  <2>3. \E p \in reg[e.source].outputs : p.name = e.out
    <3>1. Issue("unknown_output_port", e.name) \notin Report
      BY <1>0 DEF ProtectedCodes
    <3>2. e.out \in Named(reg[e.source].outputs)
      BY <1>1, <2>1, <3>1 DEF ValidateGraph, UnknownOutputs
    <3> QED BY <3>2 DEF Named
  <2>4. \E p \in reg[e.target].inputs : p.name = e.in /\ p.type = e.payload
    <3>1. /\ Issue("unknown_input_port", e.name) \notin Report
          /\ Issue("payload_mismatch", e.name) \notin Report
      BY <1>0 DEF ProtectedCodes
    <3>2. e.in \in Named(reg[e.target].inputs)
      BY <1>1, <2>2, <3>1 DEF ValidateGraph, UnknownInputs
    <3>3. ~ Mismatched(e, reg)
      BY <3>1 DEF ValidateGraph, PayloadMismatches
    <3> QED BY <1>1, <2>2, <3>2, <3>3 DEF Named, Mismatched
  <2>5. ASSUME NEW other \in g.edges, other.name = e.name PROVE other = e
    <3>1. Issue("duplicate_connection", e.name) \notin Report
      BY <1>0 DEF ProtectedCodes
    <3> QED BY <2>5, <3>1 DEF ValidateGraph, DuplicateConnections
  <2> QED BY <2>1, <2>2, <2>3, <2>4, <2>5
<1>3. ASSUME NEW c \in Nodes(g), NEW p \in reg[c].inputs, p.required
      PROVE  \E e \in g.edges : e.target = c /\ e.in = p.name
  <2>1. Issue("missing_required_input", c) \notin Report
    BY <1>0 DEF ProtectedCodes
  <2>2. Required(reg[c]) \subseteq Bound(g, c)
    BY <1>1, <2>1 DEF ValidateGraph, MissingInputs
  <2>3. p.name \in Bound(g, c)
    BY <1>3, <2>2 DEF Required
  <2> QED BY <2>3 DEF Bound, Inner
<1>4. ~ HasCycle(Adjacency(g))
  <2>1. Issue("cycle_detected", "graph") \notin Report
    BY <1>0 DEF ProtectedCodes
  <2> QED BY <2>1 DEF ValidateGraph, Cycles
<1>5. DetectOrphans(g, reg) = {}
  <2> SUFFICES ASSUME NEW c \in DetectOrphans(g, reg) PROVE FALSE
    OBVIOUS
  <2>1. Issue("orphan_component", c) \in Report
    BY DEF ValidateGraph, Orphans
  <2> QED BY <1>0, <2>1 DEF ProtectedCodes
<1> QED BY <1>1, <1>2, <1>3, <1>4, <1>5 DEF Passes, Fits

(* A graph without issues keeps the protected components of the active one *)
(* and their edges.                                                        *)
KeepsProtected(g, h, reg) ==
    \A c \in Nodes(g) : IsProtected(c, g, reg) => Keeps(g, h, c)

LEMMA NoIssueKeepsProtected ==
    ASSUME NEW g, NEW act, NEW reg, act # NoGraph, ValidateGraph(g, act, reg) = {}
    PROVE  KeepsProtected(act, g, reg)
<1> SUFFICES ASSUME NEW c \in Nodes(act), IsProtected(c, act, reg) PROVE Keeps(act, g, c)
  BY DEF KeepsProtected
<1>1. BoundaryIssues(g, act, reg) = {}
  BY DEF ValidateGraph
<1>2. c \in Nodes(g)
  <2> SUFFICES ASSUME c \notin Nodes(g) PROVE FALSE
    OBVIOUS
  <2>1. Issue("protected_component_removed", c) \in BoundaryIssues(g, act, reg)
    BY DEF BoundaryIssues
  <2> QED BY <1>1, <2>1
<1>3. Incident(g, c) = Incident(act, c)
  <2> SUFFICES ASSUME Incident(act, c) # Incident(g, c) PROVE FALSE
    OBVIOUS
  <2>1. Issue("protected_boundary_violation", c) \in BoundaryIssues(g, act, reg)
    BY <1>2 DEF BoundaryIssues
  <2> QED BY <1>1, <2>1
<1> QED BY <1>2, <1>3 DEF Keeps

------------------------------------------------------------------------------
(* The inductive invariant                                                 *)

Graphs == UNION {s.graphs : s \in Setups}
Submissions ==
    [id : CandidateIds, graph : Graphs,
     request : {NoRequest} \cup [actor : Actors, approval : Approvals],
     first : BOOLEAN, stale : BOOLEAN]

Shape == setup \in Setups /\ stack \in Seq(Submissions)

(* Nothing is called before boot is over, so the registry stays as it is   *)
(* from then on.                                                           *)
NothingYet == ~ Returned => active = NoGraph /\ target = NoGraph /\ stack = <<>>

(* Of the graph that runs, of the one a rollback restores, and of those    *)
(* that wait for their cutover.                                            *)
AllPass ==
    /\ active # NoGraph => Passes(active, registry)
    /\ target # NoGraph => Passes(target, registry)
    /\ \A i \in DOMAIN stack : Passes(stack[i].graph, registry)

(* A submission that was judged against the active graph keeps what is     *)
(* protected in it, or has an approval; none is granted while it waits.    *)
Judged(s) ==
    ~ s.stale /\ active # NoGraph =>
        Granted(s.request) \/ KeepsProtected(active, s.graph, registry)
AllJudged == \A i \in DOMAIN stack : Judged(stack[i])

Inv == Shape /\ NothingYet /\ AllPass /\ AllJudged

(* What a step that changes the active graph owes to the earlier one.      *)
Owes ==
    active # NoGraph /\ by'.step # "rollback" /\ ~ by'.stale =>
        \/ Granted(by'.request)
        \/ KeepsProtected(active, active', registry)

LEMMA InitInv == Init => Inv
BY DEF Init, BootInit, Inv, Shape, NothingYet, AllPass, AllJudged

LEMMA BootStep ==
    ASSUME Inv, BootNext, UNCHANGED promotionVars
    PROVE  Inv' /\ UNCHANGED active
<1>1. ~ Returned
  BY DEF BootNext, Discover, Start, StartRaises, Booted, Returned
<1>2. active' = NoGraph /\ target' = NoGraph /\ stack' = <<>> /\ active = NoGraph
  BY <1>1 DEF Inv, NothingYet, promotionVars
<1>3. setup' = setup
  BY DEF BootNext, Discover, Start, StartRaises, Booted
<1> QED BY <1>2, <1>3 DEF Inv, Shape, NothingYet, AllPass, AllJudged

(* The active graph and the registry stay, and so do the approvals or no   *)
(* submission waits.                                                       *)
LEMMA QuietStep ==
    ASSUME Inv, UNCHANGED <<bootVars, active, target, stack>>,
           UNCHANGED approvals \/ stack = <<>>, Returned
    PROVE  Inv'
<1>1. Shape' /\ NothingYet' /\ AllPass'
  BY DEF Inv, Shape, NothingYet, AllPass, bootVars, Returned
<1>2. AllJudged'
  BY DEF Inv, AllJudged, Judged, Granted, bootVars
<1> QED BY <1>1, <1>2 DEF Inv

(* What a call that judges a graph against the active one may conclude.    *)
LEMMA AllowedGraph ==
    ASSUME NEW g, NEW issues, NEW lifted, NEW blocking, NEW dependencies, NEW match,
           issues = ValidateGraph(g, active, registry),
           Gates(issues, blocking, lifted, dependencies, match) = "allow"
    PROVE  /\ Passes(g, registry)
           /\ lifted = {} /\ active # NoGraph => KeepsProtected(active, g, registry)
<1>1. Sandbox(issues, lifted) = "allow"
  BY SecondGateAllows DEF Gates
<1>2. OnlyProtection(issues) /\ (lifted = {} => issues = {})
  BY <1>1, SandboxAllows
<1>3. Passes(g, registry)
  BY <1>2, ValidatedPasses
<1>4. lifted = {} /\ active # NoGraph => KeepsProtected(active, g, registry)
  BY <1>2, NoIssueKeepsProtected
<1> QED BY <1>3, <1>4

LEMMA CommitStep ==
    ASSUME Inv, NEW id \in CandidateIds, NEW g \in setup.graphs, NEW r \in Requests,
           NEW sick, NEW match, CommitGraph(id, g, r, sick, match)
    PROVE  Inv' /\ UNCHANGED active
<1>0. Returned /\ UNCHANGED <<bootVars, graphVars, approvals>>
  BY DEF CommitGraph, MayCall
<1>1. CASE UNCHANGED stack
  BY <1>0, <1>1, QuietStep DEF graphVars
<1>2. CASE ~ UNCHANGED stack
  <2> DEFINE issues == ValidateGraph(g, active, registry)
             new == [id |-> id, graph |-> g,
                     request |-> IF Authorized(r) THEN r ELSE NoRequest,
                     first |-> active = NoGraph, stale |-> FALSE]
  <2>1. /\ stack' = Append(stack, new)
        /\ Gates(issues, BlockingFor(r, issues \cup Readiness(g, sick)),
                 LiftedBy(r, issues), deps'[id], match) = "allow"
    BY <1>2 DEF CommitGraph
  <2>2. /\ Passes(g, registry)
        /\ LiftedBy(r, issues) = {} /\ active # NoGraph => KeepsProtected(active, g, registry)
    BY <2>1, AllowedGraph
  <2>3. Judged(new)
    <3>1. CASE Authorized(r)
      BY <3>1 DEF Judged, Authorized, Granted
    <3>2. CASE ~ Authorized(r)
      BY <2>2, <3>2 DEF Judged, LiftedBy
    <3> QED BY <3>1, <3>2
  <2>4. new \in Submissions
    <3>1. g \in Graphs
      BY DEF Inv, Shape, Graphs
    <3>2. r \in {NoRequest} \cup [actor : Actors, approval : Approvals]
      BY DEF Requests
    <3> QED BY <3>1, <3>2 DEF Submissions
  <2>5. new.graph = g
    OBVIOUS
  <2> HIDE DEF new
  <2>6. /\ stack \in Seq(Submissions) /\ stack' \in Seq(Submissions)
        /\ DOMAIN stack' = DOMAIN stack \cup {Len(stack) + 1}
        /\ \A i \in DOMAIN stack : stack'[i] = stack[i]
        /\ stack'[Len(stack) + 1] = new
    BY <2>1, <2>4 DEF Inv, Shape
  <2>7. Shape' /\ NothingYet'
    BY <1>0, <2>6 DEF Inv, Shape, NothingYet, bootVars, Returned
  <2>8. AllPass'
    BY <1>0, <2>2, <2>5, <2>6 DEF Inv, AllPass, bootVars, graphVars
  <2>9. AllJudged'
    <3>1. \A i \in DOMAIN stack' : Judged(stack'[i])
      BY <2>3, <2>6 DEF Inv, AllJudged
    <3> QED BY <1>0, <3>1 DEF AllJudged, Judged, Granted, bootVars, graphVars
  <2> QED BY <1>0, <2>7, <2>8, <2>9 DEF Inv, graphVars
<1> QED BY <1>0, <1>1, <1>2 DEF graphVars

(* Marking submissions as outdated changes nothing else.                   *)
LEMMA OutdatedKeeps ==
    ASSUME NEW t \in Seq(Submissions)
    PROVE  /\ Outdated(t) \in Seq(Submissions) /\ DOMAIN Outdated(t) = DOMAIN t
           /\ \A i \in DOMAIN t : Outdated(t)[i].graph = t[i].graph /\ Outdated(t)[i].stale = TRUE
<1>1. Len(t) \in Nat /\ DOMAIN t = 1..Len(t) /\ \A i \in 1..Len(t) : t[i] \in Submissions
  OBVIOUS
<1> DEFINE marked(u) == [u EXCEPT !.stale = TRUE]
<1>2. \A u \in Submissions : /\ marked(u) \in Submissions
                             /\ marked(u).graph = u.graph
                             /\ marked(u).stale = TRUE
  BY DEF Submissions
<1>3. Outdated(t) = [i \in 1..Len(t) |-> marked(t[i])]
  BY <1>1 DEF Outdated
<1> HIDE DEF marked
<1>4. /\ DOMAIN Outdated(t) = 1..Len(t)
      /\ \A i \in 1..Len(t) : Outdated(t)[i] = marked(t[i])
  BY <1>3
<1>5. Outdated(t) \in [1..Len(t) -> Submissions]
  BY <1>1, <1>2, <1>3
<1>6. Outdated(t) \in Seq(Submissions)
  BY <1>1, <1>5
<1> QED BY <1>1, <1>2, <1>4, <1>6

(* The submissions below the top one, marked as outdated or not.           *)
LEMMA StackShrinks ==
    ASSUME stack \in Seq(Submissions), stack # <<>>, stack' \in {Others, Outdated(Others)}
    PROVE  /\ Len(stack) \in DOMAIN stack
           /\ stack' \in Seq(Submissions)
           /\ DOMAIN stack' \subseteq DOMAIN stack
           /\ \A i \in DOMAIN stack' :
                /\ stack'[i].graph = stack[i].graph
                /\ stack' = Others => stack'[i] = stack[i]
                /\ stack' = Outdated(Others) => stack'[i].stale = TRUE
<1>1. Len(stack) \in Nat \ {0} /\ DOMAIN stack = 1..Len(stack)
  OBVIOUS
<1>2. /\ Others \in Seq(Submissions) /\ DOMAIN Others = 1..(Len(stack) - 1)
      /\ \A i \in DOMAIN Others : Others[i] = stack[i]
  BY <1>1 DEF Others
<1>3. /\ Outdated(Others) \in Seq(Submissions) /\ DOMAIN Outdated(Others) = DOMAIN Others
      /\ \A i \in DOMAIN Others : /\ Outdated(Others)[i].graph = Others[i].graph
                                  /\ Outdated(Others)[i].stale = TRUE
  BY <1>2, OutdatedKeeps
<1>4. DOMAIN Others \subseteq DOMAIN stack /\ Len(stack) \in DOMAIN stack
  BY <1>1, <1>2
<1>5. CASE stack' = Others
  <2>1. stack' \in Seq(Submissions) /\ DOMAIN stack' \subseteq DOMAIN stack
    BY <1>2, <1>4, <1>5
  <2>2. ASSUME NEW i \in DOMAIN stack' PROVE stack'[i] = stack[i]
    BY <1>2, <1>5
  <2>3. ASSUME NEW i \in DOMAIN stack', stack' = Outdated(Others) PROVE stack'[i].stale = TRUE
    BY <1>3, <1>5, <2>3
  <2> QED BY <1>4, <2>1, <2>2, <2>3, Zenon
<1>6. CASE stack' = Outdated(Others)
  <2>1. stack' \in Seq(Submissions) /\ DOMAIN stack' \subseteq DOMAIN stack
    BY <1>3, <1>4, <1>6
  <2>2. ASSUME NEW i \in DOMAIN stack'
        PROVE  /\ stack'[i].graph = stack[i].graph /\ stack'[i].stale = TRUE
               /\ stack' = Others => stack'[i] = stack[i]
    BY <1>2, <1>3, <1>6
  <2> QED BY <1>4, <2>1, <2>2, Zenon
<1> QED BY <1>5, <1>6

(* Another graph takes the place of the active one.                        *)
LEMMA InstallStep ==
    ASSUME Inv, NEW g, active' = g, target' = active, Passes(g, registry), Returned,
           UNCHANGED bootVars, stack' \in Seq(Submissions), DOMAIN stack' \subseteq DOMAIN stack,
           \A i \in DOMAIN stack' : stack'[i].graph = stack[i].graph /\ stack'[i].stale
    PROVE  Inv'
<1>1. Shape' /\ NothingYet'
  BY DEF Inv, Shape, NothingYet, bootVars, Returned
<1>2. AllPass'
  BY DEF Inv, AllPass, bootVars
<1>3. AllJudged'
  BY DEF AllJudged, Judged
<1> QED BY <1>1, <1>2, <1>3 DEF Inv

(* The active graph stays, or the one to go back to takes its place.       *)
LEMMA UndoStep ==
    ASSUME Inv, Returned, target' = NoGraph, UNCHANGED <<bootVars, approvals>>,
           \/ UNCHANGED active
           \/ active' = target /\ stack = <<>>,
           stack' \in Seq(Submissions), DOMAIN stack' \subseteq DOMAIN stack,
           \A i \in DOMAIN stack' : stack'[i] = stack[i]
    PROVE  Inv'
<1>1. Shape' /\ NothingYet'
  BY DEF Inv, Shape, NothingYet, bootVars, Returned
<1>2. AllPass'
  BY DEF Inv, AllPass, bootVars
<1>3. AllJudged'
  BY DEF Inv, AllJudged, Judged, Granted, bootVars
<1> QED BY <1>1, <1>2, <1>3 DEF Inv

LEMMA CutoverStep ==
    ASSUME Inv, Cutover
    PROVE  Inv' /\ Owes
<1>1. /\ stack # <<>> /\ stack' = Outdated(Others)
      /\ active' = Top.graph /\ target' = active
      /\ by' = By("commit", Top.stale, Top.request, TRUE)
      /\ UNCHANGED <<bootVars, approvals>>
  BY DEF Cutover, Exchanged, Install
<1>2. Returned
  BY <1>1 DEF Inv, NothingYet
<1>3. Passes(Top.graph, registry) /\ Judged(Top)
  BY <1>1, StackShrinks DEF Inv, Shape, AllPass, AllJudged, Top
<1>4. Inv'
  BY <1>1, <1>2, <1>3, StackShrinks, InstallStep DEF Inv, Shape
<1>5. Owes
  BY <1>1, <1>3 DEF Owes, By, Judged
<1> QED BY <1>4, <1>5

LEMMA CutoverUnhealthyStep ==
    ASSUME Inv, CutoverUnhealthy
    PROVE  Inv' /\ (UNCHANGED active \/ Owes)
<1>1. stack # <<>> /\ UNCHANGED <<bootVars, approvals>>
  BY DEF CutoverUnhealthy
<1>2. Returned
  BY <1>1 DEF Inv, NothingYet
<1>3. CASE active = NoGraph
  <2>1. /\ stack' = Outdated(Others)
        /\ active' = Top.graph /\ target' = active
    BY <1>3 DEF CutoverUnhealthy, Exchanged, Install
  <2>2. Passes(Top.graph, registry)
    BY <1>1, StackShrinks, <2>1 DEF Inv, Shape, AllPass, Top
  <2>3. Inv'
    BY <1>1, <1>2, <2>1, <2>2, StackShrinks, InstallStep DEF Inv, Shape
  <2> QED BY <1>3, <2>3 DEF Owes
<1>4. CASE active # NoGraph
  <2>1. stack' = Others /\ target' = NoGraph /\ UNCHANGED active
    BY <1>4 DEF CutoverUnhealthy, Undone
  <2>2. Inv'
    BY <1>1, <1>2, <2>1, StackShrinks, UndoStep DEF Inv, Shape
  <2> QED BY <2>1, <2>2
<1> QED BY <1>3, <1>4

LEMMA ReviewStep ==
    ASSUME Inv, NEW id, NEW match, NEW healthy, Review(id, match, healthy)
    PROVE  Inv' /\ (UNCHANGED active \/ Owes)
<1> DEFINE waiting == {i \in DOMAIN records : records[i].id = id /\ records[i].deferred}
           g == records[CHOOSE i \in waiting : \A j \in waiting : j <= i].graph
<1> HIDE DEF waiting
<1>1. Returned /\ stack = <<>> /\ UNCHANGED <<bootVars, approvals, stack>>
  BY DEF Review, MayCall
<1>2. CASE UNCHANGED <<active, target>>
  BY <1>1, <1>2, QuietStep
<1>3. CASE target' = NoGraph /\ UNCHANGED active
  BY <1>1, <1>3, UndoStep DEF Inv, Shape
<1>4. CASE ~ UNCHANGED <<active, target>> /\ ~ (target' = NoGraph /\ UNCHANGED active)
  <2>1. \E blocking : Gates(ValidateGraph(g, active, registry), blocking, Lifted(g),
                            deps[id], match) = "allow"
    BY <1>4 DEF Review, graphVars, Undone, waiting
  <2>2. /\ active' = g /\ target' = active
        /\ \E own : by' = By("review", FALSE, NoRequest, own)
    BY <1>4 DEF Review, graphVars, Undone, Install, waiting
  <2>3. /\ Passes(g, registry)
        /\ active # NoGraph => KeepsProtected(active, g, registry)
    BY <2>1, AllowedGraph DEF Lifted
  <2> HIDE DEF g
  <2>4. Inv'
    BY <1>1, <2>2, <2>3, InstallStep DEF Inv, Shape
  <2>5. Owes
    BY <2>2, <2>3 DEF Owes
  <2> QED BY <2>4, <2>5
<1> QED BY <1>2, <1>3, <1>4

LEMMA MutateStep ==
    ASSUME Inv, NEW id, NEW g, Mutate(id, g)
    PROVE  Inv' /\ (UNCHANGED active \/ Owes)
<1>0. Returned /\ UNCHANGED <<bootVars, approvals>>
  BY DEF Mutate, MayCall
<1>1. CASE ValidateGraph(g, active, registry) # {}
  <2>1. UNCHANGED <<active, target, stack>>
    BY <1>1 DEF Mutate
  <2> QED BY <1>0, <2>1, QuietStep
<1>2. CASE ValidateGraph(g, active, registry) = {}
  <2>1. /\ active' = g /\ target' = active /\ stack' = Outdated(stack)
    BY <1>2 DEF Mutate, Install
  <2>2. Passes(g, registry)
    BY <1>2, ValidatedPasses DEF OnlyProtection
  <2>3. active # NoGraph => KeepsProtected(active, g, registry)
    BY <1>2, NoIssueKeepsProtected
  <2>4. /\ stack' \in Seq(Submissions) /\ DOMAIN stack' = DOMAIN stack
        /\ \A i \in DOMAIN stack' : stack'[i].graph = stack[i].graph /\ stack'[i].stale
    BY <2>1, OutdatedKeeps DEF Inv, Shape
  <2>5. Inv'
    BY <1>0, <2>1, <2>2, <2>4, InstallStep
  <2>6. Owes
    BY <2>1, <2>3 DEF Owes
  <2> QED BY <2>5, <2>6
<1> QED BY <1>1, <1>2

LEMMA NextInv ==
    ASSUME Inv, [Next]_vars
    PROVE  Inv' /\ (UNCHANGED active \/ Owes)
<1>1. CASE BootNext /\ UNCHANGED promotionVars
  BY <1>1, BootStep
<1>2. ASSUME NEW id \in CandidateIds, NEW g \in setup.graphs, NEW r \in Requests,
             NEW match \in Matches, NEW sick \in SickAmong(g), CommitGraph(id, g, r, sick, match)
      PROVE  Inv' /\ UNCHANGED active
  BY <1>2, CommitStep
<1>3. CASE Cutover
  BY <1>3, CutoverStep
<1>4. CASE CutoverUnhealthy
  BY <1>4, CutoverUnhealthyStep
<1>5. ASSUME NEW id \in CandidateIds, NEW g \in setup.external, NEW b \in BOOLEAN,
             DeferCandidate(id, g, b)
      PROVE  Inv' /\ UNCHANGED active
  BY <1>5, QuietStep DEF DeferCandidate, MayCall, graphVars
<1>6. ASSUME NEW id \in CandidateIds, NEW g \in setup.external, NEW b \in BOOLEAN,
             NEW d \in BOOLEAN, IngestCandidate(id, g, b, d)
      PROVE  Inv' /\ UNCHANGED active
  BY <1>6, QuietStep DEF IngestCandidate, MayCall, graphVars
<1>7. ASSUME NEW id \in CandidateIds, NEW match \in Matches, NEW healthy \in BOOLEAN,
             Review(id, match, healthy)
      PROVE  Inv' /\ (UNCHANGED active \/ Owes)
  BY <1>7, ReviewStep
<1>8. ASSUME NEW id \in CandidateIds, NEW g \in setup.graphs, Mutate(id, g)
      PROVE  Inv' /\ (UNCHANGED active \/ Owes)
  BY <1>8, MutateStep
<1>9. CASE RollBack
  <2>1. /\ stack = <<>> /\ active' = target /\ target' = NoGraph /\ target # NoGraph
        /\ by' = By("rollback", FALSE, NoRequest, TRUE)
        /\ UNCHANGED <<bootVars, approvals, stack>>
    BY <1>9 DEF RollBack
  <2>2. Returned
    BY <2>1 DEF Inv, NothingYet
  <2>3. Inv'
    BY <2>1, <2>2, UndoStep DEF Inv, Shape
  <2> QED BY <2>1, <2>3 DEF Owes, By
<1>10. ASSUME NEW a \in Approvals, NEW actor \in Actors, Authorize(a, actor)
       PROVE  Inv' /\ UNCHANGED active
  BY <1>10, QuietStep DEF Authorize, graphVars
<1>11. CASE UNCHANGED vars
  BY <1>11 DEF vars, bootVars, promotionVars, Inv, Shape, NothingYet, Returned, AllPass,
               AllJudged, Judged, Granted
<1> QED BY <1>1, <1>2, <1>3, <1>4, <1>5, <1>6, <1>7, <1>8, <1>9, <1>10, <1>11 DEF Next

LEMMA InvAlways == Spec => []Inv
<1>1. Inv /\ [Next]_vars => Inv'
  BY NextInv
<1> QED BY <1>1, InitInv, PTL DEF Spec

(* The calls that come after a boot touch nothing of what it left.         *)
LEMMA BootKept == [Next]_vars => BootNext \/ UNCHANGED bootVars
<1>1. \A id, g, r, sick, match : CommitGraph(id, g, r, sick, match) => UNCHANGED bootVars
  BY DEF CommitGraph
<1>2. Cutover \/ CutoverUnhealthy \/ RollBack => UNCHANGED bootVars
  BY DEF Cutover, CutoverUnhealthy, RollBack
<1>3. \A id, g, b, d :
        DeferCandidate(id, g, b) \/ IngestCandidate(id, g, b, d) => UNCHANGED bootVars
  BY DEF DeferCandidate, IngestCandidate
<1>4. \A id, match, healthy : Review(id, match, healthy) => UNCHANGED bootVars
  BY DEF Review
<1>5. \A id, g, a, actor : Mutate(id, g) \/ Authorize(a, actor) => UNCHANGED bootVars
  BY DEF Mutate, Authorize
<1>6. Next => BootNext \/ UNCHANGED bootVars
  BY <1>1, <1>2, <1>3, <1>4, <1>5 DEF Next
<1> QED BY <1>6 DEF vars

------------------------------------------------------------------------------
(* What runs                                                               *)

(* Until a boot raises, all that is registered was activated.              *)
Entered == {running[i] : i \in DOMAIN running}
RunInv ==
    /\ running \in Seq(Entered)
    /\ boot # "raised" => DOMAIN registry \subseteq Entered

LEMMA RunStart ==
    ASSUME RunInv, NEW c, running' = Append(running, c)
    PROVE  running' \in Seq(Entered') /\ Entered' = Entered \cup {c}
<1> DEFINE S == Entered \cup {c}
<1>1. running \in Seq(S) /\ c \in S
  BY DEF RunInv
<1>2. DOMAIN running = 1..Len(running) /\ Len(running) \in Nat
  BY <1>1
<1>3. /\ DOMAIN running' = 1..(Len(running) + 1)
      /\ \A i \in 1..Len(running) : running'[i] = running[i]
      /\ running'[Len(running) + 1] = c
      /\ running' \in Seq(S)
  BY <1>1, <1>2
<1>4. Entered' = S
  BY <1>2, <1>3 DEF Entered
<1> QED BY <1>3, <1>4

LEMMA RunNext ==
    ASSUME RunInv, [Next]_vars
    PROVE  RunInv'
<1>1. CASE Start
  <2> DEFINE m == Head(order)
  <2>1. CASE Activates(m)
    <3>1. running' = Append(running, m.instance) /\ DOMAIN registry' = DOMAIN registry \cup {m.instance}
      BY <1>1, <2>1 DEF Start, Activates, Register
    <3>2. boot # "raised"
      BY <1>1 DEF Start
    <3> QED BY <3>1, <3>2, RunStart DEF RunInv
  <2>2. CASE ~ Activates(m)
    BY <1>1, <2>2 DEF Start, RunInv, Entered
  <2> QED BY <2>1, <2>2
<1>2. CASE BootNext /\ ~ Start
  BY <1>2 DEF BootNext, Discover, StartRaises, Booted, RunInv, Entered
<1>3. CASE UNCHANGED bootVars
  BY <1>3 DEF bootVars, RunInv, Entered
<1> QED BY <1>1, <1>2, <1>3, BootKept

LEMMA RunAlways == Spec => []RunInv
<1>1. Init => RunInv
  BY DEF Init, BootInit, RunInv, Entered
<1> QED BY <1>1, RunNext, PTL DEF Spec

------------------------------------------------------------------------------
(* What the search says of an admitted graph                               *)

LEMMA OrderAlways == Spec => []OrderInv
<1>1. Init => OrderInv
  BY OrderInit DEF Init
<1>2. OrderInv /\ [Next]_vars => OrderInv'
  BY BootKept, OrderNext
<1> QED BY <1>1, <1>2, PTL DEF Spec

LEMMA RegistryIsFinite == ASSUME OrderInv PROVE IsFiniteSet(DOMAIN registry)
<1> DEFINE f == [m \in Chosen |-> m.instance]
           T == {f[m] : m \in Chosen}
<1>1. f \in [Chosen -> T] /\ IsFiniteSet(Chosen)
  BY ChosenFacts DEF OrderInv
<1>2. DOMAIN registry \subseteq T
  BY DEF OrderInv, Registered
<1> HIDE DEF f
<1>3. IsFiniteSet(T)
  BY <1>1, CountImage
<1> QED BY <1>2, <1>3, FS_Subset

LEMMA AdjacencyIsDigraph ==
    ASSUME NEW g, IsFiniteSet(Nodes(g))
    PROVE  Digraph(Adjacency(g)) /\ DOMAIN Adjacency(g) = Nodes(g)
<1>1. DOMAIN Adjacency(g) = Nodes(g)
  BY DEF Adjacency
<1>2. ASSUME NEW c \in Nodes(g)
      PROVE  {e.target : e \in {d \in Inner(g) : d.source = c}} \in SUBSET Nodes(g)
  BY DEF Inner
<1> QED BY <1>1, <1>2 DEF Digraph, Adjacency

LEMMA PassingIsSound ==
    ASSUME NEW g, NEW reg, Passes(g, reg), IsFiniteSet(DOMAIN reg)
    PROVE  Sound(g, reg)
<1>1. Nodes(g) \subseteq DOMAIN reg
  BY DEF Passes, Fits
<1>2. IsFiniteSet(Nodes(g))
  BY <1>1, FS_Subset
<1>3. \A c \in Nodes(g) : c \notin Reaches(g)[c]
  <2>1. ~ \E c \in DOMAIN Adjacency(g) : c \in Following(Adjacency(g))[c]
    BY <1>2, AdjacencyIsDigraph, SearchExact DEF Passes
  <2> QED BY <1>2, <2>1, AdjacencyIsDigraph DEF Reaches
<1>4. ASSUME NEW c \in Nodes(g)
      PROVE  \/ Nodes(g) = {c}
             \/ reg[c].inputs = {}
             \/ \E e \in g.edges : c \in {e.source, e.target}
  <2>1. CASE Cardinality(Nodes(g)) <= 1
    <3>1. Cardinality(Nodes(g)) \in Nat /\ Cardinality(Nodes(g)) # 0
      BY <1>2, FS_CardinalityType, FS_EmptySet
    <3>2. Cardinality(Nodes(g)) = 1
      BY <2>1, <3>1
    <3>3. \E x : Nodes(g) = {x}
      BY <1>2, <3>2, FS_Singleton
    <3> QED BY <3>3
  <2>2. CASE ~ (Cardinality(Nodes(g)) <= 1)
    <3>1. c \notin {d \in Nodes(g) \ Referenced(g) : ~ HasNoInputs(d, reg)}
      BY <2>2 DEF Passes, DetectOrphans
    <3> QED BY <1>1, <3>1 DEF Referenced, HasNoInputs
  <2> QED BY <2>1, <2>2
<1> QED BY <1>3, <1>4 DEF Passes, Sound

LEMMA SearchIsRight == SearchFindsCycles
<1> DEFINE ids == {"x", "y", "z"}
           edges(adjacency) == {Edge("e", p[1], "out", p[2], "in", "t", "sync") :
                                  p \in {q \in ids \X ids : q[2] \in adjacency[q[1]]}}
<1> SUFFICES ASSUME NEW adjacency \in [ids -> SUBSET ids]
             PROVE  HasCycle(adjacency) <=>
                      \E c \in ids : c \in Reaches(Graph([n \in ids |-> FALSE], edges(adjacency)))[c]
  BY DEF SearchFindsCycles
<1> DEFINE g == Graph([n \in ids |-> FALSE], edges(adjacency))
<1>1. g.edges = edges(adjacency) /\ Nodes(g) = ids
  BY DEF Graph, Nodes
<1> HIDE DEF g
<1>2. IsFiniteSet(ids)
  <2>1. IsFiniteSet({"x"}) /\ IsFiniteSet({"x"} \cup {"y"})
    BY FS_Singleton, FS_AddElement
  <2>2. IsFiniteSet(({"x"} \cup {"y"}) \cup {"z"})
    BY <2>1, FS_AddElement
  <2>3. ids = ({"x"} \cup {"y"}) \cup {"z"}
    OBVIOUS
  <2> QED BY <2>2, <2>3
<1> HIDE DEF ids
<1>3. ASSUME NEW c \in ids
      PROVE  {e.target : e \in {d \in Inner(g) : d.source = c}} = adjacency[c]
  <2>1. \A p : /\ Edge("e", p[1], "out", p[2], "in", "t", "sync").source = p[1]
               /\ Edge("e", p[1], "out", p[2], "in", "t", "sync").target = p[2]
    BY DEF Edge
  <2>2. Inner(g) = edges(adjacency)
    BY <1>1, <2>1 DEF Inner
  <2>3. ASSUME NEW d \in adjacency[c]
        PROVE  \E e \in Inner(g) : e.source = c /\ e.target = d
    <3>1. <<c, d>> \in {q \in ids \X ids : q[2] \in adjacency[q[1]]}
      OBVIOUS
    <3>2. Edge("e", c, "out", d, "in", "t", "sync") \in edges(adjacency)
      BY <3>1
    <3>3. /\ Edge("e", c, "out", d, "in", "t", "sync").source = c
          /\ Edge("e", c, "out", d, "in", "t", "sync").target = d
      BY DEF Edge
    <3> QED BY <2>2, <3>2, <3>3, Zenon
  <2>4. ASSUME NEW e \in Inner(g), e.source = c PROVE e.target \in adjacency[c]
    BY <2>1, <2>2, <2>4
  <2> QED BY <2>3, <2>4
<1>4. Adjacency(g) = adjacency
  BY <1>1, <1>3 DEF Adjacency
<1>5. Digraph(adjacency) /\ DOMAIN adjacency = ids
  BY <1>2 DEF Digraph
<1>6. HasCycle(adjacency) <=> \E c \in ids : c \in Following(adjacency)[c]
  BY <1>5, SearchExact
<1> QED BY <1>4, <1>6 DEF g, Reaches

------------------------------------------------------------------------------
(* First use                                                               *)

(* Of the components that a graph connects none is new.                    *)
Warmed(g, reg, used) == Critical(g, reg) \cap Nodes(g) \subseteq used

(* What the ledger calls warm is warm, and so is all that waits for its    *)
(* cutover.  Nothing is in the ledger before the registry is complete.     *)
WarmInv ==
    /\ deps \in [CandidateIds -> {deps[id] : id \in CandidateIds}]
    /\ ~ Returned => \A id \in CandidateIds : deps[id] = NoDependencies
    /\ Counts => /\ \A id \in CandidateIds : deps[id].cold = {} => Warmed(deps[id].graph, registry, reused)
                 /\ \A i \in DOMAIN stack : Warmed(stack[i].graph, registry, reused)

(* How the ledger and the counts may change.                               *)
Ledger ==
    \/ UNCHANGED <<deps, reused>>
    \/ \E id \in CandidateIds : \E g : Depend(id, g, reused) /\ UNCHANGED reused
    \/ \E id \in CandidateIds : \E g : RecordCommitted(id, g)

LEMMA NothingWarm == Warmed(NoGraph, registry, reused) /\ NoDependencies.graph = NoGraph
BY DEF Warmed, Nodes, NoGraph, NoDependencies

LEMMA DependKeeps ==
    ASSUME WarmInv, UNCHANGED bootVars, NEW id \in CandidateIds, NEW g, NEW used,
           Depend(id, g, used), reused \subseteq reused', used \subseteq reused'
    PROVE  /\ deps' \in [CandidateIds -> {deps'[i] : i \in CandidateIds}]
           /\ Counts => \A i \in CandidateIds : deps'[i].cold = {} => Warmed(deps'[i].graph, registry', reused')
<1>1. CASE ~ Counts
  BY <1>1 DEF Depend, WarmInv
<1>2. CASE Counts
  <2> DEFINE d == Dependencies(g, used, registry)
  <2>1. deps' = [deps EXCEPT ![id] = d]
    BY <1>2 DEF Depend
  <2>2. d.graph = g /\ d.cold = Cold(g, used, registry)
    BY DEF Dependencies
  <2> HIDE DEF d
  <2>3. DOMAIN deps = CandidateIds
    BY DEF WarmInv
  <2>4. \A i \in CandidateIds : deps'[i] = IF i = id THEN d ELSE deps[i]
    BY <2>1, <2>3
  <2>5. deps' \in [CandidateIds -> {deps'[i] : i \in CandidateIds}]
    BY <2>1, <2>3
  <2>6. d.cold = {} => Warmed(g, registry', reused')
    BY <2>2 DEF Cold, Warmed, bootVars
  <2>7. ASSUME NEW h, Warmed(h, registry, reused) PROVE Warmed(h, registry', reused')
    BY <2>7 DEF Warmed, bootVars
  <2> QED BY <1>2, <2>2, <2>4, <2>5, <2>6, <2>7 DEF WarmInv
<1> QED BY <1>1, <1>2

LEMMA LedgerKeeps ==
    ASSUME WarmInv, Returned, UNCHANGED bootVars, Ledger,
           Counts => \A i \in DOMAIN stack' :
             Warmed(stack'[i].graph, registry, reused) \/ \E j \in DOMAIN stack : stack'[i].graph = stack[j].graph
    PROVE  WarmInv'
<1>1. Returned' /\ Counts' = Counts
  BY DEF Returned, Counts, bootVars
<1>2. reused \subseteq reused'
  <2>1. ASSUME NEW g, NEW id, RecordCommitted(id, g) PROVE reused \subseteq reused'
    BY <2>1 DEF RecordCommitted, CountUse
  <2> QED BY <2>1 DEF Ledger
<1>3. ASSUME NEW h, Warmed(h, registry, reused) PROVE Warmed(h, registry', reused')
  BY <1>2, <1>3 DEF Warmed, bootVars
<1>4. Counts => \A i \in DOMAIN stack' : Warmed(stack'[i].graph, registry', reused')
  BY <1>3 DEF WarmInv
<1> DEFINE Wanted ==
             /\ deps' \in [CandidateIds -> {deps'[i] : i \in CandidateIds}]
             /\ Counts => \A i \in CandidateIds :
                            deps'[i].cold = {} => Warmed(deps'[i].graph, registry', reused')
<1>5. Wanted
  <2>1. CASE UNCHANGED <<deps, reused>>
    <3>1. deps' = deps
      BY <2>1
    <3> QED BY <1>3, <3>1 DEF WarmInv
  <2>2. ASSUME NEW id \in CandidateIds, NEW g, Depend(id, g, reused), UNCHANGED reused
        PROVE  Wanted
    BY <2>2, DependKeeps
  <2>3. ASSUME NEW id \in CandidateIds, NEW g, RecordCommitted(id, g)
        PROVE  Wanted
    <3>1. CASE Counts
      <4>1. reused' = reused \cup Nodes(g) /\ Depend(id, g, reused \cup Nodes(g))
        BY <2>3, <3>1 DEF RecordCommitted, CountUse
      <4> QED BY <1>2, <4>1, DependKeeps
    <3>2. CASE ~ Counts
      BY <2>3, <3>2 DEF RecordCommitted, Depend, WarmInv
    <3> QED BY <3>1, <3>2
  <2> QED BY <2>1, <2>2, <2>3 DEF Ledger
<1> QED BY <1>1, <1>4, <1>5 DEF WarmInv

(* A pipeline of four gates allows only what its last one allows.          *)
LEMMA LastGateAllows ==
    ASSUME NEW a, NEW b, NEW c, NEW d, Evaluate(<<a, b, c, d>>) = "allow"
    PROVE  d = "allow"
<1> DEFINE decisions == <<a, b, c, d>>
           Refuses(i) == /\ decisions[i] # "allow"
                         /\ \A j \in 1..(i - 1) : decisions[j] = "allow"
<1>1. DOMAIN decisions = 1..4
  OBVIOUS
<1> SUFFICES ASSUME d # "allow" PROVE FALSE
  OBVIOUS
<1>2. \E i \in DOMAIN decisions : Refuses(i)
  <2>1. CASE a # "allow"
    <3>1. Refuses(1)
      BY <2>1
    <3> QED BY <1>1, <3>1
  <2>2. CASE a = "allow" /\ b # "allow"
    <3>1. Refuses(2)
      BY <2>2
    <3> QED BY <1>1, <3>1
  <2>3. CASE a = "allow" /\ b = "allow" /\ c # "allow"
    <3>1. Refuses(3)
      <4>1. \A j \in 1..(3 - 1) : j = 1 \/ j = 2
        OBVIOUS
      <4> QED BY <2>3, <4>1
    <3> QED BY <1>1, <3>1
  <2>4. CASE a = "allow" /\ b = "allow" /\ c = "allow"
    <3>1. Refuses(4)
      <4>1. \A j \in 1..(4 - 1) : j = 1 \/ j = 2 \/ j = 3
        OBVIOUS
      <4> QED BY <2>4, <4>1
    <3> QED BY <1>1, <3>1
  <2> QED BY <2>1, <2>2, <2>3, <2>4
<1> DEFINE first == CHOOSE i \in DOMAIN decisions : Refuses(i)
<1>3. Refuses(first)
  BY <1>2
<1>4. ~ \A i \in DOMAIN decisions : decisions[i] = "allow"
  BY <1>1
<1>5. Evaluate(decisions) = decisions[first]
  BY <1>4 DEF Evaluate
<1> QED BY <1>3, <1>5

LEMMA AllowedIsWarm ==
    ASSUME Counts, NEW issues, NEW blocking, NEW lifted, NEW d, NEW match,
           Gates(issues, blocking, lifted, d, match) = "allow"
    PROVE  d.cold = {}
<1>1. AssemblyHealth(setup.mode, d) = "allow"
  BY LastGateAllows DEF Gates
<1> QED BY <1>1 DEF AssemblyHealth, HighRisk, Counts

LEMMA WarmCommit ==
    ASSUME WarmInv, NEW id \in CandidateIds, NEW g, NEW r, NEW sick, NEW match,
           CommitGraph(id, g, r, sick, match), stack \in Seq(Submissions)
    PROVE  WarmInv'
<1>1. Returned /\ UNCHANGED <<bootVars, reused>> /\ Depend(id, g, reused) /\ Ledger
  BY DEF CommitGraph, MayCall, RecordCandidate, Ledger, graphVars
<1>2. CASE UNCHANGED stack
  BY <1>1, <1>2, LedgerKeeps
<1>3. CASE ~ UNCHANGED stack
  <2> DEFINE new == [id |-> id, graph |-> g,
                     request |-> IF Authorized(r) THEN r ELSE NoRequest,
                     first |-> active = NoGraph, stale |-> FALSE]
  <2>1. /\ stack' = Append(stack, new)
        /\ \E issues, blocking, lifted : Gates(issues, blocking, lifted, deps'[id], match) = "allow"
    BY <1>3 DEF CommitGraph
  <2>2. new.graph = g
    OBVIOUS
  <2> HIDE DEF new
  <2>3. \A i \in DOMAIN stack' : stack'[i] = new \/ (i \in DOMAIN stack /\ stack'[i] = stack[i])
    BY <2>1
  <2>4. ASSUME Counts PROVE Warmed(g, registry, reused)
    <3>1. deps'[id] = Dependencies(g, reused, registry)
      BY <1>1, <2>4 DEF Depend, WarmInv
    <3>2. deps'[id].cold = Cold(g, reused, registry)
      BY <3>1 DEF Dependencies
    <3>3. deps'[id].cold = {}
      BY <2>1, <2>4, AllowedIsWarm
    <3> QED BY <3>2, <3>3 DEF Cold, Warmed
  <2> QED BY <1>1, <2>2, <2>3, <2>4, LedgerKeeps
<1> QED BY <1>2, <1>3

LEMMA WarmReview ==
    ASSUME WarmInv, NEW id \in CandidateIds, NEW match, NEW healthy, Review(id, match, healthy)
    PROVE  WarmInv'
<1>1. Returned /\ UNCHANGED <<bootVars, stack>>
  BY DEF Review, MayCall
<1>2. Ledger
  <2>1. UNCHANGED <<deps, reused>> \/ \E g : RecordCommitted(id, g)
    <3> DEFINE waiting == {i \in DOMAIN records : records[i].id = id /\ records[i].deferred}
               r == records[CHOOSE i \in waiting : \A j \in waiting : j <= i]
    <3> HIDE DEF waiting
    <3> QED BY DEF Review, graphVars, waiting
  <2> QED BY <2>1 DEF Ledger
<1> QED BY <1>1, <1>2, LedgerKeeps

LEMMA WarmNext ==
    ASSUME WarmInv, Inv, [Next]_vars
    PROVE  WarmInv'
<1>0. stack \in Seq(Submissions) /\ (stack # <<>> => Returned)
  BY DEF Inv, Shape, NothingYet
<1>1. CASE BootNext /\ UNCHANGED promotionVars
  <2>1. ~ Returned
    BY <1>1 DEF BootNext, Discover, Start, StartRaises, Booted, Returned
  <2>2. UNCHANGED <<deps, stack, setup>> /\ stack = <<>>
    BY <1>1, <2>1 DEF promotionVars, BootNext, Discover, Start, StartRaises, Booted, Inv, NothingYet
  <2>3. \A i \in CandidateIds : deps'[i] = NoDependencies
    BY <2>1, <2>2 DEF WarmInv
  <2>4. Warmed(NoGraph, registry', reused')
    BY DEF Warmed, Nodes, NoGraph
  <2> QED BY <2>2, <2>3, <2>4, NothingWarm DEF WarmInv
<1>2. ASSUME NEW id \in CandidateIds, NEW g \in setup.graphs, NEW r \in Requests,
             NEW match \in Matches, NEW sick \in SickAmong(g), CommitGraph(id, g, r, sick, match)
      PROVE  WarmInv'
  BY <1>0, <1>2, WarmCommit
<1>3. CASE Cutover
  <2>1. stack # <<>> /\ stack' = Outdated(Others) /\ UNCHANGED bootVars
    BY <1>3 DEF Cutover
  <2>2. Ledger
    <3>1. Top.id \in CandidateIds
      <4>1. Len(stack) \in 1..Len(stack) /\ stack[Len(stack)] \in Submissions
        BY <1>0, <2>1
      <4> QED BY <4>1 DEF Top, Submissions
    <3> QED BY <1>3, <3>1 DEF Cutover, Ledger
  <2>3. \A i \in DOMAIN stack' : i \in DOMAIN stack /\ stack'[i].graph = stack[i].graph
    BY <1>0, <2>1, StackShrinks
  <2> QED BY <1>0, <2>1, <2>2, <2>3, LedgerKeeps
<1>4. CASE CutoverUnhealthy
  <2>1. stack # <<>> /\ stack' \in {Others, Outdated(Others)} /\ UNCHANGED bootVars
    BY <1>4 DEF CutoverUnhealthy
  <2>2. Ledger
    BY <1>4 DEF CutoverUnhealthy, Ledger
  <2>3. \A i \in DOMAIN stack' : i \in DOMAIN stack /\ stack'[i].graph = stack[i].graph
    BY <1>0, <2>1, StackShrinks
  <2> QED BY <1>0, <2>1, <2>2, <2>3, LedgerKeeps
<1>5. ASSUME NEW id \in CandidateIds, NEW g \in setup.external, NEW b \in BOOLEAN,
             DeferCandidate(id, g, b)
      PROVE  WarmInv'
  BY <1>5, LedgerKeeps DEF DeferCandidate, MayCall, graphVars, Ledger
<1>6. ASSUME NEW id \in CandidateIds, NEW g \in setup.external, NEW b \in BOOLEAN,
             NEW d \in BOOLEAN, IngestCandidate(id, g, b, d)
      PROVE  WarmInv'
  <2>1. Ledger /\ Returned /\ UNCHANGED <<bootVars, stack>>
    BY <1>6 DEF IngestCandidate, MayCall, graphVars, Ledger, RecordCandidate
  <2> QED BY <2>1, LedgerKeeps
<1>7. ASSUME NEW id \in CandidateIds, NEW match \in Matches, NEW healthy \in BOOLEAN,
             Review(id, match, healthy)
      PROVE  WarmInv'
  BY <1>7, WarmReview
<1>8. ASSUME NEW id \in CandidateIds, NEW g \in setup.graphs, Mutate(id, g)
      PROVE  WarmInv'
  <2>1. /\ Returned /\ UNCHANGED bootVars /\ UNCHANGED <<deps, reused>>
        /\ UNCHANGED stack \/ stack' = Outdated(stack)
    BY <1>8 DEF Mutate, MayCall
  <2>2. \A i \in DOMAIN stack' : i \in DOMAIN stack /\ stack'[i].graph = stack[i].graph
    BY <1>0, <2>1, OutdatedKeeps
  <2> QED BY <2>1, <2>2, LedgerKeeps DEF Ledger
<1>9. CASE RollBack
  <2>1. UNCHANGED <<bootVars, reused, deps, stack>>
    BY <1>9 DEF RollBack
  <2> QED BY <2>1 DEF WarmInv, bootVars, Returned, Counts
<1>10. ASSUME NEW a \in Approvals, NEW actor \in Actors, Authorize(a, actor)
       PROVE  WarmInv'
  BY <1>10, LedgerKeeps DEF Authorize, graphVars, Ledger
<1>11. CASE UNCHANGED vars
  BY <1>11 DEF vars, bootVars, promotionVars, WarmInv, Returned, Counts
<1> QED BY <1>1, <1>2, <1>3, <1>4, <1>5, <1>6, <1>7, <1>8, <1>9, <1>10, <1>11 DEF Next

LEMMA WarmInit == Init => WarmInv
<1> SUFFICES ASSUME Init PROVE WarmInv
  OBVIOUS
<1>1. /\ \A id \in CandidateIds : deps[id] = NoDependencies
      /\ DOMAIN deps = CandidateIds /\ stack = <<>>
      /\ deps \in [CandidateIds -> {deps[id] : id \in CandidateIds}]
  BY DEF Init
<1> QED BY <1>1, NothingWarm DEF WarmInv

LEMMA WarmAlways == Spec => []WarmInv
<1>1. Inv /\ WarmInv /\ [Next]_vars => WarmInv'
  BY WarmNext
<1> QED BY <1>1, WarmInit, InvAlways, PTL DEF Spec

(* An edge of a graph that passes joins two components, so both of them    *)
(* are in the dependencies that the ledger keeps.                          *)
Settled(g) ==
    \A e \in g.edges :
      (registry[e.source].parts = 2 /\ registry[e.target].parts = 2) =>
         {e.source, e.target} \subseteq reused

LEMMA WarmedIsSettled ==
    ASSUME NEW g, Sound(g, registry), OrderInv, Warmed(g, registry, reused)
    PROVE  Settled(g)
<1> SUFFICES ASSUME NEW e \in g.edges,
                    registry[e.source].parts = 2, registry[e.target].parts = 2
             PROVE  {e.source, e.target} \subseteq reused
  BY DEF Settled
<1>1. {e.source, e.target} \subseteq Nodes(g) /\ Nodes(g) \subseteq DOMAIN registry
  BY DEF Sound, Fits
<1>2. e.source # e.target
  <2> SUFFICES ASSUME e.source = e.target PROVE FALSE
    OBVIOUS
  <2> DEFINE adj == Adjacency(g)
             c == e.source
  <2>1. c \in DOMAIN adj /\ c \in adj[c]
    BY <1>1 DEF Adjacency, Inner
  <2>2. Digraph(adj) /\ DOMAIN adj = Nodes(g)
    BY <1>1, RegistryIsFinite, FS_Subset, AdjacencyIsDigraph
  <2> HIDE DEF adj
  <2>3. adj[c] \subseteq Following(adj)[c]
    BY <2>1, <2>2, FollowingCloses
  <2>4. c \notin Reaches(g)[c]
    BY <1>1 DEF Sound
  <2> QED BY <2>1, <2>3, <2>4 DEF Reaches, adj
<1>3. <<e.source, e.target>> \in DependencyEdges(g, registry)
  BY <1>1 DEF DependencyEdges, EndpointRef
<1>4. {e.source, e.target} \subseteq Critical(g, registry)
  <2> DEFINE pair == <<e.source, e.target>>
  <2>1. pair[1] = e.source /\ pair[2] = e.target /\ pair \in DependencyEdges(g, registry)
    BY <1>3
  <2> HIDE DEF pair
  <2>2. pair \in {b \in DependencyEdges(g, registry) : b[1] # b[2]}
    BY <1>2, <2>1
  <2> QED BY <2>1, <2>2 DEF Critical
<1> QED BY <1>1, <1>4 DEF Warmed

LEMMA FirstUseStep ==
    ASSUME Inv, WarmInv, OrderInv, [Next]_vars, Counts, ~ UNCHANGED <<active, by>>,
           by'.step \in {"commit", "review"}, by'.own
    PROVE  Settled(active')
<1>0. stack \in Seq(Submissions)
  BY DEF Inv, Shape
<1>1. CASE Cutover \/ CutoverUnhealthy
  <2>1. stack # <<>> /\ active' = Top.graph
    BY <1>1 DEF Cutover, CutoverUnhealthy, Exchanged, Install, Undone
  <2>2. Len(stack) \in DOMAIN stack
    BY <1>0, <2>1
  <2>3. Passes(Top.graph, registry) /\ Warmed(Top.graph, registry, reused)
    BY <2>2 DEF Top, Inv, AllPass, WarmInv
  <2> QED BY <2>1, <2>3, RegistryIsFinite, PassingIsSound, WarmedIsSettled
<1>2. ASSUME NEW id \in CandidateIds, NEW match \in Matches, NEW healthy \in BOOLEAN,
             Review(id, match, healthy)
      PROVE  Settled(active')
  <2> DEFINE waiting == {i \in DOMAIN records : records[i].id = id /\ records[i].deferred}
             g == records[CHOOSE i \in waiting : \A j \in waiting : j <= i].graph
  <2> HIDE DEF waiting
  <2>1. active' = g /\ by' = By("review", FALSE, NoRequest, deps[id].graph = g)
    BY <1>2 DEF Review, graphVars, Undone, Install, waiting
  <2>2. \E blocking : Gates(ValidateGraph(g, active, registry), blocking, Lifted(g),
                            deps[id], match) = "allow"
    BY <1>2 DEF Review, graphVars, Undone, waiting
  <2> HIDE DEF g
  <2>3. deps[id].graph = g
    BY <2>1 DEF By
  <2>4. Passes(g, registry)
    BY <2>2, AllowedGraph
  <2>5. deps[id].cold = {}
    BY <2>2, AllowedIsWarm
  <2>6. Warmed(g, registry, reused)
    BY <2>3, <2>5 DEF WarmInv
  <2> QED BY <2>1, <2>4, <2>6, RegistryIsFinite, PassingIsSound, WarmedIsSettled
<1>3. ASSUME NEW id, NEW g, Mutate(id, g) PROVE FALSE
  BY <1>3 DEF Mutate, Install, By
<1>4. CASE RollBack
  BY <1>4 DEF RollBack, By
<1>5. CASE BootNext /\ UNCHANGED promotionVars
  BY <1>5 DEF promotionVars
<1>6. ASSUME NEW id, NEW g, NEW r, NEW sick, NEW match, CommitGraph(id, g, r, sick, match)
      PROVE  FALSE
  BY <1>6 DEF CommitGraph, graphVars
<1>7. ASSUME NEW id, NEW g, NEW b, NEW d, DeferCandidate(id, g, b) \/ IngestCandidate(id, g, b, d)
      PROVE  FALSE
  BY <1>7 DEF DeferCandidate, IngestCandidate, graphVars
<1>8. ASSUME NEW a, NEW actor, Authorize(a, actor) PROVE FALSE
  BY <1>8 DEF Authorize, graphVars
<1>9. CASE UNCHANGED vars
  BY <1>9 DEF vars, promotionVars
<1> QED BY <1>1, <1>2, <1>3, <1>4, <1>5, <1>6, <1>7, <1>8, <1>9 DEF Next

------------------------------------------------------------------------------
(* What the pruner offers                                                  *)

Offer(g, reg, pair) ==
    /\ pair \in LegalPairs(reg)
    /\ {pair[1].component, pair[2].component} \subseteq Nodes(g)
    /\ \A c \in {pair[1].component, pair[2].component} : ~ IsProtected(c, g, reg)
    /\ NamedOnce(reg[pair[2].component].inputs)
    /\ \A e \in g.edges : e.name # "new"

(* Everything but the edges is as before, and of these one is new, between *)
(* two components that fit it.                                             *)
Extends(h, g, reg, n) ==
    /\ h.flags = g.flags /\ h.edges = g.edges \cup {n}
    /\ \A e \in g.edges : e.name # n.name
    /\ {n.source, n.target} \subseteq Nodes(g)
    /\ n.source \in DOMAIN reg => n.out \in Named(reg[n.source].outputs)
    /\ n.target \in DOMAIN reg => n.in \in Named(reg[n.target].inputs)
    /\ ~ Mismatched(n, reg)
    /\ ~ IsProtected(n.source, g, reg) /\ ~ IsProtected(n.target, g, reg)

LEMMA OfferExtends ==
    ASSUME NEW g, NEW reg, NEW pair, Offer(g, reg, pair)
    PROVE  \E n : Extends(With(g, pair), g, reg, n)
<1> DEFINE s == pair[1]
           t == pair[2]
           n == Edge("new", s.component, s.port, t.component, t.port, s.type, "sync")
           h == With(g, pair)
<1>1. s \in AllOutputs(reg) /\ t \in AllInputs(reg) /\ s.type = t.type
  BY DEF Offer, LegalPairs, LegalTargets
<1>2. PICK a \in DOMAIN reg : \E p \in reg[a].outputs : s = Ref(a, p.name, p.type)
  BY <1>1 DEF AllOutputs
<1>3. PICK b \in DOMAIN reg : \E p \in reg[b].inputs : t = Ref(b, p.name, p.type)
  BY <1>1 DEF AllInputs
<1>4. s.component = a /\ s.port \in Named(reg[a].outputs)
  BY <1>2 DEF Ref, Named
<1>5. PICK p \in reg[b].inputs : t.component = b /\ t.port = p.name /\ t.type = p.type
  BY <1>3 DEF Ref
<1>6. h.flags = g.flags /\ h.edges = g.edges \cup {n}
  BY DEF With, Graph
<1>7. {s.component, t.component} \subseteq Nodes(g)
      /\ ~ IsProtected(s.component, g, reg) /\ ~ IsProtected(t.component, g, reg)
      /\ NamedOnce(reg[t.component].inputs) /\ \A e \in g.edges : e.name # "new"
  BY DEF Offer
<1> HIDE DEF s, t, h
<1>8. /\ n.name = "new" /\ n.source = s.component /\ n.out = s.port
      /\ n.target = t.component /\ n.in = t.port /\ n.payload = s.type
  BY DEF Edge
<1> HIDE DEF n
<1>9. ~ Mismatched(n, reg)
  <2>1. \A q \in reg[b].inputs : q.name = p.name => q = p
    BY <1>5, <1>7 DEF NamedOnce
  <2> QED BY <1>1, <1>5, <1>8, <2>1 DEF Mismatched
<1>10. n.in \in Named(reg[n.target].inputs)
  BY <1>5, <1>8 DEF Named
<1>11. Extends(h, g, reg, n)
  BY <1>4, <1>6, <1>7, <1>8, <1>9, <1>10 DEF Extends
<1> QED BY <1>11 DEF h

LEMMA ExtensionIsLegal ==
    ASSUME NEW g, NEW reg, NEW h, NEW n, Extends(h, g, reg, n)
    PROVE  ValidateGraph(h, g, reg) \subseteq
             ValidateGraph(g, g, reg) \cup {Issue("cycle_detected", "graph")}
<1>1. /\ Nodes(h) = Nodes(g) /\ h.edges = g.edges \cup {n} /\ n.source \in Nodes(g)
      /\ n.target \in Nodes(g) /\ \A e \in g.edges : e.name # n.name
  BY DEF Extends, Nodes
<1>2. DuplicateConnections(h) \subseteq DuplicateConnections(g)
  <2> SUFFICES ASSUME NEW d \in h.edges, NEW other \in h.edges \ {d}, other.name = d.name
               PROVE  Issue("duplicate_connection", d.name) \in DuplicateConnections(g)
    BY DEF DuplicateConnections
  <2>1. d \in g.edges /\ other \in g.edges
    BY <1>1
  <2> QED BY <2>1 DEF DuplicateConnections
<1>3. UnknownComponents(h, reg) = UnknownComponents(g, reg)
  BY <1>1 DEF UnknownComponents
<1>4. UnknownEnds(h) \subseteq UnknownEnds(g)
  <2>1. \A e \in h.edges : e.source \notin Nodes(h) \/ e.target \notin Nodes(h) => e \in g.edges
    BY <1>1
  <2> QED BY <1>1, <2>1 DEF UnknownEnds
<1>5. UnknownOutputs(h, reg) \subseteq UnknownOutputs(g, reg)
  BY <1>1 DEF UnknownOutputs, Extends
<1>6. UnknownInputs(h, reg) \subseteq UnknownInputs(g, reg)
  BY <1>1 DEF UnknownInputs, Extends
<1>7. PayloadMismatches(h, reg) \subseteq PayloadMismatches(g, reg)
  BY <1>1 DEF PayloadMismatches, Extends
<1>8. MissingInputs(h, reg) \subseteq MissingInputs(g, reg)
  <2>1. Inner(g) \subseteq Inner(h)
    BY <1>1 DEF Inner
  <2>2. \A c : Bound(g, c) \subseteq Bound(h, c)
    BY <2>1 DEF Bound
  <2> QED BY <1>1, <2>2 DEF MissingInputs
<1>9. SlotOverrides(h, reg) = SlotOverrides(g, reg)
  BY <1>1 DEF SlotOverrides, Extends
<1>10. BoundaryIssues(h, g, reg) = {}
  <2>1. \A c : IsProtected(c, h, reg) <=> IsProtected(c, g, reg)
    BY <1>1 DEF IsProtected, Extends
  <2>2. \A c : c # n.source /\ c # n.target => Incident(g, c) = Incident(h, c)
    BY <1>1 DEF Incident
  <2>3. \A c : IsProtected(c, g, reg) => Incident(g, c) = Incident(h, c)
    BY <2>2 DEF Extends
  <2> QED BY <1>1, <2>1, <2>3 DEF BoundaryIssues
<1>11. Orphans(h, reg) \subseteq Orphans(g, reg)
  <2>1. Referenced(g) \subseteq Referenced(h)
    BY <1>1 DEF Referenced
  <2>2. DetectOrphans(h, reg) \subseteq DetectOrphans(g, reg)
    BY <1>1, <2>1 DEF DetectOrphans
  <2> QED BY <2>2 DEF Orphans
<1>12. Cycles(h) \subseteq {Issue("cycle_detected", "graph")}
  BY DEF Cycles
<1>13. ValidateGraph(h, g, reg) \subseteq
         DuplicateConnections(h) \cup UnknownComponents(h, reg) \cup UnknownEnds(h)
           \cup UnknownOutputs(h, reg) \cup UnknownInputs(h, reg)
           \cup PayloadMismatches(h, reg) \cup MissingInputs(h, reg)
           \cup SlotOverrides(h, reg) \cup Cycles(h) \cup Orphans(h, reg)
  BY <1>10 DEF ValidateGraph
<1>14. DuplicateConnections(g) \cup UnknownComponents(g, reg) \cup UnknownEnds(g)
           \cup UnknownOutputs(g, reg) \cup UnknownInputs(g, reg)
           \cup PayloadMismatches(g, reg) \cup MissingInputs(g, reg)
           \cup SlotOverrides(g, reg) \cup Orphans(g, reg) \subseteq ValidateGraph(g, g, reg)
  BY DEF ValidateGraph
<1> QED BY <1>2, <1>3, <1>4, <1>5, <1>6, <1>7, <1>8, <1>9, <1>11, <1>12, <1>13, <1>14

------------------------------------------------------------------------------
(* Theorems                                                                *)

(* Whatever way a graph got into service, through the gates with or        *)
(* without an approval, a review, a nested promotion, a mutation or a      *)
(* rollback, its components, ports, types, names and required inputs fit   *)
(* the registry, the search found no cycle in it, and it has no orphan     *)
(* (validate_graph, as the sandbox and the mutation submitter ask it).     *)
THEOREM AdmittedAlwaysPasses == Spec => [](active # NoGraph => Passes(active, registry))
<1>1. Inv => (active # NoGraph => Passes(active, registry))
  BY DEF Inv, AllPass
<1> QED BY <1>1, InvAlways, PTL

(* After a boot that did not raise, every component of the active graph    *)
(* was activated (HarnessRuntime.boot and the validator's look at the      *)
(* registry).                                                              *)
THEOREM AdmittedAlwaysActivated == Spec => []AdmittedIsActivated
<1>1. Inv /\ RunInv => AdmittedIsActivated
  BY DEF Inv, AllPass, Passes, Fits, RunInv, Entered, AdmittedIsActivated, Runs
<1> QED BY <1>1, InvAlways, RunAlways, PTL

(* A graph that takes the place of the one it was judged against keeps     *)
(* every protected component of that one with exactly its edges, unless    *)
(* the caller named an approval granted to that actor                      *)
(* (_protected_promotion_authorized, review_deferred_candidate, submit).   *)
THEOREM ProtectedAlwaysNeedsApproval == Spec => ProtectedNeedsApproval
<1>1. Inv /\ [Next]_vars =>
        [(active # NoGraph /\ by'.step # "rollback" /\ ~ by'.stale) =>
           \/ Granted(by'.request)
           \/ \A c \in Nodes(active) : IsProtected(c, active, registry) => Keeps(active, active', c)]_active
  BY NextInv DEF Owes, KeepsProtected
<1> QED BY <1>1, InvAlways, PTL DEF Spec, ProtectedNeedsApproval

(* Whatever is in service, by whatever way it got there, can be run: it    *)
(* passes the validator, and as the depth-first search reports a cycle     *)
(* exactly when there is one, no component of it feeds itself; and after a *)
(* boot that did not raise all its components were activated               *)
(* (validate_graph, has_cycle, detect_orphans).                            *)
THEOREM AdmittedAlwaysFit == Spec => []AdmittedIsFit
<1>1. Inv /\ RunInv /\ OrderInv => AdmittedIsFit
  <2> SUFFICES ASSUME Inv, RunInv, OrderInv PROVE AdmittedIsFit
    OBVIOUS
  <2>1. AdmittedIsSound
    BY RegistryIsFinite, PassingIsSound DEF Inv, AllPass, AdmittedIsSound
  <2>2. AdmittedIsActivated
    BY DEF Inv, AllPass, Passes, Fits, RunInv, Entered, AdmittedIsActivated, Runs
  <2> QED BY <2>1, <2>2, SearchIsRight DEF AdmittedIsFit
<1> QED BY <1>1, InvAlways, RunAlways, OrderAlways, PTL

(* A boot starts of each identity what the highest source says, if it is   *)
(* enabled, each component after all that it depends on, and raises before *)
(* it starts anything exactly when a dependency is missing or there is a   *)
(* cycle (ComponentDiscovery.resolve, resolve_boot_order, boot).           *)
THEOREM BootsAlwaysInOrder == Spec => []BootedInOrder
BY OrderAlways, OrderInvIsOrdered, PTL

(* A graph that connects components of which one was in no committed graph *)
(* does not get into service, at once or by any number of reviews, as long *)
(* as the gate looks at the graph's own dependencies (AssemblyHealth in    *)
(* the pipeline, record_dependency_graph, review_deferred_candidate).      *)
THEOREM FirstUseAlwaysWaits == Spec => FirstUseWaits
<1>1. Inv /\ WarmInv /\ OrderInv /\ [Next]_vars =>
        [(setup.mode # "warn_only" /\ by'.step \in {"commit", "review"} /\ by'.own) =>
           \A e \in active'.edges :
             (registry[e.source].parts = 2 /\ registry[e.target].parts = 2) =>
                {e.source, e.target} \subseteq reused]_<<active, by>>
  BY FirstUseStep DEF Settled, Counts
<1> QED BY <1>1, InvAlways, WarmAlways, OrderAlways, PTL DEF Spec, FirstUseWaits

(* The validator has nothing but a cycle against a connection the pruner   *)
(* offers between unprotected components (legal_targets, validate_graph).  *)
THEOREM OfferedAlwaysLegal == Spec => []OfferedIsLegal
<1>1. OfferedIsLegal
  BY OfferExtends, ExtensionIsLegal DEF OfferedIsLegal, Offer
<1> QED BY <1>1, PTL
==============================================================================
