------------------------------ MODULE Recursion ------------------------------
(***************************************************************************)
(* What the proofs about recursive functions rest on: induction over the   *)
(* natural numbers, stated for sets, and the existence and uniqueness of a *)
(* function that is defined by its value at 0 and its steps.               *)
(***************************************************************************)
EXTENDS Selections, WellFoundedInduction, TLAPS

------------------------------------------------------------------------------
(* The natural numbers are well founded: a set of them has a least one,    *)
(* and what holds of 0 and of every successor holds of all of them.        *)
Below == {pair \in Nat \X Nat : pair[1] < pair[2]}

LEMMA BelowWellFounded == IsWellFoundedOn(Below, Nat)
BY NatLessThanWellFounded, Zenon DEF Below, OpToRel

LEMMA LeastOfNaturals ==
  ASSUME NEW S, S \subseteq Nat, S # {}
  PROVE  \E n \in S : \A m \in S : n <= m
<1>1. PICK n \in S : \A m \in S : <<m, n>> \notin Below
  BY BelowWellFounded, WFMin
<1>2. ASSUME NEW m \in S, ~(n <= m) PROVE FALSE
  <2>1. n \in Nat /\ m \in Nat  OBVIOUS
  <2>2. m < n  BY <2>1, <1>2
  <2>3. <<m, n>> \in Below  BY <2>1, <2>2 DEF Below
  <2>. QED BY <2>3, <1>1
<1>. QED BY <1>2

LEMMA NaturalsByInduction ==
  ASSUME NEW S, 0 \in S, \A n \in Nat : n \in S => n + 1 \in S
  PROVE  Nat \subseteq S
<1>. SUFFICES ASSUME NEW z \in Nat \ S PROVE FALSE
  OBVIOUS
<1>1. PICK n \in Nat \ S : \A m \in Nat \ S : n <= m
  <2>1. Nat \ S \subseteq Nat /\ Nat \ S # {}
    OBVIOUS
  <2>. QED BY <2>1, LeastOfNaturals
<1>2. n - 1 \in Nat /\ n - 1 \in S /\ (n - 1) + 1 = n
  BY <1>1
<1>. QED BY <1>1, <1>2

(* A recursive function over 0..n is a function: its values exist, and two *)
(* that start and step alike are alike.                                    *)
(* f runs through the values that steps of V make of b, one after the other. *)
Iterates(f, n, V, b, step) ==
  /\ f = [k \in 0..n |-> f[k]]
  /\ \A k \in 0..n : f[k] \in V
  /\ f[0] = b
  /\ \A k \in 1..n : f[k] = step[k][f[k - 1]]

LEMMA RecursionExists ==
  ASSUME NEW n \in Nat, NEW V, NEW b \in V, NEW step,
         \A k \in 1..n : \A v \in V : step[k][v] \in V
  PROVE  \E f : Iterates(f, n, V, b, step)
<1>. DEFINE S == {m \in Nat : m <= n => \E f : Iterates(f, m, V, b, step)}
<1>1. 0 \in S
  <2>. DEFINE f == [k \in 0..0 |-> b]
  <2>1. Iterates(f, 0, V, b, step)
    BY DEF Iterates
  <2>. QED BY <2>1
<1>2. ASSUME NEW m \in Nat, m \in S PROVE m + 1 \in S
  <2>. SUFFICES ASSUME m + 1 <= n PROVE \E f : Iterates(f, m + 1, V, b, step)
    OBVIOUS
  <2>1. PICK f : Iterates(f, m, V, b, step)
    BY <1>2
  <2>. DEFINE g == [k \in 0..m + 1 |-> IF k <= m THEN f[k] ELSE step[m + 1][f[m]]]
  <2>2. f[m] \in V /\ m + 1 \in 1..n
    BY <2>1 DEF Iterates
  <2>3. step[m + 1][f[m]] \in V
    BY <2>2
  <2>4. g[0] = b
    BY <2>1 DEF Iterates
  <2>5. ASSUME NEW k \in 1..m + 1 PROVE g[k] = step[k][g[k - 1]]
    <3>1. CASE k <= m
      <4>1. k \in 1..m /\ k - 1 <= m /\ k - 1 \in 0..m + 1  BY <3>1
      <4>2. f[k] = step[k][f[k - 1]]  BY <4>1, <2>1 DEF Iterates
      <4>. QED BY <4>1, <4>2
    <3>2. CASE k = m + 1  BY <3>2, <2>1 DEF Iterates
    <3>. QED BY <3>1, <3>2
  <2>6. \A k \in 0..m + 1 : g[k] \in V
    BY <2>1, <2>3 DEF Iterates
  <2>7. g = [k \in 0..m + 1 |-> g[k]]
    OBVIOUS
  <2>. HIDE DEF g
  <2>. QED BY <2>4, <2>5, <2>6, <2>7 DEF Iterates
<1>3. Nat \subseteq S
  <2>. HIDE DEF S
  <2>. QED BY <1>1, <1>2, NaturalsByInduction
<1>. QED BY <1>3

StepAlike(f, g, n) ==
  f[0] = g[0] /\ \A k \in 1..n : f[k - 1] = g[k - 1] => f[k] = g[k]

LEMMA RecursionUnique ==
  ASSUME NEW n \in Nat, NEW f, NEW g, StepAlike(f, g, n)
  PROVE  f[n] = g[n]
<1>. DEFINE S == {m \in Nat : m <= n => f[m] = g[m]}
<1>1. 0 \in S
  BY DEF StepAlike
<1>2. ASSUME NEW m \in Nat, m \in S PROVE m + 1 \in S
  <2>1. m + 1 <= n => m + 1 \in 1..n /\ (m + 1) - 1 = m /\ m <= n
    OBVIOUS
  <2>. QED BY <1>2, <2>1 DEF StepAlike
<1>3. Nat \subseteq S
  <2>. HIDE DEF S
  <2>. QED BY <1>1, <1>2, NaturalsByInduction
<1>. QED BY <1>3
(* The same over all natural numbers.                                      *)
IteratesOn(f, V, b, step) ==
  /\ f = [k \in Nat |-> f[k]]
  /\ \A k \in Nat : f[k] \in V
  /\ f[0] = b
  /\ \A k \in Nat \ {0} : f[k] = step[k][f[k - 1]]

LEMMA RecursionOnNaturals ==
  ASSUME NEW V, NEW b \in V, NEW step,
         \A k \in Nat \ {0} : \A v \in V : step[k][v] \in V
  PROVE  \E f : IteratesOn(f, V, b, step)
<1>. DEFINE upTo(n) == CHOOSE f : Iterates(f, n, V, b, step)
            g == [n \in Nat |-> upTo(n)[n]]
<1>1. ASSUME NEW n \in Nat PROVE Iterates(upTo(n), n, V, b, step)
  <2>1. \A k \in 1..n : \A v \in V : step[k][v] \in V
    OBVIOUS
  <2>2. \E f : Iterates(f, n, V, b, step)
    BY <2>1, RecursionExists
  <2>. QED BY <2>2
<1>. HIDE DEF upTo
<1>2. \A n \in Nat : g[n] \in V
  BY <1>1 DEF Iterates
<1>3. g[0] = b
  BY <1>1 DEF Iterates
<1>4. ASSUME NEW n \in Nat \ {0} PROVE g[n] = step[n][g[n - 1]]
  <2>. DEFINE f == upTo(n)  h == upTo(n - 1)
  <2>1. n - 1 \in Nat /\ Iterates(f, n, V, b, step) /\ Iterates(h, n - 1, V, b, step)
    BY <1>1
  <2>. HIDE DEF f, h
  <2>2. StepAlike(f, h, n - 1)
    <3>1. f[0] = h[0]
      BY <2>1 DEF Iterates
    <3>2. ASSUME NEW k \in 1..n - 1, f[k - 1] = h[k - 1] PROVE f[k] = h[k]
      <4>1. k \in 1..n
        BY <2>1
      <4>. QED BY <2>1, <3>2, <4>1 DEF Iterates
    <3>. QED BY <3>1, <3>2 DEF StepAlike
  <2>3. f[n - 1] = h[n - 1]
    BY <2>1, <2>2, RecursionUnique
  <2>4. f[n] = step[n][f[n - 1]]
    <3>1. n \in 1..n
      OBVIOUS
    <3>. QED BY <2>1, <3>1 DEF Iterates
  <2>5. g[n] = f[n] /\ g[n - 1] = h[n - 1]
    BY <2>1 DEF f, h
  <2>. QED BY <2>3, <2>4, <2>5
<1>5. g = [n \in Nat |-> g[n]]
  OBVIOUS
<1>. HIDE DEF g
<1>6. IteratesOn(g, V, b, step)
  BY <1>2, <1>3, <1>4, <1>5 DEF IteratesOn
<1>. QED BY <1>6

------------------------------------------------------------------------------
(* The elements of a sequence that are in a set.                           *)
LEMMA WithinRuns ==
  ASSUME NEW T, NEW s \in Seq(T), NEW S
  PROVE  \E f : /\ Within(s, S) = f[Len(s)] /\ f[0] = <<>>
                /\ \A k \in 1..Len(s) :
                     f[k] = IF s[k] \in S THEN Append(f[k - 1], s[k]) ELSE f[k - 1]
<1>0. Len(s) \in Nat
  OBVIOUS
<1>. DEFINE V == Seq(T)
           step == [k \in 1..Len(s) |->
                      [v \in V |-> IF s[k] \in S THEN Append(v, s[k]) ELSE v]]
           Body(g, k) == IF k = 0 THEN <<>>
                         ELSE IF s[k] \in S THEN Append(g[k - 1], s[k]) ELSE g[k - 1]
           Eq(g) == g = [k \in 0..Len(s) |-> Body(g, k)]
           F == CHOOSE g : Eq(g)
<1>1. Within(s, S) = F[Len(s)]
  BY DEF Within
<1>2. \E g : Eq(g)
  <2>1. <<>> \in V /\ \A k \in 1..Len(s) : \A v \in V : step[k][v] \in V
    OBVIOUS
  <2>2. PICK f : Iterates(f, Len(s), V, <<>>, step)
    <3>. HIDE DEF step, V
    <3>. QED BY <1>0, <2>1, RecursionExists
  <2>3. ASSUME NEW k \in 0..Len(s) PROVE f[k] = Body(f, k)
    <3>1. CASE k = 0
      BY <2>2, <3>1 DEF Iterates
    <3>2. CASE k # 0
      <4>1. k \in 1..Len(s) /\ k - 1 \in 0..Len(s)  BY <3>2, <1>0
      <4>2. f[k] = step[k][f[k - 1]] /\ f[k - 1] \in V
        <5>. HIDE DEF V, step
        <5>. QED BY <4>1, <2>2 DEF Iterates
      <4>3. step[k][f[k-1]] = IF s[k] \in S THEN Append(f[k - 1], s[k]) ELSE f[k - 1]
        <5>. HIDE DEF V
        <5>. QED BY <4>1, <4>2
      <4>. HIDE DEF V, step
      <4>. QED BY <3>2, <4>2, <4>3
    <3>. QED BY <3>1, <3>2
  <2>4. f = [k \in 0..Len(s) |-> f[k]]
    <3>. HIDE DEF V, step
    <3>. QED BY <2>2 DEF Iterates
  <2>5. Eq(f)
    <3>. HIDE DEF Body, V, step
    <3>. QED BY <2>3, <2>4
  <2>. HIDE DEF Eq
  <2>. QED BY <2>5
<1>3. Eq(F)
  <2>. HIDE DEF Eq
  <2>. QED BY <1>2
<1>4. \A k \in 0..Len(s) : F[k] = Body(F, k)
  <2>. HIDE DEF F, Body
  <2>. QED BY <1>3
<1>5. F[0] = <<>> /\ \A k \in 1..Len(s) : F[k] = IF s[k] \in S THEN Append(F[k - 1], s[k]) ELSE F[k - 1]
  <2>. HIDE DEF F
  <2>. QED BY <1>0, <1>4
<1>. HIDE DEF F
<1>. QED BY <1>1, <1>5

LEMMA WithinTyped ==
  ASSUME NEW T, NEW s \in Seq(T), NEW S
  PROVE  /\ Within(s, S) \in Seq(T)
         /\ \A i \in 1..Len(Within(s, S)) : Within(s, S)[i] \in S
         /\ \A x : (\E i \in 1..Len(Within(s, S)) : Within(s, S)[i] = x) <=>
                     x \in S /\ \E i \in 1..Len(s) : s[i] = x
<1>1. PICK f : /\ Within(s, S) = f[Len(s)] /\ f[0] = <<>>
               /\ \A k \in 1..Len(s) :
                    f[k] = IF s[k] \in S THEN Append(f[k - 1], s[k]) ELSE f[k - 1]
  BY WithinRuns
<1>. DEFINE Elements(v) == {v[i] : i \in 1..Len(v)}
            Good(k) == f[k] \in Seq(T) /\ Elements(f[k]) = S \cap {s[i] : i \in 1..k}
            N == {k \in Nat : k <= Len(s) => Good(k)}
<1>0. Len(s) \in Nat
  OBVIOUS
<1>2. 0 \in N
  <2>1. f[0] \in Seq(T) /\ Elements(f[0]) = {}
    BY <1>1
  <2>2. {s[i] : i \in 1..0} = {}
    OBVIOUS
  <2>3. Good(0)
    BY <2>1, <2>2
  <2>. HIDE DEF Good
  <2>. QED BY <2>3
<1>3. ASSUME NEW k \in Nat, k \in N PROVE k + 1 \in N
  <2>. SUFFICES ASSUME k + 1 <= Len(s) PROVE Good(k + 1)
    <3>. HIDE DEF Good
    <3>. QED OBVIOUS
  <2>1. k + 1 \in 1..Len(s) /\ (k + 1) - 1 = k /\ Good(k) /\ s[k + 1] \in T
    <3>1. k <= Len(s)  BY <1>0
    <3>2. Good(k)
      <4>. HIDE DEF Good
      <4>. QED BY <1>3, <3>1
    <3>. HIDE DEF Good
    <3>. QED BY <1>0, <3>2
  <2>2. f[k + 1] = IF s[k + 1] \in S THEN Append(f[k], s[k + 1]) ELSE f[k]
    BY <1>1, <2>1
  <2>3. {s[i] : i \in 1..k + 1} = {s[i] : i \in 1..k} \cup {s[k + 1]}
    BY <1>3
  <2>4. CASE s[k + 1] \in S
    <3>. DEFINE v == f[k] x == s[k + 1]
    <3>1. v \in Seq(T) /\ x \in T /\ f[k + 1] = Append(v, x)
      BY <2>1, <2>2, <2>4
    <3>2. Append(v, x) \in Seq(T) /\ Elements(Append(v, x)) = Elements(v) \cup {x}
      <4>. HIDE DEF v, x
      <4>. QED BY <3>1
    <3>. QED BY <2>1, <2>3, <2>4, <3>1, <3>2
  <2>5. CASE s[k + 1] \notin S
    BY <2>1, <2>2, <2>3, <2>5
  <2>. QED BY <2>4, <2>5
<1>4. Nat \subseteq N
  <2>. HIDE DEF N
  <2>. QED BY <1>2, <1>3, NaturalsByInduction
<1>5. Good(Len(s))
  <2>. HIDE DEF Good
  <2>. QED BY <1>0, <1>4
<1>6. Within(s, S) \in Seq(T) /\ Elements(Within(s, S)) = S \cap {s[i] : i \in 1..Len(s)}
  BY <1>1, <1>5
<1>. QED BY <1>6

(* What a sequence without repetitions keeps is without repetitions.       *)
OneToOne(s) == \A i, j \in 1..Len(s) : s[i] = s[j] => i = j

LEMMA WithinOneToOne ==
  ASSUME NEW T, NEW s \in Seq(T), NEW S, OneToOne(s)
  PROVE  OneToOne(Within(s, S))
<1>1. PICK f : /\ Within(s, S) = f[Len(s)] /\ f[0] = <<>>
               /\ \A k \in 1..Len(s) :
                    f[k] = IF s[k] \in S THEN Append(f[k - 1], s[k]) ELSE f[k - 1]
  BY WithinRuns
<1>. DEFINE Good(k) == /\ f[k] \in Seq(T) /\ OneToOne(f[k])
                       /\ \A i \in 1..Len(f[k]) : \E j \in 1..k : f[k][i] = s[j]
            N == {k \in Nat : k <= Len(s) => Good(k)}
<1>0. Len(s) \in Nat
  OBVIOUS
<1>2. 0 \in N
  <2>1. f[0] \in Seq(T) /\ Len(f[0]) = 0
    BY <1>1
  <2>2. Good(0)
    BY <2>1 DEF OneToOne
  <2>. HIDE DEF Good
  <2>. QED BY <2>2
<1>3. ASSUME NEW k \in Nat, k \in N PROVE k + 1 \in N
  <2>. SUFFICES ASSUME k + 1 <= Len(s) PROVE Good(k + 1)
    <3>. HIDE DEF Good
    <3>. QED OBVIOUS
  <2>. DEFINE v == f[k]  x == s[k + 1]  w == f[k + 1]
  <2>1. k + 1 \in 1..Len(s) /\ (k + 1) - 1 = k /\ Good(k) /\ x \in T
    <3>1. k <= Len(s)  BY <1>0
    <3>2. Good(k)
      <4>. HIDE DEF Good
      <4>. QED BY <1>3, <3>1
    <3>. HIDE DEF Good
    <3>. QED BY <1>0, <3>2
  <2>2. w = IF x \in S THEN Append(v, x) ELSE v
    BY <1>1, <2>1
  <2>3. /\ v \in Seq(T) /\ OneToOne(v)
        /\ \A i \in 1..Len(v) : \E j \in 1..k : v[i] = s[j]
    BY <2>1
  <2>4. \A i \in 1..Len(v) : v[i] # x
    <3>1. \A j \in 1..k : j \in 1..Len(s) /\ j # k + 1
      BY <1>0, <2>1
    <3>2. \A j \in 1..k : s[j] # x
      BY <2>1, <3>1 DEF OneToOne
    <3>. QED BY <2>3, <3>2
  <2>5. \A j \in 1..k : j \in 1..k + 1
    OBVIOUS
  <2>6. k + 1 \in 1..k + 1
    OBVIOUS
  <2>. HIDE DEF v, w
  <2>7. CASE x \in S
    <3>. DEFINE m == Len(v)
    <3>1. /\ w \in Seq(T) /\ m \in Nat /\ Len(w) = m + 1
          /\ w[m + 1] = x /\ \A i \in 1..m : w[i] = v[i]
      BY <2>1, <2>2, <2>3, <2>7
    <3>2. \A i \in 1..m + 1 : i \in 1..m \/ i = m + 1
      BY <3>1
    <3>. HIDE DEF m, x
    <3>3. OneToOne(w)
      <4>1. \A i, j \in 1..m : v[i] = v[j] => i = j
        BY <2>3 DEF OneToOne, m
      <4>2. \A i \in 1..m : v[i] # x
        BY <2>4 DEF m
      <4>3. ASSUME NEW i \in 1..m + 1, NEW j \in 1..m + 1, w[i] = w[j] PROVE i = j
        BY <3>1, <3>2, <4>1, <4>2, <4>3
      <4>. QED BY <3>1, <4>3 DEF OneToOne
    <3>4. \A i \in 1..m + 1 : \E j \in 1..k + 1 : w[i] = s[j]
      <4>1. \A i \in 1..m : \E j \in 1..k : v[i] = s[j]
        BY <2>3 DEF m
      <4>. QED BY <2>5, <2>6, <3>1, <3>2, <4>1 DEF x
    <3>. QED BY <3>1, <3>3, <3>4 DEF w
  <2>8. CASE x \notin S
    <3>1. w = v
      BY <2>2, <2>8
    <3>. QED BY <2>3, <2>5, <3>1 DEF w
  <2>. QED BY <2>7, <2>8
<1>4. Nat \subseteq N
  <2>. HIDE DEF N
  <2>. QED BY <1>2, <1>3, NaturalsByInduction
<1>5. Good(Len(s))
  <2>. HIDE DEF Good
  <2>. QED BY <1>0, <1>4
<1>. QED BY <1>1, <1>5
==============================================================================
