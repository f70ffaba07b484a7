----------------------------- MODULE FoldFacts -----------------------------
(***************************************************************************)
(* Facts about the folds of the library that the proofs about components     *)
(* share: where FoldLeft leads when a sequence gets one element more, what   *)
(* a sum is, and what FlattenSeq puts together.  A fold is a recursive       *)
(* function over sets of indices, taken with CHOOSE, so each part starts by  *)
(* showing that there is one and that nothing else is one; induction is said *)
(* for a set of numbers, of sequences or of subsets.                         *)
(***************************************************************************)
EXTENDS Integers, Sequences, FiniteSets, SequencesExt, Functions, TLAPS, SequenceTheorems,
        FiniteSetTheorems, WellFoundedInduction, NaturalsInduction

-----------------------------------------------------------------------------
(* Induction, for a set.                                                    *)

\* Induction over the numbers, for a set of them.
LEMMA Counting ==
  ASSUME NEW Good \in SUBSET Nat, 0 \in Good, \A n \in Good : n + 1 \in Good
  PROVE  Good = Nat
<1> SUFFICES ASSUME Good # Nat PROVE FALSE
  OBVIOUS
<1> DEFINE Bad == Nat \ Good
<1>1. PICK m \in Bad : \A k \in Bad : <<k, m>> \notin OpToRel(<, Nat)
  <2>1. Bad # {} /\ Bad \subseteq Nat
    OBVIOUS
  <2> QED BY <2>1, WFMin, NatLessThanWellFounded, Zenon
<1>2. \A k \in Bad : ~(k < m)
  BY <1>1, Zenon DEF OpToRel
<1>3. m # 0 /\ m \in Nat /\ m - 1 \in Nat /\ m - 1 < m
  OBVIOUS
<1>4. m - 1 \in Good
  BY <1>2, <1>3
<1>5. (m - 1) + 1 = m
  BY <1>3
<1> QED BY <1>4, <1>5

\* What holds of the empty sequence and of one more element holds of every sequence.
LEMMA Appending ==
  ASSUME NEW B, NEW Good \in SUBSET Seq(B), <<>> \in Good,
         \A s \in Good, x \in B : Append(s, x) \in Good
  PROVE  Good = Seq(B)
<1> DEFINE Long(n) == \A s \in Seq(B) : Len(s) = n => s \in Good
           Ns == {n \in Nat : Long(n)}
<1>1. Long(0)
  OBVIOUS
<1>2. ASSUME NEW n \in Nat, Long(n) PROVE Long(n + 1)
  <2> SUFFICES ASSUME NEW s \in Seq(B), Len(s) = n + 1 PROVE s \in Good
    OBVIOUS
  <2> DEFINE r == [i \in 1..n |-> s[i]]
  <2>1. r \in Seq(B) /\ Len(r) = n /\ s[n + 1] \in B
    OBVIOUS
  <2>2. r \in Good
    BY <1>2, <2>1
  <2>3. s = Append(r, s[n + 1])
    OBVIOUS
  <2> HIDE DEF r
  <2> QED BY <2>1, <2>2, <2>3
<1>3. Ns = Nat
  <2>1. Ns \in SUBSET Nat /\ 0 \in Ns /\ \A n \in Ns : n + 1 \in Ns
    <3> HIDE DEF Long
    <3> QED BY <1>1, <1>2
  <2> HIDE DEF Ns
  <2> QED BY <2>1, Counting
<1>4. ASSUME NEW s \in Seq(B) PROVE s \in Good
  <2>1. Len(s) \in Ns
    <3> HIDE DEF Ns
    <3> QED BY <1>3
  <2> QED BY <2>1
<1> QED BY <1>4

\* Induction over the subsets of a finite set, for a set of them.
LEMMA Growing ==
  ASSUME NEW T, IsFiniteSet(T), NEW Good \in SUBSET SUBSET T, {} \in Good,
         \A s \in SUBSET T : \A x \in s : s \ {x} \in Good => s \in Good
  PROVE  T \in Good
<1> DEFINE Sizes == {n \in Nat : \A s \in SUBSET T : Cardinality(s) = n => s \in Good}
<1>1. \A s \in SUBSET T : IsFiniteSet(s) /\ Cardinality(s) \in Nat
  BY FS_Subset, FS_CardinalityType
<1>2. 0 \in Sizes
  BY <1>1, FS_EmptySet
<1>3. \A n \in Sizes : n + 1 \in Sizes
  <2> SUFFICES ASSUME NEW n \in Sizes, NEW s \in SUBSET T, Cardinality(s) = n + 1
               PROVE  s \in Good
    OBVIOUS
  <2>1. s # {}
    <3>1. Cardinality({}) = 0 /\ n + 1 # 0
      BY FS_EmptySet
    <3> QED BY <3>1
  <2>2. PICK x \in s : TRUE
    BY <2>1
  <2>3. IsFiniteSet(s) /\ x \in s
    BY <1>1, <2>2
  <2>4. Cardinality(s \ {x}) = Cardinality(s) - 1
    BY <2>3, FS_RemoveElement
  <2>5. Cardinality(s \ {x}) = n /\ n \in Nat
    BY <2>4
  <2> QED BY <2>3, <2>5
<1>4. Sizes = Nat
  <2> HIDE DEF Sizes
  <2>1. Sizes \in SUBSET Nat
    BY DEF Sizes
  <2> QED BY <2>1, <1>2, <1>3, Counting
<1> QED BY <1>1, <1>4

-----------------------------------------------------------------------------
(* Folds over sequences.                                                    *)

\* A set of indices that is not empty has a greatest one.
LEMMA Highest ==
  ASSUME NEW n \in Nat, NEW t \in SUBSET (1..n), t # {}
  PROVE  Max(t) \in t /\ \A y \in t : Max(t) >= y
<1> DEFINE Tops(m) == \A u \in SUBSET (1..m) : u # {} => \E x \in u : \A y \in u : x >= y
           Good == {m \in Nat : Tops(m)}
<1>1. Tops(0)
  <2>1. \A u \in SUBSET (1..0) : u = {}
    OBVIOUS
  <2> QED BY <2>1
<1>2. ASSUME NEW m \in Nat, Tops(m) PROVE Tops(m + 1)
  <2>1. ASSUME NEW u \in SUBSET (1..(m + 1)), u # {}
        PROVE  \E x \in u : \A y \in u : x >= y
    <3>1. CASE m + 1 \in u
      BY <3>1
    <3>2. CASE m + 1 \notin u
      <4>1. u \in SUBSET (1..m)
        BY <3>2
      <4> QED BY <4>1, <2>1, <1>2
    <3> QED BY <3>1, <3>2
  <2> QED BY <2>1
<1>3. Tops(n)
  <2> HIDE DEF Tops
  <2>1. Good \in SUBSET Nat /\ 0 \in Good /\ \A m \in Good : m + 1 \in Good
    BY <1>1, <1>2
  <2>2. Good = Nat
    <3> HIDE DEF Good
    <3> QED BY <2>1, Counting
  <2> QED BY <2>2
<1>4. \E x \in t : \A y \in t : x >= y
  BY <1>3
<1> QED BY <1>4 DEF Max

\* g takes each set of the indices of s to what the steps f make of a, going up in the set.
Climbs(g, f, a, s) ==
  \A t \in SUBSET DOMAIN s : g[t] = IF t = {} THEN a ELSE f[<<g[t \ {Max(t)}], s[Max(t)]>>]

\* There is such a function.
LEMMA Climbing ==
  ASSUME NEW A, NEW B, NEW f \in [A \X B -> A], NEW a \in A, NEW s \in Seq(B)
  PROVE  \E g \in [SUBSET DOMAIN s -> A] : Climbs(g, f, a, s)
<1> DEFINE Up(g, m) == \A t \in SUBSET (1..m) : g[t] = IF t = {} THEN a ELSE f[<<g[t \ {Max(t)}], s[Max(t)]>>]
           Far(m) == m <= Len(s) => \E g \in [SUBSET (1..m) -> A] : Up(g, m)
           Good == {m \in Nat : Far(m)}
<1>0. Len(s) \in Nat /\ DOMAIN s = 1..Len(s) /\ \A i \in 1..Len(s) : s[i] \in B
  OBVIOUS
<1>1. Far(0)
  <2> DEFINE g == [t \in SUBSET (1..0) |-> a]
  <2>1. g \in [SUBSET (1..0) -> A] /\ Up(g, 0)
    <3>1. \A t \in SUBSET (1..0) : t = {}
      OBVIOUS
    <3> QED BY <3>1
  <2> QED BY <2>1
<1>2. ASSUME NEW m \in Nat, Far(m) PROVE Far(m + 1)
  <2> SUFFICES ASSUME m + 1 <= Len(s) PROVE \E g \in [SUBSET (1..(m + 1)) -> A] : Up(g, m + 1)
    OBVIOUS
  <2>1. PICK g \in [SUBSET (1..m) -> A] : Up(g, m)
    <3>1. m <= Len(s)
      BY <1>0
    <3> QED BY <3>1, <1>2
  <2>0. m \in Nat /\ m + 1 \in Nat /\ m + 1 \in 1..Len(s)
    BY <1>0
  <2> DEFINE h == [t \in SUBSET (1..(m + 1)) |->
                     IF m + 1 \in t THEN f[<<g[t \ {m + 1}], s[m + 1]>>] ELSE g[t]]
  <2>2. ASSUME NEW t \in SUBSET (1..(m + 1))
        PROVE  /\ t \ {m + 1} \in SUBSET (1..m)
               /\ m + 1 \in t => Max(t) = m + 1
               /\ m + 1 \notin t => t \in SUBSET (1..m)
    <3>1. t \ {m + 1} \in SUBSET (1..m) /\ (m + 1 \notin t => t \in SUBSET (1..m))
      BY <2>0
    <3>2. ASSUME m + 1 \in t PROVE Max(t) = m + 1
      <4>1. Max(t) \in t /\ Max(t) >= m + 1
        BY <2>0, <3>2, Highest
      <4>2. Max(t) \in 1..(m + 1)
        BY <4>1
      <4> QED BY <2>0, <4>1, <4>2
    <3> QED BY <3>1, <3>2
  <2>3. h \in [SUBSET (1..(m + 1)) -> A]
    <3>1. s[m + 1] \in B
      BY <1>0, <2>0
    <3>2. ASSUME NEW t \in SUBSET (1..(m + 1))
          PROVE  (IF m + 1 \in t THEN f[<<g[t \ {m + 1}], s[m + 1]>>] ELSE g[t]) \in A
      <4>1. t \ {m + 1} \in SUBSET (1..m) /\ (m + 1 \notin t => t \in SUBSET (1..m))
        BY <2>2
      <4>2. g[t \ {m + 1}] \in A
        BY <4>1
      <4> QED BY <3>1, <4>1, <4>2
    <3> QED BY <3>2
  <2>4. \A t \in SUBSET (1..m) : t \in SUBSET (1..(m + 1)) /\ h[t] = g[t]
    BY <2>0
  <2>5. ASSUME NEW t \in SUBSET (1..(m + 1))
        PROVE  h[t] = IF t = {} THEN a ELSE f[<<h[t \ {Max(t)}], s[Max(t)]>>]
    <3>1. CASE m + 1 \in t
      <4>1. h[t] = f[<<g[t \ {m + 1}], s[m + 1]>>]
        BY <3>1
      <4>2. h[t \ {m + 1}] = g[t \ {m + 1}] /\ Max(t) = m + 1
        BY <2>2, <2>4, <3>1
      <4> HIDE DEF h
      <4> QED BY <3>1, <4>1, <4>2
    <3>2. CASE m + 1 \notin t
      <4>1. t \in SUBSET (1..m) /\ h[t] = g[t]
        BY <2>2, <3>2
      <4>2. g[t] = IF t = {} THEN a ELSE f[<<g[t \ {Max(t)}], s[Max(t)]>>]
        BY <2>1, <4>1
      <4>3. t \ {Max(t)} \in SUBSET (1..m)
        BY <4>1
      <4>4. h[t \ {Max(t)}] = g[t \ {Max(t)}]
        BY <4>3, <2>4
      <4> HIDE DEF h
      <4> QED BY <4>1, <4>2, <4>4
    <3> QED BY <3>1, <3>2
  <2> HIDE DEF h
  <2>6. Up(h, m + 1)
    BY <2>5
  <2> QED BY <2>3, <2>6
<1>3. Far(Len(s))
  <2> HIDE DEF Far
  <2>1. Good \in SUBSET Nat /\ 0 \in Good /\ \A m \in Good : m + 1 \in Good
    BY <1>1, <1>2
  <2>2. Good = Nat
    <3> HIDE DEF Good
    <3> QED BY <2>1, Counting
  <2> QED BY <1>0, <2>2
<1>4. \E g \in [SUBSET (1..Len(s)) -> A] : Up(g, Len(s))
  <2>1. Len(s) <= Len(s)
    BY <1>0
  <2> HIDE DEF Up
  <2> QED BY <1>3, <2>1
<1> QED BY <1>0, <1>4 DEF Climbs

\* What a climb needs, and what it is.
FoldSteps(A, B, f, a) == f \in [A \X B -> A] /\ a \in A
Ground(A, B, f, a, s) == FoldSteps(A, B, f, a) /\ s \in Seq(B)
Climb(g, A, f, a, s) == g \in [SUBSET DOMAIN s -> A] /\ Climbs(g, f, a, s)

\* h climbs the first n of s as long as it stays in A.
Starts(h, A, f, a, s, n) ==
  /\ h[{}] = a
  /\ \A t \in SUBSET (1..n) : t # {} /\ h[t \ {Max(t)}] \in A =>
       h[t] = f[<<h[t \ {Max(t)}], s[Max(t)]>>]

\* Whatever climbs as long as it stays in A is the climb, on the indices of a prefix too.
LEMMA OneWayUp ==
  ASSUME NEW A, NEW B, NEW f, NEW a, NEW s, NEW h, NEW g, NEW n \in Nat, Ground(A, B, f, a, s),
         Climb(g, A, f, a, s), n <= Len(s), Starts(h, A, f, a, s, n)
  PROVE  \A t \in SUBSET (1..n) : h[t] = g[t]
<1> USE DEF FoldSteps, Ground, Climb, Starts
<1>0. Len(s) \in Nat /\ DOMAIN s = 1..Len(s) /\ \A t \in SUBSET (1..n) : t \in SUBSET DOMAIN s
  OBVIOUS
<1> DEFINE Same(m) == m <= n => \A t \in SUBSET (1..m) : h[t] = g[t]
           Good == {m \in Nat : Same(m)}
<1>1. Same(0)
  <2>1. \A t \in SUBSET (1..0) : t = {}
    OBVIOUS
  <2>2. g[{}] = a
    BY DEF Climbs
  <2> QED BY <2>1, <2>2
<1>2. ASSUME NEW m \in Nat, Same(m) PROVE Same(m + 1)
  <2> SUFFICES ASSUME m + 1 <= n, NEW t \in SUBSET (1..(m + 1)) PROVE h[t] = g[t]
    OBVIOUS
  <2>1. \A u \in SUBSET (1..m) : h[u] = g[u]
    <3>1. m <= n
      OBVIOUS
    <3> QED BY <1>2, <3>1
  <2>2. CASE t \in SUBSET (1..m)
    BY <2>1, <2>2
  <2>3. CASE t \notin SUBSET (1..m)
    <3>1. m + 1 \in t /\ t \in SUBSET (1..n) /\ m + 1 \in Nat
      BY <2>3
    <3>2. Max(t) \in t /\ Max(t) >= m + 1
      BY <3>1, Highest
    <3>3. Max(t) = m + 1
      <4>1. Max(t) \in 1..(m + 1)
        BY <3>2
      <4> QED BY <3>1, <3>2, <4>1
    <3>4. t \ {Max(t)} \in SUBSET (1..m)
      BY <3>3
    <3>5. h[t \ {Max(t)}] = g[t \ {Max(t)}] /\ t \ {Max(t)} \in SUBSET DOMAIN s
      BY <1>0, <2>1, <3>1, <3>4
    <3>6. h[t] = f[<<h[t \ {Max(t)}], s[Max(t)]>>]
      BY <3>1, <3>5
    <3>7. g[t] = f[<<g[t \ {Max(t)}], s[Max(t)]>>]
      BY <1>0, <3>1 DEF Climbs
    <3> QED BY <3>5, <3>6, <3>7
  <2> QED BY <2>2, <2>3
<1>3. Same(n)
  <2> HIDE DEF Same
  <2>1. Good \in SUBSET Nat /\ 0 \in Good /\ \A m \in Good : m + 1 \in Good
    BY <1>1, <1>2
  <2>2. Good = Nat
    <3> HIDE DEF Good
    <3> QED BY <2>1, Counting
  <2>3. n \in Good
    <3> HIDE DEF Good
    <3> QED BY <2>2
  <2> QED BY <2>3
<1> QED BY <1>3

\* Where the steps f lead from a along s.
Led(A, f, a, s) == (CHOOSE g \in [SUBSET DOMAIN s -> A] : Climbs(g, f, a, s))[DOMAIN s]

\* They lead from a to a, and one step further with each element.
LEMMA LedOn ==
  ASSUME NEW A, NEW B, NEW f, NEW a, FoldSteps(A, B, f, a)
  PROVE  /\ Led(A, f, a, <<>>) = a
         /\ \A s \in Seq(B) : Led(A, f, a, s) \in A
         /\ \A s \in Seq(B), x \in B : Led(A, f, a, Append(s, x)) = f[<<Led(A, f, a, s), x>>]
<1>0. f \in [A \X B -> A] /\ a \in A
  BY DEF FoldSteps
<1> DEFINE way(s) == CHOOSE g \in [SUBSET DOMAIN s -> A] : Climbs(g, f, a, s)
<1>1. ASSUME NEW s \in Seq(B)
      PROVE  /\ way(s) \in [SUBSET DOMAIN s -> A]
             /\ Climbs(way(s), f, a, s)
             /\ Led(A, f, a, s) = way(s)[DOMAIN s]
    BY <1>0, Climbing DEF Led
<1> HIDE DEF way
<1>2. Led(A, f, a, <<>>) = a
  <2>1. <<>> \in Seq(B) /\ DOMAIN <<>> = {}
    OBVIOUS
  <2>2. way(<<>>)[{}] = a
    BY <1>1, <2>1 DEF Climbs
  <2> QED BY <1>1, <2>1, <2>2
<1>3. ASSUME NEW s \in Seq(B) PROVE Led(A, f, a, s) \in A
  <2>1. DOMAIN s \in SUBSET DOMAIN s
    OBVIOUS
  <2>2. way(s) \in [SUBSET DOMAIN s -> A] /\ Led(A, f, a, s) = way(s)[DOMAIN s]
    BY <1>1
  <2> QED BY <2>1, <2>2
<1>4. ASSUME NEW s \in Seq(B), NEW x \in B
      PROVE  Led(A, f, a, Append(s, x)) = f[<<Led(A, f, a, s), x>>]
  <2> DEFINE u == Append(s, x)
             n == Len(s)
  <2>1. /\ u \in Seq(B) /\ Len(u) = n + 1 /\ n \in Nat
        /\ DOMAIN u = 1..(n + 1) /\ DOMAIN s = 1..n
        /\ u[n + 1] = x /\ \A i \in 1..n : u[i] = s[i]
    BY AppendProperties
  <2> HIDE DEF u, n
  <2>2. way(u) \in [SUBSET (1..(n + 1)) -> A] /\ Climbs(way(u), f, a, u)
    BY <1>1, <2>1
  <2>3. \A t \in SUBSET (1..n) : t # {} /\ way(u)[t \ {Max(t)}] \in A =>
          way(u)[t] = f[<<way(u)[t \ {Max(t)}], s[Max(t)]>>]
    <3> SUFFICES ASSUME NEW t \in SUBSET (1..n), t # {}
                 PROVE  way(u)[t] = f[<<way(u)[t \ {Max(t)}], s[Max(t)]>>]
      OBVIOUS
    <3>1. t \in SUBSET DOMAIN u
      BY <2>1
    <3>2. way(u)[t] = f[<<way(u)[t \ {Max(t)}], u[Max(t)]>>]
      BY <2>2, <3>1 DEF Climbs
    <3>3. Max(t) \in 1..n
      BY <2>1, Highest
    <3> QED BY <2>1, <3>2, <3>3
  <2>4. way(u)[{}] = a
    BY <2>1, <2>2 DEF Climbs
  <2>5. \A t \in SUBSET (1..n) : way(u)[t] = way(s)[t]
    <3>1. n <= Len(s) /\ way(s) \in [SUBSET DOMAIN s -> A] /\ Climbs(way(s), f, a, s)
      <4>1. n <= Len(s)
        BY <2>1 DEF n
      <4> QED BY <1>1, <4>1
    <3>2. PICK h : h = way(u)
      OBVIOUS
    <3>3. PICK g : g = way(s)
      OBVIOUS
    <3>4. Climb(g, A, f, a, s) /\ Starts(h, A, f, a, s, n) /\ Ground(A, B, f, a, s)
      BY <2>3, <2>4, <3>1, <3>2, <3>3 DEF Starts, Climb, Ground
    <3>5. \A t \in SUBSET (1..n) : h[t] = g[t]
      <4>1. n \in Nat /\ n <= Len(s)
        BY <2>1, <3>1
      <4> QED BY <3>4, <4>1, OneWayUp
    <3> QED BY <3>2, <3>3, <3>5
  <2>6. way(u)[1..(n + 1)] = f[<<way(u)[1..n], x>>]
    <3>1. 1..(n + 1) \in SUBSET DOMAIN u /\ 1..(n + 1) # {}
      <4>1. DOMAIN u = 1..(n + 1) /\ n \in Nat
        BY <2>1
      <4>2. n + 1 \in 1..(n + 1)
        BY <4>1
      <4> QED BY ONLY <4>1, <4>2
    <3>2. Max(1..(n + 1)) = n + 1
      <4>1. Max(1..(n + 1)) \in 1..(n + 1) /\ Max(1..(n + 1)) >= n + 1
        <5>1. n + 1 \in Nat /\ 1..(n + 1) \in SUBSET (1..(n + 1)) /\ n + 1 \in 1..(n + 1)
          BY <2>1
        <5> QED BY <3>1, <5>1, Highest
      <4> QED BY <2>1, <4>1
    <3>3. (1..(n + 1)) \ {n + 1} = 1..n
      BY <2>1
    <3>4. way(u)[1..(n + 1)] = f[<<way(u)[(1..(n + 1)) \ {Max(1..(n + 1))}], u[Max(1..(n + 1))]>>]
      BY <2>2, <3>1 DEF Climbs
    <3> QED BY <2>1, <3>2, <3>3, <3>4
  <2>7. Led(A, f, a, u) = way(u)[1..(n + 1)] /\ Led(A, f, a, s) = way(s)[1..n]
    BY <1>1, <2>1
  <2>8. 1..n \in SUBSET (1..n)
    OBVIOUS
  <2> QED BY <2>5, <2>6, <2>7, <2>8 DEF u
<1> QED BY <1>2, <1>3, <1>4

\* A value that FoldLeft could have built its result with, given its steps.
LEMMA FoundWay ==
  ASSUME NEW A, NEW B, NEW f, NEW a, NEW s, Ground(A, B, f, a, s), NEW h,
         Starts(h, A, f, a, s, Len(s))
  PROVE  h[DOMAIN s] = Led(A, f, a, s)
<1>1. PICK g : g = CHOOSE w \in [SUBSET DOMAIN s -> A] : Climbs(w, f, a, s)
  OBVIOUS
<1>2. Climb(g, A, f, a, s)
  <2>1. \E w \in [SUBSET DOMAIN s -> A] : Climbs(w, f, a, s)
    BY Climbing DEF Ground, FoldSteps
  <2> QED BY <1>1, <2>1 DEF Climb
<1>3. Len(s) \in Nat /\ Len(s) <= Len(s) /\ DOMAIN s = 1..Len(s)
  BY DEF Ground
<1>4. \A t \in SUBSET (1..Len(s)) : h[t] = g[t]
  BY <1>2, <1>3, OneWayUp
<1>5. DOMAIN s \in SUBSET (1..Len(s))
  BY <1>3
<1> QED BY <1>1, <1>4, <1>5 DEF Led

-----------------------------------------------------------------------------
(* Sums: what SumFunction adds up.                                          *)
Chosen(s) == CHOOSE x \in s : TRUE

\* g adds up f over the sets of S.
AddsUp(g, f, S) == \A s \in S : g[s] = IF s = {} THEN 0 ELSE f[Chosen(s)] + g[s \ {Chosen(s)}]

\* The recursive function SumFunction(f) takes its value from.
Adder(f, T) ==
  CHOOSE iter : iter = [s \in SUBSET T |-> IF s = {} THEN 0
                                          ELSE f[CHOOSE x \in s : TRUE]
                                               + iter[s \ {CHOOSE x \in s : TRUE}]]

LEMMA SumIsAdder ==
  ASSUME NEW f
  PROVE  SumFunction(f) = Adder(f, DOMAIN f)[DOMAIN f]
BY DEF SumFunction, SumFunctionOnSet, FoldFunctionOnSet, MapThenFoldSet, Adder

\* There is such a function.
LEMMA AdderExists ==
  ASSUME NEW T, IsFiniteSet(T), NEW f \in [T -> Int]
  PROVE  /\ Adder(f, T) \in [SUBSET T -> Int]
         /\ AddsUp(Adder(f, T), f, SUBSET T)
<1> DEFINE Small(n) == {s \in SUBSET T : Cardinality(s) <= n}
           Sizes == {n \in Nat : \E g \in [Small(n) -> Int] : AddsUp(g, f, Small(n))}
<1>1. \A s \in SUBSET T : IsFiniteSet(s) /\ Cardinality(s) \in Nat
  BY FS_Subset, FS_CardinalityType
<1>2. 0 \in Sizes
  <2> DEFINE g == [s \in Small(0) |-> 0]
  <2>1. \A s \in Small(0) : s = {}
    BY <1>1, FS_EmptySet
  <2>2. g \in [Small(0) -> Int] /\ AddsUp(g, f, Small(0))
    BY <2>1 DEF AddsUp
  <2> QED BY <2>2
<1>3. \A n \in Sizes : n + 1 \in Sizes
  <2> SUFFICES ASSUME NEW n \in Sizes PROVE n + 1 \in Sizes
    OBVIOUS
  <2>1. PICK g \in [Small(n) -> Int] : AddsUp(g, f, Small(n))
    OBVIOUS
  <2> DEFINE h == [s \in Small(n + 1) |->
                     IF s = {} THEN 0 ELSE f[Chosen(s)] + g[s \ {Chosen(s)}]]
  <2>2. \A s \in Small(n + 1) : s # {} => /\ Chosen(s) \in s /\ Chosen(s) \in T
                                          /\ s \ {Chosen(s)} \in Small(n)
    <3> SUFFICES ASSUME NEW s \in Small(n + 1), s # {}
                 PROVE  /\ Chosen(s) \in s /\ Chosen(s) \in T
                        /\ s \ {Chosen(s)} \in Small(n)
      OBVIOUS
    <3>1. Chosen(s) \in s
      BY DEF Chosen
    <3>2. Cardinality(s \ {Chosen(s)}) = Cardinality(s) - 1
      BY <3>1, <1>1, FS_RemoveElement
    <3> QED BY <3>1, <3>2, <1>1
  <2>3. \A s \in Small(n) : s \in Small(n + 1) /\ h[s] = g[s]
    <3> SUFFICES ASSUME NEW s \in Small(n) PROVE s \in Small(n + 1) /\ h[s] = g[s]
      OBVIOUS
    <3>1. s \in Small(n + 1)
      BY <1>1
    <3>2. h[s] = IF s = {} THEN 0 ELSE f[Chosen(s)] + g[s \ {Chosen(s)}]
      BY <3>1
    <3> QED BY <3>1, <3>2, <2>1 DEF AddsUp
  <2>4. h \in [Small(n + 1) -> Int]
    <3> SUFFICES ASSUME NEW s \in Small(n + 1), s # {}
                 PROVE  f[Chosen(s)] + g[s \ {Chosen(s)}] \in Int
      OBVIOUS
    <3>1. f[Chosen(s)] \in Int /\ g[s \ {Chosen(s)}] \in Int
      BY <2>2
    <3> QED BY <3>1
  <2>5. AddsUp(h, f, Small(n + 1))
    <3> SUFFICES ASSUME NEW s \in Small(n + 1)
                 PROVE  h[s] = IF s = {} THEN 0 ELSE f[Chosen(s)] + h[s \ {Chosen(s)}]
      BY DEF AddsUp
    <3>1. h[s] = IF s = {} THEN 0 ELSE f[Chosen(s)] + g[s \ {Chosen(s)}]
      OBVIOUS
    <3>2. s # {} => h[s \ {Chosen(s)}] = g[s \ {Chosen(s)}]
      BY <2>2, <2>3
    <3> QED BY <3>1, <3>2
  <2> HIDE DEF h
  <2>6. n + 1 \in Nat /\ \E e \in [Small(n + 1) -> Int] : AddsUp(e, f, Small(n + 1))
    <3> HIDE DEF Small
    <3> QED BY <2>4, <2>5
  <2> QED BY <2>6
<1>4. Sizes = Nat
  <2> HIDE DEF Sizes
  <2>1. Sizes \in SUBSET Nat
    BY DEF Sizes
  <2> QED BY <2>1, <1>2, <1>3, Counting
<1>5. PICK n \in Nat : n = Cardinality(T)
  BY FS_CardinalityType
<1>6. Small(n) = SUBSET T
  <2>1. \A s \in SUBSET T : Cardinality(s) <= n
    BY <1>5, FS_Subset
  <2> QED BY <2>1
<1>7. PICK g \in [SUBSET T -> Int] : AddsUp(g, f, SUBSET T)
  <2>1. n \in Sizes
    BY <1>4
  <2> QED BY <2>1, <1>6
<1>8. g = [s \in SUBSET T |-> IF s = {} THEN 0
                              ELSE f[CHOOSE x \in s : TRUE] + g[s \ {CHOOSE x \in s : TRUE}]]
  BY <1>7 DEF AddsUp, Chosen
<1> DEFINE a == Adder(f, T)
<1>9. a = [s \in SUBSET T |-> IF s = {} THEN 0
                              ELSE f[CHOOSE x \in s : TRUE] + a[s \ {CHOOSE x \in s : TRUE}]]
  BY <1>8 DEF Adder
<1> HIDE DEF a
<1>10. AddsUp(a, f, SUBSET T)
  <2> SUFFICES ASSUME NEW s \in SUBSET T
               PROVE  a[s] = IF s = {} THEN 0 ELSE f[Chosen(s)] + a[s \ {Chosen(s)}]
    BY DEF AddsUp
  <2> QED BY <1>9 DEF Chosen
<1>11. a \in [SUBSET T -> Int]
  <2>1. DOMAIN a = SUBSET T /\ a = [s \in SUBSET T |-> a[s]]
    BY <1>9
  <2> DEFINE Whole == {s \in SUBSET T : a[s] = g[s]}
             Levels == {k \in Nat : \A s \in Small(k) : a[s] = g[s]}
  <2>2. \A s \in SUBSET T : s # {} => Chosen(s) \in s
    BY DEF Chosen
  <2>3. 0 \in Levels
    <3>1. \A s \in Small(0) : s = {} /\ s \in SUBSET T
      BY <1>1, FS_EmptySet
    <3>2. \A s \in Small(0) : a[s] = 0 /\ g[s] = 0
      BY <3>1, <1>7, <1>10 DEF AddsUp
    <3> QED BY <3>2
  <2>4. \A k \in Levels : k + 1 \in Levels
    <3> SUFFICES ASSUME NEW k \in Levels, NEW s \in Small(k + 1) PROVE a[s] = g[s]
      OBVIOUS
    <3>1. CASE s = {}
      BY <3>1, <1>7, <1>10 DEF AddsUp
    <3>2. CASE s # {}
      <4>1. s \in SUBSET T
        OBVIOUS
      <4>2. Chosen(s) \in s
        BY <3>2, <2>2
      <4>3. Cardinality(s \ {Chosen(s)}) = Cardinality(s) - 1
        BY <4>2, <1>1, FS_RemoveElement
      <4>4. s \ {Chosen(s)} \in Small(k)
        BY <4>3, <1>1
      <4>5. a[s \ {Chosen(s)}] = g[s \ {Chosen(s)}]
        BY <4>4
      <4>6. a[s] = f[Chosen(s)] + a[s \ {Chosen(s)}] /\ g[s] = f[Chosen(s)] + g[s \ {Chosen(s)}]
        BY <4>1, <3>2, <1>7, <1>10 DEF AddsUp
      <4> QED BY <4>5, <4>6
    <3> QED BY <3>1, <3>2
  <2>5. Levels = Nat
    <3> HIDE DEF Levels
    <3>1. Levels \in SUBSET Nat
      BY DEF Levels
    <3> QED BY <3>1, <2>3, <2>4, Counting
  <2>6. \A s \in SUBSET T : a[s] = g[s]
    <3>1. n \in Levels
      BY <2>5
    <3> QED BY <3>1, <1>6
  <2> QED BY <2>1, <2>6
<1> QED BY <1>10, <1>11 DEF a

\* The sum over a set is a member's value and the sum over the others.
LEMMA AnyMemberFirst ==
  ASSUME NEW T, IsFiniteSet(T), NEW f \in [T -> Int], NEW s \in SUBSET T, NEW x \in s
  PROVE  Adder(f, T)[s] = f[x] + Adder(f, T)[s \ {x}]
<1> DEFINE a == Adder(f, T)
           Good == {u \in SUBSET T : \A y \in u : a[u] = f[y] + a[u \ {y}]}
           Sizes == {n \in Nat : \A u \in SUBSET T : Cardinality(u) = n => u \in Good}
<1>1. a \in [SUBSET T -> Int] /\ AddsUp(a, f, SUBSET T)
  BY AdderExists
<1> HIDE DEF a
<1>2. \A u \in SUBSET T : IsFiniteSet(u) /\ Cardinality(u) \in Nat
  BY FS_Subset, FS_CardinalityType
<1>3. 0 \in Sizes
  BY <1>2, FS_EmptySet
<1>4. \A n \in Sizes : n + 1 \in Sizes
  <2> SUFFICES ASSUME NEW n \in Sizes, NEW u \in SUBSET T, Cardinality(u) = n + 1, NEW y \in u
               PROVE  a[u] = f[y] + a[u \ {y}]
    <3> HIDE DEF Good
    <3>1. ASSUME NEW n \in Sizes, NEW u \in SUBSET T, Cardinality(u) = n + 1
          PROVE  u \in Good
      <4>1. \A y \in u : a[u] = f[y] + a[u \ {y}]
        BY <3>1
      <4> QED BY <4>1 DEF Good
    <3> QED BY <3>1
  <2> DEFINE c == Chosen(u)
  <2>1. c \in u
    BY DEF Chosen
  <2>2. a[u] = f[c] + a[u \ {c}]
    BY <1>1 DEF AddsUp
  <2> HIDE DEF c
  <2>3. CASE y = c
    BY <2>2, <2>3
  <2>4. CASE y # c
    <3>1. Cardinality(u \ {c}) = n /\ Cardinality(u \ {y}) = n
      BY <1>2, <2>1, FS_RemoveElement
    <3>2. u \ {c} \in Good /\ u \ {y} \in Good
      BY <3>1
    <3>3. a[u \ {c}] = f[y] + a[(u \ {c}) \ {y}]
      BY <3>2, <2>4
    <3>4. a[u \ {y}] = f[c] + a[(u \ {y}) \ {c}]
      BY <3>2, <2>1, <2>4
    <3>5. (u \ {c}) \ {y} = (u \ {y}) \ {c}
      OBVIOUS
    <3>6. (u \ {c}) \ {y} \in SUBSET T
      OBVIOUS
    <3>7. PICK r \in Int : r = a[(u \ {c}) \ {y}]
      BY <3>6, <1>1
    <3>8. f[c] \in Int /\ f[y] \in Int
      BY <2>1
    <3>9. a[u] = f[c] + (f[y] + r)
      BY <2>2, <3>3, <3>7
    <3>10. a[u \ {y}] = f[c] + r
      BY <3>4, <3>5, <3>7
    <3> HIDE DEF Good, Sizes
    <3> QED BY <3>8, <3>9, <3>10
  <2> QED BY <2>3, <2>4
<1>5. Sizes = Nat
  <2> HIDE DEF Sizes
  <2>1. Sizes \in SUBSET Nat
    BY DEF Sizes
  <2> QED BY <2>1, <1>3, <1>4, Counting
<1>6. s \in Good
  BY <1>2, <1>5
<1> QED BY <1>6 DEF a

-----------------------------------------------------------------------------
\* The sum of integers is one; it is a member's value and the sum over the others.
LEMMA SumSplits ==
  ASSUME NEW T, IsFiniteSet(T), NEW f \in [T -> Int]
  PROVE  /\ SumFunction(f) = Adder(f, T)[T]
         /\ \A s \in SUBSET T : Adder(f, T)[s] \in Int
         /\ Adder(f, T)[{}] = 0
         /\ \A s \in SUBSET T : \A x \in s : Adder(f, T)[s] = f[x] + Adder(f, T)[s \ {x}]
<1>1. DOMAIN f = T
  OBVIOUS
<1>2. SumFunction(f) = Adder(f, T)[T]
  BY <1>1, SumIsAdder
<1>3. Adder(f, T) \in [SUBSET T -> Int] /\ AddsUp(Adder(f, T), f, SUBSET T)
  BY AdderExists
<1>4. \A s \in SUBSET T : Adder(f, T)[s] \in Int
  BY <1>3
<1>5. Adder(f, T)[{}] = 0
  BY <1>3 DEF AddsUp
<1>6. \A s \in SUBSET T : \A x \in s : Adder(f, T)[s] = f[x] + Adder(f, T)[s \ {x}]
  BY AnyMemberFirst
<1> QED BY <1>2, <1>4, <1>5, <1>6

\* The sum of a constant.
LEMMA SumOfConstant ==
  ASSUME NEW T, IsFiniteSet(T), NEW f \in [T -> Int], NEW c \in Int, \A x \in T : f[x] = c
  PROVE  SumFunction(f) = Cardinality(T) * c
<1> DEFINE a == Adder(f, T)
           Good == {s \in SUBSET T : a[s] = Cardinality(s) * c}
<1>1. /\ SumFunction(f) = a[T]
      /\ \A s \in SUBSET T : a[s] \in Int
      /\ a[{}] = 0
      /\ \A s \in SUBSET T : \A x \in s : a[s] = f[x] + a[s \ {x}]
  BY SumSplits
<1> HIDE DEF a
<1>2. \A s \in SUBSET T : IsFiniteSet(s) /\ Cardinality(s) \in Nat
  BY FS_Subset, FS_CardinalityType
<1>3. {} \in Good
  BY <1>1, FS_EmptySet
<1>4. ASSUME NEW s \in SUBSET T, NEW x \in s, s \ {x} \in Good PROVE s \in Good
  <2>1. PICK n \in Nat : n = Cardinality(s \ {x})
    BY <1>2
  <2>2. Cardinality(s) = n + 1
    BY <1>2, <2>1, FS_RemoveElement
  <2>3. a[s \ {x}] = n * c
    BY <1>4, <2>1
  <2>4. a[s] = c + n * c
    BY <1>1, <2>3
  <2>5. (n + 1) * c = c + n * c
    OBVIOUS
  <2> QED BY <2>2, <2>4, <2>5
<1>5. T \in Good
  <2> HIDE DEF Good
  <2>1. Good \in SUBSET SUBSET T
    BY DEF Good
  <2> QED BY <2>1, <1>3, <1>4, Growing
<1> QED BY <1>1, <1>5

\* Functions that agree on a set have the same sum over it.
LEMMA SameSum ==
  ASSUME NEW T, IsFiniteSet(T), NEW f \in [T -> Int], NEW g \in [T -> Int],
         NEW U \in SUBSET T, \A x \in U : f[x] = g[x]
  PROVE  Adder(f, T)[U] = Adder(g, T)[U]
<1> DEFINE a == Adder(f, T)
           b == Adder(g, T)
           Good == {s \in SUBSET U : a[s] = b[s]}
<1>1. /\ \A s \in SUBSET T : a[s] \in Int
      /\ a[{}] = 0
      /\ \A s \in SUBSET T : \A x \in s : a[s] = f[x] + a[s \ {x}]
  BY SumSplits
<1>2. /\ \A s \in SUBSET T : b[s] \in Int
      /\ b[{}] = 0
      /\ \A s \in SUBSET T : \A x \in s : b[s] = g[x] + b[s \ {x}]
  BY SumSplits
<1> HIDE DEF a, b
<1>3. {} \in Good
  BY <1>1, <1>2
<1>4. ASSUME NEW s \in SUBSET U, NEW x \in s, s \ {x} \in Good PROVE s \in Good
  <2>1. s \in SUBSET T /\ x \in U
    OBVIOUS
  <2>2. a[s] = f[x] + a[s \ {x}] /\ b[s] = g[x] + b[s \ {x}]
    BY <1>1, <1>2, <2>1
  <2>3. a[s \ {x}] = b[s \ {x}]
    BY <1>4
  <2> QED BY <2>1, <2>2, <2>3
<1>5. U \in Good
  <2>1. IsFiniteSet(U)
    BY FS_Subset
  <2> HIDE DEF Good
  <2>2. Good \in SUBSET SUBSET U
    BY DEF Good
  <2> QED BY <2>1, <2>2, <1>3, <1>4, Growing
<1> QED BY <1>5 DEF a, b

-----------------------------------------------------------------------------
(* Lists put together.                                                      *)

\* f puts the first i of the lists s together, for each i up to n.
Joins(f, s, n) == f = [i \in 1..n |-> IF i = 1 THEN s[i] ELSE f[i - 1] \o s[i]]

\* There is one such f and no other.
LEMMA JoinsOnce ==
  ASSUME NEW B, NEW s \in Seq(Seq(B))
  PROVE  /\ \A n \in 1..Len(s) : \E f \in [1..n -> Seq(B)] : Joins(f, s, n)
         /\ \A n \in 1..Len(s) : \A f, g : Joins(f, s, n) /\ Joins(g, s, n) => f = g
<1>0. Len(s) \in Nat /\ \A i \in 1..Len(s) : s[i] \in Seq(B)
  OBVIOUS
<1> DEFINE Found(n) == n \in 1..Len(s) => \E f \in [1..n -> Seq(B)] : Joins(f, s, n)
           Good == {n \in Nat : Found(n)}
<1>1. Found(0)
  OBVIOUS
<1>2. ASSUME NEW n \in Nat, Found(n) PROVE Found(n + 1)
  <2>1. SUFFICES ASSUME n + 1 \in 1..Len(s) PROVE \E f \in [1..(n + 1) -> Seq(B)] : Joins(f, s, n + 1)
    OBVIOUS
  <2>2. s[n + 1] \in Seq(B)
    BY <1>0, <2>1
  <2>3. CASE n = 0
    <3> DEFINE f == [i \in 1..(n + 1) |-> s[i]]
    <3>1. \A i \in 1..(n + 1) : i = 1 /\ s[i] \in Seq(B)
      BY <1>0, <2>1, <2>3
    <3>2. f = [i \in 1..(n + 1) |-> IF i = 1 THEN s[i] ELSE f[i - 1] \o s[i]]
      BY <3>1
    <3>3. f \in [1..(n + 1) -> Seq(B)]
      BY <3>1
    <3> HIDE DEF f
    <3> QED
      BY <3>2, <3>3 DEF Joins
  <2>4. CASE n # 0
    <3>1. n \in 1..Len(s)
      BY <1>0, <2>1, <2>4
    <3>2. PICK g \in [1..n -> Seq(B)] : Joins(g, s, n)
      BY <1>2, <3>1
    <3> DEFINE f == [i \in 1..(n + 1) |-> IF i = n + 1 THEN g[n] \o s[n + 1] ELSE g[i]]
    <3>3. /\ \A i \in 1..(n + 1) : i = n + 1 \/ i \in 1..n
          /\ n \in 1..n /\ (n + 1) - 1 = n /\ n + 1 # 1 /\ n + 1 \notin 1..n
          /\ \A i \in 1..n : i \in 1..(n + 1) /\ i # n + 1
          /\ \A i \in 1..n : i # 1 => i - 1 \in 1..n
          /\ n + 1 \in 1..(n + 1)
      BY <2>4
    <3>4. g[n] \o s[n + 1] \in Seq(B)
      BY <2>2, <3>2, <3>3, ConcatProperties
    <3>5. f \in [1..(n + 1) -> Seq(B)]
      BY <3>2, <3>3, <3>4
    <3>6. f[n + 1] = g[n] \o s[n + 1] /\ \A i \in 1..n : f[i] = g[i]
      BY <3>3
    <3>7. \A i \in 1..n : g[i] = IF i = 1 THEN s[i] ELSE g[i - 1] \o s[i]
      BY <3>2 DEF Joins
    <3> HIDE DEF f
    <3>8. ASSUME NEW i \in 1..(n + 1) PROVE f[i] = IF i = 1 THEN s[i] ELSE f[i - 1] \o s[i]
      <4>1. CASE i = n + 1
        BY <3>3, <3>6, <4>1
      <4>2. CASE i \in 1..n
        BY <3>3, <3>6, <3>7, <4>2
      <4> QED
        BY <3>3, <4>1, <4>2
    <3>9. Joins(f, s, n + 1)
      BY <3>5, <3>8 DEF Joins
    <3> QED
      BY <3>5, <3>9
  <2> QED
    BY <2>3, <2>4
<1>3. Good \in SUBSET Nat /\ 0 \in Good /\ \A n \in Good : n + 1 \in Good
  <2> HIDE DEF Found
  <2> QED
    BY <1>1, <1>2
<1>4. \A n \in Nat : Found(n)
  <2> HIDE DEF Found
  <2>1. Good = Nat
    <3> HIDE DEF Good
    <3> QED
      BY <1>3, Counting
  <2> QED
    BY <2>1
<1>5. \A n \in 1..Len(s) : \E f \in [1..n -> Seq(B)] : Joins(f, s, n)
  BY <1>4
<1>6. ASSUME NEW n \in 1..Len(s), NEW f, NEW g, Joins(f, s, n), Joins(g, s, n)
      PROVE  f = g
  <2> DEFINE Same(i) == i \in 1..n => f[i] = g[i]
             Alike == {i \in Nat : Same(i)}
  <2>1. /\ \A i \in 1..n : f[i] = IF i = 1 THEN s[i] ELSE f[i - 1] \o s[i]
        /\ \A i \in 1..n : g[i] = IF i = 1 THEN s[i] ELSE g[i - 1] \o s[i]
        /\ f = [i \in 1..n |-> f[i]] /\ g = [i \in 1..n |-> g[i]]
    <3>1. /\ f = [i \in 1..n |-> IF i = 1 THEN s[i] ELSE f[i - 1] \o s[i]]
          /\ g = [i \in 1..n |-> IF i = 1 THEN s[i] ELSE g[i - 1] \o s[i]]
      BY <1>6 DEF Joins
    <3> QED
      BY <3>1
  <2>2. Same(0)
    OBVIOUS
  <2>3. ASSUME NEW i \in Nat, Same(i) PROVE Same(i + 1)
    <3>1. SUFFICES ASSUME i + 1 \in 1..n PROVE f[i + 1] = g[i + 1]
      OBVIOUS
    <3>4. /\ f[i + 1] = IF i + 1 = 1 THEN s[i + 1] ELSE f[(i + 1) - 1] \o s[i + 1]
          /\ g[i + 1] = IF i + 1 = 1 THEN s[i + 1] ELSE g[(i + 1) - 1] \o s[i + 1]
      <4> HIDE DEF Same
      <4> QED
        BY <2>1, <3>1
    <3>2. CASE i = 0
      BY <3>4, <3>2
    <3>3. CASE i # 0
      <4>1. i \in 1..n /\ i + 1 # 1 /\ (i + 1) - 1 = i
        BY <3>1, <3>3
      <4>2. f[i] = g[i]
        BY <2>3, <4>1
      <4>3. f[i + 1] = f[i] \o s[i + 1] /\ g[i + 1] = g[i] \o s[i + 1]
        BY <3>4, <4>1
      <4> QED
        BY <4>2, <4>3
    <3> QED
      BY <3>2, <3>3
  <2>4. Alike \in SUBSET Nat /\ 0 \in Alike /\ \A i \in Alike : i + 1 \in Alike
    <3> HIDE DEF Same
    <3> QED
      BY <2>2, <2>3
  <2>5. \A i \in Nat : Same(i)
    <3> HIDE DEF Same
    <3>1. Alike = Nat
      <4> HIDE DEF Alike
      <4> QED
        BY <2>4, Counting
    <3> QED
      BY <3>1
  <2>6. \A i \in 1..n : f[i] = g[i]
    BY <2>5
  <2> QED
    BY <2>1, <2>6
<1> QED
  BY <1>5, <1>6

\* FlattenSeq, one list at a time.
LEMMA Flattened ==
  ASSUME NEW B
  PROVE  /\ FlattenSeq(<<>>) = <<>>
         /\ \A s \in Seq(Seq(B)) : FlattenSeq(s) \in Seq(B)
         /\ \A s \in Seq(Seq(B)), x \in Seq(B) : FlattenSeq(Append(s, x)) = FlattenSeq(s) \o x
<1>1. FlattenSeq(<<>>) = <<>>
  BY DEF FlattenSeq
<1>2. ASSUME NEW s \in Seq(Seq(B)), Len(s) # 0
      PROVE  \E f \in [1..Len(s) -> Seq(B)] : Joins(f, s, Len(s)) /\ FlattenSeq(s) = f[Len(s)]
  <2> DEFINE n == Len(s)
             flatten == CHOOSE f : Joins(f, s, n)
  <2>1. n \in 1..n /\ n # 0
    BY <1>2
  <2>2. FlattenSeq(s) = flatten[n]
    BY <2>1 DEF FlattenSeq, Joins
  <2>3. PICK f \in [1..n -> Seq(B)] : Joins(f, s, n)
    BY <2>1, JoinsOnce
  <2>4. Joins(flatten, s, n)
    BY <2>3
  <2>5. flatten = f
    <3> HIDE DEF flatten
    <3> QED
      BY <2>1, <2>3, <2>4, JoinsOnce
  <2> QED
    BY <2>2, <2>3, <2>5
<1>3. ASSUME NEW s \in Seq(Seq(B)) PROVE FlattenSeq(s) \in Seq(B)
  <2>1. CASE Len(s) = 0
    <3>1. s = <<>> /\ <<>> \in Seq(B)
      BY <2>1
    <3> QED
      BY <1>1, <3>1
  <2>2. CASE Len(s) # 0
    <3>1. PICK f \in [1..Len(s) -> Seq(B)] : FlattenSeq(s) = f[Len(s)]
      BY <1>2, <2>2
    <3>2. Len(s) \in 1..Len(s)
      BY <2>2
    <3> QED
      BY <3>1, <3>2
  <2> QED
    BY <2>1, <2>2
<1>4. ASSUME NEW s \in Seq(Seq(B)), NEW x \in Seq(B)
      PROVE  FlattenSeq(Append(s, x)) = FlattenSeq(s) \o x
  <2> DEFINE u == Append(s, x)
             n == Len(s)
  <2>1. /\ u \in Seq(Seq(B)) /\ Len(u) = n + 1 /\ n \in Nat /\ u[n + 1] = x
        /\ \A i \in 1..n : u[i] = s[i]
    BY AppendProperties
  <2> HIDE DEF u
  <2>2. PICK f \in [1..Len(u) -> Seq(B)] : Joins(f, u, Len(u)) /\ FlattenSeq(u) = f[Len(u)]
    BY <1>2, <2>1
  <2>3. \A i \in 1..(n + 1) : f[i] = IF i = 1 THEN u[i] ELSE f[i - 1] \o u[i]
    BY <2>1, <2>2 DEF Joins
  <2>4. FlattenSeq(u) = f[n + 1]
    BY <2>1, <2>2
  <2>5. CASE n = 0
    <3>1. FlattenSeq(u) = x
      <4>1. 1 \in 1..(n + 1) /\ n + 1 = 1
        BY <2>5
      <4> QED
        BY <2>1, <2>3, <2>4, <4>1
    <3>2. FlattenSeq(s) = <<>>
      <4>1. s = <<>>
        BY <2>5
      <4> QED
        BY <1>1, <4>1
    <3>3. <<>> \o x = x
      OBVIOUS
    <3> QED
      BY <3>1, <3>2, <3>3 DEF u
  <2>6. CASE n # 0
    <3>1. PICK g \in [1..n -> Seq(B)] : Joins(g, s, n) /\ FlattenSeq(s) = g[n]
      BY <1>2, <2>6
    <3> DEFINE h == [i \in 1..n |-> f[i]]
    <3>2. \A i \in 1..n : h[i] = IF i = 1 THEN s[i] ELSE h[i - 1] \o s[i]
      <4>1. SUFFICES ASSUME NEW i \in 1..n PROVE h[i] = IF i = 1 THEN s[i] ELSE h[i - 1] \o s[i]
        OBVIOUS
      <4>2. i \in 1..(n + 1) /\ (i # 1 => i - 1 \in 1..n) /\ u[i] = s[i]
        BY <2>1
      <4>3. f[i] = IF i = 1 THEN s[i] ELSE f[i - 1] \o s[i]
        BY <2>3, <4>2
      <4>4. h[i] = f[i] /\ (i # 1 => h[i - 1] = f[i - 1])
        BY <4>2
      <4> QED
        BY <4>3, <4>4
    <3>3. h = [i \in 1..n |-> h[i]]
      OBVIOUS
    <3>4. n \in 1..n /\ h[n] = f[n]
      BY <2>1, <2>6
    <3> HIDE DEF h
    <3>5. Joins(h, s, n)
      BY <3>2, <3>3 DEF Joins
    <3>6. h = g
      BY <3>1, <3>4, <3>5, JoinsOnce
    <3>7. n + 1 \in 1..(n + 1) /\ n + 1 # 1 /\ (n + 1) - 1 = n
      BY <2>1, <2>6
    <3>8. f[n + 1] = f[n] \o u[n + 1]
      BY <2>3, <3>7
    <3> QED
      BY <2>1, <2>4, <3>1, <3>4, <3>6, <3>8 DEF u
  <2> QED
    BY <2>5, <2>6
<1> QED
  BY <1>1, <1>3, <1>4

=============================================================================
