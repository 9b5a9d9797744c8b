------------------------------ MODULE Induction ------------------------------
(***************************************************************************)
(* What the proofs about sequences of rules, tallies and worklists share:  *)
(* least and greatest elements, induction over the naturals, and functions *)
(* defined by recursion. Induction is stated over sets of numbers, and     *)
(* recursion over functions, so that they can be cited for any of them.    *)
(***************************************************************************)
EXTENDS Integers, FiniteSetsExt, FiniteSetTheorems, WellFoundedInduction, TLAPS

LEMMA LeastExists ==
    ASSUME NEW S, S \subseteq Nat, S # {}
    PROVE  \E x \in S : \A y \in S : x <= y
<1> DEFINE R == OpToRel(<, Nat)
<1>1. IsWellFoundedOn(R, Nat)
  BY NatLessThanWellFounded
<1>2. PICK x \in S : \A y \in S : ~ (<<y, x>> \in R)
  <2> HIDE DEF R
  <2>1. QED
    BY <1>1, WFMin
<1>3. \A y \in S : ~ (y < x)
  BY <1>2 DEF OpToRel
<1>4. QED
  BY <1>3

\* Induction as a set
LEMMA SetInduction ==
    ASSUME NEW n \in Nat, NEW T, 0 \in T, \A k \in 0..n - 1 : k \in T => k + 1 \in T
    PROVE  0..n \subseteq T
<1> DEFINE Bad == {k \in 0..n : k \notin T}
<1> SUFFICES ASSUME Bad # {} PROVE FALSE
  OBVIOUS
<1>1. PICK b \in Bad : \A y \in Bad : b <= y
  <2>1. Bad \subseteq Nat
    OBVIOUS
  <2> HIDE DEF Bad
  <2>2. QED
    BY <2>1, LeastExists
<1>2. b - 1 \in 0..n - 1 /\ b - 1 \notin Bad
  BY <1>1
<1>3. QED
  BY <1>1, <1>2

LEMMA GreatestExists ==
    ASSUME NEW n \in Nat, NEW s \in SUBSET (1..n), s # {}
    PROVE  Max(s) \in s /\ \A y \in s : y <= Max(s)
<1> DEFINE S == {n - x : x \in s}
<1>1. PICK x \in S : \A y \in S : x <= y
  <2>1. \A x \in s : n - x \in Nat
    OBVIOUS
  <2>2. S \subseteq Nat /\ S # {}
    BY <2>1
  <2> HIDE DEF S
  <2>3. QED
    BY <2>2, LeastExists
<1>2. PICK m \in s : x = n - m
  OBVIOUS
<1>3. \A y \in s : y <= m
  <2> SUFFICES ASSUME NEW y \in s PROVE y <= m
    OBVIOUS
  <2>1. x <= n - y
    BY <1>1
  <2>2. QED
    BY <2>1, <1>2
<1>4. QED
  BY <1>3 DEF Max

\* g folds the functions F[1], ..., F[n] over sets of numbers, the least first.
IsFold(g, n, base, F) ==
    \A s \in SUBSET (1..n) : g[s] = IF s = {} THEN base ELSE F[Max(s)][g[s \ {Max(s)}]]

\* There is such a fold: a recursion on the greatest number of a set defines it.
LEMMA FoldExists ==
    ASSUME NEW n \in Nat, NEW D, NEW base \in D, NEW F \in [1..n -> [D -> D]]
    PROVE  \E g \in [SUBSET (1..n) -> D] : IsFold(g, n, base, F)
<1> USE DEF IsFold
<1> DEFINE Good(k, g) == \A s \in SUBSET (1..k) :
                 g[s] = IF s = {} THEN base ELSE F[Max(s)][g[s \ {Max(s)}]]
           T == {k \in 0..n : \E g \in [SUBSET (1..k) -> D] : Good(k, g)}
<1>1. 0 \in T
  <2> DEFINE g == [s \in SUBSET (1..0) |-> base]
  <2>1. g \in [SUBSET (1..0) -> D] /\ Good(0, g)
    <3>1. 1..0 = {}
      OBVIOUS
    <3>2. QED
      BY <3>1
  <2> HIDE DEF g, Good
  <2>2. \E f \in [SUBSET (1..0) -> D] : Good(0, f)
    BY <2>1
  <2>3. 0 \in 0..n
    OBVIOUS
  <2>4. QED
    BY <2>2, <2>3
<1>2. ASSUME NEW k \in 0..n - 1, k \in T PROVE k + 1 \in T
  <2>1. PICK g \in [SUBSET (1..k) -> D] : Good(k, g)
    BY <1>2
  <2> DEFINE h == [s \in SUBSET (1..k + 1) |->
                     IF k + 1 \in s THEN F[k + 1][g[s \ {k + 1}]] ELSE g[s]]
  <2>2. \A s \in SUBSET (1..k + 1) : s \ {k + 1} \in SUBSET (1..k)
    OBVIOUS
  <2>3. h \in [SUBSET (1..k + 1) -> D]
    <3>1. F[k + 1] \in [D -> D]
      OBVIOUS
    <3>2. \A s \in SUBSET (1..k + 1) : k + 1 \notin s => s \in SUBSET (1..k)
      OBVIOUS
    <3>3. QED
      BY <3>1, <3>2, <2>2
  <2>4. Good(k + 1, h)
    <3> SUFFICES ASSUME NEW s \in SUBSET (1..k + 1)
                 PROVE  h[s] = IF s = {} THEN base ELSE F[Max(s)][h[s \ {Max(s)}]]
      OBVIOUS
    <3>1. CASE k + 1 \in s
      <4>1. Max(s) = k + 1
        <5>1. Max(s) \in s /\ \A y \in s : y <= Max(s)
          <6>1. k + 1 \in Nat /\ s # {}
            BY <3>1
          <6>2. QED
            BY ONLY <6>1, s \in SUBSET (1..k + 1), GreatestExists
        <5>2. Max(s) \in 1..k + 1 /\ k + 1 <= Max(s)
          BY <5>1, <3>1
        <5>3. QED
          BY ONLY <5>2, k \in 0..n - 1, n \in Nat
      <4>2. h[s \ {k + 1}] = g[s \ {k + 1}]
        BY <2>2
      <4> HIDE DEF Good
      <4>3. QED
        BY <4>1, <4>2, <3>1
    <3>2. CASE k + 1 \notin s
      <4>1. s \in SUBSET (1..k)
        BY <3>2
      <4>2. h[s] = g[s]
        BY <3>2
      <4>3. s # {} => h[s \ {Max(s)}] = g[s \ {Max(s)}]
        BY <3>2, <4>1
      <4>4. QED
        BY <4>1, <4>2, <4>3, <2>1
    <3>3. QED
      BY <3>1, <3>2
  <2> HIDE DEF h, Good
  <2>5. \E f \in [SUBSET (1..k + 1) -> D] : Good(k + 1, f)
    BY <2>3, <2>4
  <2>6. k + 1 \in 0..n
    OBVIOUS
  <2>7. QED
    BY <2>5, <2>6
<1>3. n \in T
  <2> HIDE DEF T
  <2>1. \A k \in 0..n - 1 : k \in T => k + 1 \in T
    BY <1>2
  <2>2. 0..n \subseteq T
    BY <1>1, <2>1, SetInduction
  <2>3. QED
    BY <2>2
<1>4. QED
  BY <1>3

\* The greatest of the first k numbers, and what remains without it.
LEMMA GreatestOfInterval ==
    ASSUME NEW k \in Nat \ {0}
    PROVE  1..k # {} /\ Max(1..k) = k /\ (1..k) \ {Max(1..k)} = 1..k - 1
<1>1. Max(1..k) \in 1..k /\ \A y \in 1..k : y <= Max(1..k)
  <2>1. 1..k \in SUBSET (1..k) /\ 1..k # {} /\ k \in Nat
    OBVIOUS
  <2>2. QED
    BY ONLY <2>1, GreatestExists
<1>2. QED
  BY <1>1

-----------------------------------------------------------------------------
\* Induction on a measure
LEMMA MeasureInduction ==
    ASSUME NEW D, NEW m \in [D -> Nat], NEW T,
           \A p \in D : (\A q \in D : m[q] < m[p] => q \in T) => p \in T
    PROVE  D \subseteq T
<1> DEFINE Bad == {m[p] : p \in D \ T}
<1>1. Bad \subseteq Nat
  OBVIOUS
<1>2. CASE Bad # {}
  <2>1. PICK x \in Bad : \A y \in Bad : x <= y
    <3> HIDE DEF Bad
    <3>1. QED
      BY <1>1, <1>2, LeastExists
  <2>2. PICK p \in D \ T : x = m[p]
    BY <2>1
  <2>3. \A q \in D : m[q] < m[p] => q \in T
    <3> SUFFICES ASSUME NEW q \in D, m[q] < m[p], q \notin T PROVE FALSE
      OBVIOUS
    <3>1. m[q] \in Bad
      OBVIOUS
    <3>2. m[p] <= m[q] /\ m[p] \in Nat /\ m[q] \in Nat
      BY <3>1, <2>1, <2>2
    <3>3. QED
      BY <3>2
  <2>4. QED
    BY <2>2, <2>3
<1>3. CASE Bad = {}
  BY <1>3
<1>4. QED
  BY <1>2, <1>3

\* v is a function the recursion F defines.
Solves(v, F) == v = F[v]

\* The value of F at p rests on the values at smaller arguments only.
Descends(F, D, R, m) ==
    \A v, w \in [D -> R] : \A p \in D :
        (\A q \in D : m[q] < m[p] => v[q] = w[q]) => F[v][p] = F[w][p]

\* Recursion on a measure: when the value at p rests on the values at smaller
\* arguments only, some function obeys the recursion.
LEMMA RecursionExists ==
    ASSUME NEW D, NEW R, R # {}, NEW m \in [D -> Nat],
           NEW F \in [[D -> R] -> [D -> R]], Descends(F, D, R, m)
    PROVE  \E v \in [D -> R] : Solves(v, F)
<1> DEFINE Upto(k, v) == \A p \in D : m[p] < k => v[p] = F[v][p]
           T == {k \in Nat : \E v \in [D -> R] : Upto(k, v)}
<1>1. 0 \in T
  <2>1. PICK r \in R : TRUE
    OBVIOUS
  <2> DEFINE v == [p \in D |-> r]
  <2>2. v \in [D -> R]
    OBVIOUS
  <2>3. Upto(0, v)
    OBVIOUS
  <2> HIDE DEF v, Upto
  <2>4. \E w \in [D -> R] : Upto(0, w)
    BY <2>2, <2>3
  <2>5. QED
    BY <2>4
<1>2. ASSUME NEW k \in Nat, k \in T
      PROVE  k + 1 \in T
  <2>1. PICK v \in [D -> R] : Upto(k, v)
    BY <1>2
  <2> DEFINE w == F[v]
  <2>2. w \in [D -> R]
    OBVIOUS
  <2>3. Upto(k + 1, w)
    <3> SUFFICES ASSUME NEW p \in D, m[p] < k + 1
                 PROVE  F[v][p] = F[w][p]
      OBVIOUS
    <3>1. \A q \in D : m[q] < m[p] => v[q] = w[q]
      <4> SUFFICES ASSUME NEW q \in D, m[q] < m[p] PROVE v[q] = w[q]
        OBVIOUS
      <4>1. m[q] \in Int /\ m[p] \in Int /\ k \in Int
        OBVIOUS
      <4>2. m[q] < k
        BY <4>1
      <4>3. QED
        BY <4>2, <2>1
    <3> HIDE DEF w
    <3>2. QED
      BY <3>1, <2>2 DEF Descends
  <2> HIDE DEF w, Upto
  <2>4. \E f \in [D -> R] : Upto(k + 1, f)
    BY <2>2, <2>3
  <2>5. QED
    BY <2>4
<1>3. ASSUME NEW n \in Nat PROVE n \in T
  <2> HIDE DEF T
  <2>1. \A k \in 0..n - 1 : k \in T => k + 1 \in T
    BY <1>2
  <2>2. 0..n \subseteq T
    BY ONLY <1>1, <2>1, n \in Nat, SetInduction
  <2>3. QED
    BY <2>2
\* Two solutions up to some number agree as far as both go.
<1>4. ASSUME NEW v \in [D -> R], NEW w \in [D -> R], NEW j \in Nat, NEW k \in Nat,
             Upto(j, v), Upto(k, w), NEW p \in D, m[p] < j, m[p] < k
      PROVE  v[p] = w[p]
  <2> DEFINE S == {q \in D : m[q] < j /\ m[q] < k => v[q] = w[q]}
  <2>1. ASSUME NEW q \in D, \A x \in D : m[x] < m[q] => x \in S
        PROVE  q \in S
    <3> SUFFICES ASSUME m[q] < j, m[q] < k PROVE v[q] = w[q]
      OBVIOUS
    <3>1. \A x \in D : m[x] < m[q] => v[x] = w[x]
      <4> SUFFICES ASSUME NEW x \in D, m[x] < m[q] PROVE v[x] = w[x]
        OBVIOUS
      <4>1. m[x] \in Nat /\ m[q] \in Nat
        OBVIOUS
      <4>2. m[x] < j /\ m[x] < k
        BY <4>1
      <4>3. QED
        BY <4>2, <2>1
    <3>2. F[v][q] = F[w][q]
      BY <3>1 DEF Descends
    <3>3. QED
      BY <3>2, <1>4
  <2> HIDE DEF S, Upto
  <2>2. D \subseteq S
    BY <2>1, MeasureInduction
  <2>3. p \in S
    BY <2>2
  <2>4. QED
    BY <2>3, <1>4 DEF S
<1> DEFINE Sol(k) == CHOOSE v \in [D -> R] : Upto(k, v)
           g == [p \in D |-> Sol(m[p] + 1)[p]]
<1>5. \A k \in Nat : Sol(k) \in [D -> R] /\ Upto(k, Sol(k))
  <2> SUFFICES ASSUME NEW k \in Nat PROVE Sol(k) \in [D -> R] /\ Upto(k, Sol(k))
    OBVIOUS
  <2>1. \E v \in [D -> R] : Upto(k, v)
    BY <1>3
  <2> HIDE DEF Upto
  <2>2. QED
    BY <2>1
<1> HIDE DEF Upto, Sol
<1>6. g \in [D -> R]
  <2>1. \A p \in D : Sol(m[p] + 1) \in [D -> R]
    BY <1>5
  <2>2. QED
    BY <2>1
<1>7. \A p \in D : g[p] = F[g][p]
  <2> SUFFICES ASSUME NEW p \in D PROVE g[p] = F[g][p]
    OBVIOUS
  <2> DEFINE k == m[p] + 1  v == Sol(k)
  <2>1. k \in Nat /\ m[p] \in Nat /\ m[p] < k
    OBVIOUS
  <2>2. v \in [D -> R] /\ Upto(k, v)
    BY <2>1, <1>5
  <2>3. \A q \in D : m[q] < m[p] => v[q] = g[q]
    <3> SUFFICES ASSUME NEW q \in D, m[q] < m[p] PROVE v[q] = g[q]
      OBVIOUS
    <3>1. m[q] \in Nat /\ m[q] + 1 \in Nat /\ m[q] < m[q] + 1 /\ m[q] < k
      OBVIOUS
    <3>2. Sol(m[q] + 1) \in [D -> R] /\ Upto(m[q] + 1, Sol(m[q] + 1))
      BY <3>1, <1>5
    <3> HIDE DEF v
    <3>3. v[q] = Sol(m[q] + 1)[q]
      BY <3>1, <3>2, <2>1, <2>2, <1>4
    <3>4. QED
      BY <3>3
  <2>4. g[p] = v[p] /\ v[p] = F[v][p]
    BY <2>1, <2>2 DEF Upto
  <2> HIDE DEF v, k, g
  <2>5. F[v][p] = F[g][p]
    BY <2>2, <2>3, <1>6 DEF Descends
  <2>6. QED
    BY <2>4, <2>5
<1> HIDE DEF g
<1>8. F[g] \in [D -> R]
  BY <1>6
<1>9. g = F[g]
  BY <1>6, <1>7, <1>8
<1>10. QED
  BY <1>6, <1>9 DEF Solves

-----------------------------------------------------------------------------
\* Folds over a finite set, whose order is CHOOSE's

Some(s) == CHOOSE x \in s : TRUE

IsSetFold(g, S, base, F) ==
    \A s \in SUBSET S : g[s] = IF s = {} THEN base ELSE F[Some(s)][g[s \ {Some(s)}]]

LEMMA SubsetMeasure ==
    ASSUME NEW S, IsFiniteSet(S)
    PROVE  /\ Cardinality(S) \in Nat
           /\ [s \in SUBSET S |-> Cardinality(s)] \in [SUBSET S -> 0..Cardinality(S)]
           /\ \A s \in SUBSET S : s # {} =>
                 /\ Some(s) \in s /\ s \ {Some(s)} \in SUBSET S
                 /\ Cardinality(s \ {Some(s)}) < Cardinality(s)
<1>1. Cardinality(S) \in Nat
  BY FS_CardinalityType
<1>2. \A s \in SUBSET S : IsFiniteSet(s) /\ Cardinality(s) \in Nat /\ Cardinality(s) <= Cardinality(S)
  BY FS_Subset, FS_CardinalityType
<1>3. ASSUME NEW s \in SUBSET S, s # {}
      PROVE  Some(s) \in s /\ Cardinality(s \ {Some(s)}) < Cardinality(s)
  <2>1. Some(s) \in s
    BY <1>3 DEF Some
  <2>2. Cardinality(s \ {Some(s)}) = Cardinality(s) - 1
    BY <1>2, <2>1, FS_RemoveElement
  <2>3. QED
    BY <1>2, <2>1, <2>2
<1>4. QED
  BY <1>1, <1>2, <1>3

LEMMA SubsetInduction ==
    ASSUME NEW S, IsFiniteSet(S), NEW T, {} \in T,
           \A s \in SUBSET S : s # {} /\ s \ {Some(s)} \in T => s \in T
    PROVE  SUBSET S \subseteq T
<1> DEFINE m == [s \in SUBSET S |-> Cardinality(s)]
<1>1. m \in [SUBSET S -> Nat]
  <2>1. \A s \in SUBSET S : Cardinality(s) \in Nat
    BY FS_Subset, FS_CardinalityType
  <2>2. QED
    BY <2>1
<1>2. ASSUME NEW s \in SUBSET S, \A q \in SUBSET S : m[q] < m[s] => q \in T
      PROVE  s \in T
  <2>1. CASE s = {}
    BY <2>1
  <2>2. CASE s # {}
    <3>1. s \ {Some(s)} \in SUBSET S /\ m[s \ {Some(s)}] < m[s]
      BY <2>2, SubsetMeasure
    <3>2. s \ {Some(s)} \in T
      BY <1>2, <3>1
    <3>3. QED
      BY <2>2, <3>2
  <2>3. QED
    BY <2>1, <2>2
<1> HIDE DEF m
<1>3. QED
  BY <1>1, <1>2, MeasureInduction

LEMMA SetFoldExists ==
    ASSUME NEW S, IsFiniteSet(S), NEW R, NEW base \in R, NEW F \in [S -> [R -> R]]
    PROVE  \E g \in [SUBSET S -> R] : IsSetFold(g, S, base, F)
<1> DEFINE m == [s \in SUBSET S |-> Cardinality(s)]
           n == Cardinality(S)
           D == SUBSET S
           Next(g, s) == IF s = {} THEN base ELSE F[Some(s)][g[s \ {Some(s)}]]
           G == [g \in [D -> R] |-> [s \in D |-> Next(g, s)]]
<1>1. n \in Nat /\ m \in [D -> 0..n]
  BY SubsetMeasure
<1>2. \A s \in D : s # {} => Some(s) \in S /\ s \ {Some(s)} \in D /\ m[s \ {Some(s)}] < m[s]
  BY SubsetMeasure
<1>3. \A g \in [D -> R] : \A s \in D : Next(g, s) \in R
  <2> SUFFICES ASSUME NEW g \in [D -> R], NEW s \in D PROVE Next(g, s) \in R
    OBVIOUS
  <2>1. CASE s = {}
    BY <2>1
  <2>2. CASE s # {}
    <3>1. Some(s) \in S /\ g[s \ {Some(s)}] \in R
      BY <1>2, <2>2
    <3>2. F[Some(s)] \in [R -> R]
      BY <3>1
    <3>3. QED
      BY <3>1, <3>2, <2>2
  <2>3. QED
    BY <2>1, <2>2
<1>4. G \in [[D -> R] -> [D -> R]]
  <2> HIDE DEF Next, D
  <2>1. QED
    BY <1>3
<1>5. Descends(G, D, R, m)
  <2> SUFFICES ASSUME NEW v \in [D -> R], NEW w \in [D -> R], NEW p \in D,
                      \A q \in D : m[q] < m[p] => v[q] = w[q]
               PROVE  G[v][p] = G[w][p]
    BY DEF Descends
  <2>1. Next(v, p) = Next(w, p)
    <3> HIDE DEF m, D
    <3>1. QED
      BY <1>2
  <2>2. QED
    BY <2>1
<1>6. \E g \in [D -> R] : Solves(g, G)
  <2>0. m \in [D -> Nat]
    BY <1>1
  <2> HIDE DEF m, n, G, D
  <2>1. R # {}
    OBVIOUS
  <2>2. QED
    BY ONLY <2>0, <2>1, <1>4, <1>5, RecursionExists
<1>7. PICK g \in [D -> R] : Solves(g, G)
  BY <1>6
<1>8. \A s \in D : g[s] = Next(g, s)
  BY <1>7 DEF Solves
<1>9. IsSetFold(g, S, base, F)
  BY <1>8 DEF IsSetFold
<1>10. QED
  BY <1>9
=============================================================================
