------------------------------ MODULE ListProofs ------------------------------
(***************************************************************************)
(* Lemmas about numbers, lists and folds that the proofs about sequences   *)
(* share.  The library's induction theorems take an operator as parameter; *)
(* here a set of numbers takes its place (Induct).  Finite ordered sets    *)
(* can be listed in order (ListExists).  A fold is a function that CHOOSE  *)
(* picks by its recursion over sets of indices: it exists and yields its   *)
(* results step by step (FoldExists, FoldSteps).                           *)
(***************************************************************************)
EXTENDS SequencesExt, FiniteSetTheorems, WellFoundedInduction, TLAPS

----------------------------------------------------------------------------
(* Induction.                                                              *)

\* Every set of natural numbers has a least element.
LEMMA LeastNat ==
    ASSUME NEW T, T \subseteq Nat, T # {}
    PROVE  \E m \in T : \A k \in T : m <= k
<1> DEFINE R == {ss \in Nat \X Nat : ss[1] < ss[2]}
<1>1. IsWellFoundedOn(R, Nat)
  BY NatLessThanWellFounded DEF OpToRel
<1> HIDE DEF R
<1>2. PICK m \in T : \A k \in T : ~ (<<k, m>> \in R)
  BY <1>1, WFMin
<1>3. \A k \in T : ~(k < m)
  BY <1>2 DEF R
<1> QED
  BY <1>3

\* Induction, for sets: a set that holds 0 and successors holds every number.
LEMMA Induct ==
    ASSUME NEW T, 0 \in T, \A n \in Nat : n \in T => n+1 \in T
    PROVE  Nat \subseteq T
<1> SUFFICES ASSUME Nat \ T # {} PROVE FALSE
  OBVIOUS
<1>1. PICK m \in Nat \ T : \A k \in Nat \ T : m <= k
  BY LeastNat
<1>2. m # 0 /\ m - 1 \in Nat
  BY <1>1
<1>3. m - 1 \in T
  BY <1>1, <1>2
<1>4. (m-1)+1 = m
  OBVIOUS
<1> QED
  BY <1>1, <1>2, <1>3, <1>4

\* The last index of a set of indices.
LEMMA LastIndex ==
    ASSUME NEW n \in Nat, NEW S \in SUBSET (1..n), S # {}
    PROVE  /\ Max(S) \in S
           /\ \A y \in S : Max(S) >= y
<1> DEFINE T == {n - x : x \in S}
<1>1. T \subseteq Nat /\ T # {}
  <2>1. \A x \in S : x \in Int /\ x <= n
    OBVIOUS
  <2>2. PICK x \in S : TRUE
    OBVIOUS
  <2>3. n - x \in T
    OBVIOUS
  <2> QED
    BY <2>1, <2>3
<1>2. PICK m \in T : \A k \in T : m <= k
  BY <1>1, LeastNat
<1>3. PICK x \in S : m = n - x
  BY <1>2
<1>4. \A y \in S : n - x <= n - y
  BY <1>2, <1>3
<1>5. \A y \in S : x >= y
  BY <1>4
<1> QED
  BY <1>5 DEF Max

----------------------------------------------------------------------------
(* Lists in order.                                                              *)

\* R orders set S: it is irreflexive, total and transitive on S.
Ordered(R, S) ==
    /\ \A i \in S : <<i, i>> \notin R
    /\ \A i, j \in S : i # j => <<i, j>> \in R \/ <<j, i>> \in R
    /\ \A i, j, k \in S : <<i, j>> \in R /\ <<j, k>> \in R => <<i, k>> \in R

LastOf(m, S, R) == m \in S /\ \A x \in S : x # m => <<x, m>> \in R

\* A finite set that is ordered has a last element.
LEMMA LastExists ==
    ASSUME NEW U, NEW R, Ordered(R, U), NEW S \in SUBSET U, IsFiniteSet(S), S # {}
    PROVE  \E m : LastOf(m, S, R)
<1> DEFINE T == {n \in Nat : \A Q \in SUBSET U :
                    IsFiniteSet(Q) /\ Cardinality(Q) = n + 1 => \E m : LastOf(m, Q, R)}
<1>1. 0 \in T
  <2> SUFFICES ASSUME NEW Q \in SUBSET U, IsFiniteSet(Q), Cardinality(Q) = 1
               PROVE  \E m : LastOf(m, Q, R)
    OBVIOUS
  <2>1. PICK m : Q = {m}
    BY FS_Singleton
  <2> QED
    BY <2>1 DEF LastOf
<1>2. ASSUME NEW n \in Nat, n \in T PROVE n + 1 \in T
  <2> SUFFICES ASSUME NEW Q \in SUBSET U, IsFiniteSet(Q), Cardinality(Q) = (n + 1) + 1
               PROVE  \E m : LastOf(m, Q, R)
    OBVIOUS
  <2>1. PICK x : x \in Q
    BY FS_EmptySet
  <2> DEFINE P == Q \ {x}
  <2>2. IsFiniteSet(P) /\ Cardinality(P) = n + 1 /\ P \in SUBSET U
    BY <2>1, FS_RemoveElement
  <2>3. PICK m : LastOf(m, P, R)
    BY <1>2, <2>2
  <2>4. m \in Q /\ x \in U /\ m \in U /\ m # x
    BY <2>1, <2>3 DEF LastOf
  <2>5. CASE <<x, m>> \in R
    <3>1. LastOf(m, Q, R)
      BY <2>3, <2>4, <2>5 DEF LastOf
    <3> QED
      BY <3>1
  <2>6. CASE <<m, x>> \in R
    <3>1. ASSUME NEW y \in Q, y # x PROVE <<y, x>> \in R
      <4>1. y = m \/ <<y, m>> \in R
        BY <2>3, <3>1 DEF LastOf
      <4>2. y \in U
        OBVIOUS
      <4> QED
        BY <2>4, <2>6, <4>1, <4>2 DEF Ordered
    <3>2. LastOf(x, Q, R)
      BY <2>1, <3>1 DEF LastOf
    <3> QED
      BY <3>2
  <2> QED
    BY <2>4, <2>5, <2>6 DEF Ordered
<1>3. \A n \in Nat : n \in T => n + 1 \in T
  <2> HIDE DEF T
  <2> QED
    BY <1>2
<1>4. Nat \subseteq T
  <2> HIDE DEF T
  <2> QED
    BY <1>1, <1>3, Induct
<1>5. Cardinality(S) \in Nat /\ Cardinality(S) # 0
  BY FS_CardinalityType, FS_EmptySet
<1> DEFINE n == Cardinality(S) - 1
<1>6. n \in T /\ Cardinality(S) = n + 1
  BY <1>4, <1>5
<1> HIDE DEF n
<1> QED
  BY <1>6

\* The first n numbers, each for an element of S, in the order of R.
Enumerates(p, S, n, R) ==
    /\ p \in [1..n -> S]
    /\ \A x \in S : \E i \in 1..n : p[i] = x
    /\ \A i, j \in 1..n : i < j => <<p[i], p[j]>> \in R

\* A finite set that is ordered can be listed in order.
LEMMA ListExists ==
    ASSUME NEW U, NEW R, Ordered(R, U), IsFiniteSet(U)
    PROVE  \E p : Enumerates(p, U, Cardinality(U), R)
<1> DEFINE T == {n \in Nat : \A Q \in SUBSET U :
                    IsFiniteSet(Q) /\ Cardinality(Q) = n => \E p : Enumerates(p, Q, n, R)}
<1>1. 0 \in T
  <2> SUFFICES ASSUME NEW Q \in SUBSET U, IsFiniteSet(Q), Cardinality(Q) = 0
               PROVE  \E p : Enumerates(p, Q, 0, R)
    OBVIOUS
  <2>1. Q = {}
    BY FS_EmptySet
  <2> DEFINE none == [i \in 1..0 |-> i]
  <2>2. Enumerates(none, Q, 0, R)
    BY <2>1 DEF Enumerates
  <2> QED
    BY <2>2
<1>2. ASSUME NEW n \in Nat, n \in T PROVE n + 1 \in T
  <2> SUFFICES ASSUME NEW Q \in SUBSET U, IsFiniteSet(Q), Cardinality(Q) = n + 1
               PROVE  \E p : Enumerates(p, Q, n + 1, R)
    OBVIOUS
  <2>1. Q # {}
    BY FS_EmptySet
  <2>2. PICK m : LastOf(m, Q, R)
    BY <2>1, LastExists
  <2> DEFINE P == Q \ {m}
  <2>3. IsFiniteSet(P) /\ Cardinality(P) = n /\ P \in SUBSET U /\ m \in Q
    <3>1. m \in Q
      BY <2>2 DEF LastOf
    <3>2. IsFiniteSet(Q \ {m}) /\ Cardinality(Q \ {m}) = Cardinality(Q) - 1
      BY <3>1, FS_RemoveElement
    <3> QED
      BY <3>1, <3>2
  <2>4. PICK p : Enumerates(p, P, n, R)
    BY <1>2, <2>3
  <2> DEFINE q == [i \in 1..(n+1) |-> IF i = n + 1 THEN m ELSE p[i]]
  <2>5. \A i \in 1..(n+1) : i # n + 1 => i \in 1..n
    OBVIOUS
  <2>6. n + 1 \in 1..(n+1) /\ \A i \in 1..n : i \in 1..(n+1) /\ i # n + 1
    OBVIOUS
  <2>7. q[n+1] = m /\ \A i \in 1..n : q[i] = p[i]
    BY <2>6
  <2>8. q \in [1..(n+1) -> Q]
    <3>1. \A i \in 1..(n+1) : (IF i = n + 1 THEN m ELSE p[i]) \in Q
      BY <2>3, <2>4, <2>5 DEF Enumerates
    <3> QED
      BY <3>1
  <2> HIDE DEF q
  <2>9. \A x \in Q : \E i \in 1..(n+1) : q[i] = x
    BY <2>4, <2>6, <2>7 DEF Enumerates
  <2>10. ASSUME NEW i \in 1..(n+1), NEW j \in 1..(n+1), i < j
         PROVE  <<q[i], q[j]>> \in R
    <3>1. i \in 1..n
      BY <2>10
    <3>2. CASE j = n + 1
      <4>1. p[i] \in P
        BY <2>4, <3>1 DEF Enumerates
      <4> QED
        BY <2>2, <2>7, <3>1, <3>2, <4>1 DEF LastOf
    <3>3. CASE j # n + 1
      BY <2>4, <2>5, <2>7, <2>10, <3>1, <3>3 DEF Enumerates
    <3> QED
      BY <3>2, <3>3
  <2>11. Enumerates(q, Q, n + 1, R)
    BY <2>8, <2>9, <2>10 DEF Enumerates
  <2> QED
    BY <2>11
<1>3. \A n \in Nat : n \in T => n + 1 \in T
  <2> HIDE DEF T
  <2> QED
    BY <1>2
<1>4. Nat \subseteq T
  <2> HIDE DEF T
  <2> QED
    BY <1>1, <1>3, Induct
<1>5. Cardinality(U) \in Nat
  BY FS_CardinalityType
<1>6. Cardinality(U) \in T
  BY <1>4, <1>5
<1> QED
  BY <1>6

----------------------------------------------------------------------------
(* Folds.                                                                  *)

\* The last index of the first k is k.
LEMMA LastOfPrefix ==
    ASSUME NEW k \in Nat, k # 0
    PROVE  /\ Max(1..k) = k
           /\ (1..k) \ {Max(1..k)} = 1..(k-1)
<1>1. Max(1..k) \in 1..k /\ Max(1..k) >= k
  <2>1. 1..k \in SUBSET (1..k) /\ 1..k # {} /\ k \in 1..k
    OBVIOUS
  <2> QED
    BY <2>1, LastIndex
<1>2. Max(1..k) = k
  BY <1>1
<1> QED
  BY <1>2

\* Without its last index, the first k indices are the first k - 1.
LEMMA FirstIndices ==
    ASSUME NEW n \in Nat, NEW k \in 1..n
    PROVE  1..k \in SUBSET (1..n) /\ 1..k # {}
<1>1. k \in 1..k
  OBVIOUS
<1>2. 1..k \subseteq 1..n
  OBVIOUS
<1> QED
  BY <1>1, <1>2

\* f folds G over every set of indices up to n, in their order.
Folds(f, X, b, n, G) ==
    /\ f \in [SUBSET (1..n) -> X]
    /\ \A S \in SUBSET (1..n) : f[S] = IF S = {} THEN b ELSE G[Max(S)][f[S \ {Max(S)}]]

\* h are the results of folding G up to each index.
Runs(h, X, b, n, G) ==
    /\ h \in [0..n -> X] /\ h[0] = b
    /\ \A k \in 1..n : h[k] = G[k][h[k-1]]

\* A fold is well defined: the function FoldLeft chooses exists.
LEMMA FoldExists ==
    ASSUME NEW X, NEW b \in X, NEW n \in Nat, NEW G \in [1..n -> [X -> X]]
    PROVE  \E f : Folds(f, X, b, n, G)
<1> DEFINE folds(f, m) ==
             f \in [SUBSET (1..m) -> X] /\ \A S \in SUBSET (1..m) :
                f[S] = IF S = {} THEN b ELSE G[Max(S)][f[S \ {Max(S)}]]
           T == {m \in Nat : m <= n => \E f : folds(f, m)}
<1>1. 0 \in T
  <2> DEFINE f == [S \in SUBSET (1..0) |-> b]
  <2>1. \A S \in SUBSET (1..0) : S = {}
    OBVIOUS
  <2>2. f \in [SUBSET (1..0) -> X]
    OBVIOUS
  <2>3. \A S \in SUBSET (1..0) : f[S] = b
    OBVIOUS
  <2> HIDE DEF f
  <2>4. folds(f, 0)
    BY <2>1, <2>2, <2>3
  <2> HIDE DEF folds
  <2> QED
    BY <2>4
<1>2. ASSUME NEW m \in Nat, m \in T PROVE m + 1 \in T
  <2> HIDE DEF folds
  <2> SUFFICES ASSUME m + 1 <= n PROVE \E f : folds(f, m + 1)
    OBVIOUS
  <2>1. PICK f : folds(f, m)
    BY <1>2
  <2> USE DEF folds
  <2> DEFINE g == [S \in SUBSET (1..(m+1)) |->
                     IF m + 1 \in S THEN G[m+1][f[S \ {m+1}]] ELSE f[S]]
  <2>2. \A S \in SUBSET (1..(m+1)) : S \ {m+1} \in SUBSET (1..m)
    OBVIOUS
  <2>3. \A S \in SUBSET (1..(m+1)) : m + 1 \notin S => S \in SUBSET (1..m)
    OBVIOUS
  <2>4. G[m+1] \in [X -> X]
    OBVIOUS
  <2>5. g \in [SUBSET (1..(m+1)) -> X]
    BY <2>1, <2>2, <2>3, <2>4
  <2>6. ASSUME NEW S \in SUBSET (1..(m+1))
        PROVE  g[S] = IF S = {} THEN b ELSE G[Max(S)][g[S \ {Max(S)}]]
    <3>1. CASE m + 1 \in S
      <4>1. Max(S) \in S /\ Max(S) >= m + 1
        <5>1. m + 1 \in Nat /\ S # {}
          BY <3>1
        <5> QED
          BY <3>1, <5>1, LastIndex
      <4>2. Max(S) = m + 1
        <5>1. Max(S) \in 1..(m + 1)
          BY <4>1
        <5> HIDE DEF folds, g, T
        <5> QED
          BY <4>1, <5>1
      <4>3. g[S \ {m+1}] = f[S \ {m+1}]
        BY <2>2
      <4>4. g[S] = G[m+1][f[S \ {m+1}]]
        BY <3>1
      <4> HIDE DEF g
      <4> QED
        BY <3>1, <4>2, <4>3, <4>4
    <3>2. CASE m + 1 \notin S
      <4>1. S \in SUBSET (1..m) /\ S \ {Max(S)} \in SUBSET (1..m)
        BY <2>3, <3>2
      <4>2. g[S] = f[S] /\ g[S \ {Max(S)}] = f[S \ {Max(S)}]
        BY <4>1, <3>2
      <4> HIDE DEF g
      <4> QED
        BY <2>1, <4>1, <4>2
    <3> QED
      BY <3>1, <3>2
  <2>7. folds(g, m + 1)
    BY <2>5, <2>6
  <2> QED
    BY <2>7
<1> HIDE DEF folds
<1>3. \A m \in Nat : m \in T => m + 1 \in T
  BY <1>2
<1> HIDE DEF T
<1>4. n \in T
  BY <1>1, <1>3, Induct
<1>5. PICK f : folds(f, n)
  BY <1>4 DEF T
<1>6. Folds(f, X, b, n, G)
  BY <1>5 DEF folds, Folds
<1> QED
  BY <1>6

\* it is, for every beginning of the indices, what the fold makes of it.
Folding(it, X, b, n, G) ==
    /\ b \in X /\ n \in Nat /\ G \in [1..n -> [X -> X]]
    /\ it[{}] = b
    /\ \A k \in 1..n : it[1..(k-1)] \in X => it[1..k] = G[k][it[1..(k-1)]]

\* The results of a fold step by step.
LEMMA FoldSteps ==
    ASSUME NEW X, NEW b, NEW n, NEW G, NEW it, Folding(it, X, b, n, G)
    PROVE  \E h : Runs(h, X, b, n, G) /\ h[n] = it[1..n]
<1> SUFFICES ASSUME b \in X, n \in Nat, G \in [1..n -> [X -> X]], it[{}] = b,
                    \A k \in 1..n : it[1..(k-1)] \in X => it[1..k] = G[k][it[1..(k-1)]]
             PROVE  \E h : Runs(h, X, b, n, G) /\ h[n] = it[1..n]
  BY DEF Folding
<1> DEFINE T == {m \in Nat : m <= n => it[1..m] \in X}
           h == [k \in 0..n |-> it[1..k]]
<1>1. 0 \in T
  <2>1. 1..0 = {}
    OBVIOUS
  <2> QED
    BY <2>1
<1>2. \A m \in Nat : m \in T => m + 1 \in T
  <2> SUFFICES ASSUME NEW m \in Nat, m \in T, m + 1 <= n PROVE it[1..(m+1)] \in X
    OBVIOUS
  <2>1. (m + 1) - 1 = m /\ m + 1 \in 1..n
    OBVIOUS
  <2>2. it[1..(m+1)] = G[m+1][it[1..m]]
    BY <2>1
  <2>3. G[m+1] \in [X -> X] /\ it[1..m] \in X
    BY <2>1
  <2> QED
    BY <2>2, <2>3
<1> HIDE DEF T
<1>3. \A m \in 0..n : it[1..m] \in X
  <2>1. Nat \subseteq T
    BY <1>1, <1>2, Induct
  <2> QED
    BY <2>1 DEF T
<1>4. h \in [0..n -> X] /\ h[n] = it[1..n]
  BY <1>3
<1>5. h[0] = b
  <2>1. 1..0 = {}
    OBVIOUS
  <2>2. h[0] = it[1..0]
    OBVIOUS
  <2> QED
    BY <2>1, <2>2
<1>6. \A k \in 1..n : h[k] = G[k][h[k-1]]
  <2> SUFFICES ASSUME NEW k \in 1..n PROVE h[k] = G[k][h[k-1]]
    OBVIOUS
  <2>1. k - 1 \in 0..n /\ k \in 0..n
    OBVIOUS
  <2>2. h[k] = it[1..k] /\ h[k-1] = it[1..(k-1)]
    BY <2>1
  <2> HIDE DEF h
  <2> QED
    BY <1>3, <2>1, <2>2
<1> HIDE DEF h
<1>7. Runs(h, X, b, n, G)
  BY <1>4, <1>5, <1>6 DEF Runs
<1> QED
  BY <1>4, <1>7
=============================================================================
