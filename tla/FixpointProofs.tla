---------------------------- MODULE FixpointProofs ----------------------------
(***************************************************************************)
(* A set that grows step by step within a finite set reaches its limit in  *)
(* as many steps as the finite set has elements: facts about the recursive *)
(* functions that define what is reached along a path.                     *)
(***************************************************************************)
EXTENDS Integers, FiniteSets, FiniteSetTheorems, WellFoundedInduction, TLAPS

\* Every set of natural numbers that is closed under successors and has 0 is Nat.
LEMMA SetInduction ==
  ASSUME NEW S \in SUBSET Nat, 0 \in S, \A k \in S : k + 1 \in S
  PROVE  S = Nat
<1> DEFINE T == Nat \ S
<1> SUFFICES ASSUME T # {} PROVE FALSE
  OBVIOUS
<1>1. IsWellFoundedOn(OpToRel(<, Nat), Nat)
  BY NatLessThanWellFounded
<1>2. PICK x \in T : \A y \in T : ~(<<y, x>> \in OpToRel(<, Nat))
  BY <1>1, WFMin
<1>3. \A y \in T : ~(y < x)
  BY <1>2 DEF OpToRel
<1>4. x \in Nat /\ x # 0 /\ x \notin S
  OBVIOUS
<1>5. x - 1 \in Nat /\ x - 1 < x /\ (x - 1) + 1 = x
  BY <1>4
<1>6. x - 1 \in S
  BY <1>3, <1>5
<1> QED BY <1>4, <1>5, <1>6

\* The functions that follow G from A for n steps.
Follows(g, n, A, G) == g[0] = A /\ \A k \in 0..(n - 1) : g[k + 1] = G[g[k]]

LEMMA OneFollows ==
  ASSUME NEW T, NEW A \in T, NEW G \in [T -> T], NEW n \in Nat, NEW m \in Nat,
         NEW g \in [0..n -> T], NEW h \in [0..m -> T],
         Follows(g, n, A, G), Follows(h, m, A, G)
  PROVE  \A k \in (0..n) \cap (0..m) : g[k] = h[k]
<1> DEFINE S == {k \in Nat : k \in (0..n) \cap (0..m) => g[k] = h[k]}
<1>1. 0 \in S
  BY DEF Follows
<1>2. ASSUME NEW k \in S PROVE k + 1 \in S
  <2> SUFFICES ASSUME k + 1 \in (0..n) \cap (0..m) PROVE g[k + 1] = h[k + 1]
    OBVIOUS
  <2>1. k \in 0..(n - 1) /\ k \in 0..(m - 1) /\ k \in (0..n) \cap (0..m)
    OBVIOUS
  <2> QED BY <2>1 DEF Follows
<1>3. S = Nat
  <2> HIDE DEF S
  <2>1. S \in SUBSET Nat
    BY DEF S
  <2> QED BY <2>1, <1>1, <1>2, SetInduction
<1> QED BY <1>3

LEMMA SomeFollows ==
  ASSUME NEW T, NEW A \in T, NEW G \in [T -> T]
  PROVE  \A n \in Nat : \E g \in [0..n -> T] : Follows(g, n, A, G)
<1> DEFINE S == {n \in Nat : \E g \in [0..n -> T] : Follows(g, n, A, G)}
<1>1. 0 \in S
  <2>1. [k \in 0..0 |-> A] \in [0..0 -> T] /\ Follows([k \in 0..0 |-> A], 0, A, G)
    BY DEF Follows
  <2> QED BY <2>1
<1>2. ASSUME NEW n \in S PROVE n + 1 \in S
  <2>1. PICK g \in [0..n -> T] : Follows(g, n, A, G)
    OBVIOUS
  <2> DEFINE h == [k \in 0..(n + 1) |-> IF k = n + 1 THEN G[g[n]] ELSE g[k]]
  <2>2. n \in Nat /\ n \in 0..n
    OBVIOUS
  <2>3. h \in [0..(n + 1) -> T]
    <3>1. \A k \in 0..(n + 1) : k # n + 1 => k \in 0..n
      BY <2>2
    <3> QED BY <2>2, <3>1
  <2>4. h[0] = A
    BY <2>1, <2>2 DEF Follows
  <2>5. \A k \in 0..n : h[k + 1] = G[h[k]]
    <3> TAKE k \in 0..n
    <3>1. h[k] = g[k] /\ k + 1 \in 0..(n + 1)
      BY <2>2
    <3>2. CASE k = n
      BY <3>1, <3>2, <2>2
    <3>3. CASE k # n
      <4>1. k \in 0..(n - 1) /\ k + 1 # n + 1
        BY <3>3, <2>2
      <4> QED BY <4>1, <3>1, <2>1 DEF Follows
    <3> QED BY <3>2, <3>3
  <2>6. (n + 1) - 1 = n
    BY <2>2
  <2>7. Follows(h, n + 1, A, G)
    BY <2>4, <2>5, <2>6 DEF Follows
  <2> QED BY <2>2, <2>3, <2>7
<1>3. S = Nat
  <2> HIDE DEF S
  <2>1. S \in SUBSET Nat
    BY DEF S
  <2> QED BY <2>1, <1>1, <1>2, SetInduction
<1> QED BY <1>3

\* A recursive function is what its equations say.
LEMMA IterationExists ==
  ASSUME NEW T, NEW A \in T, NEW G \in [T -> T]
  PROVE  \E f \in [Nat -> T] : f[0] = A /\ \A n \in Nat : f[n + 1] = G[f[n]]
<1> DEFINE c(n) == CHOOSE g \in [0..n -> T] : Follows(g, n, A, G)
           f    == [n \in Nat |-> c(n)[n]]
<1>1. \A n \in Nat : c(n) \in [0..n -> T] /\ Follows(c(n), n, A, G)
  BY SomeFollows
<1> HIDE DEF c
<1>2. f \in [Nat -> T]
  <2>1. \A n \in Nat : n \in 0..n
    OBVIOUS
  <2> QED BY <2>1, <1>1
<1>3. f[0] = A
  BY <1>1 DEF Follows
<1>4. ASSUME NEW n \in Nat PROVE f[n + 1] = G[f[n]]
  <2>1. /\ n + 1 \in Nat /\ n \in 0..((n + 1) - 1)
        /\ n \in (0..n) \cap (0..(n + 1))
    OBVIOUS
  <2>2. c(n + 1)[n + 1] = G[c(n + 1)[n]]
    BY <1>1, <2>1 DEF Follows
  <2>3. c(n + 1)[n] = c(n)[n]
    <3>1. /\ c(n) \in [0..n -> T] /\ Follows(c(n), n, A, G)
          /\ c(n + 1) \in [0..(n + 1) -> T] /\ Follows(c(n + 1), n + 1, A, G)
      BY <1>1, <2>1
    <3> HIDE DEF f
    <3>2. \A k \in (0..n) \cap (0..(n + 1)) : c(n)[k] = c(n + 1)[k]
      BY <3>1, <2>1, OneFollows
    <3> QED BY <3>2, <2>1
  <2> QED BY <2>1, <2>2, <2>3
<1> QED BY <1>2, <1>3, <1>4

\* What is reached in as many steps as there are elements is closed, and least.
LEMMA LimitReached ==
  ASSUME NEW P, IsFiniteSet(P), NEW G \in [SUBSET P -> SUBSET P],
         \A X \in SUBSET P : X \subseteq G[X],
         NEW f \in [Nat -> SUBSET P], \A n \in Nat : f[n + 1] = G[f[n]]
  PROVE  LET L == f[Cardinality(P)] IN
           /\ L \in SUBSET P /\ f[0] \subseteq L /\ G[L] = L
           /\ \A C \in SUBSET P :
                f[0] \subseteq C /\ (\A X \in SUBSET C : G[X] \subseteq C) => L \subseteq C
<1> DEFINE N == Cardinality(P)
<1>1. N \in Nat
  BY FS_CardinalityType
<1>2. \A n \in Nat : IsFiniteSet(f[n]) /\ Cardinality(f[n]) \in Nat
  BY FS_Subset, FS_CardinalityType
<1> DEFINE S == {n \in Nat : Cardinality(f[n]) >= n \/ f[n + 1] = f[n]}
<1>3. 0 \in S
  BY <1>2
<1>4. ASSUME NEW n \in S PROVE n + 1 \in S
  <2>1. n \in Nat /\ n + 1 \in Nat
    OBVIOUS
  <2>2. CASE f[n + 1] = f[n]
    BY <2>1, <2>2
  <2>3. CASE f[n + 1] # f[n]
    <3>1. Cardinality(f[n]) >= n
      BY <2>3
    <3>2. f[n] \subseteq f[n + 1]
      BY <2>1
    <3>3. /\ IsFiniteSet(f[n + 1]) /\ Cardinality(f[n]) <= Cardinality(f[n + 1])
          /\ Cardinality(f[n]) # Cardinality(f[n + 1])
      BY <3>2, <2>1, <2>3, <1>2, FS_Subset
    <3>4. Cardinality(f[n + 1]) >= n + 1
      <4>1. \A a, b, m \in Nat : m <= a /\ a <= b /\ a # b => b >= m + 1
        OBVIOUS
      <4>2. Cardinality(f[n]) \in Nat /\ Cardinality(f[n + 1]) \in Nat /\ n <= Cardinality(f[n])
        BY <3>1, <2>1, <1>2
      <4> HIDE DEF S, N
      <4> QED BY <4>1, <4>2, <3>3, <2>1
    <3> QED BY <3>4, <2>1
  <2> QED BY <2>2, <2>3
<1>5. S = Nat
  <2> HIDE DEF S
  <2>1. S \in SUBSET Nat
    BY DEF S
  <2> QED BY <2>1, <1>3, <1>4, SetInduction
<1>6. f[N + 1] = f[N]
  <2>1. CASE Cardinality(f[N]) >= N
    <3>1. f[N] \subseteq P /\ f[N + 1] \subseteq P /\ f[N] \subseteq f[N + 1]
      BY <1>1
    <3> DEFINE X == f[N]
    <3>2. X \in SUBSET P /\ Cardinality(X) \in Nat
      BY <3>1, <1>1, <1>2
    <3> HIDE DEF X
    <3>3. Cardinality(X) <= Cardinality(P) /\ (Cardinality(P) = Cardinality(X) => P = X)
      BY <3>2, FS_Subset
    <3>4. f[N] = P
      BY <2>1, <3>2, <3>3, <1>1 DEF X
    <3> QED BY <3>1, <3>4
  <2> QED BY <2>1, <1>1, <1>5
<1> HIDE DEF S
<1>7. ASSUME NEW C \in SUBSET P, f[0] \subseteq C, \A X \in SUBSET C : G[X] \subseteq C
      PROVE  f[N] \subseteq C
  <2> DEFINE I == {n \in Nat : f[n] \subseteq C}
  <2>1. 0 \in I /\ \A n \in I : n + 1 \in I
    BY <1>7
  <2>2. I = Nat
    <3> HIDE DEF I
    <3>1. I \in SUBSET Nat
      BY DEF I
    <3> QED BY <3>1, <2>1, SetInduction
  <2> QED BY <2>2, <1>1
<1>8. f[0] \subseteq f[N]
  <2> DEFINE I == {n \in Nat : f[0] \subseteq f[n]}
  <2>1. 0 \in I /\ \A n \in I : n + 1 \in I
    OBVIOUS
  <2>2. I = Nat
    <3> HIDE DEF I
    <3>1. I \in SUBSET Nat
      BY DEF I
    <3> QED BY <3>1, <2>1, SetInduction
  <2> QED BY <2>2, <1>1
<1>9. f[N] \in SUBSET P /\ G[f[N]] = f[N]
  BY <1>1, <1>6
<1> QED BY <1>7, <1>8, <1>9
===============================================================================
