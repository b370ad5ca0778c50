----------------------- MODULE StrengthReductionProofs -----------------------
(***************************************************************************)
(* Words of any width: what Arithmetic puts in place of an operation has   *)
(* the value of the operation, also where it wraps.                        *)
(***************************************************************************)
EXTENDS StrengthReduction, FixpointProofs

(* Powers of two. *)
LEMMA PowersOfTwo ==
  /\ Pow2 \in [Nat -> Nat \ {0}]
  /\ Pow2[0] = 1
  /\ \A k \in Nat : Pow2[k + 1] = 2 * Pow2[k]
<1> DEFINE P == Nat \ {0}
           G == [x \in P |-> 2 * x]
           one == 1
           Is(f) == f = [k \in Nat |-> IF k = 0 THEN 1 ELSE 2 * f[k - 1]]
<1>1. G \in [P -> P] /\ one \in P
  OBVIOUS
<1>2. PICK f \in [Nat -> P] : f[0] = 1 /\ \A n \in Nat : f[n + 1] = G[f[n]]
  <2> HIDE DEF P, G, one, Is
  <2>1. \E f \in [Nat -> P] : f[0] = one /\ \A n \in Nat : f[n + 1] = G[f[n]]
    BY <1>1, IterationExists
  <2> QED BY <2>1 DEF one
<1>3. \A n \in Nat : f[n + 1] = 2 * f[n]
  BY <1>2
<1>4. Is(f)
  <2>1. \A k \in Nat : f[k] = IF k = 0 THEN 1 ELSE 2 * f[k - 1]
    <3> TAKE k \in Nat
    <3>1. CASE k = 0
      BY <3>1, <1>2
    <3>2. CASE k # 0
      <4>1. k - 1 \in Nat /\ (k - 1) + 1 = k
        BY <3>2
      <4> QED BY <4>1, <3>2, <1>3
    <3> QED BY <3>1, <3>2
  <2> QED BY <2>1, <1>2
<1>5. Pow2 = CHOOSE g : Is(g)
  BY DEF Pow2
<1>6. Is(Pow2)
  <2> HIDE DEF Is
  <2> QED BY <1>4, <1>5, Zenon
<1>7. Pow2[0] = 1 /\ \A k \in Nat : Pow2[k + 1] = 2 * Pow2[k]
  <2>1. Pow2 = [k \in Nat |-> IF k = 0 THEN 1 ELSE 2 * Pow2[k - 1]]
    BY <1>6
  <2>2. Pow2[0] = 1
    BY <2>1
  <2>3. ASSUME NEW k \in Nat PROVE Pow2[k + 1] = 2 * Pow2[k]
    <3>1. k + 1 \in Nat /\ k + 1 # 0 /\ (k + 1) - 1 = k
      OBVIOUS
    <3> QED BY <2>1, <3>1
  <2> QED BY <2>2, <2>3
<1>8. \A k \in Nat : Pow2[k] \in P
  <2> DEFINE S == {k \in Nat : Pow2[k] \in P}
  <2>1. 0 \in S /\ \A k \in S : k + 1 \in S
    BY <1>7
  <2>2. S = Nat
    <3> HIDE DEF S
    <3>1. S \in SUBSET Nat
      BY DEF S
    <3> QED BY <3>1, <2>1, SetInduction
  <2> QED BY <2>2
<1> QED BY <1>6, <1>7, <1>8

LEMMA PowerOfSum ==
  ASSUME NEW j \in Nat
  PROVE  \A k \in Nat : Pow2[j + k] = Pow2[j] * Pow2[k]
<1> DEFINE S == {k \in Nat : Pow2[j + k] = Pow2[j] * Pow2[k]}
<1>1. 0 \in S
  BY PowersOfTwo
<1>2. ASSUME NEW k \in S PROVE k + 1 \in S
  <2>1. Pow2[j + (k + 1)] = 2 * Pow2[j + k] /\ Pow2[k + 1] = 2 * Pow2[k]
    <3>1. j + k \in Nat /\ j + (k + 1) = (j + k) + 1
      OBVIOUS
    <3> QED BY <3>1, PowersOfTwo
  <2>2. Pow2[j] \in Nat /\ Pow2[k] \in Nat
    BY PowersOfTwo
  <2>3. 2 * (Pow2[j] * Pow2[k]) = Pow2[j] * (2 * Pow2[k])
    BY <2>2
  <2> QED BY <2>1, <2>3
<1>3. S = Nat
  <2> HIDE DEF S
  <2>1. S \in SUBSET Nat
    BY DEF S
  <2> QED BY <2>1, <1>1, <1>2, SetInduction
<1> QED BY <1>3

LEMMA PowersRise ==
  /\ \A k \in Nat : k < Pow2[k]
  /\ \A j, k \in Nat : j < k => 2 * Pow2[j] <= Pow2[k]
<1>1. \A k \in Nat : k < Pow2[k]
  <2> DEFINE S == {k \in Nat : k < Pow2[k]}
  <2>1. 0 \in S
    BY PowersOfTwo
  <2>2. ASSUME NEW k \in S PROVE k + 1 \in S
    <3>1. Pow2[k] \in Nat /\ Pow2[k + 1] = 2 * Pow2[k] /\ k < Pow2[k] /\ k \in Nat
      BY PowersOfTwo
    <3> QED BY <3>1
  <2>3. S = Nat
    <3> HIDE DEF S
    <3>1. S \in SUBSET Nat
      BY DEF S
    <3> QED BY <3>1, <2>1, <2>2, SetInduction
  <2> QED BY <2>3
<1>2. ASSUME NEW j \in Nat, NEW k \in Nat, j < k PROVE 2 * Pow2[j] <= Pow2[k]
  <2> DEFINE d == k - (j + 1)
  <2>1. d \in Nat /\ (j + 1) + d = k /\ j + 1 \in Nat
    BY <1>2
  <2> HIDE DEF d
  <2>2. Pow2[k] = Pow2[j + 1] * Pow2[d]
    BY <2>1, PowerOfSum
  <2>3. Pow2[j + 1] = 2 * Pow2[j] /\ Pow2[j] \in Nat /\ Pow2[d] \in Nat /\ Pow2[d] >= 1
    BY <2>1, PowersOfTwo
  <2>4. \A a, b \in Nat : b >= 1 => a <= a * b
    OBVIOUS
  <2>5. 2 * Pow2[j] \in Nat
    BY <2>3
  <2> QED BY <2>2, <2>3, <2>4, <2>5
<1> QED BY <1>1, <1>2

-----------------------------------------------------------------------------
(* Division and words. *)
LEMMA Division ==
  ASSUME NEW x \in Int, NEW m \in Nat \ {0}
  PROVE  /\ x \div m \in Int /\ x % m \in 0..(m - 1)
         /\ x = m * (x \div m) + (x % m)
OBVIOUS

LEMMA DivisionIsUnique ==
  ASSUME NEW m \in Nat \ {0}, NEW q \in Int, NEW r \in 0..(m - 1)
  PROVE  (m * q + r) \div m = q /\ (m * q + r) % m = r
OBVIOUS

Half == Pow2[W - 1]

LEMMA WordsAre ==
  /\ W \in Nat /\ W - 1 \in Nat /\ Half \in Nat /\ Half > W - 1 /\ W > 2
  /\ Modulus = 2 * Half /\ Modulus \in Nat \ {0}
  /\ WordSet = (-Half)..(Half - 1) /\ MinWord = -Half
<1>1. W \in Nat /\ W - 1 \in Nat /\ W > 2 /\ (W - 1) + 1 = W
  BY WAssumption
<1>2. Half \in Nat \ {0} /\ Half > W - 1 /\ Pow2[W] = 2 * Half
  BY <1>1, PowersOfTwo, PowersRise DEF Half
<1> QED BY <1>1, <1>2 DEF Modulus, WordSet, MinWord, MaxWord, Half

\* Two words that differ by a multiple of the modulus are one.
LEMMA OneWord ==
  ASSUME NEW x \in WordSet, NEW y \in WordSet, NEW q \in Int, x = y + q * Modulus
  PROVE  x = y
<1>1. /\ x \in Int /\ y \in Int /\ Modulus \in Nat \ {0} /\ Modulus = 2 * Half /\ Half \in Nat
      /\ x - y < Modulus /\ y - x < Modulus
  BY WordsAre
<1>2. q >= 1 => q * Modulus >= Modulus
  BY <1>1
<1>3. q <= -1 => q * Modulus <= -Modulus
  BY <1>1
<1>4. q = 0 => q * Modulus = 0
  BY <1>1
<1>5. q * Modulus = x - y /\ q * Modulus \in Int
  BY <1>1
<1> QED BY <1>1, <1>2, <1>3, <1>4, <1>5

LEMMA Wrapped ==
  ASSUME NEW x \in Int
  PROVE  /\ Wrap(x) \in WordSet /\ Wrap(x) \in Int
         /\ \E q \in Int : Wrap(x) = x + q * Modulus
<1> DEFINE y == x - MinWord
<1>1. y \in Int /\ y = x + Half
  BY WordsAre
<1> HIDE DEF y
<1>2. /\ y \div Modulus \in Int /\ y % Modulus \in 0..(Modulus - 1)
      /\ y = Modulus * (y \div Modulus) + (y % Modulus)
  BY <1>1, WordsAre, Division
<1>3. Wrap(x) = (y % Modulus) - Half
  BY <1>2, WordsAre DEF Wrap, y
<1>4. Wrap(x) \in WordSet /\ Wrap(x) \in Int
  <2> DEFINE r == y % Modulus
  <2>1. r \in Int /\ 0 <= r /\ r <= 2 * Half - 1 /\ Wrap(x) = r - Half /\ Half \in Nat
    BY <1>2, <1>3, WordsAre
  <2> HIDE DEF r
  <2>2. Wrap(x) \in (-Half)..(Half - 1)
    BY <2>1
  <2> QED BY <2>2, WordsAre
<1> DEFINE p == y \div Modulus
<1> HIDE DEF p
<1>5. p \in Int /\ Modulus \in Int /\ Wrap(x) = x - Modulus * p
  BY <1>1, <1>2, <1>3, WordsAre DEF p
<1>6. -p \in Int /\ x - Modulus * p = x + (-p) * Modulus
  BY <1>5
<1> QED BY <1>4, <1>5, <1>6

LEMMA WrapOfWord ==
  ASSUME NEW x \in WordSet
  PROVE  Wrap(x) = x
<1>1. x \in Int
  BY WordsAre
<1>2. PICK q \in Int : Wrap(x) = x + q * Modulus
  BY <1>1, Wrapped
<1> QED BY <1>1, <1>2, Wrapped, OneWord

LEMMA Congruent ==
  ASSUME NEW x \in Int, NEW y \in Int, NEW q \in Int, x = y + q * Modulus
  PROVE  Wrap(x) = Wrap(y)
<1>1. Modulus \in Int
  BY WordsAre
<1>2. PICK a \in Int : Wrap(x) = x + a * Modulus
  BY Wrapped
<1>3. PICK b \in Int : Wrap(y) = y + b * Modulus
  BY Wrapped
<1>4. (a + q - b) \in Int /\ Wrap(x) = Wrap(y) + (a + q - b) * Modulus
  BY <1>1, <1>2, <1>3
<1> QED BY <1>4, Wrapped, OneWord

\* Sums, differences and products of words wrap in any order.
LEMMA WrapInside ==
  ASSUME NEW x \in Int, NEW y \in Int
  PROVE  /\ Wrap(Wrap(x) * y) = Wrap(x * y) /\ Wrap(y * Wrap(x)) = Wrap(y * x)
         /\ Wrap(y - Wrap(x)) = Wrap(y - x) /\ Wrap(y + Wrap(x)) = Wrap(y + x)
<1>1. PICK q \in Int : Wrap(x) = x + q * Modulus
  BY Wrapped
<1>2. Wrap(x) \in Int /\ Modulus \in Int
  BY Wrapped, WordsAre
<1>3. Wrap(x) * y = x * y + (q * y) * Modulus /\ q * y \in Int /\ x * y \in Int
  BY <1>1, <1>2
<1>4. Wrap(x) * y = y * Wrap(x) /\ x * y = y * x
  BY <1>2
<1>5. y - Wrap(x) = (y - x) + (-q) * Modulus /\ -q \in Int
  BY <1>1, <1>2
<1>6. y + Wrap(x) = (y + x) + q * Modulus
  BY <1>1, <1>2
<1>7. Wrap(x) * y \in Int /\ y - Wrap(x) \in Int /\ y + Wrap(x) \in Int /\ y - x \in Int /\ y + x \in Int
  BY <1>2
<1>8. Wrap(Wrap(x) * y) = Wrap(x * y)
  BY <1>3, <1>7, Congruent
<1>9. Wrap(y - Wrap(x)) = Wrap(y - x)
  BY <1>5, <1>7, Congruent
<1>10. Wrap(y + Wrap(x)) = Wrap(y + x)
  BY <1>6, <1>7, Congruent
<1> QED BY <1>4, <1>8, <1>9, <1>10

-----------------------------------------------------------------------------
(* Quotients and remainders. *)
LEMMA Absolute ==
  ASSUME NEW x \in WordSet
  PROVE  x \in Int /\ Abs(x) \in 0..Half /\ (Abs(x) = 0 <=> x = 0) /\ Half \in Nat
BY WordsAre DEF Abs

LEMMA AbsoluteOfOnes == Abs(0) = 0 /\ Abs(1) = 1 /\ Abs(-1) = 1
<1>1. Abs(0) = 0 /\ Abs(1) = 1
  BY DEF Abs
<1>2. \A n \in Int : n + 1 = 0 => Abs(n) = 1
  BY DEF Abs
<1>3. -1 \in Int /\ -1 + 1 = 0
  OBVIOUS
<1> QED BY <1>1, <1>2, <1>3

LEMMA Constants ==
  /\ 0 \in WordSet /\ 1 \in WordSet /\ -1 \in WordSet
  /\ \A k \in 0..(W - 1) : k \in WordSet
BY WordsAre

Quotient(x, y) == IF (x < 0) = (y < 0) THEN Abs(x) \div Abs(y) ELSE -(Abs(x) \div Abs(y))

LEMMA QuotientIs ==
  ASSUME NEW x \in WordSet, NEW y \in WordSet, y # 0
  PROVE  /\ Quotient(x, y) \in Int /\ WDiv(x, y) = Wrap(Quotient(x, y))
         /\ x - Quotient(x, y) * y = IF x < 0 THEN -(Abs(x) % Abs(y)) ELSE Abs(x) % Abs(y)
<1> DEFINE a == Abs(x)
           b == Abs(y)
           q == a \div b
           r == a % b
<1>1. x \in Int /\ y \in Int /\ a \in Nat /\ b \in Nat \ {0}
  BY Absolute
<1>2. (x < 0 => x = -a) /\ (~(x < 0) => x = a) /\ (y < 0 => y = -b) /\ (~(y < 0) => y = b)
  BY <1>1 DEF Abs
<1> HIDE DEF a, b
<1>3. q \in Int /\ r \in Int /\ a = b * q + r
  BY <1>1, Division
<1> HIDE DEF q, r
<1>4. Quotient(x, y) = IF (x < 0) = (y < 0) THEN q ELSE -q
  BY DEF Quotient, a, b, q
<1>5. WDiv(x, y) = Wrap(Quotient(x, y))
  BY <1>1 DEF WDiv, Quotient
<1>6. x - Quotient(x, y) * y = IF x < 0 THEN -r ELSE r
  <2>1. CASE x < 0 /\ y < 0
    <3>1. x = -a /\ y = -b /\ Quotient(x, y) = q
      BY <2>1, <1>2, <1>4
    <3>2. (-a) - q * (-b) = -r
      BY <1>1, <1>3
    <3> QED BY <2>1, <3>1, <3>2
  <2>2. CASE x < 0 /\ ~(y < 0)
    <3>1. x = -a /\ y = b /\ Quotient(x, y) = -q
      BY <2>2, <1>2, <1>4
    <3>2. (-a) - (-q) * b = -r
      BY <1>1, <1>3
    <3> QED BY <2>2, <3>1, <3>2
  <2>3. CASE ~(x < 0) /\ y < 0
    <3>1. x = a /\ y = -b /\ Quotient(x, y) = -q
      BY <2>3, <1>2, <1>4
    <3>2. a - (-q) * (-b) = r
      BY <1>1, <1>3
    <3> QED BY <2>3, <3>1, <3>2
  <2>4. CASE ~(x < 0) /\ ~(y < 0)
    <3>1. x = a /\ y = b /\ Quotient(x, y) = q
      BY <2>4, <1>2, <1>4
    <3>2. a - q * b = r
      BY <1>1, <1>3
    <3> QED BY <2>4, <3>1, <3>2
  <2> QED BY <2>1, <2>2, <2>3, <2>4
<1>7. Quotient(x, y) \in Int
  BY <1>3, <1>4
<1> QED BY <1>5, <1>6, <1>7 DEF a, b, q, r

\* The remainder has the sign of the dividend, and never wraps.
LEMMA RemainderIs ==
  ASSUME NEW x \in WordSet, NEW y \in WordSet, y # 0
  PROVE  /\ Abs(x) % Abs(y) \in Nat
         /\ WRem(x, y) = IF x < 0 THEN -(Abs(x) % Abs(y)) ELSE Abs(x) % Abs(y)
<1> DEFINE Q == Quotient(x, y)
           r == Abs(x) % Abs(y)
           s == IF x < 0 THEN -r ELSE r
<1>1. /\ x \in Int /\ y \in Int /\ Abs(x) \in Int /\ Abs(x) <= Half
      /\ Abs(y) \in Nat \ {0} /\ Abs(y) <= Half /\ Half \in Nat
  BY Absolute
<1>2. r \in 0..(Abs(y) - 1)
  BY <1>1, Division
<1> HIDE DEF r
<1>3. s \in WordSet
  <2>1. s \in (-Half)..(Half - 1)
    BY <1>1, <1>2
  <2> QED BY <2>1, WordsAre
<1>4. Q \in Int /\ WDiv(x, y) = Wrap(Q) /\ x - Q * y = s
  BY QuotientIs DEF r
<1> HIDE DEF Q
<1>5. PICK p \in Int : Wrap(Q) = Q + p * Modulus
  BY <1>4, Wrapped
<1>6. Modulus \in Int
  BY WordsAre
<1>7. x - Wrap(Q) * y = (x - Q * y) + (-(p * y)) * Modulus
  BY <1>1, <1>4, <1>5, <1>6
<1>8. x - Wrap(Q) * y \in Int /\ x - Q * y \in Int /\ -(p * y) \in Int
  BY <1>1, <1>4, <1>5, <1>6, Wrapped
<1>9. Wrap(x - Wrap(Q) * y) = Wrap(x - Q * y)
  BY <1>7, <1>8, Congruent
<1>10. WRem(x, y) = s
  BY <1>3, <1>4, <1>9, WrapOfWord DEF WRem
<1> QED BY <1>2, <1>10 DEF r

LEMMA EasyQuotients ==
  ASSUME NEW x \in WordSet
  PROVE  /\ x # 0 => WDiv(x, x) = 1 /\ WDiv(0, x) = 0
         /\ WDiv(x, 1) = x
         /\ WDiv(x, -1) = Wrap(0 - x)
<1>1. x \in Int /\ Abs(x) \in Nat /\ (x # 0 => Abs(x) \in Nat \ {0})
  BY Absolute
<1>2. Abs(0) = 0 /\ Abs(1) = 1 /\ Abs(-1) = 1
  BY AbsoluteOfOnes
<1>3. /\ Abs(x) \div 1 = Abs(x)
      /\ x # 0 => Abs(x) \div Abs(x) = 1 /\ 0 \div Abs(x) = 0
  BY <1>1
<1>4. x # 0 => Quotient(x, x) = 1 /\ Quotient(0, x) = 0
  BY <1>1, <1>2, <1>3 DEF Quotient
<1>5. Quotient(x, 1) = x /\ Quotient(x, -1) = 0 - x
  BY <1>1, <1>2, <1>3 DEF Quotient, Abs
<1>6. Wrap(0) = 0 /\ Wrap(1) = 1 /\ Wrap(x) = x
  BY Constants, WrapOfWord
<1> QED BY <1>4, <1>5, <1>6, Constants, QuotientIs

LEMMA EasyRemainders ==
  ASSUME NEW x \in WordSet
  PROVE  /\ x # 0 => WRem(x, x) = 0 /\ WRem(0, x) = 0
         /\ WRem(x, 1) = 0 /\ WRem(x, -1) = 0
<1>1. x \in Int /\ Abs(x) \in Nat /\ (x # 0 => Abs(x) \in Nat \ {0})
  BY Absolute
<1>2. Abs(0) = 0 /\ Abs(1) = 1 /\ Abs(-1) = 1
  BY AbsoluteOfOnes
<1>3. /\ Abs(x) % 1 = 0
      /\ x # 0 => Abs(x) % Abs(x) = 0 /\ 0 % Abs(x) = 0
  BY <1>1
<1> QED BY <1>1, <1>2, <1>3, Constants, RemainderIs

-----------------------------------------------------------------------------
(* Masks. *)
LEMMA OneBitMore ==
  ASSUME NEW u \in Nat, NEW j \in Nat
  PROVE  u % Pow2[j + 1] = (u % Pow2[j]) + Pow2[j] * ((u \div Pow2[j]) % 2)
<1> DEFINE m == Pow2[j]
           q == u \div m
           r == u % m
           p == q \div 2
           b == q % 2
<1>1. m \in Nat \ {0} /\ Pow2[j + 1] = 2 * m
  BY PowersOfTwo
<1> HIDE DEF m
<1>2. u \in Int /\ q \in Int /\ r \in 0..(m - 1) /\ u = m * q + r
  BY <1>1
<1> HIDE DEF q, r
<1>3. p \in Int /\ b \in {0, 1} /\ q = 2 * p + b
  BY <1>2
<1> HIDE DEF p, b
<1>4. m * b \in {0, m}
  BY <1>1, <1>3
<1>5. u = (2 * m) * p + (m * b + r)
  BY <1>1, <1>2, <1>3
<1>6. m * b + r \in 0..(2 * m - 1) /\ 2 * m \in Nat \ {0}
  BY <1>1, <1>2, <1>4
<1>7. ((2 * m) * p + (m * b + r)) % (2 * m) = m * b + r
  BY <1>3, <1>6, DivisionIsUnique
<1>8. u % (2 * m) = m * b + r
  BY <1>5, <1>7
<1>9. m * b + r = r + m * b
  BY <1>1, <1>2, <1>4
<1> QED BY <1>1, <1>8, <1>9 DEF m, q, r, p, b

\* And with a word of m ones keeps the m low bits.
LEMMA AndMask ==
  ASSUME NEW x \in WordSet, NEW y \in WordSet, NEW m \in 0..W,
         \A j \in 0..(W - 1) : Bit(y, j) = IF j < m THEN 1 ELSE 0
  PROVE  WAnd(x, y) = Wrap(Unsigned(x) % Pow2[m])
<1> DEFINE u == Unsigned(x)
           low(k) == u % Pow2[IF k < m THEN k ELSE m]
           Is(f) == f = [k \in 0..W |-> IF k = 0 THEN 0
                                        ELSE f[k - 1] + Pow2[k - 1] * Bit(x, k - 1) * Bit(y, k - 1)]
           h == [k \in 0..W |-> low(k)]
<1>1. W \in Nat /\ m \in Nat /\ u \in Nat /\ \A k \in Nat : Pow2[k] \in Nat \ {0}
  <2>1. Modulus \in Nat \ {0} /\ x \in Int /\ W \in Nat
    BY WordsAre
  <2>2. u \in Nat
    BY <2>1, Division DEF Unsigned
  <2> QED BY <2>1, <2>2, PowersOfTwo
<1>2. low(0) = 0
  <2>1. u % 1 = 0
    BY <1>1
  <2>2. (IF 0 < m THEN 0 ELSE m) = 0
    BY <1>1
  <2> QED BY <2>1, <2>2, PowersOfTwo
<1>3. ASSUME NEW k \in 1..W
      PROVE  low(k) = low(k - 1) + Pow2[k - 1] * Bit(x, k - 1) * Bit(y, k - 1)
  <2>1. k - 1 \in Nat /\ k - 1 \in 0..(W - 1) /\ (k - 1) + 1 = k /\ k \in Nat
    BY <1>1
  <2>2. Bit(x, k - 1) = (u \div Pow2[k - 1]) % 2
    BY DEF Bit
  <2>3. /\ Pow2[k - 1] \in Nat /\ Bit(x, k - 1) \in Nat
        /\ u % Pow2[m] \in Nat
    <3>1. Pow2[k - 1] \in Nat \ {0} /\ Pow2[m] \in Nat \ {0}
      BY <1>1, <2>1
    <3>2. u \div Pow2[k - 1] \in Int
      BY <3>1, <1>1, Division
    <3>3. Bit(x, k - 1) \in 0..1
      BY <3>2, <2>2
    <3>4. u % Pow2[m] \in 0..(Pow2[m] - 1)
      <4> HIDE DEF u
      <4>1. u \in Int
        BY <1>1
      <4> QED BY <4>1, <3>1, Division
    <3> QED BY <3>1, <3>3, <3>4
  <2>4. CASE k - 1 < m
    <3>1. Bit(y, k - 1) = 1
      BY <2>1, <2>4
    <3>2. low(k - 1) = u % Pow2[k - 1]
      BY <2>4
    <3>3. low(k) = u % Pow2[k]
      <4>1. CASE k < m
        BY <4>1
      <4>2. CASE k = m
        BY <4>2
      <4> QED BY <4>1, <4>2, <2>1, <2>4, <1>1
    <3>4. u % Pow2[k] = (u % Pow2[k - 1]) + Pow2[k - 1] * ((u \div Pow2[k - 1]) % 2)
      BY <1>1, <2>1, OneBitMore
    <3>5. Pow2[k - 1] * Bit(x, k - 1) * 1 = Pow2[k - 1] * Bit(x, k - 1)
      BY <2>3
    <3> HIDE DEF low
    <3> QED BY <2>2, <3>1, <3>2, <3>3, <3>4, <3>5
  <2>5. CASE ~(k - 1 < m)
    <3>1. Bit(y, k - 1) = 0 /\ ~(k < m)
      BY <1>1, <2>1, <2>5
    <3>2. low(k - 1) = u % Pow2[m] /\ low(k) = u % Pow2[m]
      BY <2>5, <3>1
    <3>3. Pow2[k - 1] * Bit(x, k - 1) * 0 = 0
      BY <2>3
    <3> HIDE DEF low
    <3> QED BY <2>3, <3>1, <3>2, <3>3
  <2> QED BY <2>4, <2>5
<1> HIDE DEF low
<1>4. Is(h)
  <2>1. \A k \in 0..W : h[k] = IF k = 0 THEN 0
                               ELSE h[k - 1] + Pow2[k - 1] * Bit(x, k - 1) * Bit(y, k - 1)
    <3> TAKE k \in 0..W
    <3>1. CASE k = 0
      BY <3>1, <1>2
    <3>2. CASE k # 0
      <4>1. k \in 1..W /\ k - 1 \in 0..W
        BY <3>2, <1>1
      <4> QED BY <4>1, <3>2, <1>3
    <3> QED BY <3>1, <3>2
  <2> QED BY <2>1
<1> DEFINE bits == CHOOSE f : Is(f)
<1>5. WAnd(x, y) = Wrap(bits[W])
  BY DEF WAnd
<1>6. Is(bits)
  <2> HIDE DEF Is, h
  <2> QED BY <1>4, Zenon
<1> HIDE DEF bits
<1>7. \A k \in 0..W : bits[k] = low(k)
  <2> DEFINE S == {k \in Nat : k \in 0..W => bits[k] = low(k)}
  <2>1. 0 \in S
    BY <1>2, <1>6, <1>1
  <2>2. ASSUME NEW k \in S PROVE k + 1 \in S
    <3> SUFFICES ASSUME k + 1 \in 0..W PROVE bits[k + 1] = low(k + 1)
      OBVIOUS
    <3>1. k \in Nat /\ k \in 0..W /\ k + 1 \in 1..W /\ (k + 1) - 1 = k /\ k + 1 # 0
      BY <1>1
    <3>2. bits[k] = low(k)
      BY <3>1
    <3>3. bits[k + 1] = bits[k] + Pow2[k] * Bit(x, k) * Bit(y, k)
      BY <3>1, <1>6
    <3>4. low(k + 1) = low(k) + Pow2[k] * Bit(x, k) * Bit(y, k)
      BY <3>1, <1>3
    <3> QED BY <3>2, <3>3, <3>4
  <2>3. S = Nat
    <3> HIDE DEF S
    <3>1. S \in SUBSET Nat
      BY DEF S
    <3> QED BY <3>1, <2>1, <2>2, SetInduction
  <2> QED BY <2>3, <1>1
<1>8. bits[W] = u % Pow2[m]
  <2>1. low(W) = u % Pow2[m]
    <3>1. (IF W < m THEN W ELSE m) = m
      BY <1>1
    <3> QED BY <3>1 DEF low
  <2> QED BY <2>1, <1>7, <1>1
<1> QED BY <1>5, <1>8

LEMMA UnsignedIs ==
  ASSUME NEW x \in WordSet
  PROVE  /\ x \in Int /\ Unsigned(x) \in 0..(Modulus - 1)
         /\ Wrap(Unsigned(x)) = x /\ (x >= 0 => Unsigned(x) = x)
<1>1. x \in Int /\ Modulus \in Nat \ {0} /\ Modulus = 2 * Half /\ Half \in Nat /\ x < Half
  BY WordsAre
<1> DEFINE q == x \div Modulus
           u == x % Modulus
<1>2. q \in Int /\ u \in 0..(Modulus - 1) /\ x = Modulus * q + u
  BY <1>1, Division
<1>3. x >= 0 => u = x
  BY <1>1
<1> HIDE DEF q, u
<1>4. u \in Int /\ x = u + q * Modulus
  BY <1>1, <1>2
<1>5. Wrap(x) = Wrap(u)
  BY <1>1, <1>2, <1>4, Congruent
<1> QED BY <1>1, <1>2, <1>3, <1>5, WrapOfWord DEF u, Unsigned

LEMMA BitsOfMask ==
  ASSUME NEW y \in WordSet, NEW m \in 0..W, Unsigned(y) = Pow2[m] - 1
  PROVE  \A j \in 0..(W - 1) : Bit(y, j) = IF j < m THEN 1 ELSE 0
<1> TAKE j \in 0..(W - 1)
<1>1. j \in Nat /\ m \in Nat /\ Pow2[j] \in Nat \ {0} /\ Pow2[m] \in Nat \ {0}
  <2>1. j \in Nat /\ m \in Nat
    BY WordsAre
  <2> QED BY <2>1, PowersOfTwo
<1>2. Bit(y, j) = ((Pow2[m] - 1) \div Pow2[j]) % 2
  BY DEF Bit
<1>3. CASE j < m
  <2> DEFINE p == Pow2[j]
             d == Pow2[m - (j + 1)]
  <2>1. m - (j + 1) \in Nat /\ j + 1 \in Nat /\ (j + 1) + (m - (j + 1)) = m
    BY <1>1, <1>3
  <2>2. Pow2[m] = Pow2[j + 1] * d /\ Pow2[j + 1] = 2 * p
    BY <2>1, <1>1, PowerOfSum, PowersOfTwo
  <2>3. d \in Nat /\ p \in Nat \ {0}
    BY <1>1, <2>1, PowersOfTwo
  <2> HIDE DEF p, d
  <2>4. 2 * d - 1 \in Int /\ p - 1 \in 0..(p - 1)
    BY <2>3
  <2>5. Pow2[m] - 1 = p * (2 * d - 1) + (p - 1)
    BY <2>2, <2>3
  <2>6. (p * (2 * d - 1) + (p - 1)) \div p = 2 * d - 1
    BY <2>3, <2>4, DivisionIsUnique
  <2>7. (2 * d - 1) % 2 = 1
    BY <2>3
  <2> QED BY <1>2, <1>3, <2>5, <2>6, <2>7 DEF p
<1>4. CASE ~(j < m)
  <2>1. Pow2[m] - 1 \in 0..(Pow2[j] - 1)
    <3>1. m = j \/ m < j
      BY <1>1, <1>4
    <3>2. m < j => 2 * Pow2[m] <= Pow2[j]
      BY <1>1, PowersRise
    <3> QED BY <1>1, <3>1, <3>2
  <2> DEFINE p == Pow2[j]
             n == Pow2[m] - 1
  <2>2. p \in Nat \ {0} /\ n \in 0..(p - 1)
    BY <1>1, <2>1
  <2> HIDE DEF p, n
  <2>3. n \div p = 0
    BY <2>2
  <2> QED BY <1>2, <1>4, <2>3 DEF p, n
<1> QED BY <1>3, <1>4

LEMMA AndWithMask ==
  ASSUME NEW x \in WordSet, NEW y \in WordSet, NEW m \in 0..W, Unsigned(y) = Pow2[m] - 1
  PROVE  WAnd(x, y) = Wrap(Unsigned(x) % Pow2[m])
BY AndMask, BitsOfMask

LEMMA AndCommutes ==
  ASSUME NEW x \in WordSet, NEW y \in WordSet
  PROVE  WAnd(x, y) = WAnd(y, x)
<1> DEFINE T(k) == Pow2[k - 1] * Bit(x, k - 1) * Bit(y, k - 1)
           U(k) == Pow2[k - 1] * Bit(y, k - 1) * Bit(x, k - 1)
           IsT(f) == f = [k \in 0..W |-> IF k = 0 THEN 0 ELSE f[k - 1] + T(k)]
           IsU(f) == f = [k \in 0..W |-> IF k = 0 THEN 0 ELSE f[k - 1] + U(k)]
<1>1. ASSUME NEW k \in 0..W, k # 0 PROVE T(k) = U(k)
  <2>1. k - 1 \in Nat
    BY <1>1, WordsAre
  <2>2. Pow2[k - 1] \in Nat \ {0} /\ Unsigned(x) \in Int /\ Unsigned(y) \in Int
    <3>1. Pow2[k - 1] \in Nat \ {0}
      BY <2>1, PowersOfTwo
    <3>2. Unsigned(x) \in 0..(Modulus - 1) /\ Unsigned(y) \in 0..(Modulus - 1)
      BY UnsignedIs
    <3> QED BY <3>1, <3>2
  <2>3. Unsigned(x) \div Pow2[k - 1] \in Int /\ Unsigned(y) \div Pow2[k - 1] \in Int
    <3> DEFINE a == Unsigned(x)
               b == Unsigned(y)
               p == Pow2[k - 1]
    <3> HIDE DEF a, b, p
    <3>1. p \in Nat \ {0} /\ a \in Int /\ b \in Int
      BY <2>2 DEF a, b, p
    <3>2. a \div p \in Int /\ b \div p \in Int
      BY <3>1
    <3> QED BY <3>2 DEF a, b, p
  <2>4. Bit(x, k - 1) \in Int /\ Bit(y, k - 1) \in Int
    BY <2>3 DEF Bit
  <2> QED BY <2>2, <2>4
<1> HIDE DEF T, U
<1>2. ASSUME NEW f PROVE IsT(f) <=> IsU(f)
  BY <1>1
<1>3. (CHOOSE f : IsT(f)) = (CHOOSE f : IsU(f))
  <2> HIDE DEF IsT, IsU
  <2> QED BY <1>2
<1> QED BY <1>3 DEF WAnd, IsT, IsU, T, U

LEMMA EasyAnds ==
  ASSUME NEW x \in WordSet
  PROVE  WAnd(x, 0) = 0 /\ WAnd(0, x) = 0 /\ WAnd(x, -1) = x
<1>1. /\ W \in Nat /\ Modulus \in Nat \ {0} /\ Pow2[0] = 1 /\ Pow2[W] = Modulus
      /\ Unsigned(x) \in 0..(Modulus - 1)
  BY WordsAre, PowersOfTwo, UnsignedIs DEF Modulus
<1>2. Unsigned(0) = Pow2[0] - 1 /\ Unsigned(-1) = Pow2[W] - 1
  <2> DEFINE m == Modulus
  <2>1. m \in Nat \ {0}
    BY <1>1
  <2> HIDE DEF m
  <2>2. 0 % m = 0 /\ (-1) % m = m - 1
    BY <2>1
  <2> QED BY <2>2, <1>1 DEF m, Unsigned
<1>3. WAnd(x, 0) = Wrap(Unsigned(x) % Pow2[0]) /\ WAnd(x, -1) = Wrap(Unsigned(x) % Pow2[W])
  BY <1>1, <1>2, AndWithMask, Constants
<1>4. Unsigned(x) % 1 = 0 /\ Unsigned(x) % Modulus = Unsigned(x)
  <2> DEFINE m == Modulus
             u == Unsigned(x)
  <2>1. m \in Nat \ {0} /\ u \in 0..(m - 1)
    BY <1>1
  <2> HIDE DEF m, u
  <2>2. u % 1 = 0 /\ u % m = u
    BY <2>1
  <2> QED BY <2>2 DEF m, u
<1>5. Wrap(0) = 0 /\ Wrap(Unsigned(x)) = x
  BY Constants, WrapOfWord, UnsignedIs
<1> QED BY <1>1, <1>3, <1>4, <1>5, AndCommutes, Constants

LEMMA SmallMultiple ==
  ASSUME NEW m \in Nat \ {0}, NEW n \in Int, NEW d \in Int, n * m = d, d < m, -d < m
  PROVE  d = 0
<1>1. n >= 1 => n * m >= m
  OBVIOUS
<1>2. n <= -1 => n * m <= -m
  OBVIOUS
<1> QED BY <1>1, <1>2

LEMMA WrapTellsApart ==
  ASSUME NEW a \in Int, NEW b \in Int, a - b < Modulus, b - a < Modulus, Wrap(a) = Wrap(b)
  PROVE  a = b
<1> DEFINE m == Modulus
<1>1. m \in Nat \ {0}
  BY WordsAre
<1>2. PICK i \in Int : Wrap(a) = a + i * m
  BY Wrapped
<1>3. PICK j \in Int : Wrap(b) = b + j * m
  BY Wrapped
<1> HIDE DEF m
<1>4. j - i \in Int /\ (j - i) * m = a - b /\ a - b \in Int
  <2>1. (j - i) * m = j * m - i * m /\ i * m \in Int /\ j * m \in Int
    BY <1>1
  <2>2. a + i * m = b + j * m
    BY <1>2, <1>3
  <2> QED BY <2>1, <2>2
<1>5. a - b < m /\ -(a - b) < m
  BY <1>1 DEF m
<1>6. a - b = 0
  BY <1>1, <1>4, <1>5, SmallMultiple
<1> QED BY <1>6

\* Whether a number is a multiple of n is told by what is left of its absolute
\* value, and of the number modulo a multiple of n.
LEMMA MultipleOf ==
  ASSUME NEW x \in Int, NEW n \in Nat \ {0}, NEW e \in Nat \ {0}
  PROVE  (x % (n * e)) % n = x % n /\ ((-x) % n = 0 <=> x % n = 0)
<1> DEFINE a == x \div (n * e)
           b == x % (n * e)
           c == b \div n
           d == b % n
<1>1. n * e \in Nat \ {0}
  OBVIOUS
<1>2. a \in Int /\ b \in Int /\ x = (n * e) * a + b
  <2> DEFINE m == n * e
  <2> HIDE DEF m
  <2>1. m \in Nat \ {0}
    BY <1>1 DEF m
  <2>2. x \div m \in Int /\ x % m \in Int /\ x = m * (x \div m) + (x % m)
    BY <2>1
  <2> QED BY <2>2 DEF m
<1> HIDE DEF a, b
<1>3. c \in Int /\ d \in 0..(n - 1) /\ b = n * c + d
  BY <1>2
<1> HIDE DEF c, d
<1>4. e * a + c \in Int /\ x = n * (e * a + c) + d
  <2>1. (n * e) * a = n * (e * a)
    BY <1>2
  <2>2. e * a \in Int /\ n * (e * a) + n * c = n * (e * a + c)
    BY <1>2, <1>3
  <2> QED BY <1>2, <1>3, <2>1, <2>2
<1>5. x % n = d
  <2> DEFINE q == e * a + c
  <2> HIDE DEF q
  <2>1. q \in Int /\ x = n * q + d
    BY <1>4 DEF q
  <2>2. (n * q + d) % n = d
    BY <2>1, <1>3, DivisionIsUnique
  <2> QED BY <2>1, <2>2
<1>6. (-x) % n = 0 <=> x % n = 0
  <2> DEFINE q == x \div n
             r == x % n
  <2>1. q \in Int /\ r \in 0..(n - 1) /\ x = n * q + r
    OBVIOUS
  <2> HIDE DEF q, r
  <2>2. CASE r = 0
    <3>1. -x = n * (-q) + 0 /\ -q \in Int /\ 0 \in 0..(n - 1)
      BY <2>1, <2>2
    <3>2. (n * (-q) + 0) % n = 0
      BY <3>1, DivisionIsUnique
    <3> QED BY <2>2, <3>1, <3>2 DEF r
  <2>3. CASE r # 0
    <3>1. -x = n * (-q - 1) + (n - r) /\ -q - 1 \in Int /\ n - r \in 0..(n - 1) /\ n - r # 0
      BY <2>1, <2>3
    <3>2. (n * (-q - 1) + (n - r)) % n = n - r
      BY <3>1, DivisionIsUnique
    <3> QED BY <2>3, <3>1, <3>2 DEF r
  <2> QED BY <2>2, <2>3
<1> QED BY <1>5, <1>6 DEF d, b

\* optimize_rem(): the mask tells whether the divisor divides.
LEMMA MaskTellsRemainder ==
  ASSUME NEW x \in WordSet, NEW y \in WordSet, y # 0,
         NEW k \in 0..(W - 1), Wrap(Abs(y)) = Wrap(Pow2[k])
  PROVE  /\ Wrap(Abs(y) - 1) \in WordSet
         /\ WAnd(x, Wrap(Abs(y) - 1)) = 0 <=> WRem(x, y) = 0
<1> DEFINE a == Abs(y)
           p == Pow2[k]
<1>1. /\ k \in Nat /\ W - 1 \in Nat /\ k <= W - 1 /\ W = (W - 1) + 1 /\ Modulus \in Nat \ {0}
      /\ Half \in Nat /\ Modulus = 2 * Half /\ Half = Pow2[W - 1] /\ Modulus = Pow2[W]
      /\ k \in 0..W /\ WordSet = (-Half)..(Half - 1)
  BY WordsAre DEF Half, Modulus
<1>2. p \in Nat \ {0} /\ p <= Half
  <2>1. k = W - 1 \/ k < W - 1
    BY <1>1
  <2>2. k < W - 1 => 2 * Pow2[k] <= Pow2[W - 1]
    BY <1>1, PowersRise
  <2>3. p \in Nat \ {0}
    BY <1>1, PowersOfTwo
  <2>4. Pow2[W - 1] \in Nat /\ Pow2[W - 1] = Half
    BY <1>1
  <2> QED BY <2>1, <2>2, <2>3, <2>4
<1>3. a \in Nat /\ a <= Half /\ a # 0
  BY Absolute
<1> HIDE DEF a, p
<1>4. a = p
  <2>1. Half \in Nat /\ Modulus = 2 * Half
    BY <1>1
  <2>2. a \in Int /\ p \in Int /\ a - p < Modulus /\ p - a < Modulus
    BY <2>1, <1>2, <1>3
  <2> QED BY <2>2, WrapTellsApart DEF a, p
<1>5. a - 1 \in WordSet /\ a - 1 >= 0
  <2>1. a - 1 \in (-Half)..(Half - 1) /\ a - 1 >= 0
    <3>1. Half \in Nat
      BY <1>1
    <3> QED BY <3>1, <1>3
  <2> QED BY <2>1, <1>1
<1>6. Wrap(a - 1) = a - 1 /\ Unsigned(a - 1) = p - 1
  BY <1>4, <1>5, WrapOfWord, UnsignedIs
<1> DEFINE u == Unsigned(x) % p
<1>7. WAnd(x, a - 1) = Wrap(u)
  BY <1>1, <1>5, <1>6, AndWithMask DEF p
<1>8. Unsigned(x) \in Int /\ x \in Int
  <2>1. Unsigned(x) \in 0..(Modulus - 1) /\ x \in Int
    BY UnsignedIs
  <2> QED BY <2>1
<1>9. u \in 0..(p - 1)
  <2> DEFINE n == Unsigned(x)
  <2> HIDE DEF n
  <2>1. n \in Int
    BY <1>8 DEF n
  <2>2. n % p \in 0..(p - 1)
    BY <2>1, <1>2
  <2> QED BY <2>2 DEF n
<1>10. WAnd(x, a - 1) = u
  <2> HIDE DEF u
  <2>1. u \in (-Half)..(Half - 1)
    <3>1. Half \in Nat
      BY <1>1
    <3> QED BY <3>1, <1>2, <1>9
  <2>2. Wrap(u) = u
    BY <2>1, <1>1, WrapOfWord
  <2> QED BY <1>7, <2>2
<1>11. u = x % p
  <2> DEFINE e == Pow2[W - k]
  <2>1. W - k \in Nat /\ k + (W - k) = W
    <3>1. W \in Nat /\ k \in 0..W
      BY <1>1, WordsAre
    <3> QED BY <3>1
  <2>2. Modulus = p * e /\ e \in Nat \ {0}
    <3>1. Pow2[k + (W - k)] = Pow2[k] * Pow2[W - k]
      BY <1>1, <2>1, PowerOfSum
    <3>2. Pow2[W - k] \in Nat \ {0}
      BY <2>1, PowersOfTwo
    <3> QED BY <1>1, <2>1, <3>1, <3>2 DEF p
  <2> HIDE DEF e
  <2>3. (x % (p * e)) % p = x % p
    BY <1>2, <1>8, <2>2, MultipleOf
  <2> QED BY <2>2, <2>3 DEF Unsigned
<1>12. Abs(x) % p = 0 <=> x % p = 0
  <2>1. (-x) % p = 0 <=> x % p = 0
    <3>1. 1 \in Nat \ {0}
      OBVIOUS
    <3> QED BY <3>1, <1>2, <1>8, MultipleOf
  <2> QED BY <2>1 DEF Abs
<1>13. WRem(x, y) = 0 <=> Abs(x) % p = 0
  <2> DEFINE r == Abs(x) % a
  <2>1. r \in Nat /\ WRem(x, y) = IF x < 0 THEN -r ELSE r
    BY RemainderIs DEF a
  <2> HIDE DEF r
  <2>2. WRem(x, y) = 0 <=> r = 0
    BY <2>1
  <2> QED BY <2>2, <1>4 DEF r
<1> QED BY <1>5, <1>6, <1>10, <1>11, <1>12, <1>13 DEF a

LEMMA BitIs ==
  ASSUME NEW x \in WordSet, NEW k \in Nat
  PROVE  Bit(x, k) \in {0, 1}
<1> DEFINE u == Unsigned(x)
           p == Pow2[k]
<1>1. u \in Int /\ p \in Nat \ {0}
  <2>1. u \in 0..(Modulus - 1)
    BY UnsignedIs
  <2> QED BY <2>1, PowersOfTwo
<1> HIDE DEF u, p
<1>2. u \div p \in Int
  BY <1>1
<1> DEFINE q == u \div p
<1> HIDE DEF q
<1>3. q % 2 \in {0, 1}
  BY <1>2 DEF q
<1> QED BY <1>3 DEF Bit, u, p, q

LEMMA AndIsWord ==
  ASSUME NEW x \in WordSet, NEW y \in WordSet
  PROVE  WAnd(x, y) \in WordSet
<1> DEFINE T(k) == Pow2[k] * Bit(x, k) * Bit(y, k)
           Is(f) == f = [k \in 0..W |-> IF k = 0 THEN 0
                                        ELSE f[k - 1] + Pow2[k - 1] * Bit(x, k - 1) * Bit(y, k - 1)]
           P == Nat \X Int
           start == <<0, 0>>
           G == [t \in P |-> <<t[1] + 1, t[2] + T(t[1])>>]
<1>1. W \in Nat
  BY WordsAre
<1>2. \A k \in Nat : T(k) \in Int
  <2> TAKE k \in Nat
  <2>1. Pow2[k] \in Nat \ {0}
    BY PowersOfTwo
  <2>2. Bit(x, k) \in Int /\ Bit(y, k) \in Int
    BY BitIs
  <2> QED BY <2>1, <2>2
<1> HIDE DEF T
<1>3. G \in [P -> P] /\ start \in P
  BY <1>2
<1>4. PICK f \in [Nat -> P] : f[0] = start /\ \A n \in Nat : f[n + 1] = G[f[n]]
  <2> HIDE DEF P, G, start
  <2> QED BY <1>3, IterationExists
<1>5. \A n \in Nat : f[n][1] = n
  <2> DEFINE S == {n \in Nat : f[n][1] = n}
  <2>1. 0 \in S
    BY <1>4
  <2>2. ASSUME NEW n \in S PROVE n + 1 \in S
    <3>1. n \in Nat /\ f[n] \in P /\ f[n][1] = n
      BY <1>4
    <3>2. f[n + 1] = <<f[n][1] + 1, f[n][2] + T(f[n][1])>>
      BY <3>1, <1>4
    <3> QED BY <3>1, <3>2
  <2>3. S = Nat
    <3> HIDE DEF S
    <3>1. S \in SUBSET Nat
      BY DEF S
    <3> QED BY <3>1, <2>1, <2>2, SetInduction
  <2> QED BY <2>3
<1>6. \A n \in Nat : f[n][2] \in Int /\ f[n + 1][2] = f[n][2] + T(n)
  <2> TAKE n \in Nat
  <2>1. f[n] \in P /\ f[n][1] = n
    BY <1>4, <1>5
  <2>2. f[n + 1] = <<f[n][1] + 1, f[n][2] + T(f[n][1])>>
    BY <2>1, <1>4
  <2> QED BY <2>1, <2>2
<1> DEFINE h == [k \in 0..W |-> f[k][2]]
<1>7. Is(h)
  <2>1. \A k \in 0..W : h[k] = IF k = 0 THEN 0
                               ELSE h[k - 1] + Pow2[k - 1] * Bit(x, k - 1) * Bit(y, k - 1)
    <3> TAKE k \in 0..W
    <3>1. CASE k = 0
      <4>1. f[0][2] = 0
        BY <1>4
      <4> QED BY <4>1, <3>1
    <3>2. CASE k # 0
      <4>1. k - 1 \in Nat /\ k - 1 \in 0..W /\ (k - 1) + 1 = k
        BY <3>2, <1>1
      <4>2. f[k][2] = f[k - 1][2] + T(k - 1)
        BY <4>1, <1>6
      <4> QED BY <4>1, <4>2, <3>2 DEF T
    <3> QED BY <3>1, <3>2
  <2> QED BY <2>1
<1> DEFINE bits == CHOOSE g : Is(g)
<1>8. WAnd(x, y) = Wrap(bits[W])
  BY DEF WAnd
<1>9. Is(bits)
  <2> HIDE DEF Is, h
  <2> QED BY <1>7, Zenon
<1> HIDE DEF bits
<1>10. \A k \in 0..W : bits[k] = f[k][2]
  <2> DEFINE S == {k \in Nat : k \in 0..W => bits[k] = f[k][2]}
  <2>1. 0 \in S
    <3>1. f[0][2] = 0 /\ 0 \in 0..W
      BY <1>1, <1>4
    <3> QED BY <3>1, <1>9
  <2>2. ASSUME NEW k \in S PROVE k + 1 \in S
    <3> SUFFICES ASSUME k + 1 \in 0..W PROVE bits[k + 1] = f[k + 1][2]
      OBVIOUS
    <3>1. k \in Nat /\ k \in 0..W /\ (k + 1) - 1 = k /\ k + 1 # 0
      BY <1>1
    <3>2. bits[k] = f[k][2]
      BY <3>1
    <3>3. bits[k + 1] = bits[k] + Pow2[k] * Bit(x, k) * Bit(y, k)
      BY <3>1, <1>9
    <3>4. f[k + 1][2] = f[k][2] + Pow2[k] * Bit(x, k) * Bit(y, k)
      BY <3>1, <1>6 DEF T
    <3> QED BY <3>2, <3>3, <3>4
  <2>3. S = Nat
    <3> HIDE DEF S
    <3>1. S \in SUBSET Nat
      BY DEF S
    <3> QED BY <3>1, <2>1, <2>2, SetInduction
  <2>4. \A k \in 0..W : k \in Nat
    BY <1>1
  <2> HIDE DEF bits
  <2> QED BY <2>3, <2>4
<1>11. bits[W] \in Int
  BY <1>1, <1>6, <1>10
<1> QED BY <1>8, <1>11, Wrapped

LEMMA Computes ==
  ASSUME NEW x, NEW y
  PROVE  /\ Compute("add", x, y) = Wrap(x + y)
         /\ Compute("sub", x, y) = Wrap(x - y)
         /\ Compute("mul", x, y) = Wrap(x * y) /\ Compute("mull", x, y) = Wrap(x * y)
         /\ Compute("sdiv", x, y) = WDiv(x, y) /\ Compute("srem", x, y) = WRem(x, y)
         /\ Compute("shl", x, y) = WShl(x, y) /\ Compute("ashr", x, y) = WAshr(x, y)
         /\ Compute("and", x, y) = WAnd(x, y)
BY Zenon DEF Compute

LEMMA ComputedIsWord ==
  ASSUME NEW op \in Integral, NEW x \in WordSet, NEW y \in WordSet
  PROVE  Compute(op, x, y) \in WordSet
<1>1. x \in Int /\ y \in Int /\ W \in Nat \ {0}
  BY WordsAre
<1>2. Wrap(x + y) \in WordSet /\ Wrap(x - y) \in WordSet /\ Wrap(x * y) \in WordSet
  BY <1>1, Wrapped
<1>3. WDiv(x, y) \in WordSet
  <2>1. CASE y = 0
    BY <2>1, Constants DEF WDiv
  <2>2. CASE y # 0
    BY <2>2, QuotientIs, Wrapped
  <2> QED BY <2>1, <2>2
<1>4. WRem(x, y) \in WordSet
  <2>1. WDiv(x, y) \in Int
    BY <1>3, WordsAre
  <2>2. x - WDiv(x, y) * y \in Int
    BY <1>1, <2>1
  <2> QED BY <2>2, Wrapped DEF WRem
<1> DEFINE p == Pow2[y % W]
<1>5. p \in Nat \ {0}
  <2>1. y % W \in Nat
    BY <1>1
  <2> QED BY <2>1, PowersOfTwo
<1>6. WShl(x, y) \in WordSet
  <2> HIDE DEF p
  <2>1. x * p \in Int
    BY <1>1, <1>5
  <2> QED BY <2>1, Wrapped DEF WShl, p
<1>7. WAshr(x, y) \in WordSet
  <2> HIDE DEF p
  <2>1. x \in (-Half)..(Half - 1) /\ Half \in Nat /\ WordSet = (-Half)..(Half - 1)
    BY WordsAre
  <2>2. x \div p \in (-Half)..(Half - 1)
    <3> DEFINE q == x \div p
               r == x % p
    <3>1. q \in Int /\ r \in 0..(p - 1) /\ x = p * q + r
      BY <1>1, <1>5
    <3> HIDE DEF q, r
    <3>2. q >= 0 => q <= p * q
      BY <3>1, <1>5
    <3>3. q < 0 => p * q + r <= -1 /\ p * (q + 1) <= q + 1 /\ p * (q + 1) = p * q + p
      BY <3>1, <1>5
    <3>4. p * q \in Int
      BY <3>1, <1>5
    <3>5. q >= 0 => q <= Half - 1
      BY <3>1, <3>2, <3>4, <2>1
    <3>6. q < 0 => x + 1 <= q + 1
      BY <3>1, <3>3, <3>4, <1>1, <1>5
    <3>7. q \in (-Half)..(Half - 1)
      BY <3>1, <3>5, <3>6, <2>1
    <3> QED BY <3>7 DEF q
  <2> QED BY <2>1, <2>2 DEF WAshr, p
<1>8. WAnd(x, y) \in WordSet
  BY AndIsWord
<1> QED BY <1>2, <1>3, <1>4, <1>6, <1>7, <1>8, Computes DEF Integral

-----------------------------------------------------------------------------
(* Sums, products and shifts. *)
LEMMA EasySums ==
  ASSUME NEW x \in WordSet
  PROVE  /\ Wrap(x + 0) = x /\ Wrap(0 + x) = x /\ Wrap(x - 0) = x /\ Wrap(x - x) = 0
         /\ Wrap(x * 0) = 0 /\ Wrap(x * 1) = x /\ Wrap(x * (-1)) = Wrap(0 - x)
<1>1. x \in Int /\ Wrap(x) = x /\ Wrap(0) = 0
  BY WordsAre, WrapOfWord, Constants
<1>2. /\ x + 0 = x /\ 0 + x = x /\ x - 0 = x /\ x - x = 0
      /\ x * 0 = 0 /\ x * 1 = x /\ x * (-1) = 0 - x
  BY <1>1
<1> QED BY <1>1, <1>2

LEMMA EasyShifts ==
  ASSUME NEW x \in WordSet
  PROVE  WShl(x, 0) = x /\ WShl(0, x) = 0 /\ WAshr(x, 0) = x /\ WAshr(0, x) = 0
<1>1. x \in Int /\ Wrap(x) = x /\ Wrap(0) = 0 /\ W \in Nat \ {0}
  BY WordsAre, WrapOfWord, Constants
<1>2. Pow2[0 % W] = 1
  <2>1. 0 % W = 0
    BY <1>1
  <2> QED BY <2>1, PowersOfTwo
<1> DEFINE p == Pow2[x % W]
<1>3. p \in Nat \ {0}
  <2>1. x % W \in Nat
    BY <1>1
  <2> QED BY <2>1, PowersOfTwo
<1> HIDE DEF p
<1>4. x * 1 = x /\ 0 * p = 0 /\ x \div 1 = x /\ 0 \div p = 0
  BY <1>1, <1>3
<1> QED BY <1>1, <1>2, <1>4 DEF WShl, WAshr, p

LEMMA ShiftMultiplies ==
  ASSUME NEW x \in WordSet, NEW n \in WordSet, PowerOfTwo(n)
  PROVE  /\ CountrZero(n) \in WordSet
         /\ WShl(x, CountrZero(n)) = Wrap(x * n)
<1> DEFINE k == CountrZero(n)
<1>1. k \in 0..(W - 1) /\ Wrap(Pow2[k]) = n
  BY DEF CountrZero, PowerOfTwo
<1> HIDE DEF k
<1>2. W \in Nat \ {0} /\ x \in Int
  BY WordsAre
<1>3. k % W = k /\ k \in Nat
  BY <1>1, <1>2
<1>4. Pow2[k] \in Int
  BY <1>3, PowersOfTwo
<1>5. Wrap(x * Wrap(Pow2[k])) = Wrap(x * Pow2[k])
  BY <1>2, <1>4, WrapInside
<1> QED BY <1>1, <1>3, <1>5, Constants DEF WShl, k

LEMMA NegatedShiftMultiplies ==
  ASSUME NEW x \in WordSet, NEW n \in WordSet, PowerOfTwo(Wrap(-n))
  PROVE  WShl(Wrap(0 - x), CountrZero(Wrap(-n))) = Wrap(x * n)
<1>1. x \in Int /\ n \in Int /\ -n \in Int /\ 0 - x \in Int
  BY WordsAre
<1>2. Wrap(0 - x) \in WordSet /\ Wrap(-n) \in WordSet /\ Wrap(-n) \in Int
  BY <1>1, Wrapped
<1>3. WShl(Wrap(0 - x), CountrZero(Wrap(-n))) = Wrap(Wrap(0 - x) * Wrap(-n))
  BY <1>2, ShiftMultiplies
<1>4. Wrap(Wrap(0 - x) * Wrap(-n)) = Wrap((0 - x) * Wrap(-n))
  BY <1>1, <1>2, WrapInside
<1>5. Wrap((0 - x) * Wrap(-n)) = Wrap((0 - x) * (-n))
  BY <1>1, WrapInside
<1>6. (0 - x) * (-n) = x * n
  BY <1>1
<1> QED BY <1>3, <1>4, <1>5, <1>6

-----------------------------------------------------------------------------
(* Instructions.  v gives the operands their values; the names of values are *)
(* told from constants. *)
Operands(Named) == Named \cup {C(n) : n \in WordSet}

Values(v, Named) ==
  /\ \A o \in Named : ~IsConst(o) /\ v[o] \in WordSet
  /\ \A n \in WordSet : v[C(n)] = n

\* The value that takes the place of op on the operands l and r.
Outcome(s, op, l, r, v) ==
    CASE s.kind = "value" -> v[s.o]
      [] s.kind = "inst" -> Compute(s.op, v[s.a[1]], v[s.a[2]])
      [] s.kind = "shift" -> Compute("shl", Compute("sub", 0, v[s.x]), s.n)
      [] OTHER -> Compute(op, v[l], v[r])

LEMMA OutcomeOfNothing ==
  ASSUME NEW op, NEW l, NEW r, NEW v
  PROVE  Outcome(Nothing, op, l, r, v) = Compute(op, v[l], v[r])
BY Zenon DEF Outcome, Nothing

LEMMA OutcomeOfValue ==
  ASSUME NEW op, NEW l, NEW r, NEW v, NEW o
  PROVE  Outcome(Value(o), op, l, r, v) = v[o]
BY Zenon DEF Outcome, Value

LEMMA OutcomeOfInst ==
  ASSUME NEW op, NEW l, NEW r, NEW v, NEW p, NEW b1, NEW b2
  PROVE  Outcome(Inst(p, <<b1, b2>>), op, l, r, v) = Compute(p, v[b1], v[b2])
<1> DEFINE b == <<b1, b2>>
<1>1. b[1] = b1 /\ b[2] = b2
  OBVIOUS
<1> HIDE DEF b
<1>2. Outcome(Inst(p, b), op, l, r, v) = Compute(p, v[b[1]], v[b[2]])
  BY Zenon DEF Outcome, Inst
<1> QED BY <1>1, <1>2 DEF b

LEMMA OutcomeOfShift ==
  ASSUME NEW op, NEW l, NEW r, NEW v, NEW x, NEW n
  PROVE  Outcome(NegThenShift(x, n), op, l, r, v) = WShl(Wrap(0 - v[x]), n)
<1>1. Outcome(NegThenShift(x, n), op, l, r, v) = Compute("shl", Compute("sub", 0, v[x]), n)
  BY Zenon DEF Outcome, NegThenShift
<1> QED BY <1>1, Computes

LEMMA OperandIs ==
  ASSUME NEW Named, NEW v, Values(v, Named), NEW o \in Operands(Named)
  PROVE  /\ v[o] \in WordSet
         /\ IsConst(o) => o[2] \in WordSet /\ v[o] = o[2] /\ o = C(o[2])
         /\ \A n \in WordSet : o = C(n) => v[o] = n
<1>1. CASE o \in Named
  BY <1>1 DEF Values, IsConst, C
<1>2. CASE o \in {C(n) : n \in WordSet}
  BY <1>2 DEF Values, IsConst, C
<1> QED BY <1>1, <1>2 DEF Operands

LEMMA ConstantsHave ==
  ASSUME NEW Named, NEW v, Values(v, Named)
  PROVE  \A n \in WordSet : v[C(n)] = n
BY DEF Values

LEMMA AddSubKeeps ==
  ASSUME NEW Named, NEW v, Values(v, Named),
         NEW l \in Operands(Named), NEW r \in Operands(Named), NEW op \in {"add", "sub"}
  PROVE  Outcome(AddSub(op, l, r), op, l, r, v) = Compute(op, v[l], v[r])
<1>1. /\ v[l] \in WordSet /\ v[r] \in WordSet /\ v[C(0)] = 0
      /\ (l = C(0) => v[l] = 0) /\ (r = C(0) => v[r] = 0)
  BY OperandIs, ConstantsHave, Constants
<1>2. CASE op = "sub" /\ l = r
  <2>1. AddSub(op, l, r) = Value(C(0))
    BY <1>2, Zenon DEF AddSub
  <2>2. Compute(op, v[l], v[r]) = 0
    BY <1>1, <1>2, Computes, EasySums
  <2> QED BY <1>1, <2>1, <2>2, OutcomeOfNothing, OutcomeOfValue, OutcomeOfInst, OutcomeOfShift
<1>3. CASE op = "add" /\ l = C(0)
  <2>1. AddSub(op, l, r) = Value(r) \/ (AddSub(op, l, r) = Value(l) /\ r = C(0))
    BY <1>3, Zenon DEF AddSub
  <2>2. Compute(op, v[l], v[r]) = v[r]
    BY <1>1, <1>3, Computes, EasySums
  <2> QED BY <1>1, <1>3, <2>1, <2>2, OutcomeOfNothing, OutcomeOfValue, OutcomeOfInst, OutcomeOfShift
<1>4. CASE r = C(0) /\ ~(op = "sub" /\ l = r) /\ ~(op = "add" /\ l = C(0))
  <2>1. AddSub(op, l, r) = Value(l)
    BY <1>4, Zenon DEF AddSub
  <2>2. Compute(op, v[l], v[r]) = v[l]
    BY <1>1, <1>4, Computes, EasySums
  <2> QED BY <2>1, <2>2, OutcomeOfNothing, OutcomeOfValue, OutcomeOfInst, OutcomeOfShift
<1>5. CASE r # C(0) /\ ~(op = "sub" /\ l = r) /\ ~(op = "add" /\ l = C(0))
  <2>1. AddSub(op, l, r) = Nothing
    BY <1>5, Zenon DEF AddSub
  <2> QED BY <2>1, OutcomeOfNothing, OutcomeOfValue, OutcomeOfInst, OutcomeOfShift
<1> QED BY <1>2, <1>3, <1>4, <1>5

\* optimize_mul(): also where the constant is a power of two that wraps, and
\* where it is the smallest number.
LEMMA MulByKeeps ==
  ASSUME NEW Named, NEW v, Values(v, Named),
         NEW x \in Operands(Named), NEW n \in WordSet, NEW op \in {"mul", "mull"},
         NEW l \in Operands(Named), NEW r \in Operands(Named),
         Wrap(v[l] * v[r]) = Wrap(v[x] * n)
  PROVE  Outcome(MulBy(op, x, n, <<l, r>>), op, l, r, v) = Compute(op, v[l], v[r])
<1> DEFINE s == MulBy(op, x, n, <<l, r>>)
<1>1. /\ v[x] \in WordSet /\ v[l] \in WordSet /\ v[r] \in WordSet
      /\ v[C(0)] = 0 /\ n \in Int
  BY OperandIs, ConstantsHave, Constants, WordsAre
<1>2. Compute(op, v[l], v[r]) = Wrap(v[x] * n)
  BY Computes
<1>3. CASE n = 0
  <2>1. s = Value(C(0))
    <3>1. ~(n = 1) /\ ~(n = -1) /\ ~(n > 1) /\ ~(n < -1)
      BY <1>3
    <3>2. n \in {-1, 0, 1}
      BY <1>3
    <3> QED BY <1>3, <3>1, <3>2, Zenon DEF MulBy
  <2>2. Outcome(s, op, l, r, v) = v[C(0)]
    BY <2>1, OutcomeOfValue
  <2>3. Wrap(v[x] * 0) = 0
    BY <1>1, EasySums
  <2> QED BY <1>1, <1>2, <1>3, <2>2, <2>3
<1>4. CASE n = 1
  <2>1. s = Value(x)
    <3>1. ~(n = 0) /\ ~(n = -1) /\ ~(n > 1) /\ ~(n < -1)
      BY <1>4
    <3>2. n \in {-1, 0, 1}
      BY <1>4
    <3> QED BY <1>4, <3>1, <3>2, Zenon DEF MulBy
  <2>2. Outcome(s, op, l, r, v) = v[x]
    BY <2>1, OutcomeOfValue
  <2>3. Wrap(v[x] * 1) = v[x]
    BY <1>1, EasySums
  <2> QED BY <1>1, <1>2, <1>4, <2>2, <2>3
<1>5. CASE n = -1
  <2>1. s = Inst("sub", <<C(0), x>>)
    <3>1. ~(n = 0) /\ ~(n = 1) /\ ~(n > 1) /\ ~(n < -1)
      BY <1>5
    <3>2. n \in {-1, 0, 1}
      BY <1>5
    <3> QED BY <1>5, <3>1, <3>2, Zenon DEF MulBy
  <2>2. Outcome(s, op, l, r, v) = Compute("sub", v[C(0)], v[x])
    BY <2>1, OutcomeOfInst
  <2>3. Wrap(v[x] * (-1)) = Wrap(0 - v[x])
    BY <1>1, EasySums
  <2> QED BY <1>1, <1>2, <1>5, <2>2, <2>3, Computes
<1>6. CASE n > 1 /\ PowerOfTwo(n)
  <2>1. s = Inst("shl", <<x, C(CountrZero(n))>>)
    <3>1. ~(n = 0) /\ ~(n = 1) /\ ~(n = -1) /\ ~(n < -1)
      BY <1>1, <1>6
    <3> QED BY <1>6, <3>1, Zenon DEF MulBy
  <2>2. Outcome(s, op, l, r, v) = Compute("shl", v[x], v[C(CountrZero(n))])
    BY <2>1, OutcomeOfNothing, OutcomeOfValue, OutcomeOfInst, OutcomeOfShift
  <2>3. v[C(CountrZero(n))] = CountrZero(n) /\ WShl(v[x], CountrZero(n)) = Wrap(v[x] * n)
    BY <1>1, <1>6, ShiftMultiplies, ConstantsHave
  <2> QED BY <1>2, <2>2, <2>3, Computes
<1>7. CASE n < -1 /\ PowerOfTwo(Wrap(-n))
  <2>1. s = NegThenShift(x, CountrZero(Wrap(-n)))
    <3>1. ~(n = 0) /\ ~(n = 1) /\ ~(n = -1) /\ ~(n > 1)
      BY <1>1, <1>7
    <3> QED BY <1>7, <3>1, Zenon DEF MulBy
  <2>2. Outcome(s, op, l, r, v) = WShl(Wrap(0 - v[x]), CountrZero(Wrap(-n)))
    BY <2>1, OutcomeOfNothing, OutcomeOfValue, OutcomeOfInst, OutcomeOfShift
  <2> QED BY <1>1, <1>2, <1>7, <2>2, NegatedShiftMultiplies
<1>8. CASE /\ n \notin {-1, 0, 1} /\ ~(n > 1 /\ PowerOfTwo(n)) /\ ~(n < -1 /\ PowerOfTwo(Wrap(-n)))
  <2>1. s = Inst("mull", <<r, l>>) \/ s = Nothing
    <3>1. n # 0 /\ n # 1 /\ n # -1
      BY <1>8
    <3> DEFINE a == <<l, r>>
    <3>2. a[1] = l /\ a[2] = r
      OBVIOUS
    <3> HIDE DEF a
    <3>3. MulBy(op, x, n, a) = Inst("mull", <<a[2], a[1]>>) \/ MulBy(op, x, n, a) = Nothing
      BY <1>8, <3>1, Zenon DEF MulBy
    <3> QED BY <3>2, <3>3 DEF a
  <2>2. CASE s = Nothing
    BY <2>2, OutcomeOfNothing, OutcomeOfValue, OutcomeOfInst, OutcomeOfShift
  <2>3. CASE s = Inst("mull", <<r, l>>)
    <3>1. Outcome(s, op, l, r, v) = Compute("mull", v[r], v[l])
      BY <2>3, OutcomeOfNothing, OutcomeOfValue, OutcomeOfInst, OutcomeOfShift
    <3>2. v[r] * v[l] = v[l] * v[r]
      <4>1. v[r] \in Int /\ v[l] \in Int
        BY <1>1, WordsAre
      <4> QED BY <4>1
    <3> QED BY <1>2, <3>1, <3>2, Computes
  <2> QED BY <2>1, <2>2, <2>3
<1> QED BY <1>3, <1>4, <1>5, <1>6, <1>7, <1>8

LEMMA DivKeeps ==
  ASSUME NEW Named, NEW v, Values(v, Named),
         NEW l \in Operands(Named), NEW r \in Operands(Named), v[r] # 0
  PROVE  Outcome(Div(l, r), "sdiv", l, r, v) = Compute("sdiv", v[l], v[r])
<1>1. /\ v[l] \in WordSet /\ v[r] \in WordSet /\ v[C(0)] = 0 /\ v[C(1)] = 1 /\ v[C(-1)] = -1
      /\ (l = C(0) => v[l] = 0) /\ (r = C(1) => v[r] = 1) /\ (r = C(-1) => v[r] = -1)
  BY OperandIs, ConstantsHave, Constants
<1>2. v[l] = v[r] => WDiv(v[l], v[r]) = 1
  BY <1>1, EasyQuotients
<1>3. /\ WDiv(0, v[r]) = 0 /\ WDiv(v[l], 1) = v[l] /\ WDiv(v[l], -1) = Wrap(0 - v[l])
  BY <1>1, EasyQuotients
<1>4. C(1) # C(-1)
  BY <1>1
<1>5. CASE Div(l, r) = Value(C(1)) /\ l = r
  BY <1>1, <1>2, <1>5, OutcomeOfNothing, OutcomeOfValue, OutcomeOfInst, OutcomeOfShift, Computes
<1>6. CASE Div(l, r) = Value(C(0)) /\ l = C(0)
  BY <1>1, <1>3, <1>6, OutcomeOfNothing, OutcomeOfValue, OutcomeOfInst, OutcomeOfShift, Computes
<1>7. CASE Div(l, r) = Value(l) /\ r = C(1)
  BY <1>1, <1>3, <1>7, OutcomeOfNothing, OutcomeOfValue, OutcomeOfInst, OutcomeOfShift, Computes
<1>8. CASE Div(l, r) = Inst("sub", <<C(0), l>>) /\ r = C(-1)
  <2>1. Outcome(Div(l, r), "sdiv", l, r, v) = Compute("sub", v[C(0)], v[l])
    BY <1>8, OutcomeOfNothing, OutcomeOfValue, OutcomeOfInst, OutcomeOfShift
  <2> QED BY <1>1, <1>3, <1>8, <2>1, Computes
<1>9. CASE Div(l, r) = Nothing
  BY <1>9, OutcomeOfNothing, OutcomeOfValue, OutcomeOfInst, OutcomeOfShift
<1>10. \/ Div(l, r) = Value(C(1)) /\ l = r
       \/ Div(l, r) = Value(C(0)) /\ l = C(0)
       \/ Div(l, r) = Value(l) /\ r = C(1)
       \/ Div(l, r) = Inst("sub", <<C(0), l>>) /\ r = C(-1)
       \/ Div(l, r) = Nothing
  <2>1. CASE l = r
    BY <2>1, Zenon DEF Div
  <2>2. CASE l # r /\ l = C(0)
    BY <2>2, Zenon DEF Div
  <2>3. CASE l # r /\ l # C(0) /\ r = C(1)
    <3>1. r # C(-1)
      BY <1>4, <2>3
    <3> QED BY <2>3, <3>1, Zenon DEF Div
  <2>4. CASE l # r /\ l # C(0) /\ r = C(-1)
    <3>1. r # C(1)
      BY <1>4, <2>4
    <3> QED BY <2>4, <3>1, Zenon DEF Div
  <2>5. CASE l # r /\ l # C(0) /\ r # C(1) /\ r # C(-1)
    BY <2>5, Zenon DEF Div
  <2> QED BY <2>1, <2>2, <2>3, <2>4, <2>5
<1> QED BY <1>5, <1>6, <1>7, <1>8, <1>9, <1>10

\* optimize_rem(): the mask has another value, which is zero when the
\* remainder is.
LEMMA RemKeeps ==
  ASSUME NEW Named, NEW v, Values(v, Named), NEW compared,
         NEW l \in Operands(Named), NEW r \in Operands(Named), v[r] # 0
  PROVE  LET z == Outcome(Rem(l, r, compared), "srem", l, r, v)
         IN  \/ z = Compute("srem", v[l], v[r])
             \/ compared /\ (z = 0 <=> Compute("srem", v[l], v[r]) = 0)
<1> DEFINE easy == l = r \/ l = C(0) \/ r \in {C(1), C(-1)}
           k == CHOOSE j \in 0..(W - 1) : Wrap(Pow2[j]) = Wrap(Abs(r[2]))
<1>1. /\ v[l] \in WordSet /\ v[r] \in WordSet /\ v[C(0)] = 0
      /\ (l = C(0) => v[l] = 0) /\ (r = C(1) => v[r] = 1) /\ (r = C(-1) => v[r] = -1)
  BY OperandIs, ConstantsHave, Constants
<1>2. CASE easy
  <2>1. Rem(l, r, compared) = Value(C(0))
    BY <1>2, Zenon DEF Rem
  <2>2. /\ v[l] = v[r] => WRem(v[l], v[r]) = 0
        /\ WRem(0, v[r]) = 0 /\ WRem(v[l], 1) = 0 /\ WRem(v[l], -1) = 0
    BY <1>1, EasyRemainders
  <2>3. WRem(v[l], v[r]) = 0
    BY <1>1, <1>2, <2>2
  <2> QED BY <1>1, <2>1, <2>3, OutcomeOfNothing, OutcomeOfValue, OutcomeOfInst, OutcomeOfShift, Computes
<1>3. CASE ~easy /\ IsConst(r) /\ PowerOfTwo(Wrap(Abs(r[2]))) /\ compared
  <2>1. Rem(l, r, compared) = Inst("and", <<l, C(Wrap(Abs(r[2]) - 1))>>)
    BY <1>3, Zenon DEF Rem
  <2>2. v[r] = r[2] /\ r[2] \in WordSet
    BY <1>3, OperandIs
  <2>3. k \in 0..(W - 1) /\ Wrap(Abs(v[r])) = Wrap(Pow2[k])
    BY <1>3, <2>2 DEF PowerOfTwo
  <2> HIDE DEF k
  <2>4. /\ Wrap(Abs(v[r]) - 1) \in WordSet
        /\ WAnd(v[l], Wrap(Abs(v[r]) - 1)) = 0 <=> WRem(v[l], v[r]) = 0
    BY <1>1, <2>3, MaskTellsRemainder
  <2>5. v[C(Wrap(Abs(v[r]) - 1))] = Wrap(Abs(v[r]) - 1)
    BY <2>4, ConstantsHave
  <2>6. Outcome(Rem(l, r, compared), "srem", l, r, v) = Compute("and", v[l], v[C(Wrap(Abs(r[2]) - 1))])
    BY <2>1, OutcomeOfNothing, OutcomeOfValue, OutcomeOfInst, OutcomeOfShift
  <2>7. Outcome(Rem(l, r, compared), "srem", l, r, v) = WAnd(v[l], Wrap(Abs(v[r]) - 1))
    BY <2>2, <2>5, <2>6, Computes
  <2> QED BY <1>3, <2>4, <2>7, Computes
<1>4. CASE ~easy /\ ~(IsConst(r) /\ PowerOfTwo(Wrap(Abs(r[2]))) /\ compared)
  <2>1. Rem(l, r, compared) = Nothing
    BY <1>4, Zenon DEF Rem
  <2> QED BY <2>1, OutcomeOfNothing, OutcomeOfValue, OutcomeOfInst, OutcomeOfShift
<1> QED BY <1>2, <1>3, <1>4

LEMMA ShiftKeeps ==
  ASSUME NEW Named, NEW v, Values(v, Named), NEW op \in {"shl", "ashr"},
         NEW l \in Operands(Named), NEW r \in Operands(Named)
  PROVE  Outcome(Shift(l, r), op, l, r, v) = Compute(op, v[l], v[r])
<1>1. /\ v[l] \in WordSet /\ v[r] \in WordSet /\ v[C(0)] = 0
      /\ (l = C(0) => v[l] = 0) /\ (r = C(0) => v[r] = 0)
  BY OperandIs, ConstantsHave, Constants
<1>2. \/ Shift(l, r) = Value(C(0)) /\ l = C(0)
      \/ Shift(l, r) = Value(l) /\ r = C(0)
      \/ Shift(l, r) = Nothing
  BY Zenon DEF Shift
<1>3. /\ Compute(op, 0, v[r]) = 0 /\ Compute(op, v[l], 0) = v[l]
  BY <1>1, EasyShifts, Computes
<1> QED BY <1>1, <1>2, <1>3, OutcomeOfNothing, OutcomeOfValue, OutcomeOfInst, OutcomeOfShift

LEMMA AndKeeps ==
  ASSUME NEW Named, NEW v, Values(v, Named),
         NEW l \in Operands(Named), NEW r \in Operands(Named)
  PROVE  Outcome(And(l, r), "and", l, r, v) = Compute("and", v[l], v[r])
<1>1. /\ v[l] \in WordSet /\ v[r] \in WordSet /\ v[C(0)] = 0
      /\ (l = C(0) => v[l] = 0) /\ (r = C(0) => v[r] = 0) /\ (r = C(-1) => v[r] = -1)
  BY OperandIs, ConstantsHave, Constants
<1>2. \/ And(l, r) = Value(C(0)) /\ (l = C(0) \/ r = C(0))
      \/ And(l, r) = Value(l) /\ r = C(-1)
      \/ And(l, r) = Nothing
  <2>1. CASE l = C(0) \/ r = C(0)
    <3>1. C(0) \in {l, r} /\ ~(l # C(0) /\ r = C(-1))
      <4>1. C(0) # C(-1)
        BY ConstantsHave, Constants
      <4> QED BY <2>1, <4>1
    <3>2. And(l, r) = Value(C(0))
      BY <3>1, Zenon DEF And
    <3> QED BY <2>1, <3>2
  <2>2. CASE l # C(0) /\ r # C(0) /\ r = C(-1)
    <3>1. C(0) \notin {l, r}
      BY <2>2
    <3> QED BY <2>2, <3>1, Zenon DEF And
  <2>3. CASE l # C(0) /\ r # C(0) /\ r # C(-1)
    <3>1. C(0) \notin {l, r}
      BY <2>3
    <3> QED BY <2>3, <3>1, Zenon DEF And
  <2> QED BY <2>1, <2>2, <2>3
<1>3. Compute("and", 0, v[r]) = 0 /\ Compute("and", v[l], 0) = 0 /\ Compute("and", v[l], -1) = v[l]
  BY <1>1, EasyAnds, Computes
<1> QED BY <1>1, <1>2, <1>3, OutcomeOfNothing, OutcomeOfValue, OutcomeOfInst, OutcomeOfShift

LEMMA FoldKeeps ==
  ASSUME NEW Named, NEW v, Values(v, Named), NEW op \in Integral,
         NEW l \in Operands(Named), NEW r \in Operands(Named), IsConst(l), IsConst(r),
         op \in {"sdiv", "srem"} => v[r] # 0,
         NEW s, s = IF op = "sdiv" /\ l = r THEN Value(C(1)) ELSE Value(C(Compute(op, l[2], r[2])))
  PROVE  Outcome(s, op, l, r, v) = Compute(op, v[l], v[r])
<1>1. /\ v[l] = l[2] /\ v[r] = r[2] /\ v[l] \in WordSet /\ v[r] \in WordSet /\ v[C(1)] = 1
  BY OperandIs, ConstantsHave, Constants
<1>2. CASE op = "sdiv" /\ l = r
  <2>1. Outcome(s, op, l, r, v) = v[C(1)]
    BY <1>2, OutcomeOfValue
  <2>2. WDiv(v[r], v[r]) = 1
    BY <1>1, <1>2, EasyQuotients
  <2> QED BY <1>1, <1>2, <2>1, <2>2, Computes
<1>3. CASE ~(op = "sdiv" /\ l = r)
  <2> DEFINE z == Compute(op, l[2], r[2])
  <2>1. z \in WordSet
    BY <1>1, ComputedIsWord
  <2>2. v[C(z)] = z
    BY <2>1, ConstantsHave
  <2>3. s = Value(C(z))
    BY <1>3
  <2>4. Outcome(s, op, l, r, v) = v[C(z)]
    BY <2>3, OutcomeOfValue
  <2> QED BY <1>1, <2>2, <2>4
<1> QED BY <1>2, <1>3

\* What Arithmetic puts in place of an operation on integers, folded, simpler,
\* cheaper or left alone, has the value of the operation at every width and for
\* all values of the operands, where it wraps as well, unless it divides by
\* zero; a remainder that is only compared with 0 is zero when it was.
THEOREM SimplifyKeepsValues ==
  ASSUME NEW Named, NEW v, Values(v, Named), NEW op \in Integral, NEW compared,
         NEW l \in Operands(Named), NEW r \in Operands(Named),
         op \in {"sdiv", "srem"} => v[r] # 0
  PROVE  LET z == Outcome(Simplified(op, <<l, r>>, compared), op, l, r, v)
         IN  \/ z = Compute(op, v[l], v[r])
             \/ op = "srem" /\ compared /\ (z = 0 <=> Compute(op, v[l], v[r]) = 0)
<1> DEFINE a == <<l, r>>
           s == Simplified(op, a, compared)
           z == Outcome(s, op, l, r, v)
<1>1. a[1] = l /\ a[2] = r
  OBVIOUS
<1>2. v[l] \in WordSet /\ v[r] \in WordSet /\ v[l] \in Int /\ v[r] \in Int
  BY OperandIs, WordsAre
<1> HIDE DEF a
<1>3. \/ /\ IsConst(l) /\ IsConst(r)
         /\ s = IF op = "sdiv" /\ l = r THEN Value(C(1)) ELSE Value(C(Compute(op, l[2], r[2])))
      \/ op \in {"add", "sub"} /\ s = AddSub(op, l, r)
      \/ op \in {"mul", "mull"} /\ IsConst(l) /\ s = MulBy(op, r, l[2], a)
      \/ op \in {"mul", "mull"} /\ IsConst(r) /\ s = MulBy(op, l, r[2], a)
      \/ op = "sdiv" /\ s = Div(l, r)
      \/ op = "srem" /\ s = Rem(l, r, compared)
      \/ op \in {"shl", "ashr"} /\ s = Shift(l, r)
      \/ op = "and" /\ s = And(l, r)
      \/ s = Nothing
  <2>1. CASE IsConst(l) /\ IsConst(r)
    BY <1>1, <2>1, Zenon DEF Simplified
  <2>2. CASE ~(IsConst(l) /\ IsConst(r))
    <3>1. CASE op \in {"add", "sub"}
      BY <1>1, <2>2, <3>1, Zenon DEF Simplified
    <3>2. CASE op \in {"mul", "mull"}
      BY <1>1, <2>2, <3>2, Zenon DEF Simplified
    <3>3. CASE op = "sdiv"
      BY <1>1, <2>2, <3>3, Zenon DEF Simplified
    <3>4. CASE op = "srem"
      BY <1>1, <2>2, <3>4, Zenon DEF Simplified
    <3>5. CASE op \in {"shl", "ashr"}
      BY <1>1, <2>2, <3>5, Zenon DEF Simplified
    <3>6. CASE op = "and"
      BY <1>1, <2>2, <3>6, Zenon DEF Simplified
    <3> QED BY <3>1, <3>2, <3>3, <3>4, <3>5, <3>6 DEF Integral
  <2> QED BY <2>1, <2>2
<1> HIDE DEF s
<1>4. CASE /\ IsConst(l) /\ IsConst(r)
           /\ s = IF op = "sdiv" /\ l = r THEN Value(C(1)) ELSE Value(C(Compute(op, l[2], r[2])))
  BY <1>4, FoldKeeps DEF a, s
<1>5. CASE op \in {"add", "sub"} /\ s = AddSub(op, l, r)
  BY <1>5, AddSubKeeps DEF a, s
<1>6. CASE op \in {"mul", "mull"} /\ IsConst(l) /\ s = MulBy(op, r, l[2], a)
  <2>1. l[2] \in WordSet /\ v[l] = l[2]
    BY <1>6, OperandIs
  <2>2. v[l] * v[r] = v[r] * l[2]
    BY <1>2, <2>1
  <2>3. Outcome(MulBy(op, r, l[2], <<l, r>>), op, l, r, v) = Compute(op, v[l], v[r])
    BY <1>6, <2>1, <2>2, MulByKeeps
  <2> QED BY <1>6, <2>3 DEF a, s
<1>7. CASE op \in {"mul", "mull"} /\ IsConst(r) /\ s = MulBy(op, l, r[2], a)
  <2>1. r[2] \in WordSet /\ v[r] = r[2]
    BY <1>7, OperandIs
  <2>2. Outcome(MulBy(op, l, r[2], <<l, r>>), op, l, r, v) = Compute(op, v[l], v[r])
    BY <1>7, <2>1, MulByKeeps
  <2> QED BY <1>7, <2>2 DEF a, s
<1>8. CASE op = "sdiv" /\ s = Div(l, r)
  BY <1>8, DivKeeps DEF a, s
<1>9. CASE op = "srem" /\ s = Rem(l, r, compared)
  BY <1>9, RemKeeps DEF a, s
<1>10. CASE op \in {"shl", "ashr"} /\ s = Shift(l, r)
  BY <1>10, ShiftKeeps DEF a, s
<1>11. CASE op = "and" /\ s = And(l, r)
  BY <1>11, AndKeeps DEF a, s
<1>12. CASE s = Nothing
  BY <1>12, OutcomeOfNothing DEF a, s
<1> QED BY <1>3, <1>4, <1>5, <1>6, <1>7, <1>8, <1>9, <1>10, <1>11, <1>12
=============================================================================
