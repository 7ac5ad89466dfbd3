----------------------------- MODULE CastsProofs -----------------------------
(***************************************************************************)
(* Proofs about the scalar conversions, for every set of types, whatever   *)
(* their widths, for every input, and for every history of calls.          *)
(***************************************************************************)
EXTENDS Casts, TLAPS, FiniteSetTheorems, FunctionTheorems, WellFoundedInduction

-----------------------------------------------------------------------------
(* Part one: what Round does to a number, for every number and width.      *)
(*                                                                         *)
(* It moves to the nearest that fits the significand and crosses none on   *)
(* its way.  The powers of two this needs are counted as sets of subsets:  *)
(* no induction over the exponent is at hand.                              *)

-----------------------------------------------------------------------------
(* Counting up.                                                            *)

\* A set of naturals has a least element.
LEMMA LeastIs ==
  ASSUME NEW S, S \subseteq Nat, S # {}
  PROVE  \E k \in S : \A j \in S : k <= j
<1>1. PICK k \in S : \A j \in S : ~ (<<j, k>> \in OpToRel(<, Nat))
  BY NatLessThanWellFounded, WFMin
<1>2. \A j \in S : ~ (j < k)
  BY <1>1 DEF OpToRel
<1>3. \A j \in S : k <= j
  BY <1>2
<1> QED
  BY <1>3

\* A set of naturals that has n and each successor has everything from n on.
LEMMA UpFrom ==
  ASSUME NEW S, NEW n \in Nat, n \in S,
         \A k \in Nat : k >= n /\ k \in S => k + 1 \in S
  PROVE  \A k \in Nat : k >= n => k \in S
<1> SUFFICES ASSUME NEW b \in Nat, b >= n, b \notin S PROVE FALSE
  OBVIOUS
<1> DEFINE B == {k \in Nat : k >= n /\ k \notin S}
<1>1. B \subseteq Nat /\ B # {}
  OBVIOUS
<1>2. PICK k \in B : \A j \in B : k <= j
  <2> HIDE DEF B
  <2> QED
    BY <1>1, LeastIs
<1>3. k \in Nat /\ k > n /\ k - 1 \in Nat /\ k - 1 >= n /\ ~(k <= k - 1)
  BY <1>2
<1>4. k - 1 \in S
  BY <1>2, <1>3
<1> QED
  BY <1>2, <1>3, <1>4

-----------------------------------------------------------------------------
(* Powers of two.                                                          *)

\* Of one more element, a set has twice as many subsets.
LEMMA TwoExp ==
  ASSUME NEW n \in Nat
  PROVE  2 ^ n \in Nat /\ 2 ^ (n + 1) = 2 * 2 ^ n /\ 2 ^ n > 0
<1> DEFINE S == 1 .. n
           R == 1 .. n + 1
           T == {X \union {n + 1} : X \in SUBSET S}
           F == [X \in SUBSET S |-> X \union {n + 1}]
<1>1. IsFiniteSet(S) /\ Cardinality(S) = n /\ IsFiniteSet(R) /\ Cardinality(R) = n + 1
  BY FS_Interval
<1>2. /\ IsFiniteSet(SUBSET S) /\ Cardinality(SUBSET S) = 2 ^ n
      /\ IsFiniteSet(SUBSET R) /\ Cardinality(SUBSET R) = 2 ^ (n + 1)
  <2> HIDE DEF S, R
  <2> QED
    BY <1>1, FS_SUBSET
<1>3. IsFiniteSet(T) /\ Cardinality(T) = 2 ^ n
  <2>1. F \in [SUBSET S -> T] /\ \A t \in T : \E X \in SUBSET S : F[X] = t
    OBVIOUS
  <2>2. \A X, Y \in SUBSET S : F[X] = F[Y] => X = Y
    <3> SUFFICES ASSUME NEW X \in SUBSET S, NEW Y \in SUBSET S,
                        X \union {n + 1} = Y \union {n + 1}
                 PROVE  X = Y
      OBVIOUS
    <3>1. n + 1 \notin X /\ n + 1 \notin Y
      OBVIOUS
    <3> QED
      BY <3>1
  <2>3. F \in Bijection(SUBSET S, T)
    <3> HIDE DEF F, T, S
    <3> QED
      BY <2>1, <2>2, Fun_IsBij
  <2>4. ExistsBijection(SUBSET S, T)
    BY <2>3, Fun_ExistsBij
  <2> HIDE DEF F, T, S
  <2> QED
    BY <1>2, <2>4, FS_Bijection
<1>4. SUBSET R = (SUBSET S) \union T /\ (SUBSET S) \intersect T = {}
  <2>1. ASSUME NEW X \in SUBSET R PROVE X \in SUBSET S \/ X \in T
    <3>1. CASE n + 1 \in X
      <4>1. X \ {n + 1} \in SUBSET S /\ X = (X \ {n + 1}) \union {n + 1}
        BY <3>1
      <4> QED
        BY <4>1
    <3>2. CASE n + 1 \notin X
      BY <3>2
    <3> QED
      BY <3>1, <3>2
  <2>2. \A X \in SUBSET S : n + 1 \notin X /\ X \subseteq R
    OBVIOUS
  <2>3. \A X \in T : n + 1 \in X /\ X \subseteq R
    BY <2>2
  <2> HIDE DEF S, T, R
  <2> QED
    BY <2>1, <2>2, <2>3
<1>5. 2 ^ n \in Nat
  BY <1>2, FS_CardinalityType
<1>6. 2 ^ (n + 1) = 2 ^ n + 2 ^ n
  <2> HIDE DEF S, T, R
  <2>1. Cardinality((SUBSET S) \union T) = 2 ^ n + 2 ^ n - Cardinality({})
    BY <1>2, <1>3, <1>4, FS_Union
  <2>2. Cardinality({}) = 0
    BY FS_EmptySet
  <2>3. Cardinality(SUBSET R) = 2 ^ n + 2 ^ n - 0
    BY <1>4, <2>1, <2>2
  <2>4. 2 ^ (n + 1) = 2 ^ n + 2 ^ n - 0
    BY <1>2, <2>3
  <2> QED
    BY <1>5, <2>4
<1>7. 2 ^ n > 0
  <2>1. {} \in SUBSET S
    OBVIOUS
  <2> HIDE DEF S
  <2>2. SUBSET S # {}
    BY <2>1
  <2>3. 2 ^ n # 0
    BY <1>2, <2>2, FS_EmptySet
  <2> QED
    BY <1>5, <2>3
<1> QED
  BY <1>5, <1>6, <1>7

\* A larger exponent is no smaller a power.
LEMMA ExpGrows ==
  ASSUME NEW m \in Nat, NEW n \in Nat
  PROVE  m <= n => 2 ^ m <= 2 ^ n
<1> DEFINE S == {k \in Nat : 2 ^ m <= 2 ^ k}
<1>1. m \in S
  BY TwoExp
<1>2. ASSUME NEW k \in Nat, k \in S PROVE k + 1 \in S
  BY <1>2, TwoExp
<1>3. \A k \in Nat : k >= m => k \in S
  <2> HIDE DEF S
  <2> QED
    BY <1>1, <1>2, UpFrom
<1> QED
  BY <1>3

\* A larger exponent is a larger power.
LEMMA ExpStrict ==
  ASSUME NEW m \in Nat, NEW n \in Nat
  PROVE  m < n => 2 ^ m < 2 ^ n
<1>1. 2 ^ m < 2 ^ (m + 1)
  BY TwoExp
<1>2. m < n => 2 ^ (m + 1) <= 2 ^ n
  BY ExpGrows
<1> QED
  BY <1>1, <1>2, TwoExp

\* The power of a sum is the product of the powers.
LEMMA ExpSum ==
  ASSUME NEW m \in Nat, NEW n \in Nat
  PROVE  2 ^ (m + n) = 2 ^ m * 2 ^ n
<1> DEFINE S == {k \in Nat : 2 ^ (m + k) = 2 ^ m * 2 ^ k}
<1>1. 0 \in S
  BY TwoExp
<1>2. ASSUME NEW k \in Nat, k \in S PROVE k + 1 \in S
  <2>1. m + k \in Nat /\ m + (k + 1) = (m + k) + 1
    OBVIOUS
  <2>2. 2 ^ (m + (k + 1)) = 2 * 2 ^ (m + k)
    BY <2>1, TwoExp
  <2>3. 2 ^ (k + 1) = 2 * 2 ^ k /\ 2 ^ m \in Nat /\ 2 ^ k \in Nat
    BY TwoExp
  <2>4. 2 ^ (m + k) = 2 ^ m * 2 ^ k
    BY <1>2
  <2>5. 2 * (2 ^ m * 2 ^ k) = 2 ^ m * (2 * 2 ^ k)
    BY <2>3
  <2> QED
    BY <2>2, <2>3, <2>4, <2>5
<1>3. \A k \in Nat : k >= 0 => k \in S
  <2> HIDE DEF S
  <2> QED
    BY <1>1, <1>2, UpFrom
<1> QED
  BY <1>3

\* Every natural is below some power of two: that of itself.
LEMMA ExpBeyond ==
  ASSUME NEW n \in Nat
  PROVE  n < 2 ^ n
<1> DEFINE S == {k \in Nat : k < 2 ^ k}
<1>1. 0 \in S
  BY TwoExp
<1>2. ASSUME NEW k \in Nat, k \in S PROVE k + 1 \in S
  BY <1>2, TwoExp
<1>3. \A k \in Nat : k >= 0 => k \in S
  <2> HIDE DEF S
  <2> QED
    BY <1>1, <1>2, UpFrom
<1> QED
  BY <1>3

-----------------------------------------------------------------------------
(* Rounding to a number of significant bits.                               *)

\* Round by what it computes: |h| is k units and a rest, the unit 2^d the
\* smallest that leaves k at most m bits.
Grid(h, m, d, k, q) ==
  /\ Abs(h) = k * 2 ^ d + q /\ q < 2 ^ d
  /\ k < 2 ^ m /\ (d = 0 \/ k >= 2 ^ (m - 1))
  /\ Round(h, m) = Sign(h) * 2 ^ d *
       (IF 2 * q > 2 ^ d \/ (2 * q = 2 ^ d /\ k % 2 = 1) THEN k + 1 ELSE k)

\* Every number has such a grid.
LEMMA RoundIs ==
  ASSUME NEW h \in Int, NEW m \in Nat \ {0}
  PROVE  \E d, k, q \in Nat : Grid(h, m, d, k, q)
<1> DEFINE a == Abs(h)
           P(d) == a < 2 ^ (m + d) /\ (d > 0 => a >= 2 ^ (m + d - 1))
           Some == CHOOSE d \in 0 .. a : P(d)
<1>1. a \in Nat
  BY DEF Abs
<1>2. \E d \in 0 .. a : P(d)
  <2> DEFINE D == {d \in Nat : a < 2 ^ (m + d)}
  <2>1. a \in D
    <3>1. a < 2 ^ a
      BY <1>1, ExpBeyond
    <3>2. 2 ^ a <= 2 ^ (m + a) /\ 2 ^ a \in Nat /\ 2 ^ (m + a) \in Nat
      BY <1>1, ExpGrows, TwoExp
    <3> HIDE DEF a
    <3> QED
      BY <1>1, <3>1, <3>2
  <2>2. PICK d \in D : \A j \in D : d <= j
    <3>1. D \subseteq Nat /\ D # {}
      BY <2>1
    <3> HIDE DEF D
    <3> QED
      BY <3>1, LeastIs
  <2>3. d \in 0 .. a /\ a < 2 ^ (m + d)
    <3> HIDE DEF a
    <3> QED
      BY <1>1, <2>1, <2>2
  <2>4. ASSUME d > 0 PROVE a >= 2 ^ (m + d - 1)
    <3>1. d - 1 \in Nat /\ ~(d <= d - 1) /\ m + (d - 1) = m + d - 1 /\ m + d - 1 \in Nat
      BY <1>1, <2>3, <2>4
    <3>2. d - 1 \notin D
      BY <2>2, <3>1
    <3>3. ~(a < 2 ^ (m + d - 1)) /\ 2 ^ (m + d - 1) \in Nat
      BY <3>1, <3>2, TwoExp
    <3> HIDE DEF a
    <3> QED
      BY <1>1, <3>3
  <2> HIDE DEF a, D
  <2> QED
    BY <2>3, <2>4
<1> DEFINE d == Some
           u == 2 ^ d
           k == a \div u
           q == a % u
<1>3. d \in 0 .. a /\ P(d)
  <2> HIDE DEF P, a
  <2> QED
    BY <1>2
<1>4. Round(h, m) = Sign(h) * u * (IF 2 * q > u \/ (2 * q = u /\ k % 2 = 1) THEN k + 1 ELSE k)
  BY DEF Round
<1> HIDE DEF Some
<1>5. d \in Nat /\ u \in Nat /\ u > 0
  <2> HIDE DEF a
  <2>1. d \in Nat
    BY <1>1, <1>3
  <2> QED
    BY <2>1, TwoExp
<1>6. k \in Nat /\ q \in Nat /\ a = k * u + q /\ q < u
  <2> HIDE DEF a, u, d
  <2> QED
    BY <1>1, <1>5
<1>7. k < 2 ^ m
  <2>1. 2 ^ (m + d) = 2 ^ m * u /\ 2 ^ m \in Nat
    BY <1>5, ExpSum, TwoExp
  <2>2. k * u + q < 2 ^ m * u
    BY <1>3, <1>6, <2>1
  <2> HIDE DEF a, u, d, k, q
  <2>3. ASSUME k >= 2 ^ m PROVE FALSE
    <3>1. k * u >= 2 ^ m * u
      BY <1>5, <1>6, <2>1, <2>3
    <3> QED
      BY <1>5, <1>6, <2>1, <2>2, <3>1
  <2> QED
    BY <1>6, <2>1, <2>3
<1>8. d = 0 \/ k >= 2 ^ (m - 1)
  <2> SUFFICES ASSUME d > 0, k < 2 ^ (m - 1) PROVE FALSE
    <3>1. m - 1 \in Nat /\ 2 ^ (m - 1) \in Nat
      BY TwoExp
    <3> HIDE DEF k, d
    <3> QED
      BY <1>5, <1>6, <3>1
  <2>1. m - 1 \in Nat /\ (m - 1) + d = m + d - 1
    BY <1>5
  <2>2. 2 ^ (m + d - 1) = 2 ^ (m - 1) * u /\ 2 ^ (m - 1) \in Nat
    BY <1>5, <2>1, ExpSum, TwoExp
  <2>3. k * u + q >= 2 ^ (m - 1) * u
    BY <1>3, <1>6, <2>2
  <2> HIDE DEF a, u, d, k, q
  <2>4. (k + 1) * u <= 2 ^ (m - 1) * u
    <3>1. k + 1 <= 2 ^ (m - 1) /\ k + 1 \in Nat
      BY <1>6, <2>2
    <3> QED
      BY <1>5, <2>2, <3>1
  <2>5. (k + 1) * u = k * u + u /\ k * u \in Nat
    BY <1>5, <1>6
  <2> QED
    BY <1>5, <1>6, <2>2, <2>3, <2>4, <2>5
<1>9. Grid(h, m, d, k, q)
  <2>1. a = Abs(h) /\ u = 2 ^ d
    OBVIOUS
  <2> HIDE DEF a, u, d, k, q
  <2> QED
    BY <1>4, <1>6, <1>7, <1>8, <2>1 DEF Grid
<1> HIDE DEF a, u, d, k, q
<1> QED
  BY <1>5, <1>6, <1>9

\* A number that m bits can hold exactly, at some power of two.
Fits(g, m) == \E e, j \in Nat : Abs(g) = j * 2 ^ e /\ j <= 2 ^ m

\* A number is its sign times its magnitude.
LEMMA AbsIs ==
  ASSUME NEW g \in Int
  PROVE  /\ Abs(g) \in Nat /\ Abs(g) >= g /\ Abs(g) >= -g
         /\ (g = Abs(g) /\ Sign(g) = 1 /\ g >= 0) \/ (g = -Abs(g) /\ Sign(g) = -1 /\ g < 0)
BY DEF Abs, Sign

\* Between two neighbours of the grid a number is rounded on, none fits.
LEMMA GridNeighbours ==
  ASSUME NEW h \in Int, NEW m \in Nat \ {0}, NEW d \in Nat, NEW k \in Nat, NEW q \in Nat,
         Grid(h, m, d, k, q), NEW g \in Int, Fits(g, m)
  PROVE  Abs(g) <= k * 2 ^ d \/ Abs(g) >= (k + 1) * 2 ^ d
<1> DEFINE u == 2 ^ d
<1>1. PICK e \in Nat, j \in Nat : Abs(g) = j * 2 ^ e /\ j <= 2 ^ m
  BY DEF Fits
<1>2. u \in Nat /\ u > 0 /\ 2 ^ e \in Nat /\ 2 ^ m \in Nat
  BY TwoExp
<1>3. CASE e >= d
  <2>1. e - d \in Nat /\ d + (e - d) = e
    BY <1>3
  <2>2. 2 ^ e = u * 2 ^ (e - d) /\ 2 ^ (e - d) \in Nat
    BY <2>1, ExpSum, TwoExp
  <2> DEFINE n == j * 2 ^ (e - d)
  <2>3. n \in Nat /\ Abs(g) = n * u
    <3>1. j * (u * 2 ^ (e - d)) = (j * 2 ^ (e - d)) * u
      BY <1>2, <2>2
    <3> QED
      BY <1>1, <2>2, <3>1
  <2>4. n <= k \/ n >= k + 1
    <3> HIDE DEF n
    <3> QED
      BY <2>3
  <2> HIDE DEF n, u
  <2>5. n <= k => n * u <= k * u
    BY <1>2, <2>3
  <2>6. n >= k + 1 => n * u >= (k + 1) * u
    BY <1>2, <2>3
  <2> QED
    BY <2>3, <2>4, <2>5, <2>6 DEF u
<1>4. CASE e < d
  <2>1. d - 1 \in Nat /\ e <= d - 1 /\ m - 1 \in Nat /\ d - 1 + 1 = d /\ m - 1 + 1 = m
    BY <1>4
  <2>2. /\ 2 ^ e <= 2 ^ (d - 1) /\ 2 ^ d = 2 * 2 ^ (d - 1) /\ 2 ^ (d - 1) \in Nat
        /\ 2 ^ m = 2 * 2 ^ (m - 1) /\ 2 ^ (m - 1) \in Nat
    BY <2>1, ExpGrows, TwoExp
  <2>3. k >= 2 ^ (m - 1)
    BY <1>4 DEF Grid
  <2>4. j * 2 ^ e <= 2 ^ m * 2 ^ (d - 1)
    <3>1. j * 2 ^ e <= j * 2 ^ (d - 1)
      BY <1>2, <2>2
    <3>2. j * 2 ^ (d - 1) <= 2 ^ m * 2 ^ (d - 1)
      BY <1>1, <1>2, <2>2
    <3>3. j * 2 ^ e \in Nat /\ j * 2 ^ (d - 1) \in Nat /\ 2 ^ m * 2 ^ (d - 1) \in Nat
      BY <1>2, <2>2
    <3> QED
      BY <3>1, <3>2, <3>3
  <2>5. 2 ^ m * 2 ^ (d - 1) = 2 ^ (m - 1) * u
    <3>1. (2 * 2 ^ (m - 1)) * 2 ^ (d - 1) = 2 ^ (m - 1) * (2 * 2 ^ (d - 1))
      BY <2>2
    <3> QED
      BY <2>2, <3>1
  <2>6. 2 ^ (m - 1) * u <= k * u
    <3> HIDE DEF u
    <3> QED
      BY <1>2, <2>2, <2>3
  <2>7. 2 ^ (m - 1) * u \in Nat /\ k * u \in Nat /\ j * 2 ^ e \in Nat
    <3> HIDE DEF u
    <3> QED
      BY <1>2, <2>2
  <2> HIDE DEF u
  <2>8. Abs(g) <= k * u
    BY <1>1, <2>4, <2>5, <2>6, <2>7
  <2> QED
    BY <2>8 DEF u
<1> QED
  BY <1>3, <1>4

\* The magnitude Round ends on is one of the two neighbours, on the right side
\* of every number that fits.
LEMMA RoundMagnitude ==
  ASSUME NEW h \in Int, NEW m \in Nat \ {0}
  PROVE  \E r \in Nat : /\ Round(h, m) = Sign(h) * r
                        /\ Fits(Round(h, m), m)
                        /\ \A g \in Int : Fits(g, m) =>
                             /\ Abs(g) <= Abs(h) => Abs(g) <= r
                             /\ Abs(g) >= Abs(h) => Abs(g) >= r
<1>1. PICK d, k, q \in Nat : Grid(h, m, d, k, q)
  BY RoundIs
<1> DEFINE u  == 2 ^ d
           up == 2 * q > u \/ (2 * q = u /\ k % 2 = 1)
           n  == IF up THEN k + 1 ELSE k
           r  == n * u
<1>2. u \in Nat /\ u > 0 /\ 2 ^ m \in Nat
  BY TwoExp
<1>3. Abs(h) = k * u + q /\ q < u /\ k < 2 ^ m /\ Round(h, m) = Sign(h) * u * n
  BY <1>1 DEF Grid
<1> HIDE DEF u
<1>4. n \in {k, k + 1} /\ n \in Nat /\ n <= 2 ^ m
  <2> HIDE DEF up
  <2> QED
    BY <1>2, <1>3
<1>5. r \in Nat /\ k * u \in Nat /\ (k + 1) * u = k * u + u
  <2> HIDE DEF n
  <2> QED
    BY <1>2, <1>4
<1>6. Sign(h) \in {1, -1}
  BY DEF Sign
<1>7. Round(h, m) = Sign(h) * r
  <2> HIDE DEF n
  <2>1. Sign(h) * u * n = Sign(h) * (n * u)
    BY <1>2, <1>4, <1>6
  <2> QED
    BY <1>3, <2>1
<1>8. Abs(Round(h, m)) = r
  <2> HIDE DEF r
  <2> QED
    BY <1>5, <1>6, <1>7 DEF Abs
<1>9. Fits(Round(h, m), m)
  <2> HIDE DEF n
  <2> QED
    BY <1>4, <1>8 DEF Fits, u
<1>10. ASSUME NEW g \in Int, Fits(g, m)
       PROVE  /\ Abs(g) <= Abs(h) => Abs(g) <= r
              /\ Abs(g) >= Abs(h) => Abs(g) >= r
  <2>1. Abs(g) <= k * u \/ Abs(g) >= (k + 1) * u
    BY <1>1, <1>10, GridNeighbours DEF u
  <2>2. Abs(g) \in Nat /\ Abs(h) \in Nat
    BY DEF Abs
  <2>3. CASE up
    <3>1. q > 0 /\ r = (k + 1) * u
      <4>1. n = k + 1
        BY <2>3
      <4>2. q > 0
        BY <1>2, <2>3
      <4> QED
        BY <4>1, <4>2
    <3> HIDE DEF up, n, r
    <3> QED
      BY <1>2, <1>3, <1>5, <2>1, <2>2, <3>1
  <2>4. CASE ~up
    <3>1. r = k * u
      <4>1. n = k
        BY <2>4
      <4> QED
        BY <4>1
    <3> HIDE DEF up, n, r
    <3> QED
      BY <1>2, <1>3, <1>5, <2>1, <2>2, <3>1
  <2> QED
    BY <2>3, <2>4
<1> HIDE DEF r
<1> QED
  BY <1>5, <1>7, <1>9, <1>10

\* Rounding stays an integer that fits and never crosses a number that fits.
LEMMA RoundFits ==
  ASSUME NEW h \in Int, NEW m \in Nat \ {0}
  PROVE  /\ Round(h, m) \in Int /\ Fits(Round(h, m), m)
         /\ \A g \in Int : Fits(g, m) => /\ g <= h => g <= Round(h, m)
                                         /\ g >= h => g >= Round(h, m)
<1>1. PICK r \in Nat : /\ Round(h, m) = Sign(h) * r
                       /\ Fits(Round(h, m), m)
                       /\ \A g \in Int : Fits(g, m) =>
                            /\ Abs(g) <= Abs(h) => Abs(g) <= r
                            /\ Abs(g) >= Abs(h) => Abs(g) >= r
  BY RoundMagnitude
<1>2. Sign(h) \in {1, -1}
  BY DEF Sign
<1>3. Round(h, m) \in Int
  BY <1>1, <1>2
<1>4. ASSUME NEW g \in Int, Fits(g, m)
      PROVE  /\ g <= h => g <= Round(h, m)
             /\ g >= h => g >= Round(h, m)
  <2>1. /\ Abs(g) <= Abs(h) => Abs(g) <= r
        /\ Abs(g) >= Abs(h) => Abs(g) >= r
    BY <1>1, <1>4
  <2>2. CASE h >= 0
    <3>1. Round(h, m) = r /\ Abs(h) = h
      BY <1>1, <2>2 DEF Sign, Abs
    <3> QED
      BY <2>1, <2>2, <3>1 DEF Abs
  <2>3. CASE h < 0
    <3>1. Round(h, m) = -r /\ Abs(h) = -h
      BY <1>1, <2>3 DEF Sign, Abs
    <3> QED
      BY <2>1, <2>3, <3>1 DEF Abs
  <2> QED
    BY <2>2, <2>3
<1> QED
  BY <1>1, <1>3, <1>4

\* What fits is what rounding leaves alone.
LEMMA FitsIsFixed ==
  ASSUME NEW g \in Int, NEW m \in Nat \ {0}
  PROVE  Fits(g, m) <=> Round(g, m) = g
<1>1. Round(g, m) \in Int /\ Fits(Round(g, m), m)
  BY RoundFits
<1>2. Fits(g, m) => g <= Round(g, m) /\ g >= Round(g, m)
  BY RoundFits
<1> QED
  BY <1>1, <1>2

\* What fits few bits fits more.
LEMMA FitsMore ==
  ASSUME NEW g, NEW m \in Nat, NEW n \in Nat, m <= n, Fits(g, m)
  PROVE  Fits(g, n)
BY ExpGrows, TwoExp DEF Fits

\* Beyond the significand there are only whole numbers, in halves even ones.
LEMMA LargeIsEven ==
  ASSUME NEW g \in Int, NEW m \in Nat, Fits(g, m)
  PROVE  g % 2 = 0 \/ Abs(g) <= 2 ^ m
<1>1. PICK e \in Nat, j \in Nat : Abs(g) = j * 2 ^ e /\ j <= 2 ^ m
  BY DEF Fits
<1>2. CASE e = 0
  <2>1. 2 ^ e = 1
    BY <1>2
  <2> QED
    BY <1>1, <2>1
<1>3. CASE e > 0
  <2>1. e - 1 \in Nat /\ e - 1 + 1 = e
    BY <1>3
  <2>2. 2 ^ e = 2 * 2 ^ (e - 1) /\ 2 ^ (e - 1) \in Nat
    BY <2>1, TwoExp
  <2> DEFINE n == j * 2 ^ (e - 1)
  <2>3. n \in Nat /\ Abs(g) = 2 * n
    <3>1. j * (2 * 2 ^ (e - 1)) = 2 * (j * 2 ^ (e - 1))
      BY <2>2
    <3> QED
      BY <1>1, <2>2, <3>1
  <2> HIDE DEF n
  <2>4. g = 2 * n \/ g = 2 * (-n)
    BY <2>3 DEF Abs
  <2> QED
    BY <2>3, <2>4
<1> QED
  BY <1>2, <1>3

\* A power of two fits any significand.
LEMMA PowerFits ==
  ASSUME NEW n \in Nat, NEW m \in Nat
  PROVE  Fits(2 ^ n, m) /\ Fits(-(2 ^ n), m) /\ Fits(0, m)
<1>1. 2 ^ n \in Nat /\ 2 ^ m \in Nat /\ 2 ^ m > 0 /\ 2 ^ n > 0
  BY TwoExp
<1>2. Abs(2 ^ n) = 1 * 2 ^ n /\ Abs(-(2 ^ n)) = 1 * 2 ^ n
  BY <1>1 DEF Abs
<1>3. Abs(0) = 0 * 2 ^ n
  BY <1>1 DEF Abs
<1>4. 1 \in Nat /\ 0 \in Nat /\ 1 <= 2 ^ m /\ 0 <= 2 ^ m
  BY <1>1
<1>5. Fits(2 ^ n, m) /\ Fits(-(2 ^ n), m)
  BY <1>2, <1>4 DEF Fits
<1>6. Fits(0, m)
  BY <1>3, <1>4 DEF Fits
<1> QED
  BY <1>5, <1>6

\* The largest integer of a type, in halves, as a float that lacks bits for it:
\* itself, or the power of two behind it.
LEMMA RoundLargest ==
  ASSUME NEW n \in Nat, NEW m \in Nat \ {0}, m < n
  PROVE  Round(2 ^ n - 2, m) \in {2 ^ n - 2, 2 ^ n}
<1> DEFINE h == 2 ^ n - 2
<1>1. /\ n - 1 \in Nat /\ 2 ^ n = 2 * 2 ^ (n - 1) /\ 2 ^ (n - 1) \in Nat /\ 2 ^ (n - 1) >= 2
      /\ m \in Nat
  <2>1. n - 1 \in Nat /\ n - 1 + 1 = n /\ n - 2 \in Nat /\ n - 2 + 1 = n - 1 /\ m \in Nat
    OBVIOUS
  <2>2. 2 ^ (n - 2) \in Nat /\ 2 ^ (n - 2) > 0 /\ 2 ^ (n - 1) = 2 * 2 ^ (n - 2)
    BY <2>1, TwoExp
  <2>3. 2 ^ (n - 1) \in Nat /\ 2 ^ n = 2 * 2 ^ (n - 1)
    BY <2>1, TwoExp
  <2> QED
    BY <2>1, <2>2, <2>3
<1>2. h \in Int /\ h >= 0 /\ Abs(h) = h /\ Sign(h) = 1
  BY <1>1 DEF Abs, Sign
<1>3. PICK d, k, q \in Nat : Grid(h, m, d, k, q)
  <2> HIDE DEF h
  <2> QED
    BY <1>2, RoundIs
<1> DEFINE u == 2 ^ d
<1>4. u \in Nat /\ u > 0 /\ 2 ^ m \in Nat /\ 2 ^ (m + d) = 2 ^ m * u
  BY <1>1, ExpSum, TwoExp
<1>5. h = k * u + q /\ q < u /\ k < 2 ^ m /\ (d = 0 \/ k >= 2 ^ (m - 1))
  BY <1>2, <1>3 DEF Grid
<1>6. h < 2 ^ (m + d)
  <2> HIDE DEF h, u
  <2>1. (k + 1) * u <= 2 ^ m * u
    BY <1>4, <1>5
  <2>2. (k + 1) * u = k * u + u /\ k * u \in Nat /\ 2 ^ m * u \in Nat
    BY <1>4
  <2> QED
    BY <1>4, <1>5, <2>1, <2>2
<1>7. m + d >= n
  <2> SUFFICES ASSUME m + d <= n - 1 PROVE FALSE
    BY <1>1
  <2>1. 2 ^ (m + d) <= 2 ^ (n - 1) /\ 2 ^ (m + d) \in Nat
    BY <1>1, ExpGrows, TwoExp
  <2> QED
    BY <1>1, <1>6, <2>1
<1>8. d > 0
  BY <1>1, <1>7
<1>9. m + d = n
  <2> SUFFICES ASSUME m + d > n PROVE FALSE
    BY <1>1, <1>7
  <2>1. m - 1 \in Nat /\ m - 1 + d >= n /\ m - 1 + d \in Nat
    BY <1>1
  <2>2. 2 ^ n <= 2 ^ (m - 1 + d) /\ 2 ^ (m - 1 + d) = 2 ^ (m - 1) * u /\ 2 ^ (m - 1) \in Nat
    BY <2>1, ExpGrows, ExpSum, TwoExp
  <2> HIDE DEF u
  <2>3. 2 ^ (m - 1) * u <= k * u /\ k * u \in Nat /\ 2 ^ (m - 1) * u \in Nat
    BY <1>4, <1>5, <1>8, <2>2
  <2> QED
    BY <1>1, <1>4, <1>5, <2>2, <2>3
<1>10. h = 2 ^ m * u - 2 /\ 2 ^ n = 2 ^ m * u
  BY <1>4, <1>9
<1>11. /\ d - 1 \in Nat /\ u = 2 * 2 ^ (d - 1) /\ 2 ^ (d - 1) \in Nat /\ 2 ^ (d - 1) > 0
       /\ m - 1 \in Nat /\ 2 ^ m = 2 * 2 ^ (m - 1) /\ 2 ^ (m - 1) \in Nat
  <2>1. d - 1 \in Nat /\ d - 1 + 1 = d /\ m - 1 \in Nat /\ m - 1 + 1 = m
    BY <1>1, <1>8
  <2> QED
    BY <2>1, TwoExp
<1> HIDE DEF h, u
<1>12. k = 2 ^ m - 1 /\ q = u - 2
  <2> DEFINE r == 2 ^ m - k
  <2>1. r \in Nat /\ r >= 1 /\ u >= 2
    BY <1>4, <1>5, <1>11
  <2>2. r * u = 2 ^ m * u - k * u /\ k * u \in Nat /\ 2 ^ m * u \in Nat
    BY <1>4, <1>5
  <2>3. r * u = q + 2
    BY <1>5, <1>10, <2>2
  <2> HIDE DEF r
  <2>4. ASSUME r >= 2 PROVE FALSE
    <3>1. r * u >= 2 * u
      BY <1>4, <2>1, <2>4
    <3>2. q + 2 >= 2 * u
      BY <2>3, <3>1
    <3>3. q + 2 >= u + 2 \/ u = 2
      BY <1>4, <2>1, <3>2
    <3> QED
      BY <1>4, <1>5, <2>1, <3>2, <3>3
  <2>5. r = 1
    BY <2>1, <2>4
  <2>6. k = 2 ^ m - 1
    BY <1>4, <2>5 DEF r
  <2>7. q = u - 2
    BY <1>4, <2>3, <2>5
  <2> QED
    BY <2>6, <2>7
<1> DEFINE v  == 2 ^ (d - 1)
           up == 2 * q > u \/ (2 * q = u /\ k % 2 = 1)
<1>13. Round(h, m) = 1 * u * (IF up THEN k + 1 ELSE k)
  BY <1>2, <1>3 DEF Grid, u
<1>14. CASE d = 1
  <2>1. v = 1
    BY <1>14
  <2>2. u = 2
    BY <1>11, <2>1
  <2>3. q = 0 /\ ~up
    BY <1>12, <2>2
  <2>4. Round(h, m) = u * k
    <3> HIDE DEF up
    <3> QED
      BY <1>4, <1>13, <2>3
  <2> QED
    BY <1>4, <1>5, <2>3, <2>4 DEF h
<1>15. CASE d > 1
  <2>1. d - 1 - 1 \in Nat /\ d - 1 - 1 + 1 = d - 1
    BY <1>15
  <2>2. v = 2 * 2 ^ (d - 1 - 1) /\ 2 ^ (d - 1 - 1) \in Nat /\ 2 ^ (d - 1 - 1) > 0
    BY <2>1, TwoExp
  <2>3. u >= 4
    BY <1>11, <2>2
  <2>4. k % 2 = 1
    <3> DEFINE w == 2 ^ (m - 1)
    <3>1. k = 2 * w - 1 /\ w \in Nat
      BY <1>11, <1>12
    <3> HIDE DEF w
    <3> QED
      BY <3>1
  <2>5. up
    BY <1>4, <1>12, <2>3, <2>4
  <2>6. Round(h, m) = u * (k + 1)
    <3> HIDE DEF up
    <3> QED
      BY <1>4, <1>13, <2>5
  <2>7. k + 1 = 2 ^ m
    BY <1>4, <1>12
  <2>8. u * 2 ^ m = 2 ^ m * u
    BY <1>4
  <2> QED
    BY <1>10, <2>6, <2>7, <2>8 DEF h
<1> QED
  BY <1>8, <1>14, <1>15 DEF h

-----------------------------------------------------------------------------
(* Part two: the conversions.                                              *)

-----------------------------------------------------------------------------
(* Strict typing against weak typing.                                      *)
(*                                                                         *)
(* Two calls of a history are two steps; the invariant that relates them   *)
(* says of each on its own how it stands to what strict typing keeps.      *)

\* What strict typing makes of a number or text in an integer type.
KeepsInt(src, dt, n) ==
  /\ n \in IntRange(dt.bits)
  /\ \/ src.t.kind = "int" /\ n = src.x
     \/ src.t.kind = "uint" /\ n = src.x /\ ~(src.x > MaxInt(Wide))
     \/ /\ src.t.kind = "float" /\ n = Int64(src.x) /\ IsWhole(src.x)
        /\ ~Under(src.x, MinInt(Wide)) /\ ~Above(src.x, MaxInt(Wide))
     \/ /\ src.t.kind = "number" /\ n = Digits(src.x).h \div 2
        /\ IsInt(Digits(src.x), IntRange(dt.bits))

KeepsUint(src, dt, n) ==
  /\ n \in UintRange(dt.bits)
  /\ \/ src.t.kind = "int" /\ n = src.x /\ ~(src.x < 0)
     \/ src.t.kind = "uint" /\ n = src.x
     \/ /\ src.t.kind = "float" /\ n = Uint64(src.x) /\ IsWhole(src.x)
        /\ ~Under(src.x, 0) /\ ~Above(src.x, MaxUint(Wide))
     \/ /\ src.t.kind = "number" /\ n = Digits(src.x).h \div 2
        /\ IsInt(Digits(src.x), UintRange(dt.bits))

\* The float handed to a float type, and to a complex one.
KeepsFloat(src, dt, f) ==
  /\ ~OverflowFloat(f, dt.bits)
  /\ \/ src.t.kind \in {"int", "uint"} /\ f = AsFloat(2 * src.x, Wide)
     \/ src.t.kind = "float" /\ f = src.x
     \/ /\ src.t.kind = "number" /\ f = ParseFloat(Digits(src.x), dt.bits)
        /\ IsFloat(Digits(src.x), dt.bits)

KeepsComplex(src, dt, x) ==
  \/ /\ src.t.kind = "complex"
     /\ ~(OverflowFloat(src.x.re, dt.bits) \/ OverflowFloat(src.x.im, dt.bits))
     /\ x = [re |-> Narrowed(src.x.re, dt.bits), im |-> Narrowed(src.x.im, dt.bits)]
  \/ /\ src.t.kind \in {"int", "uint"}
     /\ x = [re |-> Narrowed(AsFloat(2 * src.x, Wide), dt.bits), im |-> Fin(0)]
  \/ /\ src.t.kind = "float"
     /\ x = [re |-> Narrowed(src.x, dt.bits), im |-> Fin(0)]

KeepsText(src, x) ==
  \/ src.t.kind \in Texts /\ x = src.x
  \/ src.t.kind \notin Texts /\ src.t.self \notin {"", "fails"} /\ x = Text("word")

\* What strict typing keeps of src in a destination of type dt.
Keeps(src, dt, out) ==
  \E x : /\ out = [t |-> dt, x |-> x]
         /\ CASE dt.kind = "bool"    -> src.t.kind = "bool" /\ x = src.x
              [] dt.kind = "int"     -> KeepsInt(src, dt, x)
              [] dt.kind = "uint"    -> KeepsUint(src, dt, x)
              [] dt.kind = "float"   -> \E f : KeepsFloat(src, dt, f) /\ x = Narrowed(f, dt.bits)
              [] dt.kind = "complex" -> KeepsComplex(src, dt, x)
              [] OTHER               -> KeepsText(src, x)

\* How one call stands to that: strict typing answers nothing else, and weak
\* typing answers all of it.
Extends(r) ==
  /\ ~r.weak /\ r.ok => Keeps(r.src, r.dt, r.out)
  /\ r.weak => \A out : Keeps(r.src, r.dt, out) => r.ok /\ r.out = out

ModesInv == \E S : calls \in Seq(S) /\ \A r \in S : Extends(r)

Record(c, ok, out) == [src |-> c.src, dt |-> c.dt, weak |-> c.weak, ok |-> ok, out |-> out]

\* What a handler has to be shown: it answers once, and as it should.
Answers(c) == \E ok, out : Answer(c, ok, out) /\ Extends(Record(c, ok, out))

\* Strict typing sets what is kept; weak typing nothing else where something is.
LEMMA SetAnswers ==
  ASSUME NEW c, NEW x, Set(c, x),
         Keeps(c.src, c.dt, [t |-> c.dt, x |-> x]) \/ c.weak,
         c.weak => \A y : Keeps(c.src, c.dt, [t |-> c.dt, x |-> y]) => y = x
  PROVE  Answers(c)
<1> DEFINE r == Record(c, TRUE, [t |-> c.dt, x |-> x])
<1>1. r.weak = c.weak /\ r.ok = TRUE /\ r.src = c.src /\ r.dt = c.dt /\ r.out = [t |-> c.dt, x |-> x]
  BY DEF Record
<1>2. ASSUME NEW out, Keeps(c.src, c.dt, out) PROVE \E y : out = [t |-> c.dt, x |-> y]
  BY <1>2 DEF Keeps
<1>3. Extends(r)
  BY <1>1, <1>2 DEF Extends
<1> QED
  BY <1>3 DEF Answers, Set, Record

\* Weak typing may fail only where strict typing keeps nothing.
LEMMA FailAnswers ==
  ASSUME NEW c, NEW err, Fail(c, err),
         c.weak => \A y : ~Keeps(c.src, c.dt, [t |-> c.dt, x |-> y])
  PROVE  Answers(c)
<1> DEFINE r == Record(c, FALSE, err)
<1>1. r.weak = c.weak /\ r.ok = FALSE /\ r.src = c.src /\ r.dt = c.dt
  BY DEF Record
<1>2. ASSUME NEW out, Keeps(c.src, c.dt, out) PROVE \E y : out = [t |-> c.dt, x |-> y]
  BY <1>2 DEF Keeps
<1>3. Extends(r)
  BY <1>1, <1>2 DEF Extends
<1> QED
  BY <1>3 DEF Answers, Fail, Record

\* What is kept in each kind of type, the answer without its type.
LEMMA KeepsByKind ==
  ASSUME NEW src, NEW dt, NEW x
  PROVE  LET kept == Keeps(src, dt, [t |-> dt, x |-> x])
         IN  /\ dt.kind = "bool"    => (kept <=> src.t.kind = "bool" /\ x = src.x)
             /\ dt.kind = "int"     => (kept <=> KeepsInt(src, dt, x))
             /\ dt.kind = "uint"    => (kept <=> KeepsUint(src, dt, x))
             /\ dt.kind = "float"   => (kept <=> \E f : KeepsFloat(src, dt, f) /\ x = Narrowed(f, dt.bits))
             /\ dt.kind = "complex" => (kept <=> KeepsComplex(src, dt, x))
             /\ dt.kind \in Texts   => (kept <=> KeepsText(src, x))
<1>1. ASSUME NEW y PROVE [t |-> dt, x |-> x] = [t |-> dt, x |-> y] <=> y = x
  <2>1. [t |-> dt, x |-> x].x = x /\ [t |-> dt, x |-> y].x = y
    OBVIOUS
  <2> QED
    BY <2>1
<1> QED
  BY <1>1 DEF Keeps, Texts

\* The handlers one by one: what each answers extends what strict typing keeps.
LEMMA BoolAnswers ==
  ASSUME NEW c, c.dt.kind = "bool", ToBool(c)
  PROVE  Answers(c)
<1> DEFINE K(x) == Keeps(c.src, c.dt, [t |-> c.dt, x |-> x])
<1>1. \A x : K(x) <=> c.src.t.kind = "bool" /\ x = c.src.x
  BY KeepsByKind
<1> HIDE DEF K
<1>2. ASSUME NEW x, Set(c, x), K(x) \/ c.weak, \A y : K(y) => y = x PROVE Answers(c)
  BY <1>2, SetAnswers DEF K
<1>3. ASSUME NEW e, Fail(c, e), c.weak => \A y : ~K(y) PROVE Answers(c)
  BY <1>3, FailAnswers DEF K
<1> QED
  BY <1>1, <1>2, <1>3 DEF ToBool, From, Numeric, Texts

\* Signed integers: what the conversion answers is what strict typing keeps.
LEMMA IntAnswers ==
  ASSUME NEW c, c.dt.kind = "int", ToInt(c)
  PROVE  Answers(c)
<1> DEFINE K(x) == Keeps(c.src, c.dt, [t |-> c.dt, x |-> x])
<1>1. \A x : K(x) <=> KeepsInt(c.src, c.dt, x)
  BY KeepsByKind
<1> HIDE DEF K
<1>2. ASSUME NEW x, Set(c, x), K(x) \/ c.weak, \A y : K(y) => y = x PROVE Answers(c)
  BY <1>2, SetAnswers DEF K
<1>3. ASSUME NEW e, Fail(c, e), c.weak => \A y : ~K(y) PROVE Answers(c)
  BY <1>3, FailAnswers DEF K
<1> USE DEF From, Numeric, Texts
<1>4. CASE c.src.t.kind \in {"int", "uint"}
  BY <1>1, <1>2, <1>3, <1>4 DEF ToInt, SetInt, KeepsInt, Forbidden
<1>5. CASE c.src.t.kind = "float"
  BY <1>1, <1>2, <1>3, <1>5 DEF ToInt, SetInt, KeepsInt, Forbidden
<1>6. CASE c.src.t.kind \notin Numeric
  BY <1>1, <1>2, <1>3, <1>6 DEF ToInt, SetInt, KeepsInt, Forbidden
<1> QED
  BY <1>4, <1>5, <1>6

\* Unsigned integers.
LEMMA UintAnswers ==
  ASSUME NEW c, c.dt.kind = "uint", ToUint(c)
  PROVE  Answers(c)
<1> DEFINE K(x) == Keeps(c.src, c.dt, [t |-> c.dt, x |-> x])
<1>1. \A x : K(x) <=> KeepsUint(c.src, c.dt, x)
  BY KeepsByKind
<1> HIDE DEF K
<1>2. ASSUME NEW x, Set(c, x), K(x) \/ c.weak, \A y : K(y) => y = x PROVE Answers(c)
  BY <1>2, SetAnswers DEF K
<1>3. ASSUME NEW e, Fail(c, e), c.weak => \A y : ~K(y) PROVE Answers(c)
  BY <1>3, FailAnswers DEF K
<1> USE DEF From, Numeric, Texts
<1>4. CASE c.src.t.kind \in {"int", "uint"}
  BY <1>1, <1>2, <1>3, <1>4 DEF ToUint, SetUint, Wrap, KeepsUint, Forbidden
<1>5. CASE c.src.t.kind = "float"
  BY <1>1, <1>2, <1>3, <1>5 DEF ToUint, SetUint, Wrap, KeepsUint, Forbidden
<1>6. CASE c.src.t.kind \notin Numeric
  BY <1>1, <1>2, <1>3, <1>6 DEF ToUint, SetUint, KeepsUint, Forbidden
<1> QED
  BY <1>4, <1>5, <1>6

\* Floats.
LEMMA FloatAnswers ==
  ASSUME NEW c, c.dt.kind = "float", ToFloat(c)
  PROVE  Answers(c)
<1> DEFINE K(x) == Keeps(c.src, c.dt, [t |-> c.dt, x |-> x])
<1>1. \A x : K(x) <=> \E f : KeepsFloat(c.src, c.dt, f) /\ x = Narrowed(f, c.dt.bits)
  BY KeepsByKind
<1> HIDE DEF K
<1>2. ASSUME NEW x, Set(c, x), K(x) \/ c.weak, \A y : K(y) => y = x PROVE Answers(c)
  BY <1>2, SetAnswers DEF K
<1>3. ASSUME NEW e, Fail(c, e), c.weak => \A y : ~K(y) PROVE Answers(c)
  BY <1>3, FailAnswers DEF K
<1> USE DEF From, Numeric, Texts
<1>4. CASE c.src.t.kind \in Numeric
  BY <1>1, <1>2, <1>3, <1>4 DEF ToFloat, SetFloat, KeepsFloat, Forbidden
<1>5. CASE c.src.t.kind \notin Numeric
  BY <1>1, <1>2, <1>3, <1>5 DEF ToFloat, SetFloat, KeepsFloat, Forbidden
<1> QED
  BY <1>4, <1>5

\* Complex numbers.
LEMMA ComplexAnswers ==
  ASSUME NEW c, c.dt.kind = "complex", ToComplex(c)
  PROVE  Answers(c)
<1> DEFINE K(x) == Keeps(c.src, c.dt, [t |-> c.dt, x |-> x])
<1>1. \A x : K(x) <=> KeepsComplex(c.src, c.dt, x)
  BY KeepsByKind
<1> HIDE DEF K
<1>2. ASSUME NEW x, Set(c, x), K(x) \/ c.weak, \A y : K(y) => y = x PROVE Answers(c)
  BY <1>2, SetAnswers DEF K
<1>3. ASSUME NEW e, Fail(c, e), c.weak => \A y : ~K(y) PROVE Answers(c)
  BY <1>3, FailAnswers DEF K
<1> QED
  BY <1>1, <1>2, <1>3 DEF ToComplex, Real, KeepsComplex, From, Numeric

\* Strings and json.Numbers.
LEMMA StringAnswers ==
  ASSUME NEW c, c.dt.kind \in Texts, ToString(c)
  PROVE  Answers(c)
<1> DEFINE K(x) == Keeps(c.src, c.dt, [t |-> c.dt, x |-> x])
<1>1. \A x : K(x) <=> KeepsText(c.src, x)
  BY KeepsByKind
<1> HIDE DEF K
<1>2. ASSUME NEW x, Set(c, x), K(x) \/ c.weak, \A y : K(y) => y = x PROVE Answers(c)
  BY <1>2, SetAnswers DEF K
<1>3. ASSUME NEW e, Fail(c, e), c.weak => \A y : ~K(y) PROVE Answers(c)
  BY <1>3, FailAnswers DEF K
<1> QED
  BY <1>1, <1>2, <1>3 DEF ToString, KeepsText, From, Renders, Texts, Numeric

\* Whatever the destination: one more answer, that stands as it should.
LEMMA NextAnswers ==
  ASSUME Next
  PROVE  \E c \in [src : Sources, dt : ScalarTypes, weak : BOOLEAN] : Answers(c)
<1> DEFINE C == [src : Sources, dt : ScalarTypes, weak : BOOLEAN]
<1>1. ASSUME NEW kind, NEW c \in Calls(kind)
      PROVE  c \in C /\ c.dt.kind = kind
  BY <1>1 DEF Calls
<1>2. CASE \E c \in Calls("bool") : ToBool(c)
  BY <1>1, <1>2, BoolAnswers
<1>3. CASE \E c \in Calls("int") : ToInt(c)
  BY <1>1, <1>3, IntAnswers
<1>4. CASE \E c \in Calls("uint") : ToUint(c)
  BY <1>1, <1>4, UintAnswers
<1>5. CASE \E c \in Calls("float") : ToFloat(c)
  BY <1>1, <1>5, FloatAnswers
<1>6. CASE \E c \in Calls("complex") : ToComplex(c)
  BY <1>1, <1>6, ComplexAnswers
<1>7. CASE \E c \in Calls("string") \union Calls("number") : ToString(c)
  BY <1>1, <1>7, StringAnswers DEF Texts
<1> QED
  BY <1>2, <1>3, <1>4, <1>5, <1>6, <1>7 DEF Next

\* What no step changes: the outcomes a build has for floats out of range.
LEMMA SameBuild ==
  ASSUME build' = build
  PROVE  \A r : Extends(r) => Extends(r)'
<1>1. \A x : Int64(x)' = Int64(x) /\ Uint64(x)' = Uint64(x)
  BY DEF Int64, Uint64
<1>2. \A src, dt, n : KeepsInt(src, dt, n)' <=> KeepsInt(src, dt, n)
  BY <1>1 DEF KeepsInt
<1>3. \A src, dt, n : KeepsUint(src, dt, n)' <=> KeepsUint(src, dt, n)
  BY <1>1 DEF KeepsUint
<1>4. \A src, dt, out : Keeps(src, dt, out)' <=> Keeps(src, dt, out)
  BY <1>2, <1>3 DEF Keeps
<1> QED
  BY <1>4 DEF Extends

\* Each step adds one such call.
LEMMA ModesStep == ModesInv /\ [Next]_vars => ModesInv'
<1> SUFFICES ASSUME ModesInv, [Next]_vars PROVE ModesInv'
  OBVIOUS
<1>1. PICK S : calls \in Seq(S) /\ \A r \in S : Extends(r)
  BY DEF ModesInv
<1>2. CASE UNCHANGED vars
  <2>1. calls' \in Seq(S) /\ build' = build
    BY <1>1, <1>2 DEF vars
  <2> QED
    BY <1>1, <2>1, SameBuild DEF ModesInv
<1>3. CASE Next
  <2>1. PICK c, ok, out : Answer(c, ok, out) /\ Extends(Record(c, ok, out))
    BY <1>3, NextAnswers DEF Answers
  <2> DEFINE r == Record(c, ok, out)
  <2>2. calls' = Append(calls, r) /\ build' = build /\ Extends(r)
    BY <2>1 DEF Answer, Record
  <2> HIDE DEF r
  <2>3. calls' \in Seq(S \union {r})
    BY <1>1, <2>2
  <2> QED
    BY <1>1, <2>2, <2>3, SameBuild DEF ModesInv
<1> QED
  BY <1>2, <1>3

\* A history starts empty.
LEMMA ModesInit == Init => ModesInv
<1>1. << >> \in Seq({})
  OBVIOUS
<1> QED
  BY <1>1 DEF Init, ModesInv

\* WithStrictTypes only takes conversions away (option.go, cast.go): whatever
\* the widths, whatever the inputs and however far apart the two calls are, an
\* answer strict typing gives is the answer weak typing gives.
THEOREM StrictIsPartOfWeak == Spec => []WeakExtendsStrict
<1>1. ModesInv => WeakExtendsStrict
  <2> SUFFICES ASSUME ModesInv, NEW m \in DOMAIN calls, NEW n \in DOMAIN calls,
                      calls[m].src = calls[n].src, calls[m].dt = calls[n].dt,
                      ~calls[m].weak, calls[m].ok, calls[n].weak
               PROVE  calls[n].ok /\ calls[n].out = calls[m].out
    BY DEF WeakExtendsStrict
  <2>1. Extends(calls[m]) /\ Extends(calls[n])
    BY DEF ModesInv
  <2> QED
    BY <2>1 DEF Extends
<1> QED
  BY <1>1, ModesInit, ModesStep, PTL DEF Spec

-----------------------------------------------------------------------------
(* What every call of a history is shown to be.                            *)

\* The text a scalar is written as, on its own.
TextOf(v) == Stringify([src |-> v])

\* The integer a number of h halves should become.
Wanted(c, h) ==
  IF c.weak /\ c.dt.kind = "uint" /\ Whole(h) < 0 THEN Whole(h) % 2 ^ c.dt.bits ELSE Whole(h)

Typed(r) == IsValue(r.src) /\ IsType(r.dt) /\ (r.ok => IsValue(r.out))

\* A scalar that is written, and a text that is read as the scalar it is of.
Spoken == {"bool"} \union Numeric
Writes(r) ==
  r.ok /\ r.dt.kind \in Texts /\ r.src.t.kind \in Spoken /\ r.src.t.self = ""
    => r.out.x = TextOf(r.src) /\ r.out.t.kind \in Texts
Reads(r) ==
  r.weak /\ r.src.t.kind \in Texts =>
    \A v : IsValue(v) /\ v.t = r.dt /\ v.t.kind \in Spoken /\ r.src.x = TextOf(v) => r.ok /\ r.out = v

Sound(r) == Typed(r) /\ ByMode(r) /\ Faithful(r) /\ Writes(r) /\ Reads(r)

Good(c) == \E ok, out : Answer(c, ok, out) /\ Sound(Record(c, ok, out))

-----------------------------------------------------------------------------
(* Integers.                                                               *)

\* Whole cuts halves off towards zero.
LEMMA WholeIs ==
  ASSUME NEW h \in Int
  PROVE  /\ Whole(h) \in Int
         /\ h >= 0 => 2 * Whole(h) <= h /\ h < 2 * Whole(h) + 2
         /\ h < 0  => 2 * Whole(h) >= h /\ h > 2 * Whole(h) - 2
         /\ h % 2 = 0 <=> h = 2 * Whole(h)
<1> DEFINE n == Abs(h) \div 2
<1>1. Abs(h) \in Nat
  BY DEF Abs
<1>2. n \in Nat /\ 2 * n <= Abs(h) /\ Abs(h) < 2 * n + 2
  <2> HIDE DEF Whole
  <2> QED
    BY <1>1
<1>3. Whole(h) = Sign(h) * n
  BY DEF Whole
<1> HIDE DEF n
<1>4. CASE h >= 0
  <2>1. Whole(h) = n /\ Abs(h) = h
    BY <1>2, <1>3, <1>4 DEF Sign, Abs
  <2> QED
    BY <1>2, <1>4, <2>1
<1>5. CASE h < 0
  <2>1. Whole(h) = -n /\ Abs(h) = -h
    BY <1>2, <1>3, <1>5 DEF Sign, Abs
  <2> QED
    BY <1>2, <1>5, <2>1
<1> QED
  BY <1>4, <1>5

\* The powers the ranges are made of.
LEMMA RangesNest ==
  /\ Wide \in Nat /\ Wide >= 2
  /\ 2 ^ (Wide - 1) \in Nat /\ 2 ^ (Wide - 1) >= 2
  /\ 2 ^ Wide = 2 * 2 ^ (Wide - 1) /\ 2 ^ (Wide + 1) = 4 * 2 ^ (Wide - 1)
  /\ \A b \in 1 .. Wide :
       /\ 2 ^ (b - 1) \in Nat /\ 2 ^ (b - 1) > 0 /\ 2 ^ b = 2 * 2 ^ (b - 1)
       /\ 2 ^ (b - 1) <= 2 ^ (Wide - 1)
<1>1. Wide \in Nat /\ Wide >= 2
  BY CastsAssumption, WidthsAssumption
<1>2. /\ Wide - 1 \in Nat /\ Wide - 1 + 1 = Wide /\ Wide - 2 \in Nat /\ Wide - 2 + 1 = Wide - 1
  BY <1>1
<1>3. /\ 2 ^ (Wide - 2) \in Nat /\ 2 ^ (Wide - 2) > 0 /\ 2 ^ (Wide - 1) = 2 * 2 ^ (Wide - 2)
  BY <1>2, TwoExp
<1>4. 2 ^ Wide = 2 * 2 ^ (Wide - 1)
  BY <1>2, TwoExp
<1>5. 2 ^ (Wide + 1) = 2 * 2 ^ Wide
  BY <1>1, TwoExp
<1>6. ASSUME NEW b \in 1 .. Wide
      PROVE  /\ 2 ^ (b - 1) \in Nat /\ 2 ^ (b - 1) > 0 /\ 2 ^ b = 2 * 2 ^ (b - 1)
             /\ 2 ^ (b - 1) <= 2 ^ (Wide - 1)
  <2>1. b - 1 \in Nat /\ b - 1 + 1 = b /\ b - 1 <= Wide - 1
    BY <1>1
  <2> QED
    BY <1>2, <2>1, TwoExp, ExpGrows
<1> QED
  BY <1>1, <1>3, <1>4, <1>5, <1>6

\* What the ranges of an integer type hold.
LEMMA RangesAre ==
  ASSUME NEW b \in 1 .. Wide
  PROVE  /\ IntRange(b) = -(2 ^ (b - 1)) .. 2 ^ (b - 1) - 1
         /\ UintRange(b) = 0 .. 2 * 2 ^ (b - 1) - 1
         /\ IntRange(b) \subseteq Int /\ UintRange(b) \subseteq Int
         /\ \A n \in Int : n % 2 ^ b \in UintRange(b)
<1>1. 2 ^ (b - 1) \in Nat /\ 2 ^ (b - 1) > 0 /\ 2 ^ b = 2 * 2 ^ (b - 1)
  BY RangesNest
<1>2. \A n \in Int : n % 2 ^ b \in 0 .. 2 ^ b - 1
  <2> DEFINE u == 2 ^ b
  <2>1. u \in Nat /\ u > 0
    BY <1>1
  <2> HIDE DEF u
  <2>2. \A n \in Int : n % u \in 0 .. u - 1
    BY <2>1
  <2> QED
    BY <2>2 DEF u
<1>3. UintRange(b) = 0 .. 2 ^ b - 1
  BY DEF UintRange, MaxUint
<1>4. IntRange(b) = -(2 ^ (b - 1)) .. 2 ^ (b - 1) - 1
  BY DEF IntRange, MinInt, MaxInt
<1> QED
  BY <1>1, <1>2, <1>3, <1>4

\* The limits of int64 and uint64 as the float64 a float is compared with.
LEMMA LimitsAsFloats ==
  LET m == Mantissa[Wide]
      Q == 2 ^ (Wide - 1)
  IN  /\ Round(2 * MinInt(Wide), m) = -(2 * Q)
      /\ Round(2 * MaxInt(Wide), m) \in {2 * Q - 2, 2 * Q}
      /\ Round(2 * 0, m) = 0
      /\ Round(2 * MaxUint(Wide), m) \in {4 * Q - 2, 4 * Q}
<1> DEFINE m == Mantissa[Wide]
           Q == 2 ^ (Wide - 1)
<1>1. /\ Q \in Nat /\ 2 ^ Wide = 2 * Q /\ 2 ^ (Wide + 1) = 4 * Q
      /\ Wide \in Nat /\ Wide + 1 \in Nat
  BY RangesNest
<1>2. m \in Nat \ {0} /\ m < Wide /\ m < Wide + 1 /\ m \in Nat
  BY CastsAssumption, WidthsAssumption
<1> HIDE DEF m
<1>3. Round(2 * MinInt(Wide), m) = -(2 * Q)
  <2>1. 2 * MinInt(Wide) = -(2 ^ Wide) /\ -(2 ^ Wide) \in Int
    BY <1>1 DEF MinInt
  <2>2. Round(-(2 ^ Wide), m) = -(2 ^ Wide)
    BY <1>1, <1>2, <2>1, PowerFits, FitsIsFixed
  <2> QED
    BY <1>1, <2>1, <2>2
<1>4. Round(2 * MaxInt(Wide), m) \in {2 * Q - 2, 2 * Q}
  <2>1. 2 * MaxInt(Wide) = 2 ^ Wide - 2
    BY <1>1 DEF MaxInt
  <2> QED
    BY <1>1, <1>2, <2>1, RoundLargest
<1>5. Round(2 * 0, m) = 0
  BY <1>1, <1>2, PowerFits, FitsIsFixed
<1>6. Round(2 * MaxUint(Wide), m) \in {4 * Q - 2, 4 * Q}
  <2>1. 2 * MaxUint(Wide) = 2 ^ (Wide + 1) - 2
    BY <1>1 DEF MaxUint
  <2> QED
    BY <1>1, <1>2, <2>1, RoundLargest
<1> QED
  BY <1>3, <1>4, <1>5, <1>6 DEF m

\* A float that is a value, seen from an integer type: its halves are odd only
\* where there are bits for it.
LEMMA FloatHalves ==
  ASSUME NEW f, NEW b, b \in DOMAIN Mantissa, FloatFits(f, b), f.k = "fin"
  PROVE  /\ f = Fin(f.h) /\ f.h \in Int
         /\ f.h % 2 = 0 \/ Abs(f.h) <= 2 ^ (Wide - 1)
         /\ Fits(f.h, Mantissa[b])
<1>1. f = Fin(f.h) /\ f.h \in Int /\ Round(f.h, Mantissa[b]) = f.h
  BY DEF FloatFits, Not
<1>2. /\ Mantissa[b] \in Nat \ {0} /\ Mantissa[b] \in Nat
      /\ Wide - 1 \in Nat /\ Mantissa[b] <= Wide - 1
  BY CastsAssumption, WidthsAssumption
<1>3. Fits(f.h, Mantissa[b])
  BY <1>1, <1>2, FitsIsFixed
<1>4. 2 ^ Mantissa[b] <= 2 ^ (Wide - 1) /\ 2 ^ Mantissa[b] \in Nat /\ 2 ^ (Wide - 1) \in Nat
  BY <1>2, ExpGrows, TwoExp
<1>5. f.h % 2 = 0 \/ Abs(f.h) <= 2 ^ Mantissa[b]
  BY <1>1, <1>2, <1>3, LargeIsEven
<1>6. Abs(f.h) \in Nat
  BY <1>1 DEF Abs
<1> QED
  BY <1>1, <1>3, <1>4, <1>5, <1>6

\* An integer type that takes a number, and one that refuses it.
LEMMA IntegerTaken ==
  ASSUME NEW c, c.dt.kind \in {"int", "uint"}, IsValue(c.src), IsType(c.dt),
         NEW n, n \in RangeOf(c.dt), Set(c, n),
         ~Unguarded(c) => \A h \in Halves(c.src) : n = Wanted(c, h) /\ (c.weak \/ h % 2 = 0),
         c.weak /\ c.src.t.kind \in Texts =>
           \A v : IsValue(v) /\ v.t = c.dt /\ c.src.x = TextOf(v) => n = v.x
  PROVE  Good(c)
<1> DEFINE out == [t |-> c.dt, x |-> n]
           r   == Record(c, TRUE, out)
<1>1. r.src = c.src /\ r.dt = c.dt /\ r.weak = c.weak /\ r.ok = TRUE /\ r.out = out
  BY DEF Record
<1>2. out.t = c.dt /\ out.x = n
  OBVIOUS
<1>3. IsValue(out)
  BY <1>2 DEF IsValue, RangeOf
<1> HIDE DEF r, out
<1>4. Typed(r)
  BY <1>1, <1>3 DEF Typed
<1>5. ByMode(r)
  BY <1>1, <1>2 DEF ByMode, Wanted, Unguarded
<1>6. Faithful(r) /\ Writes(r)
  BY <1>1 DEF Faithful, Writes, Texts
<1>7. Reads(r)
  <2> SUFFICES ASSUME c.weak, c.src.t.kind \in Texts, NEW v, IsValue(v), v.t = c.dt,
                      c.src.x = TextOf(v)
               PROVE  out = v
    BY <1>1 DEF Reads
  <2>1. v = [t |-> v.t, x |-> v.x] /\ n = v.x
    BY DEF IsValue
  <2> QED
    BY <2>1 DEF out
<1>8. Answer(c, TRUE, out)
  BY DEF Set, out
<1> QED
  BY <1>4, <1>5, <1>6, <1>7, <1>8 DEF Good, Sound, r

\* Refusing an integer is sound where none was to be had.
LEMMA IntegerRefused ==
  ASSUME NEW c, c.dt.kind \in {"int", "uint"}, IsValue(c.src), IsType(c.dt),
         NEW err, Fail(c, err),
         ~Unguarded(c) => \A h \in Halves(c.src) : Wanted(c, h) \notin RangeOf(c.dt)
                                                    \/ (~c.weak /\ h % 2 # 0),
         c.weak /\ c.src.t.kind \in Texts =>
           \A v : ~(IsValue(v) /\ v.t = c.dt /\ c.src.x = TextOf(v))
  PROVE  Good(c)
<1> DEFINE r == Record(c, FALSE, err)
<1>1. r.src = c.src /\ r.dt = c.dt /\ r.weak = c.weak /\ r.ok = FALSE /\ r.out = err
  BY DEF Record
<1> HIDE DEF r
<1>2. Typed(r)
  BY <1>1 DEF Typed
<1>3. ByMode(r)
  BY <1>1 DEF ByMode, Wanted, Unguarded
<1>4. Faithful(r) /\ Writes(r) /\ Reads(r)
  BY <1>1 DEF Faithful, Writes, Reads, Texts
<1>5. Answer(c, FALSE, err)
  BY DEF Fail
<1> QED
  BY <1>2, <1>3, <1>4, <1>5 DEF Good, Sound, r

\* How an integer is written: in full, whatever its type.
LEMMA IntegerText ==
  ASSUME NEW v, v.t.kind \in {"int", "uint"}
  PROVE  TextOf(v) = Num(2 * v.x)
BY DEF TextOf, Stringify

\* A text that reads as an integer reads as the one it was written for.
LEMMA TextToInteger ==
  ASSUME NEW c, c.dt.kind \in {"int", "uint"}, IsValue(c.src), IsType(c.dt),
         c.src.t.kind \in Texts, NEW range, range = RangeOf(c.dt),
         LET x == Digits(c.src.x)
         IN  IF IsInt(x, range)
             THEN (x.h \div 2) \in range /\ Set(c, x.h \div 2)
             ELSE Fail(c, "unconvertible")
  PROVE  Good(c)
<1> DEFINE x == Digits(c.src.x)
<1>1. Halves(c.src) = {}
  BY DEF Halves, Texts
<1>2. ASSUME NEW v, IsValue(v), v.t = c.dt, c.src.x = TextOf(v)
      PROVE  IsInt(x, range) /\ x.h \div 2 = v.x
  <2>1. c.src.x = Num(2 * v.x) /\ v.x \in range /\ v.x \in Int
    <3>1. v.x \in range
      BY <1>2 DEF IsValue, RangeOf
    <3>2. range \subseteq Int
      BY RangesAre DEF IsType, RangeOf
    <3> QED
      BY <1>2, <3>1, <3>2, IntegerText
  <2>2. x = Num(2 * v.x)
    BY <2>1 DEF Digits, Num
  <2>3. x.k = "num" /\ x.h = 2 * v.x
    BY <2>2 DEF Num
  <2>4. x.h % 2 = 0 /\ x.h \div 2 = v.x
    BY <2>1, <2>3
  <2> QED
    BY <2>1, <2>3, <2>4 DEF IsInt
<1> HIDE DEF x
<1>3. CASE IsInt(x, range)
  BY <1>1, <1>2, <1>3, IntegerTaken DEF x
<1>4. CASE ~IsInt(x, range)
  BY <1>1, <1>2, <1>4, IntegerRefused DEF x
<1> QED
  BY <1>3, <1>4

\* The integers as which a float may be taken.
LEMMA FloatInts ==
  ASSUME NEW c, c.src.t.kind = "float", IsValue(c.src), c.src.x.k = "fin"
  PROVE  LET h == c.src.x.h
             Q == 2 ^ (Wide - 1)
         IN  /\ h \in Int /\ Halves(c.src) = {h}
             /\ Trunc(c.src.x) = Whole(h) /\ (IsWhole(c.src.x) <=> h % 2 = 0)
             /\ Under(c.src.x, MinInt(Wide)) <=> Whole(h) < -Q
             /\ Under(c.src.x, 0) <=> h < 0
             /\ Above(c.src.x, MaxInt(Wide)) => Whole(h) >= Q
             /\ ~Above(c.src.x, MaxInt(Wide)) => Whole(h) <= Q
             /\ Above(c.src.x, MaxUint(Wide)) => Whole(h) >= 2 * Q
             /\ ~Above(c.src.x, MaxUint(Wide)) => Whole(h) <= 2 * Q
<1> DEFINE f == c.src.x
           h == c.src.x.h
           Q == 2 ^ (Wide - 1)
           m == Mantissa[Wide]
<1>1. h \in Int /\ (h % 2 = 0 \/ Abs(h) <= Q)
  <2>1. FloatFits(f, c.src.t.bits) /\ c.src.t.bits \in DOMAIN Mantissa
    BY DEF IsValue, IsType
  <2> QED
    BY <2>1, FloatHalves
<1>2. Q \in Nat /\ Q >= 2
  BY RangesNest
<1>3. /\ Whole(h) \in Int
      /\ h >= 0 => 2 * Whole(h) <= h /\ h < 2 * Whole(h) + 2
      /\ h < 0  => 2 * Whole(h) >= h /\ h > 2 * Whole(h) - 2
      /\ h % 2 = 0 <=> h = 2 * Whole(h)
  BY <1>1, WholeIs
<1>4. Halves(c.src) = {h} /\ Trunc(f) = Whole(h) /\ (IsWhole(f) <=> h % 2 = 0)
  BY DEF Halves, Trunc, Whole, IsWhole
<1>5. /\ \A n : Above(f, n) <=> h > Round(2 * n, m)
      /\ \A n : Under(f, n) <=> h < Round(2 * n, m)
  BY DEF Above, Under
<1>6. /\ Round(2 * MinInt(Wide), m) = -(2 * Q)
      /\ Round(2 * MaxInt(Wide), m) \in {2 * Q - 2, 2 * Q}
      /\ Round(2 * 0, m) = 0
      /\ Round(2 * MaxUint(Wide), m) \in {4 * Q - 2, 4 * Q}
  BY LimitsAsFloats
<1>7. /\ Under(f, MinInt(Wide)) <=> h < -(2 * Q)
      /\ Under(f, 0) <=> h < 0
  BY <1>5, <1>6
<1>8. /\ Above(f, MaxInt(Wide)) => h > 2 * Q - 2
      /\ ~Above(f, MaxInt(Wide)) => h <= 2 * Q
      /\ Above(f, MaxUint(Wide)) => h > 4 * Q - 2
      /\ ~Above(f, MaxUint(Wide)) => h <= 4 * Q
  BY <1>1, <1>2, <1>5, <1>6
<1>9. Abs(h) \in Nat /\ (h >= 0 => Abs(h) = h) /\ (h < 0 => Abs(h) = -h)
  BY <1>1 DEF Abs
<1> HIDE DEF f, h, Q, m
<1>10. Under(f, MinInt(Wide)) <=> Whole(h) < -Q
  BY <1>1, <1>2, <1>3, <1>7, <1>9
<1>11. /\ Above(f, MaxInt(Wide)) => Whole(h) >= Q
       /\ ~Above(f, MaxInt(Wide)) => Whole(h) <= Q
       /\ Above(f, MaxUint(Wide)) => Whole(h) >= 2 * Q
       /\ ~Above(f, MaxUint(Wide)) => Whole(h) <= 2 * Q
  BY <1>1, <1>2, <1>3, <1>8, <1>9
<1> QED
  BY <1>1, <1>4, <1>7, <1>10, <1>11 DEF f, h, Q

\* An integer is its own halves, twice.
LEMMA WholeOfInteger ==
  ASSUME NEW v, v.t.kind \in {"int", "uint"}, v.x \in Int
  PROVE  Halves(v) = {2 * v.x} /\ Whole(2 * v.x) = v.x /\ (2 * v.x) % 2 = 0
<1>1. Halves(v) = {2 * v.x}
  BY DEF Halves
<1> DEFINE h == 2 * v.x
<1>2. h \in Int /\ h % 2 = 0 /\ h = 2 * v.x
  OBVIOUS
<1> HIDE DEF h
<1>3. Whole(h) \in Int /\ h = 2 * Whole(h)
  BY <1>2, WholeIs
<1>4. Whole(h) = v.x
  BY <1>2, <1>3
<1> QED
  BY <1>1, <1>2, <1>4

\* What the values of an integer type are.
LEMMA IntegerIs ==
  ASSUME NEW v, v.t.kind \in {"int", "uint"}, IsValue(v)
  PROVE  /\ v.t.bits \in 1 .. Wide /\ v.x \in Int
         /\ v.t.kind = "int" => v.x >= -(2 ^ (Wide - 1)) /\ v.x < 2 ^ (Wide - 1)
         /\ v.t.kind = "uint" => v.x >= 0 /\ v.x < 2 * 2 ^ (Wide - 1)
<1>1. v.t.bits \in 1 .. Wide
  BY DEF IsValue, IsType
<1>2. /\ v.t.kind = "int" => v.x \in IntRange(v.t.bits)
      /\ v.t.kind = "uint" => v.x \in UintRange(v.t.bits)
  BY DEF IsValue
<1> DEFINE P == 2 ^ (v.t.bits - 1)
           Q == 2 ^ (Wide - 1)
<1>3. P \in Nat /\ P <= Q /\ Q \in Nat
  BY <1>1, RangesNest
<1>4. IntRange(v.t.bits) = -P .. P - 1 /\ UintRange(v.t.bits) = 0 .. 2 * P - 1
  BY <1>1, RangesAre
<1>5. /\ v.t.kind = "int" => v.x \in -P .. P - 1
      /\ v.t.kind = "uint" => v.x \in 0 .. 2 * P - 1
  BY <1>2, <1>4
<1> HIDE DEF P, Q
<1>6. /\ v.t.kind = "int" => v.x \in Int /\ v.x >= -Q /\ v.x < Q
      /\ v.t.kind = "uint" => v.x \in Int /\ v.x >= 0 /\ v.x < 2 * Q
  BY <1>3, <1>5
<1> QED
  BY <1>1, <1>6 DEF Q

\* toInt, by the kind of its source.
LEMMA ToIntGood ==
  ASSUME NEW c, c.dt.kind = "int", IsValue(c.src), IsType(c.dt), ToInt(c)
  PROVE  Good(c)
<1> DEFINE range == IntRange(c.dt.bits)
           Q     == 2 ^ (Wide - 1)
<1>1. RangeOf(c.dt) = range /\ \A h : Wanted(c, h) = Whole(h)
  BY DEF RangeOf, Wanted
<1>2. Q \in Nat /\ range \subseteq Int /\ \A n \in range : n >= -Q /\ n < Q
  <2>1. c.dt.bits \in 1 .. Wide
    BY DEF IsType
  <2>2. /\ 2 ^ (c.dt.bits - 1) \in Nat /\ 2 ^ (c.dt.bits - 1) <= Q /\ Q \in Nat
    BY <2>1, RangesNest
  <2>3. range = -(2 ^ (c.dt.bits - 1)) .. 2 ^ (c.dt.bits - 1) - 1
    BY <2>1, RangesAre
  <2> HIDE DEF Q, range
  <2> QED
    BY <2>2, <2>3
<1> HIDE DEF range, Q
<1>3. ASSUME NEW n, SetInt(c, n)
      PROVE  (n \in range /\ Set(c, n)) \/ (n \notin range /\ Fail(c, "overflow"))
  BY <1>3 DEF SetInt, range
<1>4. CASE c.src.t.kind \in {"int", "uint"}
  <2>1. /\ Halves(c.src) = {2 * c.src.x} /\ Whole(2 * c.src.x) = c.src.x
        /\ (2 * c.src.x) % 2 = 0 /\ c.src.x \in Int
        /\ c.src.t.kind = "int" => c.src.x < Q
    BY <1>4, IntegerIs, WholeOfInteger DEF Q
  <2>2. c.src.t.kind \notin Texts
    BY <1>4 DEF Texts
  <2>3. ASSUME c.src.x > MaxInt(Wide) PROVE c.src.x \notin range
    BY <1>2, <2>1, <2>3 DEF MaxInt, Q
  <2>4. SetInt(c, c.src.x) \/ (c.src.x > MaxInt(Wide) /\ Fail(c, "overflow"))
    BY <1>4 DEF ToInt, From, Numeric, Texts, Forbidden
  <2>5. (c.src.x \in range /\ Set(c, c.src.x)) \/ (c.src.x \notin range /\ Fail(c, "overflow"))
    BY <1>3, <2>3, <2>4
  <2>6. CASE c.src.x \in range /\ Set(c, c.src.x)
    BY <1>1, <2>1, <2>2, <2>6, IntegerTaken
  <2>7. CASE c.src.x \notin range /\ Fail(c, "overflow")
    BY <1>1, <2>1, <2>2, <2>7, IntegerRefused
  <2> QED
    BY <2>5, <2>6, <2>7
<1>5. CASE c.src.t.kind = "float" /\ c.src.x.k = "fin"
  <2> DEFINE f == c.src.x
             h == c.src.x.h
             n == Int64(f)
  <2>1. /\ h \in Int /\ Halves(c.src) = {h}
        /\ Trunc(f) = Whole(h) /\ (IsWhole(f) <=> h % 2 = 0)
        /\ Under(f, MinInt(Wide)) <=> Whole(h) < -Q
        /\ Above(f, MaxInt(Wide)) => Whole(h) >= Q
        /\ ~Above(f, MaxInt(Wide)) => Whole(h) <= Q
    BY <1>5, FloatInts DEF Q
  <2>2. Whole(h) \in Int
    BY <2>1, WholeIs
  <2>3. c.src.t.kind \notin Texts
    BY <1>5 DEF Texts
  <2>4. \/ ~IsWhole(f) /\ ~c.weak /\ Fail(c, "unconvertible")
        \/ (Under(f, MinInt(Wide)) \/ Above(f, MaxInt(Wide))) /\ Fail(c, "overflow")
        \/ /\ IsWhole(f) \/ c.weak
           /\ ~Under(f, MinInt(Wide)) /\ ~Above(f, MaxInt(Wide)) /\ SetInt(c, n)
    BY <1>5 DEF ToInt, From, Numeric, Texts, Forbidden
  <2>5. ASSUME ~Under(f, MinInt(Wide)), ~Above(f, MaxInt(Wide)), ~Unguarded(c)
        PROVE  n = Whole(h)
    <3>1. Whole(h) # Q
      <4>1. MaxInt(Wide) + 1 = Q
        BY <1>2 DEF MaxInt, Q
      <4> QED
        BY <1>5, <2>1, <2>5, <4>1 DEF Unguarded
    <3>2. Whole(h) >= -Q /\ Whole(h) <= Q - 1
      BY <1>2, <2>1, <2>2, <2>5, <3>1
    <3>3. Trunc(f) \in IntRange(Wide)
      <4>1. IntRange(Wide) = -Q .. Q - 1
        BY <1>2 DEF IntRange, MinInt, MaxInt, Q
      <4> QED
        BY <1>2, <2>1, <2>2, <3>2, <4>1
    <3> QED
      BY <1>5, <2>1, <3>3 DEF Int64
  <2> HIDE DEF f, h, n
  <2>6. CASE ~IsWhole(f) /\ ~c.weak /\ Fail(c, "unconvertible")
    BY <1>1, <2>1, <2>3, <2>6, IntegerRefused
  <2>7. CASE (Under(f, MinInt(Wide)) \/ Above(f, MaxInt(Wide))) /\ Fail(c, "overflow")
    <3>1. Whole(h) \notin range
      BY <1>2, <2>1, <2>2, <2>7
    <3> QED
      BY <1>1, <2>1, <2>3, <2>7, <3>1, IntegerRefused
  <2>8. CASE /\ IsWhole(f) \/ c.weak
             /\ ~Under(f, MinInt(Wide)) /\ ~Above(f, MaxInt(Wide)) /\ SetInt(c, n)
    <3>1. CASE n \in range /\ Set(c, n)
      BY <1>1, <2>1, <2>3, <2>5, <2>8, <3>1, IntegerTaken
    <3>2. CASE n \notin range /\ Fail(c, "overflow")
      BY <1>1, <2>1, <2>3, <2>5, <2>8, <3>2, IntegerRefused
    <3> QED
      BY <1>3, <2>8, <3>1, <3>2
  <2> QED
    BY <2>4, <2>6, <2>7, <2>8
<1>6. CASE c.src.t.kind = "float" /\ c.src.x.k # "fin"
  <2>1. Halves(c.src) = {} /\ c.src.t.kind \notin Texts
    BY <1>6 DEF Halves, Texts
  <2>2. (\E e : Fail(c, e)) \/ SetInt(c, Int64(c.src.x))
    BY <1>6 DEF ToInt, From, Numeric, Texts, Forbidden
  <2>3. (\E e : Fail(c, e)) \/ \E n \in range : Set(c, n)
    BY <1>3, <2>2
  <2> QED
    BY <1>1, <2>1, <2>3, IntegerTaken, IntegerRefused
<1>7. CASE c.src.t.kind \in Texts /\ ~Forbidden(c)
  <2>1. LET x == Digits(c.src.x)
        IN  IF IsInt(x, range) THEN SetInt(c, x.h \div 2) ELSE Fail(c, "unconvertible")
    BY <1>7 DEF ToInt, From, Numeric, Texts, Forbidden, range
  <2>2. LET x == Digits(c.src.x)
        IN  IF IsInt(x, range) THEN (x.h \div 2) \in range /\ Set(c, x.h \div 2)
            ELSE Fail(c, "unconvertible")
    BY <1>3, <2>1 DEF IsInt
  <2> QED
    BY <1>1, <1>7, <2>2, TextToInteger
<1>8. CASE c.src.t.kind \notin Numeric /\ (c.src.t.kind \notin Texts \/ Forbidden(c))
  <2>1. Halves(c.src) = {}
    BY <1>8 DEF Halves, Numeric
  <2>2. ~(c.weak /\ c.src.t.kind \in Texts)
    BY <1>8 DEF Forbidden, From, Texts
  <2>3. (\E e : Fail(c, e)) \/ (c.src.t.kind = "bool" /\ SetInt(c, Bit(c.src.x)))
    BY <1>8 DEF ToInt, From, Numeric, Texts, Forbidden
  <2>4. (\E e : Fail(c, e)) \/ \E n \in range : Set(c, n)
    BY <1>3, <2>3
  <2> QED
    BY <1>1, <2>1, <2>2, <2>4, IntegerTaken, IntegerRefused
<1> QED
  BY <1>4, <1>5, <1>6, <1>7, <1>8 DEF Numeric

\* toUint, by the kind of its source.
LEMMA ToUintGood ==
  ASSUME NEW c, c.dt.kind = "uint", IsValue(c.src), IsType(c.dt), ToUint(c), build \in Builds
  PROVE  Good(c)
<1> DEFINE range == UintRange(c.dt.bits)
           Q     == 2 ^ (Wide - 1)
           mod(n) == n % 2 ^ c.dt.bits
<1>1. /\ RangeOf(c.dt) = range
      /\ \A h : Wanted(c, h) = IF c.weak /\ Whole(h) < 0 THEN mod(Whole(h)) ELSE Whole(h)
  BY DEF RangeOf, Wanted
<1>2. /\ Q \in Nat /\ range \subseteq Int /\ \A n \in range : n >= 0 /\ n < 2 * Q
      /\ \A n \in Int : mod(n) \in range
      /\ 0 \in range /\ mod(0) = 0
  <2>1. c.dt.bits \in 1 .. Wide
    BY DEF IsType
  <2> DEFINE P == 2 ^ (c.dt.bits - 1)
  <2>2. P \in Nat /\ P > 0 /\ P <= Q /\ Q \in Nat /\ 2 ^ c.dt.bits = 2 * P
    BY <2>1, RangesNest
  <2>3. range = 0 .. 2 * P - 1 /\ \A n \in Int : mod(n) \in range
    BY <2>1, RangesAre
  <2>4. mod(0) = 0 % (2 * P)
    BY <2>2
  <2> HIDE DEF Q, range, mod, P
  <2> QED
    BY <2>2, <2>3, <2>4
<1> HIDE DEF range, Q, mod
<1>3. ASSUME NEW n, SetUint(c, n)
      PROVE  (n \in range /\ Set(c, n)) \/ (n \notin range /\ Fail(c, "overflow"))
  BY <1>3 DEF SetUint, range
<1>4. ASSUME NEW n, Wrap(c, n)
      PROVE  (c.weak /\ Set(c, mod(n))) \/ (~c.weak /\ Fail(c, "overflow"))
  BY <1>4 DEF Wrap, mod
<1>5. CASE c.src.t.kind \in {"int", "uint"}
  <2> DEFINE n == c.src.x
  <2>1. /\ Halves(c.src) = {2 * n} /\ Whole(2 * n) = n /\ (2 * n) % 2 = 0 /\ n \in Int
        /\ c.src.t.kind = "uint" => n >= 0
    BY <1>5, IntegerIs, WholeOfInteger
  <2>2. c.src.t.kind \notin Texts
    BY <1>5 DEF Texts
  <2>3. (n < 0 /\ Wrap(c, n)) \/ (~(n < 0) /\ SetUint(c, n))
    BY <1>5, <2>1 DEF ToUint, From, Numeric, Texts, Forbidden
  <2> HIDE DEF n
  <2>4. CASE n < 0 /\ c.weak /\ Set(c, mod(n))
    BY <1>1, <1>2, <2>1, <2>2, <2>4, IntegerTaken
  <2>5. CASE n < 0 /\ ~c.weak /\ Fail(c, "overflow")
    <3>1. n \notin range
      BY <1>2, <2>1, <2>5
    <3> QED
      BY <1>1, <2>1, <2>2, <2>5, <3>1, IntegerRefused
  <2>6. CASE ~(n < 0) /\ n \in range /\ Set(c, n)
    BY <1>1, <2>1, <2>2, <2>6, IntegerTaken
  <2>7. CASE ~(n < 0) /\ n \notin range /\ Fail(c, "overflow")
    BY <1>1, <2>1, <2>2, <2>7, IntegerRefused
  <2> QED
    BY <1>3, <1>4, <2>3, <2>4, <2>5, <2>6, <2>7
<1>6. CASE c.src.t.kind = "float" /\ c.src.x.k = "fin"
  <2> DEFINE f == c.src.x
             h == c.src.x.h
             n == Int64(f)
             u == Uint64(f)
  <2>1. /\ h \in Int /\ Halves(c.src) = {h}
        /\ Trunc(f) = Whole(h) /\ (IsWhole(f) <=> h % 2 = 0)
        /\ Under(f, 0) <=> h < 0
        /\ Above(f, MaxUint(Wide)) => Whole(h) >= 2 * Q
        /\ ~Above(f, MaxUint(Wide)) => Whole(h) <= 2 * Q
    BY <1>6, FloatInts DEF Q
  <2>2. /\ Whole(h) \in Int
        /\ h >= 0 => 2 * Whole(h) <= h /\ h < 2 * Whole(h) + 2
        /\ h < 0  => 2 * Whole(h) >= h /\ h > 2 * Whole(h) - 2
        /\ h % 2 = 0 <=> h = 2 * Whole(h)
    BY <2>1, WholeIs
  <2>3. c.src.t.kind \notin Texts
    BY <1>6 DEF Texts
  <2>4. \/ ~IsWhole(f) /\ ~c.weak /\ Fail(c, "unconvertible")
        \/ Under(f, 0) /\ Wrap(c, n)
        \/ Above(f, MaxUint(Wide)) /\ Fail(c, "overflow")
        \/ (IsWhole(f) \/ c.weak) /\ ~Under(f, 0) /\ ~Above(f, MaxUint(Wide)) /\ SetUint(c, u)
    BY <1>6 DEF ToUint, From, Numeric, Texts, Forbidden
  <2>5. ASSUME Under(f, 0) PROVE n \in Int
    <3>1. Stray(f) = "low"
      BY <1>6, <2>1, <2>5 DEF Stray
    <3>2. build.int["low"] \in IntRange(Wide)
      BY ValuesAssumption
    <3>3. IntRange(Wide) \subseteq Int
      BY RangesNest, RangesAre
    <3> QED
      BY <2>1, <2>2, <3>1, <3>2, <3>3 DEF Int64
  <2>6. ASSUME Under(f, 0), c.weak, ~Unguarded(c) PROVE n = Whole(h) /\ Whole(h) <= 0
    <3>1. Whole(h) >= -Q
      <4>1. MinInt(Wide) = -Q
        BY DEF MinInt, Q
      <4> QED
        BY <1>2, <1>6, <2>1, <2>2, <2>6, <4>1 DEF Unguarded
    <3>2. Whole(h) <= 0
      BY <2>1, <2>2, <2>6
    <3>3. Q >= 2
      BY RangesNest DEF Q
    <3>4. Trunc(f) \in IntRange(Wide)
      <4>1. IntRange(Wide) = -Q .. Q - 1
        BY DEF IntRange, MinInt, MaxInt, Q
      <4> QED
        BY <1>2, <2>1, <2>2, <3>1, <3>2, <3>3, <4>1
    <3> QED
      BY <1>6, <2>1, <3>2, <3>4 DEF Int64
  <2>7. ASSUME ~Under(f, 0), ~Above(f, MaxUint(Wide)), ~Unguarded(c)
        PROVE  u = Whole(h)
    <3>1. MaxUint(Wide) = 2 * Q - 1
      BY RangesNest DEF MaxUint, Q
    <3>2. Whole(h) # 2 * Q
      <4>1. MaxUint(Wide) + 1 = 2 * Q
        BY <1>2, <3>1
      <4> QED
        BY <1>6, <2>1, <2>7, <4>1 DEF Unguarded
    <3>3. Whole(h) >= 0 /\ Whole(h) <= 2 * Q - 1
      BY <1>2, <2>1, <2>2, <2>7, <3>2
    <3>4. Trunc(f) \in UintRange(Wide)
      BY <1>2, <2>1, <2>2, <3>1, <3>3 DEF UintRange
    <3> QED
      BY <1>6, <2>1, <3>4 DEF Uint64
  <2>8. ~Under(f, 0) => Whole(h) >= 0
    BY <2>1, <2>2
  <2>9. Under(f, 0) /\ h % 2 = 0 => Whole(h) < 0
    BY <2>1, <2>2
  <2> HIDE DEF f, h, n, u
  <2>10. CASE ~IsWhole(f) /\ ~c.weak /\ Fail(c, "unconvertible")
    BY <1>1, <2>1, <2>3, <2>10, IntegerRefused
  <2>11. CASE Under(f, 0) /\ Wrap(c, n)
    <3>1. CASE c.weak /\ Set(c, mod(n))
      <4>1. ~Unguarded(c) => mod(n) = Wanted(c, h)
        <5> SUFFICES ASSUME ~Unguarded(c) PROVE mod(n) = Wanted(c, h)
          OBVIOUS
        <5>1. n = Whole(h) /\ Whole(h) <= 0
          BY <2>6, <2>11, <3>1
        <5>2. CASE Whole(h) < 0
          BY <1>1, <3>1, <5>1, <5>2
        <5>3. CASE Whole(h) = 0
          BY <1>1, <1>2, <5>1, <5>3
        <5> QED
          BY <2>2, <5>1, <5>2, <5>3
      <4>2. mod(n) \in range
        BY <1>2, <2>5, <2>11
      <4> QED
        BY <1>1, <2>1, <2>3, <3>1, <4>1, <4>2, IntegerTaken
    <3>2. CASE ~c.weak /\ Fail(c, "overflow")
      <4>1. h % 2 = 0 => Whole(h) < 0
        BY <2>1, <2>9, <2>11
      <4>2. h % 2 = 0 => Whole(h) \notin range
        BY <1>2, <2>2, <4>1
      <4> QED
        BY <1>1, <2>1, <2>3, <3>2, <4>2, IntegerRefused
    <3> QED
      BY <1>4, <2>11, <3>1, <3>2
  <2>12. CASE Above(f, MaxUint(Wide)) /\ Fail(c, "overflow")
    <3>1. Whole(h) >= 0 /\ Whole(h) >= 2 * Q
      BY <1>2, <2>1, <2>2, <2>12
    <3>2. ~(Whole(h) < 0) /\ Whole(h) \notin range
      BY <1>2, <2>2, <3>1
    <3> QED
      BY <1>1, <2>1, <2>3, <2>12, <3>2, IntegerRefused
  <2>13. CASE /\ IsWhole(f) \/ c.weak
              /\ ~Under(f, 0) /\ ~Above(f, MaxUint(Wide)) /\ SetUint(c, u)
    <3>1. ~(Whole(h) < 0)
      BY <2>2, <2>8, <2>13
    <3>2. CASE u \in range /\ Set(c, u)
      BY <1>1, <2>1, <2>3, <2>7, <2>13, <3>1, <3>2, IntegerTaken
    <3>3. CASE u \notin range /\ Fail(c, "overflow")
      BY <1>1, <2>1, <2>3, <2>7, <2>13, <3>1, <3>3, IntegerRefused
    <3> QED
      BY <1>3, <2>13, <3>2, <3>3
  <2> QED
    BY <2>4, <2>10, <2>11, <2>12, <2>13
<1>7. CASE c.src.t.kind = "float" /\ c.src.x.k # "fin"
  <2>1. Halves(c.src) = {} /\ c.src.t.kind \notin Texts
    BY <1>7 DEF Halves, Texts
  <2>2. \/ \E e : Fail(c, e)
        \/ SetUint(c, Uint64(c.src.x))
        \/ Under(c.src.x, 0) /\ Wrap(c, Int64(c.src.x))
    BY <1>7 DEF ToUint, From, Numeric, Texts, Forbidden
  <2>3. ASSUME Under(c.src.x, 0) PROVE Int64(c.src.x) \in Int
    <3>1. c.src.x.k = "-inf"
      BY <1>7, <2>3 DEF Under
    <3>2. Stray(c.src.x) = "low"
      BY <3>1 DEF Stray
    <3>3. build.int["low"] \in IntRange(Wide)
      BY ValuesAssumption
    <3>4. IntRange(Wide) \subseteq Int
      BY RangesNest, RangesAre
    <3> QED
      BY <1>7, <3>2, <3>3, <3>4 DEF Int64
  <2>4. (\E e : Fail(c, e)) \/ \E n \in range : Set(c, n)
    BY <1>2, <1>3, <1>4, <2>2, <2>3
  <2> QED
    BY <1>1, <2>1, <2>4, IntegerTaken, IntegerRefused
<1>8. CASE c.src.t.kind \in Texts /\ ~Forbidden(c)
  <2>1. LET x == Digits(c.src.x)
        IN  IF IsInt(x, range) THEN SetUint(c, x.h \div 2) ELSE Fail(c, "unconvertible")
    BY <1>8 DEF ToUint, From, Numeric, Texts, Forbidden, range
  <2>2. LET x == Digits(c.src.x)
        IN  IF IsInt(x, range) THEN (x.h \div 2) \in range /\ Set(c, x.h \div 2)
            ELSE Fail(c, "unconvertible")
    BY <1>3, <2>1 DEF IsInt
  <2> QED
    BY <1>1, <1>8, <2>2, TextToInteger
<1>9. CASE c.src.t.kind \notin Numeric /\ (c.src.t.kind \notin Texts \/ Forbidden(c))
  <2>1. Halves(c.src) = {}
    BY <1>9 DEF Halves, Numeric
  <2>2. ~(c.weak /\ c.src.t.kind \in Texts)
    BY <1>9 DEF Forbidden, From, Texts
  <2>3. (\E e : Fail(c, e)) \/ (c.src.t.kind = "bool" /\ SetUint(c, Bit(c.src.x)))
    BY <1>9 DEF ToUint, From, Numeric, Texts, Forbidden
  <2>4. (\E e : Fail(c, e)) \/ \E n \in range : Set(c, n)
    BY <1>3, <2>3
  <2> QED
    BY <1>1, <2>1, <2>2, <2>4, IntegerTaken, IntegerRefused
<1> QED
  BY <1>5, <1>6, <1>7, <1>8, <1>9 DEF Numeric

-----------------------------------------------------------------------------
(* Floats.                                                                 *)

\* What a float type is: the largest of its numbers, and all integers below.
LEMMA FloatTypes ==
  ASSUME NEW b \in DOMAIN Mantissa
  PROVE  /\ Mantissa[b] \in Nat \ {0} /\ Mantissa[Wide] \in Nat \ {0}
         /\ Mantissa[b] <= Mantissa[Wide]
         /\ MaxHalves[b] \in Nat /\ 2 ^ (Wide + 1) \in Nat
         /\ 2 ^ (Wide + 1) <= MaxHalves[b] /\ MaxHalves[b] <= MaxHalves[Wide]
         /\ MaxHalves[Wide] \in Nat
         /\ Fits(MaxHalves[b], Mantissa[b]) /\ Fits(-MaxHalves[b], Mantissa[b])
<1>1. /\ Mantissa[b] \in Nat \ {0} /\ Mantissa[b] <= Mantissa[Wide]
      /\ MaxHalves[b] \in 2 ^ (Wide + 1) .. MaxHalves[Wide]
      /\ Round(MaxHalves[b], Mantissa[b]) = MaxHalves[b]
      /\ Mantissa[Wide] \in Nat \ {0}
      /\ MaxHalves[Wide] \in 2 ^ (Wide + 1) .. MaxHalves[Wide]
  BY WidthsAssumption
<1>2. 2 ^ (Wide + 1) \in Nat
  BY RangesNest
<1>3. MaxHalves[b] \in Nat /\ MaxHalves[Wide] \in Nat
  BY <1>1, <1>2
<1>4. Fits(MaxHalves[b], Mantissa[b])
  BY <1>1, <1>3, FitsIsFixed
<1>5. Fits(-MaxHalves[b], Mantissa[b])
  <2>1. Abs(-MaxHalves[b]) = Abs(MaxHalves[b])
    BY <1>3 DEF Abs
  <2> QED
    BY <1>4, <2>1 DEF Fits
<1> QED
  BY <1>1, <1>2, <1>3, <1>4, <1>5

\* Whatever a float is made of, it is one of its type; it is an infinity only
\* beyond the largest.
LEMMA AsFloatFits ==
  ASSUME NEW h \in Int, NEW b \in DOMAIN Mantissa
  PROVE  /\ FloatFits(AsFloat(h, b), b)
         /\ Abs(h) <= MaxHalves[b] => AsFloat(h, b) = Fin(Round(h, Mantissa[b]))
<1> DEFINE r == Round(h, Mantissa[b])
           M == MaxHalves[b]
<1>1. /\ r \in Int /\ Fits(r, Mantissa[b]) /\ M \in Nat
      /\ M <= h => M <= r
      /\ M >= h => M >= r
      /\ -M <= h => -M <= r
  <2>1. /\ Mantissa[b] \in Nat \ {0} /\ M \in Nat /\ -M \in Int
        /\ Fits(M, Mantissa[b]) /\ Fits(-M, Mantissa[b])
    BY FloatTypes
  <2> HIDE DEF M
  <2>2. /\ r \in Int /\ Fits(r, Mantissa[b])
        /\ \A g \in Int : Fits(g, Mantissa[b]) => /\ g <= h => g <= r
                                                  /\ g >= h => g >= r
    BY <2>1, RoundFits
  <2> QED
    BY <2>1, <2>2
<1>2. Round(r, Mantissa[b]) = r
  BY <1>1, FloatTypes, FitsIsFixed
<1>3. AsFloat(h, b) = IF Abs(r) <= M THEN Fin(r) ELSE Not(IF r > 0 THEN "inf" ELSE "-inf")
  BY DEF AsFloat
<1>4. Fin(r).h = r
  BY DEF Fin
<1> HIDE DEF r, M
<1>5. Abs(h) <= M => Abs(r) <= M
  BY <1>1 DEF Abs
<1>6. FloatFits(AsFloat(h, b), b)
  <2>1. CASE Abs(r) <= M
    BY <1>1, <1>2, <1>3, <1>4, <2>1 DEF FloatFits, M
  <2>2. CASE ~(Abs(r) <= M)
    BY <1>3, <2>2 DEF FloatFits
  <2> QED
    BY <2>1, <2>2
<1> QED
  BY <1>3, <1>5, <1>6 DEF r, M

\* A narrowed float is one of its format.
LEMMA NarrowedFits ==
  ASSUME NEW f, NEW a, FloatFits(f, a), NEW b \in DOMAIN Mantissa
  PROVE  /\ FloatFits(Narrowed(f, b), b)
         /\ f.k = "fin" /\ Abs(f.h) <= MaxHalves[b] => Narrowed(f, b) = Fin(Round(f.h, Mantissa[b]))
<1>1. CASE f.k = "fin"
  <2>1. f.h \in Int /\ Narrowed(f, b) = AsFloat(f.h, b)
    BY <1>1 DEF FloatFits, Not, Narrowed
  <2> QED
    BY <2>1, AsFloatFits
<1>2. CASE f.k # "fin"
  BY <1>2 DEF FloatFits, Narrowed, Fin
<1> QED
  BY <1>1, <1>2

\* A float of the type stays what it is.
LEMMA NarrowedIs ==
  ASSUME NEW b \in DOMAIN Mantissa, NEW f, FloatFits(f, b)
  PROVE  ~OverflowFloat(f, b) /\ Narrowed(f, b) = f
<1>1. CASE f.k = "fin"
  <2>1. f = Fin(f.h) /\ Round(f.h, Mantissa[b]) = f.h /\ Abs(f.h) <= MaxHalves[b] /\ f.h \in Int
    BY <1>1 DEF FloatFits, Not
  <2>2. ~OverflowFloat(f, b)
    <3>1. Abs(f.h) \in Int /\ MaxHalves[b] \in Int
      BY <2>1, FloatTypes DEF Abs
    <3> QED
      BY <2>1, <3>1 DEF OverflowFloat
  <2>3. Narrowed(f, b) = Fin(f.h)
    BY <1>1, <2>1, NarrowedFits
  <2> QED
    BY <2>1, <2>2, <2>3
<1>2. CASE f.k # "fin"
  BY <1>2 DEF Narrowed, OverflowFloat
<1> QED
  BY <1>1, <1>2

\* An integer of 64 bits is within reach of every float type, and on its way
\* there stays on its side of every number of the type.
LEMMA IntegerAsFloat ==
  ASSUME NEW n \in Int, n >= -(2 ^ Wide), n <= 2 ^ Wide, NEW b \in DOMAIN Mantissa
  PROVE  LET f == AsFloat(2 * n, Wide)
         IN  /\ f.k = "fin" /\ f.h \in Int /\ FloatFits(f, Wide)
             /\ Abs(2 * n) <= MaxHalves[b] /\ Abs(f.h) <= MaxHalves[b]
             /\ \A g \in Int : Fits(g, Mantissa[b]) =>
                  /\ g <= 2 * n => g <= f.h
                  /\ g >= 2 * n => g >= f.h
<1> DEFINE h == 2 * n
           r == Round(h, Mantissa[Wide])
           P == 2 ^ (Wide + 1)
<1>0. Wide \in DOMAIN Mantissa
  BY WidthsAssumption
<1>1. P \in Nat /\ h >= -P /\ h <= P /\ h \in Int
  <2>1. P = 2 * 2 ^ Wide /\ 2 ^ Wide \in Nat /\ P \in Nat
    BY RangesNest
  <2> HIDE DEF P
  <2> QED
    BY <2>1
<1>2. Fits(P, Mantissa[Wide]) /\ Fits(-P, Mantissa[Wide])
  <2>1. Wide + 1 \in Nat /\ Mantissa[Wide] \in Nat
    BY <1>0, RangesNest, FloatTypes
  <2> QED
    BY <2>1, PowerFits
<1> HIDE DEF h, P
<1>3. /\ r \in Int /\ r >= -P /\ r <= P
      /\ \A g \in Int : Fits(g, Mantissa[Wide]) => /\ g <= h => g <= r
                                                   /\ g >= h => g >= r
  <2>1. Mantissa[Wide] \in Nat \ {0}
    BY <1>0, FloatTypes
  <2>2. /\ r \in Int
        /\ \A g \in Int : Fits(g, Mantissa[Wide]) => /\ g <= h => g <= r
                                                     /\ g >= h => g >= r
    BY <1>1, <2>1, RoundFits
  <2>3. -P \in Int /\ P \in Int /\ -P <= h /\ P >= h
    BY <1>1
  <2>4. -P <= r /\ P >= r
    BY <1>2, <2>2, <2>3
  <2> HIDE DEF r
  <2> QED
    BY <1>1, <2>2, <2>4
<1>4. ASSUME NEW c \in DOMAIN Mantissa PROVE Abs(h) <= MaxHalves[c] /\ Abs(r) <= MaxHalves[c]
  <2>1. P <= MaxHalves[c] /\ MaxHalves[c] \in Nat
    BY FloatTypes DEF P
  <2> HIDE DEF r
  <2> QED
    BY <1>1, <1>3, <2>1 DEF Abs
<1>5. AsFloat(h, Wide) = Fin(r) /\ FloatFits(AsFloat(h, Wide), Wide)
  BY <1>0, <1>1, <1>4, AsFloatFits
<1>6. Fin(r).k = "fin" /\ Fin(r).h = r
  BY DEF Fin
<1>7. ASSUME NEW g, Fits(g, Mantissa[b]) PROVE Fits(g, Mantissa[Wide])
  BY <1>7, FloatTypes, FitsMore
<1> HIDE DEF r
<1> QED
  BY <1>3, <1>4, <1>5, <1>6, <1>7 DEF h

\* The text of a float reads as that float.
LEMMA ShortestReads ==
  ASSUME NEW b \in DOMAIN Mantissa, NEW f, FloatFits(f, b), f.k = "fin"
  PROVE  ShortestDecimal(f, b) \in Int /\ AsFloat(ShortestDecimal(f, b), b) = f
<1> DEFINE tens  == {h \in -MaxHalves[b] .. MaxHalves[b] : h % 20 = 0 /\ AsFloat(h, b) = f}
           close == {h \in tens : \A g \in tens : Abs(h - f.h) <= Abs(g - f.h)}
<1>1. f = Fin(f.h) /\ Round(f.h, Mantissa[b]) = f.h /\ Abs(f.h) <= MaxHalves[b] /\ f.h \in Int
  BY DEF FloatFits, Not
<1>2. AsFloat(f.h, b) = f
  BY <1>1, AsFloatFits
<1>3. tens \subseteq Int /\ \A h \in tens : AsFloat(h, b) = f
  BY FloatTypes
<1>4. ShortestDecimal(f, b) =
        IF Abs(f.h) < 20 \/ tens = {} THEN f.h ELSE CHOOSE h \in close : TRUE
  BY DEF ShortestDecimal
<1>5. ASSUME tens # {} PROVE close # {}
  <2> DEFINE S == {Abs(h - f.h) : h \in tens}
  <2>1. S \subseteq Nat
    <3>1. \A h \in tens : h - f.h \in Int
      BY <1>1, <1>3
    <3>2. \A n \in Int : Abs(n) \in Nat
      BY DEF Abs
    <3> HIDE DEF tens
    <3> QED
      BY <3>1, <3>2
  <2>2. S # {}
    <3> HIDE DEF tens
    <3> QED
      BY <1>5
  <2>3. PICK k \in S : \A j \in S : k <= j
    <3> HIDE DEF S
    <3> QED
      BY <2>1, <2>2, LeastIs
  <2>4. PICK h \in tens : k = Abs(h - f.h)
    <3> HIDE DEF tens
    <3> QED
      BY <2>3
  <2>5. \A g \in tens : Abs(h - f.h) <= Abs(g - f.h)
    <3> HIDE DEF tens
    <3> QED
      BY <2>3, <2>4
  <2> HIDE DEF tens
  <2> QED
    BY <2>4, <2>5
<1>6. close \subseteq tens
  OBVIOUS
<1> HIDE DEF tens, close
<1>7. CASE Abs(f.h) < 20 \/ tens = {}
  BY <1>1, <1>2, <1>4, <1>7
<1>8. CASE ~(Abs(f.h) < 20 \/ tens = {})
  <2>1. ShortestDecimal(f, b) \in close
    BY <1>4, <1>5, <1>8
  <2> QED
    BY <1>3, <1>6, <2>1
<1> QED
  BY <1>7, <1>8

\* A float f on its way into a type: no number of the type is between it and
\* the number it was made of, nor is the largest.
Near(f, h, bits) ==
  /\ f.k = "fin" /\ f.h \in Int /\ h \in Int
  /\ Abs(h) <= MaxHalves[bits] <=> Abs(f.h) <= MaxHalves[bits]
  /\ \A g \in Int : Fits(g, Mantissa[bits]) => /\ g <= h => g <= f.h
                                               /\ g >= h => g >= f.h

\* A float type that is handed a float, and one that refuses what is no number.
LEMMA FloatHanded ==
  ASSUME NEW c, c.dt.kind = "float", IsValue(c.src), IsType(c.dt),
         NEW f, NEW a, FloatFits(f, a), SetFloat(c, f),
         \A h \in Halves(c.src) : Near(f, h, c.dt.bits),
         c.weak /\ c.src.t.kind \in Texts =>
           \A v : IsValue(v) /\ v.t = c.dt /\ c.src.x = TextOf(v) => f = v.x
  PROVE  Good(c)
<1> DEFINE b   == c.dt.bits
           m   == Mantissa[b]
           y   == Narrowed(f, b)
           out == [t |-> c.dt, x |-> y]
<1>1. b \in DOMAIN Mantissa
  BY DEF IsType
<1>2. /\ FloatFits(y, b) /\ m \in Nat \ {0}
      /\ f.k = "fin" /\ Abs(f.h) <= MaxHalves[b] => y = Fin(Round(f.h, m))
  BY <1>1, NarrowedFits, FloatTypes
<1>3. ASSUME c.weak, c.src.t.kind \in Texts, NEW v, IsValue(v), v.t = c.dt, c.src.x = TextOf(v)
      PROVE  ~OverflowFloat(f, b) /\ y = v.x /\ v = [t |-> c.dt, x |-> v.x]
  <2>1. f = v.x /\ FloatFits(v.x, b) /\ v = [t |-> c.dt, x |-> v.x]
    BY <1>3 DEF IsValue
  <2> QED
    BY <1>1, <2>1, NarrowedIs
<1>4. CASE OverflowFloat(f, b)
  <2> DEFINE r == Record(c, FALSE, "overflow")
  <2>1. r.src = c.src /\ r.dt = c.dt /\ r.weak = c.weak /\ r.ok = FALSE
    BY DEF Record
  <2>2. Answer(c, FALSE, "overflow")
    BY <1>4 DEF SetFloat, Fail
  <2> HIDE DEF r
  <2>3. Faithful(r)
    <3> SUFFICES ASSUME NEW h \in Halves(c.src) PROVE ~(Abs(h) <= MaxHalves[b])
      BY <2>1 DEF Faithful
    <3>1. /\ Abs(f.h) > MaxHalves[b] /\ Abs(f.h) \in Int /\ MaxHalves[b] \in Int
          /\ Abs(h) <= MaxHalves[b] <=> Abs(f.h) <= MaxHalves[b]
      BY <1>1, <1>4, FloatTypes DEF OverflowFloat, Near, Abs
    <3> QED
      BY <3>1
  <2>4. Typed(r) /\ ByMode(r) /\ Writes(r)
    BY <2>1 DEF Typed, ByMode, Writes
  <2>5. Reads(r)
    BY <1>3, <1>4, <2>1 DEF Reads
  <2> QED
    BY <2>2, <2>3, <2>4, <2>5 DEF Good, Sound, r
<1>5. CASE ~OverflowFloat(f, b)
  <2> DEFINE r == Record(c, TRUE, out)
  <2>1. /\ r.src = c.src /\ r.dt = c.dt /\ r.weak = c.weak /\ r.ok = TRUE /\ r.out = out
        /\ out.t = c.dt /\ out.x = y
    BY DEF Record
  <2>2. Answer(c, TRUE, out)
    BY <1>5 DEF SetFloat, Set
  <2>3. IsValue(out)
    BY <1>2, <2>1 DEF IsValue
  <2> HIDE DEF r, out
  <2>4. Faithful(r)
    <3> SUFFICES ASSUME NEW h \in Halves(c.src)
                 PROVE  /\ Abs(h) <= MaxHalves[b]
                        /\ y.k = "fin"
                        /\ \A g \in (h .. y.h - 1) \union (y.h + 1 .. h) : Round(g, m) # g
      BY <2>1 DEF Faithful
    <3>1. Near(f, h, b)
      OBVIOUS
    <3>2. Abs(h) <= MaxHalves[b] /\ Abs(f.h) <= MaxHalves[b]
      <4>1. Abs(f.h) \in Int /\ MaxHalves[b] \in Int
        BY <1>1, <3>1, FloatTypes DEF Near, Abs
      <4> QED
        BY <1>5, <3>1, <4>1 DEF OverflowFloat, Near
    <3>3. f.h \in Int /\ h \in Int /\ y = Fin(Round(f.h, m))
      BY <1>2, <3>1, <3>2 DEF Near
    <3>4. y.k = "fin" /\ y.h = Round(f.h, m)
      BY <3>3 DEF Fin
    <3>5. /\ y.h \in Int
          /\ \A g \in Int : Fits(g, m) => /\ g <= f.h => g <= y.h
                                          /\ g >= f.h => g >= y.h
      BY <1>2, <3>3, <3>4, RoundFits
    <3>6. \A g \in Int : Fits(g, m) => /\ g <= h => g <= f.h
                                       /\ g >= h => g >= f.h
      BY <3>1 DEF Near
    <3>7. ASSUME NEW g \in (h .. y.h - 1) \union (y.h + 1 .. h) PROVE Round(g, m) # g
      <4>1. g \in Int /\ ((g >= h /\ ~(g >= y.h)) \/ (g <= h /\ ~(g <= y.h)))
        BY <3>3, <3>5
      <4>2. ~Fits(g, m)
        BY <3>3, <3>5, <3>6, <4>1
      <4> QED
        BY <1>2, <4>1, <4>2, FitsIsFixed
    <3> QED
      BY <3>2, <3>4, <3>7
  <2>5. Typed(r) /\ ByMode(r) /\ Writes(r)
    BY <2>1, <2>3 DEF Typed, ByMode, Writes, Texts
  <2>6. Reads(r)
    BY <1>3, <2>1 DEF Reads, out
  <2> QED
    BY <2>2, <2>4, <2>5, <2>6 DEF Good, Sound, r
<1> QED
  BY <1>4, <1>5

\* Refusing to make a float is sound where there is no number.
LEMMA FloatRefused ==
  ASSUME NEW c, c.dt.kind = "float", IsValue(c.src), IsType(c.dt), NEW err, Fail(c, err),
         Halves(c.src) = {},
         c.weak /\ c.src.t.kind \in Texts =>
           \A v : ~(IsValue(v) /\ v.t = c.dt /\ c.src.x = TextOf(v))
  PROVE  Good(c)
<1> DEFINE r == Record(c, FALSE, err)
<1>1. r.src = c.src /\ r.dt = c.dt /\ r.weak = c.weak /\ r.ok = FALSE
  BY DEF Record
<1>2. Answer(c, FALSE, err)
  BY DEF Fail
<1> HIDE DEF r
<1>3. Typed(r) /\ ByMode(r) /\ Faithful(r) /\ Writes(r) /\ Reads(r)
  BY <1>1 DEF Typed, ByMode, Faithful, Writes, Reads
<1> QED
  BY <1>2, <1>3 DEF Good, Sound, r

\* What a text reads as is a float of the type, and the float it is written for.
LEMMA TextToFloat ==
  ASSUME NEW x, x.h \in Int, NEW b \in DOMAIN Mantissa
  PROVE  /\ IsFloat(x, b) => FloatFits(ParseFloat(x, b), b)
         /\ \A v : v.t.kind = "float" /\ FloatFits(v.x, b) /\ v.t.bits = b /\ x = TextOf(v)
              => IsFloat(x, b) /\ ParseFloat(x, b) = v.x
<1>1. Decimal(x) \in Int
  BY DEF Decimal
<1>2. FloatFits(AsFloat(Decimal(x), b), b)
  BY <1>1, AsFloatFits
<1>3. IsFloat(x, b) => FloatFits(ParseFloat(x, b), b)
  <2>1. CASE x.k \in {"num", "exp", "octal"}
    BY <1>2, <2>1 DEF ParseFloat
  <2>2. CASE x.k \in {"nan", "inf", "-inf"}
    BY <2>2 DEF ParseFloat, FloatFits
  <2> QED
    BY <2>1, <2>2 DEF IsFloat
<1>4. ASSUME NEW v, v.t.kind = "float", FloatFits(v.x, b), v.t.bits = b, x = TextOf(v)
      PROVE  IsFloat(x, b) /\ ParseFloat(x, b) = v.x
  <2>1. x = FormatFloat(v.x, b)
    BY <1>4 DEF TextOf, Stringify
  <2>2. CASE v.x.k = "fin"
    <3>1. x = Num(ShortestDecimal(v.x, b))
      BY <2>1, <2>2 DEF FormatFloat
    <3>2. x.k = "num" /\ x.h = ShortestDecimal(v.x, b)
      BY <3>1 DEF Num
    <3>3. ParseFloat(x, b) = AsFloat(x.h, b)
      BY <3>2 DEF ParseFloat, Decimal
    <3>4. ParseFloat(x, b) = v.x
      BY <1>4, <2>2, <3>2, <3>3, ShortestReads
    <3> QED
      BY <2>2, <3>2, <3>4 DEF IsFloat
  <2>3. CASE v.x.k # "fin"
    <3>1. v.x \in {Not("nan"), Not("inf"), Not("-inf")}
      BY <1>4, <2>3 DEF FloatFits, Fin
    <3>2. x = Text(v.x.k)
      BY <2>1, <2>3 DEF FormatFloat
    <3>3. x.k = v.x.k /\ v.x.k \in {"nan", "inf", "-inf"} /\ v.x = Not(x.k)
      BY <3>1, <3>2 DEF Text, Not
    <3> QED
      BY <3>3 DEF IsFloat, ParseFloat
  <2> QED
    BY <2>2, <2>3
<1> QED
  BY <1>3, <1>4

\* 0 and 1, where a Boolean is read, are of every float type.
LEMMA SmallFits ==
  ASSUME NEW b \in DOMAIN Mantissa
  PROVE  FloatFits(Fin(0), b) /\ FloatFits(Fin(2), b) /\ FloatFits(Fin(2 * 1), b) /\ FloatFits(Fin(2 * 0), b)
<1> DEFINE m == Mantissa[b]
<1>1. m \in Nat \ {0} /\ MaxHalves[b] \in Nat /\ MaxHalves[b] >= 2
  <2>1. 2 ^ (Wide + 1) >= 2 /\ 2 ^ (Wide + 1) \in Nat
    BY RangesNest
  <2> QED
    BY <2>1, FloatTypes
<1>2. 2 ^ 1 = 2
  <2>1. 2 ^ 0 = 1
    OBVIOUS
  <2>2. 2 ^ (0 + 1) = 2 * 2 ^ 0
    BY TwoExp
  <2> QED
    BY <2>1, <2>2
<1>3. Fits(0, m) /\ Fits(2, m)
  BY <1>1, <1>2, PowerFits
<1>4. Round(0, m) = 0 /\ Round(2, m) = 2
  BY <1>1, <1>3, FitsIsFixed
<1>5. Abs(0) = 0 /\ Abs(2) = 2
  BY DEF Abs
<1>6. ASSUME NEW n \in {0, 2} PROVE FloatFits(Fin(n), b)
  <2>1. Fin(n).h = n
    BY DEF Fin
  <2> QED
    BY <1>1, <1>4, <1>5, <2>1 DEF FloatFits
<1>7. 2 * 1 = 2 /\ 2 * 0 = 0
  OBVIOUS
<1> QED
  BY <1>6, <1>7

\* toFloat, by the kind of its source.
LEMMA ToFloatGood ==
  ASSUME NEW c, c.dt.kind = "float", IsValue(c.src), IsType(c.dt), ToFloat(c)
  PROVE  Good(c)
<1> DEFINE b == c.dt.bits
<1>1. b \in DOMAIN Mantissa
  BY DEF IsType
<1>2. CASE c.src.t.kind \in {"int", "uint"}
  <2> DEFINE n == c.src.x
             f == AsFloat(2 * n, Wide)
  <2>1. Halves(c.src) = {2 * n} /\ c.src.t.kind \notin Texts
    BY <1>2 DEF Halves, Texts
  <2>2. n \in Int /\ n >= -(2 ^ Wide) /\ n <= 2 ^ Wide
    <3> DEFINE Q == 2 ^ (Wide - 1)
    <3>1. Q \in Nat /\ 2 ^ Wide = 2 * Q
      BY RangesNest
    <3>2. n \in Int /\ n >= -Q /\ n < 2 * Q
      BY <1>2, <3>1, IntegerIs
    <3> HIDE DEF Q, n
    <3> QED
      BY <3>1, <3>2
  <2>3. SetFloat(c, f)
    BY <1>2 DEF ToFloat, From, Numeric, Texts, Forbidden
  <2> HIDE DEF n
  <2>4. FloatFits(f, Wide) /\ Near(f, 2 * n, b)
    <3>1. 2 * n \in Int
      BY <2>2
    <3> HIDE DEF f, b
    <3> QED
      BY <1>1, <2>2, <3>1, IntegerAsFloat DEF Near, f
  <2> HIDE DEF f
  <2> QED
    BY <2>1, <2>3, <2>4, FloatHanded
<1>3. CASE c.src.t.kind = "float"
  <2> DEFINE f == c.src.x
  <2>1. /\ SetFloat(c, f) /\ c.src.t.kind \notin Texts
        /\ FloatFits(f, c.src.t.bits)
        /\ Halves(c.src) = IF f.k = "fin" THEN {f.h} ELSE {}
    BY <1>3 DEF ToFloat, From, Numeric, Texts, Forbidden, IsValue, Halves
  <2>2. f.k = "fin" => f.h \in Int
    BY <2>1 DEF FloatFits, Not
  <2> HIDE DEF f
  <2>3. \A h \in Halves(c.src) : Near(f, h, b)
    BY <2>1, <2>2 DEF Near
  <2> QED
    BY <2>1, <2>3, FloatHanded
<1>4. CASE c.src.t.kind \in Texts /\ ~Forbidden(c)
  <2> DEFINE x == Digits(c.src.x)
  <2>1. Halves(c.src) = {}
    BY <1>4 DEF Halves, Texts
  <2>2. IF IsFloat(x, b) THEN SetFloat(c, ParseFloat(x, b)) ELSE Fail(c, "unconvertible")
    BY <1>4 DEF ToFloat, From, Numeric, Texts, Forbidden
  <2>3. x.h \in Int
    <3>1. c.src.x.h \in Int /\ Num(0).h \in Int
      BY <1>4 DEF IsValue, Texts, Num
    <3>2. x = Num(0) \/ x = c.src.x
      BY DEF Digits
    <3> HIDE DEF x
    <3> QED
      BY <3>1, <3>2
  <2>4. ASSUME NEW v, IsValue(v), v.t = c.dt, c.src.x = TextOf(v)
        PROVE  IsFloat(x, b) /\ ParseFloat(x, b) = v.x
    <3>1. v.t.kind = "float" /\ FloatFits(v.x, b) /\ v.t.bits = b
      BY <2>4 DEF IsValue
    <3>2. c.src.x.k # ""
      <4>1. c.src.x = FormatFloat(v.x, b)
        BY <2>4, <3>1 DEF TextOf, Stringify
      <4>2. CASE v.x.k = "fin"
        BY <4>1, <4>2 DEF FormatFloat, Num
      <4>3. CASE v.x.k # "fin"
        <5>1. c.src.x = Text(v.x.k)
          BY <4>1, <4>3 DEF FormatFloat
        <5>2. v.x.k \in {"nan", "inf", "-inf"}
          <6>1. v.x \in {Not("nan"), Not("inf"), Not("-inf")}
            BY <3>1, <4>3 DEF FloatFits, Fin
          <6> QED
            BY <6>1 DEF Not
        <5>3. c.src.x.k = v.x.k
          BY <5>1 DEF Text
        <5> QED
          BY <5>2, <5>3
      <4> QED
        BY <4>2, <4>3
    <3>3. x = c.src.x
      BY <3>2 DEF Digits
    <3> QED
      BY <1>1, <2>3, <2>4, <3>1, <3>3, TextToFloat
  <2>5. IsFloat(x, b) => FloatFits(ParseFloat(x, b), b)
    BY <1>1, <2>3, TextToFloat
  <2> HIDE DEF x, b
  <2>6. CASE IsFloat(x, b)
    <3>1. SetFloat(c, ParseFloat(x, b)) /\ FloatFits(ParseFloat(x, b), b)
      BY <2>2, <2>5, <2>6
    <3> QED
      BY <2>1, <2>4, <3>1, FloatHanded
  <2>7. CASE ~IsFloat(x, b)
    BY <2>1, <2>2, <2>4, <2>7, FloatRefused
  <2> QED
    BY <2>6, <2>7
<1>5. CASE c.src.t.kind \notin Numeric /\ (c.src.t.kind \notin Texts \/ Forbidden(c))
  <2>1. Halves(c.src) = {}
    BY <1>5 DEF Halves, Numeric
  <2>2. ~(c.weak /\ c.src.t.kind \in Texts)
    BY <1>5 DEF Forbidden, From, Texts
  <2>3. (\E e : Fail(c, e)) \/ SetFloat(c, Fin(2 * Bit(c.src.x)))
    BY <1>5 DEF ToFloat, From, Numeric, Texts, Forbidden
  <2>4. FloatFits(Fin(2 * Bit(c.src.x)), b)
    BY <1>1, SmallFits DEF Bit
  <2> QED
    BY <2>1, <2>2, <2>3, <2>4, FloatHanded, FloatRefused
<1> QED
  BY <1>2, <1>3, <1>4, <1>5 DEF Numeric

-----------------------------------------------------------------------------
(* Booleans, complex numbers and strings.                                  *)

\* A call that does not concern numbers: only its types, what it writes and
\* what it reads are to be shown.
LEMMA OtherTaken ==
  ASSUME NEW c, c.dt.kind \notin Numeric, IsValue(c.src), IsType(c.dt),
         NEW x, Set(c, x), IsValue([t |-> c.dt, x |-> x]),
         c.dt.kind \in Texts /\ c.src.t.kind \in Spoken /\ c.src.t.self = "" => x = TextOf(c.src),
         c.dt.kind = "bool" /\ c.weak /\ c.src.t.kind \in Texts =>
           \A v : IsValue(v) /\ v.t = c.dt /\ c.src.x = TextOf(v) => x = v.x
  PROVE  Good(c)
<1> DEFINE out == [t |-> c.dt, x |-> x]
           r   == Record(c, TRUE, out)
<1>1. /\ r.src = c.src /\ r.dt = c.dt /\ r.weak = c.weak /\ r.ok = TRUE /\ r.out = out
      /\ out.t = c.dt /\ out.x = x
  BY DEF Record
<1>2. Answer(c, TRUE, out)
  BY DEF Set
<1> HIDE DEF r
<1>3. Typed(r)
  BY <1>1 DEF Typed
<1>4. ByMode(r) /\ Faithful(r)
  BY <1>1 DEF ByMode, Faithful, Numeric
<1>5. Writes(r)
  BY <1>1 DEF Writes
<1>6. Reads(r)
  <2> SUFFICES ASSUME c.weak, c.src.t.kind \in Texts, NEW v, IsValue(v), v.t = c.dt,
                      v.t.kind \in Spoken, c.src.x = TextOf(v)
               PROVE  out = v
    BY <1>1 DEF Reads
  <2>1. c.dt.kind = "bool"
    BY DEF Spoken
  <2>2. v = [t |-> v.t, x |-> v.x] /\ x = v.x
    BY <2>1 DEF IsValue
  <2> QED
    BY <2>2
<1> QED
  BY <1>2, <1>3, <1>4, <1>5, <1>6 DEF Good, Sound, r

\* Refusing a destination other than a number is sound, unless it is the text of a boolean.
LEMMA OtherRefused ==
  ASSUME NEW c, c.dt.kind \notin Numeric, IsValue(c.src), IsType(c.dt),
         NEW err, Fail(c, err),
         c.dt.kind = "bool" /\ c.weak /\ c.src.t.kind \in Texts =>
           \A v : ~(IsValue(v) /\ v.t = c.dt /\ c.src.x = TextOf(v))
  PROVE  Good(c)
<1> DEFINE r == Record(c, FALSE, err)
<1>1. r.src = c.src /\ r.dt = c.dt /\ r.weak = c.weak /\ r.ok = FALSE
  BY DEF Record
<1>2. Answer(c, FALSE, err)
  BY DEF Fail
<1> HIDE DEF r
<1>3. Typed(r) /\ Writes(r)
  BY <1>1 DEF Typed, Writes
<1>4. ByMode(r) /\ Faithful(r)
  BY <1>1 DEF ByMode, Faithful, Numeric
<1>5. Reads(r)
  BY <1>1 DEF Reads, Spoken
<1> QED
  BY <1>2, <1>3, <1>4, <1>5 DEF Good, Sound, r

\* toBool, by the kind of its source.
LEMMA ToBoolGood ==
  ASSUME NEW c, c.dt.kind = "bool", IsValue(c.src), IsType(c.dt), ToBool(c)
  PROVE  Good(c)
<1>1. c.dt.kind \notin Numeric /\ c.dt.kind \notin Texts
  BY DEF Numeric, Texts
<1>2. ASSUME NEW x \in BOOLEAN PROVE IsValue([t |-> c.dt, x |-> x])
  <2> DEFINE w == [t |-> c.dt, x |-> x]
  <2>1. w = [t |-> w.t, x |-> w.x] /\ w.t = c.dt /\ w.x = x
    OBVIOUS
  <2> HIDE DEF w
  <2>2. IsValue(w)
    BY <2>1 DEF IsValue
  <2> QED
    BY <2>2 DEF w
<1>3. CASE c.src.t.kind \in Texts /\ c.weak
  <2> DEFINE s == c.src.x
  <2>1. (CASE s.k = ""  -> Set(c, FALSE)
          [] IsBool(s)  -> Set(c, IsTrue(s))
          [] OTHER      -> Fail(c, "unconvertible"))
    BY <1>3 DEF ToBool, From, Texts, Numeric
  <2>2. ASSUME NEW v, IsValue(v), v.t = c.dt, s = TextOf(v)
        PROVE  s.k # "" /\ IsBool(s) /\ v.x = IsTrue(s)
    <3>1. v.x \in BOOLEAN /\ s = Text(IF v.x THEN "true" ELSE "false")
      BY <2>2 DEF IsValue, TextOf, Stringify
    <3>2. CASE v.x = TRUE
      <4>1. s.k = "true"
        BY <3>1, <3>2 DEF Text
      <4> QED
        BY <3>2, <4>1 DEF IsBool, IsTrue
    <3>3. CASE v.x = FALSE
      <4>1. s.k = "false" /\ s.h = 0
        BY <3>1, <3>3 DEF Text
      <4>2. s.k # "" /\ IsBool(s) /\ IsTrue(s) = FALSE
        BY <4>1 DEF IsBool, IsTrue
      <4> QED
        BY <3>3, <4>2
    <3> QED
      BY <3>1, <3>2, <3>3
  <2>3. IsTrue(s) \in BOOLEAN
    BY DEF IsTrue
  <2> HIDE DEF s
  <2>4. ASSUME NEW x \in BOOLEAN, Set(c, x),
               \A v : IsValue(v) /\ v.t = c.dt /\ s = TextOf(v) => x = v.x
        PROVE  Good(c)
    BY <1>1, <1>2, <2>4, OtherTaken DEF s
  <2>5. ASSUME Fail(c, "unconvertible"),
               \A v : ~(IsValue(v) /\ v.t = c.dt /\ s = TextOf(v))
        PROVE  Good(c)
    BY <1>1, <2>5, OtherRefused DEF s
  <2>6. CASE s.k = ""
    <3>1. Set(c, FALSE) \/ (IsBool(s) /\ Set(c, IsTrue(s)))
      BY <2>1, <2>6
    <3> QED
      BY <2>2, <2>3, <2>4, <2>6, <3>1
  <2>7. CASE s.k # "" /\ IsBool(s)
    <3>1. Set(c, IsTrue(s))
      BY <2>1, <2>7
    <3> QED
      BY <2>2, <2>3, <2>4, <3>1
  <2>8. CASE s.k # "" /\ ~IsBool(s)
    <3>1. Fail(c, "unconvertible")
      BY <2>1, <2>8
    <3> QED
      BY <2>2, <2>5, <2>8, <3>1
  <2> QED
    BY <2>6, <2>7, <2>8
<1>4. CASE ~(c.src.t.kind \in Texts /\ c.weak)
  <2>1. c.src.t.kind = "bool" => c.src.x \in BOOLEAN
    BY DEF IsValue
  <2>2. (\E e : Fail(c, e)) \/ \E x \in BOOLEAN : Set(c, x)
    BY <1>4, <2>1 DEF ToBool, From, Texts, Numeric
  <2> QED
    BY <1>1, <1>2, <1>4, <2>2, OtherTaken, OtherRefused
<1> QED
  BY <1>3, <1>4

\* toComplex, by the kind of its source.
LEMMA ToComplexGood ==
  ASSUME NEW c, c.dt.kind = "complex", IsValue(c.src), IsType(c.dt), ToComplex(c)
  PROVE  Good(c)
<1> DEFINE b == c.dt.bits
<1>1. c.dt.kind \notin Numeric /\ c.dt.kind \notin Texts /\ c.dt.kind # "bool"
  BY DEF Numeric, Texts
<1>2. b \in DOMAIN Mantissa /\ Wide \in DOMAIN Mantissa
  BY WidthsAssumption DEF IsType
<1>3. ASSUME NEW x, FloatFits(x.re, b), FloatFits(x.im, b), Set(c, x) PROVE Good(c)
  <2> DEFINE w == [t |-> c.dt, x |-> x]
  <2>1. w = [t |-> w.t, x |-> w.x] /\ w.t = c.dt /\ w.x = x
    OBVIOUS
  <2> HIDE DEF w
  <2>2. IsValue(w)
    BY <1>3, <2>1 DEF IsValue
  <2> QED
    BY <1>1, <1>3, <2>2, OtherTaken DEF w
<1>4. ASSUME NEW e, Fail(c, e) PROVE Good(c)
  BY <1>1, <1>4, OtherRefused
<1>5. ASSUME NEW f, NEW g, NEW a, FloatFits(f, a), FloatFits(g, a),
             Set(c, [re |-> Narrowed(f, b), im |-> Narrowed(g, b)])
      PROVE  Good(c)
  <2> DEFINE x == [re |-> Narrowed(f, b), im |-> Narrowed(g, b)]
  <2>1. x.re = Narrowed(f, b) /\ x.im = Narrowed(g, b) /\ Set(c, x)
    BY <1>5
  <2> HIDE DEF x
  <2>2. FloatFits(x.re, b) /\ FloatFits(x.im, b)
    BY <1>2, <1>5, <2>1, NarrowedFits
  <2> QED
    BY <1>3, <2>1, <2>2
<1>6. ASSUME NEW f, NEW a, FloatFits(f, a), Real(c, f) PROVE Good(c)
  <2> DEFINE x == [re |-> Narrowed(f, b), im |-> Fin(0)]
  <2>1. x.re = Narrowed(f, b) /\ x.im = Fin(0) /\ Set(c, x)
    BY <1>6 DEF Real
  <2> HIDE DEF x
  <2>2. FloatFits(x.re, b) /\ FloatFits(x.im, b)
    BY <1>2, <1>6, <2>1, NarrowedFits, SmallFits
  <2> QED
    BY <1>3, <2>1, <2>2
<1>7. CASE c.src.t.kind = "complex"
  <2>1. FloatFits(c.src.x.re, c.src.t.bits) /\ FloatFits(c.src.x.im, c.src.t.bits)
    BY <1>7 DEF IsValue
  <2>2. \/ Fail(c, "overflow")
        \/ Set(c, [re |-> Narrowed(c.src.x.re, b), im |-> Narrowed(c.src.x.im, b)])
    BY <1>7 DEF ToComplex, From, Numeric
  <2> QED
    BY <1>4, <1>5, <2>1, <2>2
<1>8. CASE c.src.t.kind \in {"int", "uint"}
  <2>1. Real(c, AsFloat(2 * c.src.x, Wide))
    BY <1>8 DEF ToComplex, From, Numeric
  <2>2. 2 * c.src.x \in Int
    BY <1>8, IntegerIs
  <2> QED
    BY <1>2, <1>6, <2>1, <2>2, AsFloatFits
<1>9. CASE c.src.t.kind = "float"
  <2>1. Real(c, c.src.x) /\ FloatFits(c.src.x, c.src.t.bits)
    BY <1>9 DEF ToComplex, From, Numeric, IsValue
  <2> QED
    BY <1>6, <2>1
<1>10. CASE c.src.t.kind \notin {"complex"} \union Numeric
  <2>1. Fail(c, "unconvertible")
    BY <1>10 DEF ToComplex, From, Numeric
  <2> QED
    BY <1>4, <2>1
<1> QED
  BY <1>7, <1>8, <1>9, <1>10 DEF Numeric

\* Whatever is written is a text.
LEMMA WrittenIsText ==
  ASSUME NEW v, IsValue(v), v.t.kind \in {"bool", "bytes"} \union Numeric
  PROVE  LET x == TextOf(v) IN x = [k |-> x.k, h |-> x.h] /\ x.h \in Int
<1>1. ASSUME NEW k PROVE Text(k) = [k |-> Text(k).k, h |-> Text(k).h] /\ Text(k).h \in Int
  BY DEF Text
<1>2. ASSUME NEW h \in Int PROVE Num(h) = [k |-> Num(h).k, h |-> Num(h).h] /\ Num(h).h \in Int
  BY DEF Num
<1>3. CASE v.t.kind = "bool"
  <2>1. TextOf(v) = Text(IF v.x THEN "true" ELSE "false")
    BY <1>3 DEF TextOf, Stringify
  <2> QED
    BY <1>1, <2>1
<1>4. CASE v.t.kind = "float"
  <2>1. TextOf(v) = FormatFloat(v.x, v.t.bits) /\ FloatFits(v.x, v.t.bits) /\ v.t.bits \in DOMAIN Mantissa
    BY <1>4 DEF TextOf, Stringify, IsValue, IsType
  <2>2. CASE v.x.k = "fin"
    <3>1. ShortestDecimal(v.x, v.t.bits) \in Int
      BY <2>1, <2>2, ShortestReads
    <3>2. TextOf(v) = Num(ShortestDecimal(v.x, v.t.bits))
      BY <2>1, <2>2 DEF FormatFloat
    <3> QED
      BY <1>2, <3>1, <3>2
  <2>3. CASE v.x.k # "fin"
    <3>1. TextOf(v) = Text(v.x.k)
      BY <2>1, <2>3 DEF FormatFloat
    <3> QED
      BY <1>1, <3>1
  <2> QED
    BY <2>2, <2>3
<1>5. CASE v.t.kind = "bytes"
  <2>1. TextOf(v) = v.x
    BY <1>5 DEF TextOf, Stringify
  <2> QED
    BY <1>5, <2>1 DEF IsValue
<1>6. CASE v.t.kind \in {"int", "uint"}
  <2>1. 2 * v.x \in Int
    BY <1>6, IntegerIs
  <2>2. TextOf(v) = Num(2 * v.x)
    BY <1>6, IntegerText
  <2> QED
    BY <1>2, <2>1, <2>2
<1> QED
  BY <1>3, <1>4, <1>5, <1>6 DEF Numeric

\* toString, by the kind of its source.
LEMMA ToStringGood ==
  ASSUME NEW c, c.dt.kind \in Texts, IsValue(c.src), IsType(c.dt), ToString(c)
  PROVE  Good(c)
<1>1. c.dt.kind \notin Numeric /\ c.dt.kind # "bool"
  BY DEF Numeric, Texts
<1>2. ASSUME NEW x, x = [k |-> x.k, h |-> x.h], x.h \in Int, Set(c, x),
             c.src.t.kind \in Spoken /\ c.src.t.self = "" => x = TextOf(c.src)
      PROVE  Good(c)
  <2> DEFINE w == [t |-> c.dt, x |-> x]
  <2>1. w = [t |-> w.t, x |-> w.x] /\ w.t = c.dt /\ w.x = x
    OBVIOUS
  <2> HIDE DEF w
  <2>2. IsValue(w)
    BY <1>2, <2>1 DEF IsValue, Texts
  <2> QED
    BY <1>1, <1>2, <2>2, OtherTaken DEF w
<1>3. ASSUME NEW e, Fail(c, e) PROVE Good(c)
  BY <1>1, <1>3, OtherRefused
<1>4. CASE c.src.t.kind \in Texts
  <2>1. Set(c, c.src.x)
    BY <1>4 DEF ToString, From
  <2>2. c.src.x = [k |-> c.src.x.k, h |-> c.src.x.h] /\ c.src.x.h \in Int
    BY <1>4 DEF IsValue, Texts
  <2>3. c.src.t.kind \notin Spoken
    BY <1>4 DEF Spoken, Numeric, Texts
  <2> QED
    BY <1>2, <2>1, <2>2, <2>3
<1>5. CASE c.src.t.kind \notin Texts /\ Renders(c)
  <2>1. Fail(c, "self") \/ Set(c, Text("word"))
    BY <1>5 DEF ToString, From
  <2>2. Text("word") = [k |-> Text("word").k, h |-> Text("word").h] /\ Text("word").h \in Int
    BY DEF Text
  <2>3. c.src.t.self # ""
    BY <1>5 DEF Renders
  <2> QED
    BY <1>2, <1>3, <2>1, <2>2, <2>3
<1>6. CASE c.src.t.kind \notin Texts /\ ~Renders(c)
  <2>1. \/ \E e : Fail(c, e)
        \/ c.src.t.kind \in {"bool", "bytes"} \union Numeric /\ Set(c, Stringify(c))
    BY <1>6 DEF ToString, From
  <2>2. Stringify(c) = TextOf(c.src)
    BY DEF Stringify, TextOf
  <2> QED
    BY <1>2, <1>3, <2>1, <2>2, WrittenIsText
<1> QED
  BY <1>4, <1>5, <1>6

-----------------------------------------------------------------------------
(* Histories: each call is given a value, an input or a result.            *)

CallsInv == build \in Builds /\ \E S : calls \in Seq(S) /\ \A r \in S : Sound(r)

\* Every handler answers a call it is given soundly.
LEMMA NextGood ==
  ASSUME CallsInv, Next
  PROVE  \E c : Good(c)
<1>1. PICK S : calls \in Seq(S) /\ \A r \in S : Sound(r)
  BY DEF CallsInv
<1>2. ASSUME NEW src \in Sources PROVE IsValue(src)
  <2>1. CASE calls = << >>
    BY <1>2, <2>1, ValuesAssumption DEF Sources
  <2>2. CASE calls # << >>
    <3>1. Len(calls) \in DOMAIN calls /\ 1 \in DOMAIN calls
      BY <1>1, <2>2
    <3>2. calls[1] \in S /\ calls[Len(calls)] \in S
      BY <1>1, <3>1
    <3>3. Typed(calls[1]) /\ Typed(calls[Len(calls)])
      BY <1>1, <3>2 DEF Sound
    <3>4. src = calls[1].src \/ (calls[Len(calls)].ok /\ src = calls[Len(calls)].out)
      BY <1>2, <2>2 DEF Sources
    <3> QED
      BY <3>3, <3>4 DEF Typed
  <2> QED
    BY <2>1, <2>2
<1>3. ASSUME NEW kind, NEW c \in Calls(kind)
      PROVE  c.dt.kind = kind /\ IsValue(c.src) /\ IsType(c.dt)
  <2>1. c.src \in Sources /\ c.dt \in ScalarTypes /\ c.dt.kind = kind
    BY <1>3 DEF Calls
  <2> QED
    BY <1>2, <2>1, ValuesAssumption
<1>4. CASE \E c \in Calls("bool") : ToBool(c)
  BY <1>3, <1>4, ToBoolGood
<1>5. CASE \E c \in Calls("int") : ToInt(c)
  BY <1>3, <1>5, ToIntGood
<1>6. CASE \E c \in Calls("uint") : ToUint(c)
  BY <1>3, <1>6, ToUintGood DEF CallsInv
<1>7. CASE \E c \in Calls("float") : ToFloat(c)
  BY <1>3, <1>7, ToFloatGood
<1>8. CASE \E c \in Calls("complex") : ToComplex(c)
  BY <1>3, <1>8, ToComplexGood
<1>9. CASE \E c \in Calls("string") \union Calls("number") : ToString(c)
  BY <1>3, <1>9, ToStringGood DEF Texts
<1> QED
  BY <1>4, <1>5, <1>6, <1>7, <1>8, <1>9 DEF Next

\* Each step adds one such call.
LEMMA CallsStep == CallsInv /\ [Next]_vars => CallsInv'
<1> SUFFICES ASSUME CallsInv, [Next]_vars PROVE CallsInv'
  OBVIOUS
<1>1. PICK S : calls \in Seq(S) /\ \A r \in S : Sound(r)
  BY DEF CallsInv
<1>2. CASE UNCHANGED vars
  <2>1. calls' \in Seq(S) /\ build' \in Builds
    BY <1>1, <1>2 DEF CallsInv, vars
  <2> QED
    BY <1>1, <2>1 DEF CallsInv
<1>3. CASE Next
  <2>1. PICK c, ok, out : Answer(c, ok, out) /\ Sound(Record(c, ok, out))
    BY <1>3, NextGood DEF Good
  <2> DEFINE r == Record(c, ok, out)
  <2>2. calls' = Append(calls, r) /\ build' = build /\ Sound(r)
    BY <2>1 DEF Answer, Record
  <2> HIDE DEF r
  <2>3. calls' \in Seq(S \union {r}) /\ build' \in Builds
    BY <1>1, <2>2 DEF CallsInv
  <2> QED
    BY <1>1, <2>2, <2>3 DEF CallsInv
<1> QED
  BY <1>2, <1>3

\* A history starts empty.
LEMMA CallsInit == Init => CallsInv
<1>1. << >> \in Seq({})
  OBVIOUS
<1> QED
  BY <1>1 DEF Init, CallsInv

\* The calls the promises look at are calls of the history.
LEMMA LastIsSound ==
  ASSUME CallsInv
  PROVE  \A n \in DOMAIN calls : Sound(calls[n])
BY DEF CallsInv

\* toInt and toUint (cast.go:71, cast.go:150) against what the documentation
\* says of strict and weak typing, for integer types of every width, however
\* the build treats a float out of range, and for every number the calls before
\* have made: it arrives whole, cut or wrapped as the mode says, or is refused.
THEOREM IntegersFollowTheMode == Spec => []IntegersByMode
<1>1. CallsInv => IntegersByMode
  BY LastIsSound DEF IntegersByMode, Last, Sound
<1> QED
  BY <1>1, CallsInit, CallsStep, PTL DEF Spec

\* toFloat (cast.go:257): a number arrives as one of the two floats around it,
\* for every pair of significands, though it is rounded twice on its way.
THEOREM FloatsAreFaithful == Spec => []FloatsFaithful
<1>1. CallsInv => FloatsFaithful
  BY LastIsSound DEF FloatsFaithful, Last, Sound
<1> QED
  BY <1>1, CallsInit, CallsStep, PTL DEF Spec

\* What weak typing writes as a text (toString, cast.go:336), weak typing reads
\* back, for every scalar of every width.
THEOREM TextsReadBack == Spec => []RoundTrip
<1>1. CallsInv => RoundTrip
  <2> SUFFICES ASSUME CallsInv, NEW n \in DOMAIN calls, n + 1 \in DOMAIN calls,
                      calls[n].weak, calls[n].ok, calls[n].dt.kind \in Texts,
                      calls[n].src.t.kind \in Spoken, calls[n].src.t.self = "",
                      calls[n + 1].weak, calls[n + 1].src = calls[n].out,
                      calls[n + 1].dt = calls[n].src.t
               PROVE  calls[n + 1].ok /\ calls[n + 1].out = calls[n].src
    BY DEF RoundTrip, Spoken
  <2>1. Sound(calls[n]) /\ Sound(calls[n + 1])
    BY LastIsSound
  <2>2. /\ IsValue(calls[n].src)
        /\ calls[n].out.x = TextOf(calls[n].src) /\ calls[n].out.t.kind \in Texts
    BY <2>1 DEF Sound, Typed, Writes
  <2> QED
    BY <2>1, <2>2 DEF Sound, Reads
<1> QED
  BY <1>1, CallsInit, CallsStep, PTL DEF Spec

=============================================================================
