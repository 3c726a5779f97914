---------------------------- MODULE LayoutProofs ----------------------------
(***************************************************************************)
(* The arithmetic of Layout for all numbers: what align_address_safe       *)
(* returns, that the recursion of gcd() is well defined and computes a     *)
(* greatest common divisor, that lcm() is the least common multiple.       *)
(* Induction is by least counterexamples, which are elements of sets.      *)
(***************************************************************************)
EXTENDS Layout, FiniteSetTheorems, WellFoundedInduction, TLAPS

Pos == Nat \ {0}

\* Every set of naturals has a least element.
LEMMA Least ==
  ASSUME NEW A \in SUBSET Nat, A # {}
  PROVE  \E m \in A : \A n \in A : m <= n
<1> DEFINE Below(n) == 0..n
           T == {Below(n) : n \in A}
<1>1. IsWellFoundedOn(StrictSubsetOrdering(Nat), FiniteSubsetsOf(Nat))
  BY FS_StrictSubsetOrderingWellFounded
<1>2. T \subseteq FiniteSubsetsOf(Nat) /\ T # {}
  <2>1. ASSUME NEW n \in A
        PROVE  Below(n) \in SUBSET Nat /\ IsFiniteSet(Below(n))
    BY FS_Interval
  <2> QED
    BY <2>1 DEF FiniteSubsetsOf
<1>3. PICK x \in T : \A y \in T : ~(<<y, x>> \in StrictSubsetOrdering(Nat))
  BY <1>1, <1>2, WFMin, Zenon
<1>4. PICK m \in A : x = Below(m)
  OBVIOUS
<1>5. ASSUME NEW n \in A, n < m
      PROVE  FALSE
  <2>1. Below(n) \in T
    OBVIOUS
  <2>2. Below(n) \subseteq Below(m) /\ m \in Below(m) /\ m \notin Below(n)
    BY <1>5
  <2>3. Below(n) \in SUBSET Nat /\ Below(m) \in SUBSET Nat
    OBVIOUS
  <2>4. <<Below(n), Below(m)>> \in StrictSubsetOrdering(Nat)
    BY <2>2, <2>3 DEF StrictSubsetOrdering
  <2> QED
    BY <1>3, <1>4, <2>1, <2>4
<1> QED
  BY <1>5

----------------------------------------------------------------------------
(* Multiples                                                               *)

\* d divides m.
Divides(d, m) == \E k \in Nat : m = d * k

\* What dividing leaves.
LEMMA Division ==
  ASSUME NEW a \in Nat, NEW n \in Pos
  PROVE  /\ a \div n \in Nat /\ a % n \in Nat /\ a % n < n
         /\ a = (n * (a \div n)) + (a % n)
  BY DEF Pos

\* Only one number of times a number is less than n away from a.
LEMMA Quotient ==
  ASSUME NEW n \in Pos, NEW j \in Nat, NEW k \in Nat, n * j < n * k + n
  PROVE  j <= k
<1> SUFFICES ASSUME k + 1 <= j
             PROVE  FALSE
  OBVIOUS
<1>1. n * (k + 1) <= n * j
  BY DEF Pos
<1> QED
  BY <1>1 DEF Pos

\* The remainder is 0 for the multiples.
LEMMA Remainder0 ==
  ASSUME NEW a \in Nat, NEW n \in Pos
  PROVE  (a % n = 0) <=> Divides(n, a)
<1>1. ASSUME a % n = 0
      PROVE  Divides(n, a)
  <2>1. a \div n \in Nat /\ a = n * (a \div n) + 0
    BY <1>1, Division
  <2>2. n * (a \div n) \in Nat
    BY <2>1 DEF Pos
  <2>3. a = n * (a \div n)
    BY <2>1, <2>2
  <2> QED
    BY <2>1, <2>3 DEF Divides
<1>2. ASSUME NEW k \in Nat, a = n * k
      PROVE  a % n = 0
  <2> DEFINE q == a \div n  r == a % n
  <2>1. q \in Nat /\ r \in Nat /\ r < n /\ n * k = n * q + r
    BY <1>2, Division
  <2> HIDE DEF q, r
  <2>2. n * k < n * q + n /\ n * q < n * k + n
    BY <2>1 DEF Pos
  <2>3. k = q
    BY <2>1, <2>2, Quotient
  <2>4. r = 0
    BY <2>1, <2>3 DEF Pos
  <2> QED
    BY <2>4 DEF r
<1> QED
  BY <1>1, <1>2 DEF Divides

\* align_address_safe: the result is the lowest multiple from the address on.
LEMMA AlignedIsLowest ==
  ASSUME NEW a \in Nat, NEW n \in Pos
  PROVE  /\ Aligned(a, n) \in Nat /\ a <= Aligned(a, n) /\ Aligned(a, n) < a + n
         /\ Divides(n, Aligned(a, n))
         /\ \A m \in Nat : a <= m /\ Divides(n, m) => Aligned(a, n) <= m
<1> DEFINE q == a \div n  r == a % n
<1>1. q \in Nat /\ r \in Nat /\ r < n /\ a = n * q + r
  BY Division
<1> HIDE DEF q, r
<1>2. n * q \in Nat /\ n * (q + 1) = n * q + n
  BY <1>1 DEF Pos
<1>3. CASE r = 0
  <2>1. Aligned(a, n) = a
    BY <1>3 DEF Aligned, r
  <2>2. a = n * q
    BY <1>1, <1>2, <1>3
  <2> QED
    BY <1>1, <2>1, <2>2 DEF Divides, Pos
<1>4. CASE r # 0
  <2>1. Aligned(a, n) = a + (n - r)
    BY <1>4 DEF Aligned, r
  <2>2. Aligned(a, n) = n * (q + 1)
    BY <1>1, <1>2, <2>1 DEF Pos
  <2>3. ASSUME NEW m \in Nat, a <= m, NEW k \in Nat, m = n * k
        PROVE  n * (q + 1) <= m
    <3>1. n * q < n * k
      BY <1>1, <1>2, <1>4, <2>3
    <3>2. q < k
      <4> SUFFICES ASSUME k <= q
                   PROVE  FALSE
        BY <1>1
      <4>1. n * k <= n * q
        BY <1>1 DEF Pos
      <4> QED
        BY <3>1, <4>1, <1>2, <2>3
    <3>3. n * (q + 1) <= n * k
      BY <3>2, <1>1 DEF Pos
    <3> QED
      BY <3>3, <2>3
  <2>4. Aligned(a, n) \in Nat /\ a <= Aligned(a, n) /\ Aligned(a, n) < a + n
    BY <1>1, <1>4, <2>1 DEF Pos
  <2>5. Divides(n, Aligned(a, n))
    BY <1>1, <2>2 DEF Divides
  <2>6. ASSUME NEW m \in Nat, a <= m, Divides(n, m)
        PROVE  Aligned(a, n) <= m
    BY <2>2, <2>3, <2>6 DEF Divides
  <2> QED
    BY <2>4, <2>5, <2>6
<1> QED
  BY <1>3, <1>4

----------------------------------------------------------------------------
(* Greatest common divisors                                                *)

IsGcd(g, a, b) ==
  /\ Divides(g, a) /\ Divides(g, b)
  /\ \A d \in Nat : Divides(d, a) /\ Divides(d, b) => Divides(d, g)

LEMMA DividesSum ==
  ASSUME NEW d \in Nat, NEW a \in Nat, NEW b \in Nat, Divides(d, a), Divides(d, b)
  PROVE  Divides(d, a + b)
<1>1. PICK j \in Nat : a = d * j
  BY DEF Divides
<1>2. PICK k \in Nat : b = d * k
  BY DEF Divides
<1>3. a + b = d * (j + k) /\ j + k \in Nat
  BY <1>1, <1>2
<1> QED
  BY <1>3 DEF Divides

LEMMA DividesProduct ==
  ASSUME NEW d \in Nat, NEW a \in Nat, NEW q \in Nat, Divides(d, a)
  PROVE  Divides(d, a * q)
<1>1. PICK j \in Nat : a = d * j
  BY DEF Divides
<1>2. a * q = d * (j * q) /\ j * q \in Nat
  BY <1>1
<1> QED
  BY <1>2 DEF Divides

LEMMA DividesDifference ==
  ASSUME NEW d \in Nat, NEW a \in Nat, NEW b \in Nat, a <= b, Divides(d, a), Divides(d, b)
  PROVE  Divides(d, b - a)
<1>1. PICK j \in Nat : a = d * j
  BY DEF Divides
<1>2. PICK k \in Nat : b = d * k
  BY DEF Divides
<1>3. CASE j <= k
  <2>1. b - a = d * (k - j) /\ k - j \in Nat
    BY <1>1, <1>2, <1>3
  <2> QED
    BY <2>1 DEF Divides
<1>4. CASE k < j
  <2>1. d * k <= d * j
    BY <1>4
  <2>2. b - a = d * 0
    BY <1>1, <1>2, <2>1
  <2> QED
    BY <2>2 DEF Divides
<1> QED
  BY <1>3, <1>4

\* Two numbers that divide each other are the same.
LEMMA DividesBoth ==
  ASSUME NEW a \in Nat, NEW b \in Nat, Divides(a, b), Divides(b, a)
  PROVE  a = b
<1>1. PICK j \in Nat : b = a * j
  BY DEF Divides
<1>2. PICK k \in Nat : a = b * k
  BY DEF Divides
<1>3. CASE a = 0
  BY <1>1, <1>3
<1>4. CASE a # 0
  <2>1. b # 0 /\ j # 0 /\ k # 0
    BY <1>1, <1>2, <1>4
  <2>2. a <= a * j /\ b <= b * k
    BY <2>1
  <2> QED
    BY <1>1, <1>2, <2>2
<1> QED
  BY <1>3, <1>4

LEMMA GcdUnique ==
  ASSUME NEW a \in Nat, NEW b \in Nat, NEW g \in Nat, NEW h \in Nat,
         IsGcd(g, a, b), IsGcd(h, a, b)
  PROVE  g = h
BY DividesBoth DEF IsGcd

\* A step of Euclid's loop changes neither the divisors nor the greatest of them.
LEMMA EuclidStep ==
  ASSUME NEW a \in Nat, NEW b \in Pos, NEW g \in Nat
  PROVE  IsGcd(g, b, a % b) <=> IsGcd(g, a, b)
<1> DEFINE q == a \div b  r == a % b
<1>1. q \in Nat /\ r \in Nat /\ r < b /\ a = b * q + r
  BY Division
<1>2. ASSUME NEW d \in Nat, Divides(d, b)
      PROVE  Divides(d, r) <=> Divides(d, a)
  <2> HIDE DEF q, r
  <2>1. b \in Nat /\ b * q \in Nat /\ b * q <= a /\ a - b * q = r
    BY <1>1 DEF Pos
  <2>2. Divides(d, b * q)
    BY <1>1, <1>2, <2>1, DividesProduct
  <2>3. Divides(d, r) => Divides(d, b * q + r)
    BY <1>1, <2>1, <2>2, DividesSum
  <2>4. Divides(d, a) => Divides(d, a - b * q)
    BY <2>1, <2>2, DividesDifference
  <2> QED
    BY <1>1, <2>1, <2>3, <2>4
<1> QED
  BY <1>2 DEF IsGcd

LEMMA GcdOfZero ==
  ASSUME NEW a \in Nat
  PROVE  IsGcd(a, a, 0)
<1>1. a = a * 1 /\ 0 = a * 0
  OBVIOUS
<1> QED
  BY <1>1 DEF IsGcd, Divides

LEMMA GcdExists ==
  \A b \in Nat : \A a \in Nat : \E g \in Nat : IsGcd(g, a, b)
<1> DEFINE Without == {b \in Nat : \E a \in Nat : \A g \in Nat : ~IsGcd(g, a, b)}
<1> SUFFICES ASSUME Without # {}
             PROVE  FALSE
  OBVIOUS
<1>1. PICK b \in Without : \A c \in Without : b <= c
  BY Least
<1>2. PICK a \in Nat : \A g \in Nat : ~IsGcd(g, a, b)
  OBVIOUS
<1>3. b # 0
  BY <1>2, GcdOfZero
<1>4. b \in Pos /\ b \in Nat /\ a % b \in Nat /\ a % b < b
  BY <1>3, Division DEF Pos
<1>5. a % b \notin Without
  BY <1>1, <1>4
<1>6. PICK g \in Nat : IsGcd(g, b, a % b)
  BY <1>4, <1>5
<1> QED
  BY <1>2, <1>4, <1>6, EuclidStep

\* The loop of gcd() as the equation its values satisfy.
IsEuclid(f) ==
  f = [p \in Nat \X Nat |-> IF p[2] = 0 THEN p[1] ELSE f[<<p[2], p[1] % p[2]>>]]

\* The equation has a solution: the greatest common divisors.
LEMMA GcdEquation == IsEuclid(Euclid)
<1> DEFINE Of(a, b) == CHOOSE g \in Nat : IsGcd(g, a, b)
           G == [p \in Nat \X Nat |-> Of(p[1], p[2])]
<1>1. ASSUME NEW a \in Nat, NEW b \in Nat
      PROVE  Of(a, b) \in Nat /\ IsGcd(Of(a, b), a, b)
  BY GcdExists
<1> HIDE DEF Of
<1>2. ASSUME NEW p \in Nat \X Nat
      PROVE  G[p] = IF p[2] = 0 THEN p[1] ELSE G[<<p[2], p[1] % p[2]>>]
  <2> DEFINE a == p[1]  b == p[2]
  <2>0. a \in Nat /\ b \in Nat
    OBVIOUS
  <2> HIDE DEF a, b
  <2>1. CASE b = 0
    <3>1. Of(a, 0) = a
      BY <1>1, <2>0, GcdOfZero, GcdUnique
    <3> QED
      BY <2>1, <3>1 DEF a, b
  <2>2. CASE b # 0
    <3>1. b \in Pos /\ a % b \in Nat
      BY <2>0, <2>2, Division DEF Pos
    <3>2. IsGcd(Of(b, a % b), a, b) /\ Of(b, a % b) \in Nat
      BY <1>1, <2>0, <3>1, EuclidStep
    <3>3. Of(a, b) = Of(b, a % b)
      BY <1>1, <2>0, <3>2, GcdUnique
    <3>4. G[<<b, a % b>>] = Of(b, a % b)
      BY <2>0, <3>1
    <3>5. G[p] = Of(a, b)
      BY DEF a, b
    <3> QED
      BY <2>2, <3>3, <3>4, <3>5 DEF a, b
  <2> QED
    BY <2>1, <2>2 DEF a, b
<1>3. IsEuclid(G)
  BY <1>2 DEF IsEuclid
<1> HIDE DEF G
<1>4. \E f : IsEuclid(f)
  BY <1>3
<1>5. Euclid = CHOOSE f : IsEuclid(f)
  BY DEF IsEuclid, Euclid
<1> QED
  BY <1>4, <1>5

\* gcd: the loop ends in the greatest common divisor.
THEOREM GcdCorrect ==
  ASSUME NEW a \in Nat, NEW b \in Nat
  PROVE  Gcd(a, b) \in Nat /\ IsGcd(Gcd(a, b), a, b)
<1> DEFINE Good(c, d) == Gcd(c, d) \in Nat /\ IsGcd(Gcd(c, d), c, d)
           Bad == {d \in Nat : \E c \in Nat : ~Good(c, d)}
<1>1. \A c, d \in Nat : Gcd(c, d) = IF d = 0 THEN c ELSE Gcd(d, c % d)
  BY GcdEquation DEF IsEuclid, Gcd
<1> HIDE DEF Good
<1>2. ASSUME Bad # {}
      PROVE  FALSE
  <2>1. PICK d \in Bad : \A e \in Bad : d <= e
    BY <1>2, Least
  <2>2. PICK c \in Nat : ~Good(c, d)
    OBVIOUS
  <2>3. d # 0
    BY <1>1, <2>2, GcdOfZero DEF Good
  <2>4. d \in Pos /\ d \in Nat /\ c % d \in Nat /\ c % d < d
    BY <2>3, Division DEF Pos
  <2>5. Good(d, c % d)
    BY <2>1, <2>4
  <2>6. Gcd(c, d) = Gcd(d, c % d)
    BY <1>1, <2>3, <2>4
  <2> QED
    BY <2>2, <2>4, <2>5, <2>6, EuclidStep DEF Good
<1>3. Good(a, b)
  BY <1>2
<1> QED
  BY <1>3 DEF Good

----------------------------------------------------------------------------
(* Least common multiples                                                  *)

Common(m, a, b) == Divides(a, m) /\ Divides(b, m)

LEMMA DividesTransitive ==
  ASSUME NEW d \in Nat, NEW m \in Nat, NEW n \in Nat, Divides(d, m), Divides(m, n)
  PROVE  Divides(d, n)
<1>1. PICK k \in Nat : n = m * k
  BY DEF Divides
<1> QED
  BY <1>1, DividesProduct

\* Dividing by a divisor.
LEMMA Cofactor ==
  ASSUME NEW d \in Pos, NEW k \in Nat
  PROVE  (d * k) \div d = k
<1> DEFINE q == (d * k) \div d  r == (d * k) % d
<1>1. d * k \in Nat
  BY DEF Pos
<1>2. q \in Nat /\ r \in Nat /\ r < d /\ d * k = d * q + r
  BY <1>1, Division
<1> HIDE DEF q, r
<1>3. d * k < d * q + d /\ d * q < d * k + d
  BY <1>2 DEF Pos
<1>4. q = k
  BY <1>2, <1>3, Quotient
<1> QED
  BY <1>4 DEF q

\* The least of the common multiples divides them all.
LEMMA LeastDividesAll ==
  ASSUME NEW a \in Nat, NEW b \in Nat, NEW L \in Pos, Common(L, a, b),
         \A m \in Pos : Common(m, a, b) => L <= m,
         NEW m \in Nat, Common(m, a, b)
  PROVE  Divides(L, m)
<1> DEFINE q == m \div L  r == m % L
<1>1. q \in Nat /\ r \in Nat /\ r < L /\ m = L * q + r
  BY Division
<1> HIDE DEF q, r
<1>2. L * q \in Nat /\ L \in Nat
  BY <1>1 DEF Pos
<1>3. Common(L * q, a, b)
  BY <1>1, <1>2, DividesProduct DEF Common
<1>4. L * q <= m /\ m - L * q = r
  BY <1>1, <1>2
<1>5. Common(r, a, b)
  BY <1>2, <1>3, <1>4, DividesDifference DEF Common
<1>6. r = 0
  BY <1>1, <1>2, <1>5 DEF Pos
<1> QED
  BY <1>6, Remainder0 DEF r

\* lcm: the least common multiple of two alignments.
THEOREM LcmCorrect ==
  ASSUME NEW a \in Pos, NEW b \in Pos
  PROVE  /\ Lcm(a, b) \in Pos /\ Common(Lcm(a, b), a, b)
         /\ \A m \in Nat : Common(m, a, b) => Divides(Lcm(a, b), m)
<1> DEFINE g == Gcd(a, b)
<1>0. a \in Nat /\ b \in Nat /\ a # 0 /\ b # 0
  BY DEF Pos
<1>1. g \in Nat /\ IsGcd(g, a, b)
  BY <1>0, GcdCorrect
<1>2. Lcm(a, b) = (a \div g) * b
  BY <1>0 DEF Lcm
<1> HIDE DEF g
<1>3. PICK x \in Nat : a = g * x
  BY <1>1 DEF IsGcd, Divides
<1>4. PICK y \in Nat : b = g * y
  BY <1>1 DEF IsGcd, Divides
<1>5. g \in Pos /\ x \in Pos /\ y \in Pos
  BY <1>0, <1>1, <1>3, <1>4 DEF Pos
<1>6. a \div g = x
  BY <1>3, <1>5, Cofactor
<1>7. Lcm(a, b) = b * x /\ Lcm(a, b) = a * y
  <2>1. Lcm(a, b) = x * b
    BY <1>2, <1>6
  <2>2. x * b = b * x
    BY <1>0, <1>3
  <2>3. x * b = (g * x) * y
    BY <1>1, <1>4
  <2> QED
    BY <1>3, <2>1, <2>2, <2>3
<1>8. Lcm(a, b) \in Pos /\ Common(Lcm(a, b), a, b)
  <2>1. b * x \in Pos
    BY <1>5 DEF Pos
  <2> QED
    BY <1>5, <1>7, <2>1 DEF Common, Divides, Pos
<1> DEFINE Multiples == {m \in Pos : Common(m, a, b)}
<1>9. PICK L \in Multiples : \A m \in Multiples : L <= m
  BY <1>8, Least DEF Pos
<1>10. L \in Pos /\ Common(L, a, b) /\ \A m \in Pos : Common(m, a, b) => L <= m
  BY <1>9
<1>11. \A m \in Nat : Common(m, a, b) => Divides(L, m)
  BY <1>0, <1>10, LeastDividesAll
<1>12. PICK t \in Nat : Lcm(a, b) = L * t
  BY <1>8, <1>11 DEF Divides, Pos
<1>13. PICK u \in Nat : L = a * u
  BY <1>10 DEF Common, Divides
<1>14. PICK v \in Nat : L = b * v
  BY <1>10 DEF Common, Divides
<1>15. x = v * t /\ y = u * t
  <2>1. b * x = b * (v * t) /\ a * y = a * (u * t)
    BY <1>0, <1>7, <1>12, <1>13, <1>14
  <2>2. (b * x) \div b = x /\ (b * (v * t)) \div b = v * t
    BY Cofactor
  <2>3. (a * y) \div a = y /\ (a * (u * t)) \div a = u * t
    BY Cofactor
  <2> QED
    BY <2>1, <2>2, <2>3
<1>16. Divides(g * t, a) /\ Divides(g * t, b) /\ g * t \in Nat
  <2>1. a = (g * t) * v
    BY <1>1, <1>3, <1>15
  <2>2. b = (g * t) * u
    BY <1>1, <1>4, <1>15
  <2> QED
    BY <1>1, <2>1, <2>2 DEF Divides
<1>17. Divides(g * t, g)
  BY <1>1, <1>16 DEF IsGcd
<1>18. t = 1
  <2>1. Divides(g, g * t)
    BY <1>1 DEF Divides
  <2>2. g * t = g * 1
    BY <1>1, <1>16, <1>17, <2>1, DividesBoth
  <2>3. (g * t) \div g = t /\ (g * 1) \div g = 1
    BY <1>5, Cofactor
  <2> QED
    BY <2>2, <2>3
<1>19. Lcm(a, b) = L
  BY <1>10, <1>12, <1>18 DEF Pos
<1> QED
  BY <1>8, <1>11, <1>19
=============================================================================
