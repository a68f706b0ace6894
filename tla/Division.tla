-------------------------------- MODULE Division -------------------------------
(***************************************************************************)
(* Integer division by a number that is not known, about which the provers *)
(* know only what it is: counts that wrap, compare values, ticks.          *)
(***************************************************************************)
EXTENDS Integers, TLAPS

\* Quotient and remainder.
LEMMA ModRange ==
    ASSUME NEW w \in Nat \ {0}, NEW a \in Int
    PROVE  a % w \in 0 .. w - 1 /\ a \div w \in Int /\ a = w * (a \div w) + (a % w)
  OBVIOUS

\* There is only one remainder.
LEMMA ModUnique ==
    ASSUME NEW w \in Nat \ {0}, NEW q \in Int, NEW r \in 0 .. w - 1
    PROVE  (w * q + r) % w = r
  OBVIOUS

\* And only one quotient.
LEMMA DivUnique ==
    ASSUME NEW w \in Nat \ {0}, NEW q \in Int, NEW r \in 0 .. w - 1
    PROVE  (w * q + r) \div w = q
<1> DEFINE a == w * q + r   q2 == a \div w   r2 == a % w
<1>1. a \in Int
  OBVIOUS
<1>2. q2 \in Int /\ r2 \in 0 .. w - 1 /\ a = w * q2 + r2
  BY <1>1, ModRange
<1>3. r2 = r
  BY ModUnique
<1>4. w * q2 = w * q
  <2>1. w * q \in Int /\ w * q2 \in Int /\ a = w * q + r
    BY <1>2
  <2> HIDE DEF a, q2, r2
  <2> QED
    BY <1>2, <1>3, <2>1
<1> HIDE DEF a, q2, r2
<1>5. q2 = q
  BY <1>2, <1>4
<1> QED
  BY <1>5 DEF q2, a

\* Counting on by one.
LEMMA ModStep ==
    ASSUME NEW w \in Nat \ {0}, NEW a \in Int
    PROVE  (a + 1) % w = IF a % w = w - 1 THEN 0 ELSE (a % w) + 1
<1> DEFINE q == a \div w   r == a % w
<1>1. r \in 0 .. w - 1 /\ q \in Int /\ a = w * q + r
  BY ModRange
<1> HIDE DEF q, r
<1>2. CASE r = w - 1
  <2>1. a + 1 = w * (q + 1) + 0
    BY <1>1, <1>2
  <2>2. (w * (q + 1) + 0) % w = 0
    BY <1>1, ModUnique
  <2> QED
    BY <1>2, <2>1, <2>2 DEF r
<1>3. CASE r # w - 1
  <2>1. a + 1 = w * q + (r + 1) /\ r + 1 \in 0 .. w - 1
    BY <1>1, <1>3
  <2>2. (w * q + (r + 1)) % w = r + 1
    BY <1>1, <2>1, ModUnique
  <2> QED
    BY <1>3, <2>1, <2>2 DEF r
<1> QED
  BY <1>2, <1>3

\* Counting on by one from a count that has wrapped.
LEMMA ModSuccessor ==
    ASSUME NEW w \in Nat \ {0}, NEW a \in Int
    PROVE  ((a % w) + 1) % w = (a + 1) % w
<1> DEFINE q == a \div w   m == a % w   p == (a + 1) \div w   r == (a + 1) % w
<1>1. q \in Int /\ m \in Int /\ a = w * q + m
  BY ModRange
<1>2. r \in 0 .. w - 1 /\ p \in Int /\ a + 1 = w * p + r
  <2>1. a + 1 \in Int
    OBVIOUS
  <2> QED
    BY <2>1, ModRange
<1> HIDE DEF q, m, p, r
<1>3. m + 1 = w * (p - q) + r
  <2>1. w * (p - q) = w * p - w * q /\ w * p \in Int /\ w * q \in Int
    BY <1>1, <1>2
  <2> QED
    BY <1>1, <1>2, <2>1
<1>4. (w * (p - q) + r) % w = r
  BY <1>1, <1>2, ModUnique
<1> QED
  BY <1>3, <1>4 DEF r, m

\* What has been taken off modulo w does not change the difference modulo w.
LEMMA ModDifference ==
    ASSUME NEW w \in Nat \ {0}, NEW a \in Int, NEW b \in Int
    PROVE  ((a % w) - b) % w = (a - b) % w
<1> DEFINE q == a \div w   m == a % w
           p == (a - b) \div w   r == (a - b) % w
<1>1. q \in Int /\ m \in Int /\ a = w * q + m
  BY ModRange
<1>2. r \in 0 .. w - 1 /\ p \in Int /\ a - b = w * p + r
  <2>1. a - b \in Int
    OBVIOUS
  <2> QED
    BY <2>1, ModRange
<1> HIDE DEF q, m, p, r
<1>3. m - b = w * (p - q) + r
  <2>1. w * (p - q) = w * p - w * q
    BY <1>1, <1>2
  <2>2. w * p \in Int /\ w * q \in Int
    BY <1>1, <1>2
  <2> QED
    BY <1>1, <1>2, <2>1, <2>2
<1>4. (w * (p - q) + r) % w = r
  BY <1>1, <1>2, ModUnique
<1> QED
  BY <1>3, <1>4 DEF r, m

\* What is taken off modulo a multiple of w does not change a number modulo w.
LEMMA ModOfMod ==
    ASSUME NEW w \in Nat \ {0}, NEW v \in Nat \ {0}, v % w = 0, NEW a \in Int
    PROVE  (a % v) % w = a % w
<1> DEFINE k == v \div w   q == a \div v   m == a % v
           p == m \div w   r == m % w
<1>1. k \in Int /\ v = w * k
  <2>1. k \in Int /\ v = w * k + (v % w)
    BY ModRange
  <2> QED
    BY <2>1
<1>2. q \in Int /\ m \in Int /\ a = v * q + m
  BY ModRange
<1> HIDE DEF k, q, m
<1>3. p \in Int /\ r \in 0 .. w - 1 /\ m = w * p + r
  BY <1>2, ModRange
<1> HIDE DEF p, r
<1>4. a = w * (k * q + p) + r
  <2>1. v * q = w * (k * q)
    BY <1>1, <1>2
  <2>2. k * q \in Int
    BY <1>1, <1>2
  <2> DEFINE kq == k * q
  <2> HIDE DEF kq
  <2>3. w * (kq + p) = w * kq + w * p
    BY <1>3, <2>2 DEF kq
  <2>4. w * kq \in Int /\ w * p \in Int
    BY <1>3, <2>2 DEF kq
  <2> QED
    BY <1>2, <1>3, <2>1, <2>2, <2>3, <2>4 DEF kq
<1>5. (w * (k * q + p) + r) % w = r
  <2>1. k * q + p \in Int
    BY <1>1, <1>2, <1>3
  <2> QED
    BY <1>3, <2>1, ModUnique
<1> QED
  BY <1>4, <1>5 DEF r, m

\* A product grows with its factor.
LEMMA TimesMonotone ==
    ASSUME NEW x \in Int, NEW y \in Int, NEW p \in Nat, x <= y
    PROVE  x * p <= y * p
<1>1. (y - x) * p \in Nat /\ x * p \in Int
  OBVIOUS
<1>2. y * p = x * p + (y - x) * p
  OBVIOUS
<1> QED
  BY <1>1, <1>2

\* A factor is no greater when its product is not.
LEMMA FactorLess ==
    ASSUME NEW x \in Int, NEW y \in Int, NEW p \in Nat, x * p < y * p
    PROVE  x < y
<1>1. x * p \in Int /\ y * p \in Int
  OBVIOUS
<1> QED
  BY <1>1, TimesMonotone

\* The greater quotient makes the greater number, whatever the remainders.
LEMMA QuotientsInOrder ==
    ASSUME NEW w \in Nat \ {0}, NEW a \in Int, NEW b \in Int, a < b,
           NEW r \in 0 .. w - 1, NEW s \in 0 .. w - 1
    PROVE  a * w + r < b * w + s
<1>1. a + 1 \in Int /\ a + 1 <= b /\ w \in Nat
  OBVIOUS
<1>2. (a + 1) * w <= b * w
  BY <1>1, TimesMonotone
<1>3. (a + 1) * w = a * w + w /\ a * w \in Int /\ b * w \in Int
  OBVIOUS
<1> DEFINE p == a * w   q == b * w   n == (a + 1) * w
<1>4. n <= q /\ n = p + w /\ p \in Int /\ q \in Int
  BY <1>2, <1>3
<1> HIDE DEF p, q, n
<1>5. p + r < q + s
  BY <1>4
<1> QED
  BY <1>5 DEF p, q

\* A quotient grows with what is divided.
LEMMA DivMonotone ==
    ASSUME NEW w \in Nat \ {0}, NEW a \in Int, NEW b \in Int, a <= b
    PROVE  a \div w <= b \div w
<1> DEFINE q == a \div w   m == a % w   p == b \div w   r == b % w
<1>1. q \in Int /\ m \in 0 .. w - 1 /\ a = w * q + m
  BY ModRange
<1>2. p \in Int /\ r \in 0 .. w - 1 /\ b = w * p + r
  BY ModRange
<1> HIDE DEF q, m, p, r
<1>3. q * w < (p + 1) * w
  <2>1. w * q \in Int /\ w * p \in Int /\ q * w = w * q /\ (p + 1) * w = w * p + w
    BY <1>1, <1>2
  <2> QED
    BY <1>1, <1>2, <2>1
<1>4. q < p + 1
  BY <1>1, <1>2, <1>3, FactorLess
<1> QED
  BY <1>1, <1>2, <1>4 DEF q, p

\* Adding multiples does not change a remainder.
LEMMA ModShift ==
    ASSUME NEW w \in Nat \ {0}, NEW a \in Int, NEW k \in Int
    PROVE  (a + w * k) % w = a % w
<1> DEFINE q == a \div w   m == a % w
<1>1. q \in Int /\ m \in 0 .. w - 1 /\ a = w * q + m
  BY ModRange
<1> HIDE DEF q, m
<1>2. a + w * k = w * (q + k) + m
  <2>1. w * (q + k) = w * q + w * k /\ w * q \in Int /\ w * k \in Int
    BY <1>1
  <2> QED
    BY <1>1, <2>1
<1>3. (w * (q + k) + m) % w = m
  BY <1>1, ModUnique
<1> QED
  BY <1>2, <1>3 DEF m

\* Numbers that are close are told apart by their remainders.
LEMMA ModEqual ==
    ASSUME NEW w \in Nat \ {0}, NEW a \in Int, NEW b \in Int,
           a % w = b % w, b <= a, a < b + w
    PROVE  a = b
<1> DEFINE q == a \div w   p == b \div w   m == b % w
<1>1. q \in Int /\ a = w * q + m
  BY ModRange
<1>2. p \in Int /\ m \in 0 .. w - 1 /\ b = w * p + m
  BY ModRange
<1> HIDE DEF q, p, m
<1>3. /\ w * q \in Int /\ w * p \in Int /\ q * w = w * q /\ p * w = w * p
      /\ (p + 1) * w = w * p + w /\ (q + 1) * w = w * q + w
  BY <1>1, <1>2
<1>4. q < p + 1
  <2>1. q * w < (p + 1) * w
    BY <1>1, <1>2, <1>3
  <2> QED
    BY <1>1, <1>2, <2>1, FactorLess
<1>5. p < q + 1
  <2>1. p * w < (q + 1) * w
    BY <1>1, <1>2, <1>3
  <2> QED
    BY <1>1, <1>2, <2>1, FactorLess
<1> QED
  BY <1>1, <1>2, <1>4, <1>5
===============================================================================
