--------------------------------- MODULE Clocks ---------------------------------
(***************************************************************************)
(* Lemmas about a clock that shows the time modulo a number, as millis()   *)
(* does, about the unsigned subtraction of two of its readings, and about  *)
(* numbers: the order of products and quotients, and the least of a set.   *)
(***************************************************************************)
EXTENDS Integers, TLAPS, WellFoundedInduction

\* Integer division, in the form the steps below use.
LEMMA DivMod ==
  ASSUME NEW n \in Nat \ {0}, NEW x \in Int
  PROVE  x = n * (x \div n) + (x % n) /\ x % n \in 0..(n - 1) /\ x \div n \in Int
<1>1. x \div n \in Int
  BY SMT
<1>2. x % n \in 0..(n - 1)
  BY SMT
<1>3. x % n = x - n * (x \div n)
  BY SMT
<1>4. n * (x \div n) \in Int
  BY <1>1
<1> QED BY <1>1, <1>2, <1>3, <1>4

\* A factor that is not zero cancels.
LEMMA Cancel ==
  ASSUME NEW n \in Nat \ {0}, NEW x \in Int, NEW y \in Int, n * x = n * y
  PROVE  x = y
<1> DEFINE d == x - y
<1>1. d \in Int /\ n * d = 0
  BY SMT
<1> HIDE DEF d
<1>2. CASE d >= 1
  <2>1. n * d >= n
    BY <1>1, <1>2
  <2> QED BY <1>1, <2>1
<1>3. CASE d <= -1
  <2>1. n * d <= -n
    BY <1>1, <1>3
  <2> QED BY <1>1, <2>1
<1>4. d = 0
  BY <1>1, <1>2, <1>3
<1> QED BY <1>4 DEF d

\* A remainder is the only number of its range that differs from the number
\* divided by a multiple of the divisor.
LEMMA ModUnique ==
  ASSUME NEW n \in Nat \ {0}, NEW x \in Int, NEW q \in Int, NEW r \in 0..(n - 1),
         x = n * q + r
  PROVE  x % n = r
<1>1. x = n * (x \div n) + (x % n) /\ x % n \in 0..(n - 1) /\ x \div n \in Int
  BY DivMod
<1>2. n * (q - x \div n) = (x % n) - r
  BY <1>1
<1>3. q - x \div n = 0
  <2> DEFINE d == q - x \div n
  <2>1. d \in Int /\ n * d = (x % n) - r /\ -n < (x % n) - r /\ (x % n) - r < n
    BY <1>1, <1>2
  <2>2. CASE d >= 1
    <3>1. n * d >= n
      BY <2>1, <2>2
    <3> QED BY <3>1, <2>1
  <2>3. CASE d <= -1
    <3>1. n * d <= -n
      BY <2>1, <2>3
    <3> QED BY <3>1, <2>1
  <2> QED BY <2>1, <2>2, <2>3
<1> QED BY <1>1, <1>2, <1>3

\* Unsigned subtraction of two readings of a wrapping clock gives the time
\* between them, as long as the clock did not go round meanwhile.
LEMMA ClockDifference ==
  ASSUME NEW n \in Nat \ {0}, NEW s \in Nat, NEW t \in Nat, s <= t, t - s < n
  PROVE  ((t % n) - (s % n)) % n = t - s
<1>1. s = n * (s \div n) + (s % n) /\ s % n \in 0..(n - 1) /\ s \div n \in Int
  BY DivMod
<1>2. t = n * (t \div n) + (t % n) /\ t % n \in 0..(n - 1) /\ t \div n \in Int
  BY DivMod
<1> DEFINE q == s \div n - t \div n
<1>3. q \in Int /\ (t % n) - (s % n) \in Int
  BY <1>1, <1>2
<1>4. (t % n) - (s % n) = n * q + (t - s)
  <2>1. n * (s \div n - t \div n) = n * (s \div n) - n * (t \div n)
    BY <1>1, <1>2
  <2>2. n * (s \div n) \in Int /\ n * (t \div n) \in Int
    BY <1>1, <1>2
  <2> QED BY <1>1, <1>2, <2>1, <2>2
<1> HIDE DEF q
<1> QED BY <1>3, <1>4, ModUnique

\* The same for any two instants, up to whole rounds of the clock.
LEMMA ClockDifferenceMod ==
  ASSUME NEW n \in Nat \ {0}, NEW s \in Int, NEW t \in Int
  PROVE  ((t % n) - (s % n)) % n = (t - s) % n
<1>1. s = n * (s \div n) + (s % n) /\ s % n \in 0..(n - 1) /\ s \div n \in Int
  BY DivMod
<1>2. t = n * (t \div n) + (t % n) /\ t % n \in 0..(n - 1) /\ t \div n \in Int
  BY DivMod
<1> DEFINE d == t - s
           q == d \div n
           k == s \div n - t \div n + q
<1>3. d = n * q + (d % n) /\ d % n \in 0..(n - 1) /\ q \in Int /\ d \in Int
  BY DivMod
<1>4. (t % n) - (s % n) = n * k + (d % n)
  <2> DEFINE a == n * (s \div n)
             b == n * (t \div n)
             c == n * q
             x == s % n
             y == t % n
             z == d % n
  <2>1. /\ a \in Int /\ b \in Int /\ c \in Int /\ x \in Int /\ y \in Int /\ z \in Int
        /\ s = a + x /\ t = b + y /\ t - s = c + z
    BY <1>1, <1>2, <1>3
  <2>2. n * k = a - b + c
    BY <1>1, <1>2, <1>3
  <2> HIDE DEF a, b, c, x, y, z, d, q, k
  <2>3. y - x = n * k + z
    BY <2>1, <2>2
  <2> QED BY <2>3 DEF x, y, z
<1>5. k \in Int /\ (t % n) - (s % n) \in Int
  BY <1>1, <1>2, <1>3
<1> HIDE DEF k, q, d
<1>6. ((t % n) - (s % n)) % n = d % n
  BY <1>3, <1>4, <1>5, ModUnique
<1> QED BY <1>6 DEF d

\* Once more, an instant later: the difference grows by one, unless the clock has
\* gone round since the first reading.
LEMMA ClockTicks ==
  ASSUME NEW n \in Nat \ {0}, NEW s \in Int, NEW m \in Int, ((m - s) % n) + 1 < n
  PROVE  (((m + 1) % n) - s) % n = ((m - s) % n) + 1
<1> DEFINE e == (m - s) % n
           a == (m - s) \div n
           b == (m + 1) \div n
<1>1. m - s = n * a + e /\ e \in 0..(n - 1) /\ a \in Int
  BY DivMod
<1>2. m + 1 = n * b + ((m + 1) % n) /\ (m + 1) % n \in 0..(n - 1) /\ b \in Int
  BY DivMod
<1>3. ((m + 1) % n) - s = n * (a - b) + (e + 1)
  <2>1. n * (a - b) = n * a - n * b
    BY <1>1, <1>2
  <2>2. n * a \in Int /\ n * b \in Int
    BY <1>1, <1>2
  <2> HIDE DEF a, b, e
  <2> QED BY <1>1, <1>2, <2>1, <2>2
<1>4. a - b \in Int /\ e + 1 \in 0..(n - 1) /\ ((m + 1) % n) - s \in Int
  BY <1>1, <1>2
<1> HIDE DEF a, b, e
<1>5. (((m + 1) % n) - s) % n = e + 1
  BY <1>3, <1>4, ModUnique
<1> QED BY <1>5 DEF e

\* A reading is the time itself as long as the clock has not gone round.
LEMMA ClockBelow ==
  ASSUME NEW n \in Nat \ {0}, NEW t \in 0..(n - 1)
  PROVE  t % n = t
<1>1. t = n * 0 + t
  OBVIOUS
<1> QED BY <1>1, ModUnique

-----------------------------------------------------------------------------
\* Products keep the order of their factors, and quotients that of their dividends.
LEMMA ProductGrows ==
  ASSUME NEW n \in Nat, NEW a \in Int, NEW b \in Int, a <= b
  PROVE  a * n <= b * n
<1>1. (b - a) * n >= 0
  BY SMT
<1>2. (b - a) * n = b * n - a * n
  BY SMT
<1>3. a * n \in Int /\ b * n \in Int
  BY SMT
<1> QED BY <1>1, <1>2, <1>3

LEMMA QuotientGrows ==
  ASSUME NEW n \in Nat \ {0}, NEW a \in Int, NEW b \in Int, a <= b
  PROVE  a \div n <= b \div n
<1> DEFINE p == a \div n
           q == b \div n
<1>1. a = n * p + (a % n) /\ a % n \in 0..(n - 1) /\ p \in Int
  BY DivMod
<1>2. b = n * q + (b % n) /\ b % n \in 0..(n - 1) /\ q \in Int
  BY DivMod
<1> HIDE DEF p, q
<1>3. SUFFICES ASSUME p > q PROVE FALSE
  BY <1>1, <1>2 DEF p, q
<1>4. (q + 1) * n <= p * n
  BY <1>1, <1>2, <1>3, ProductGrows
<1>5. (q + 1) * n = n * q + n /\ p * n = n * p
  BY <1>1, <1>2
<1>6. n * q \in Int /\ n * p \in Int
  BY <1>1, <1>2
<1> QED BY <1>1, <1>2, <1>4, <1>5, <1>6

\* A quotient lies where its dividend lies between multiples.
LEMMA QuotientBetween ==
  ASSUME NEW n \in Nat \ {0}, NEW a \in Int, NEW low \in Int, NEW high \in Int,
         n * low <= a, a <= n * high
  PROVE  low <= a \div n /\ a \div n <= high /\ a \div n \in Int
<1>1. ASSUME NEW m \in Int PROVE (n * m) \div n = m
  <2> DEFINE k == (n * m) \div n
  <2>1. n * m \in Int
    OBVIOUS
  <2>2. n * m = n * k + ((n * m) % n) /\ (n * m) % n \in 0..(n - 1) /\ k \in Int
    BY <2>1, DivMod
  <2>3. (n * m) % n = 0
    BY <2>1, ModUnique
  <2> HIDE DEF k
  <2>4. n * (m - k) = 0
    <3>1. n * (m - k) = n * m - n * k
      BY <2>2
    <3>2. n * k \in Int /\ n * m = n * k
      BY <2>1, <2>2, <2>3
    <3> QED BY <2>1, <3>1, <3>2
  <2>5. m - k = 0
    BY <2>2, <2>4
  <2> QED BY <2>2, <2>5 DEF k
<1>2. n * low \in Int /\ n * high \in Int
  OBVIOUS
<1>3. a \div n \in Int
  BY DivMod
<1> QED BY <1>1, <1>2, <1>3, QuotientGrows

-----------------------------------------------------------------------------
\* A set of natural numbers that is not empty has a least one, from which induction
\* follows without an operator to instantiate it for.
LEMMA LeastNumber ==
  ASSUME NEW T, T \subseteq Nat, T # {}
  PROVE  \E x \in T : \A y \in T : x <= y
<1>1. PICK x \in T : \A y \in T : <<y, x>> \notin OpToRel(<, Nat)
  <2> DEFINE R == OpToRel(<, Nat)
  <2>1. IsWellFoundedOn(R, Nat)
    BY NatLessThanWellFounded
  <2> HIDE DEF R
  <2>2. \E x \in T : \A y \in T : <<y, x>> \notin R
    BY <2>1, WFMin
  <2> QED BY <2>2 DEF R
<1>2. ASSUME NEW y \in T, y < x PROVE FALSE
  BY <1>1, <1>2 DEF OpToRel
<1>3. \A y \in T : x <= y
  BY <1>2
<1> QED BY <1>3

LEMMA InductionTo ==
  ASSUME NEW n \in Nat, NEW S, 0 \in S,
         \A m \in 0..n : m < n /\ m \in S => m + 1 \in S
  PROVE  0..n \subseteq S
<1>1. SUFFICES ASSUME (0..n) \ S # {} PROVE FALSE
  OBVIOUS
<1>2. PICK x \in (0..n) \ S : \A y \in (0..n) \ S : x <= y
  <2> DEFINE T == (0..n) \ S
  <2>1. T \subseteq Nat /\ T # {}
    BY <1>1
  <2> HIDE DEF T
  <2>2. \E x \in T : \A y \in T : x <= y
    BY <2>1, LeastNumber
  <2> QED BY <2>2 DEF T
<1>3. x # 0 /\ x \in 1..n
  BY <1>2
<1>4. x - 1 \in S
  BY <1>2, <1>3
<1> QED BY <1>2, <1>3, <1>4
=============================================================================
