----------------------- MODULE LyraDecoderCreationProofs -----------------------
(***************************************************************************)
(* Proofs about the life of a decoder, for every set of sample rates,      *)
(* channels, model files and requests a client may come with, and for      *)
(* floats of any number of bits from 10.  Most of it is arithmetic: what   *)
(* the quotients of floats come to in which a request is turned into       *)
(* internal samples, and what the durations of the decoder come to.        *)
(***************************************************************************)
EXTENDS LyraDecoderCreation, WellFoundedInduction, TLAPS

-----------------------------------------------------------------------------
(***************************************************************************)
(* Powers of two.                                                          *)
(***************************************************************************)

\* A set of natural numbers has a least one.
LEMMA LeastNumber ==
  ASSUME NEW S \in SUBSET Nat, S # {}
  PROVE  \E m \in S : \A k \in S : m <= k
<1> DEFINE R == OpToRel(<, Nat)
<1>1. IsWellFoundedOn(R, Nat)
  BY NatLessThanWellFounded
<1>2. \A x, y \in Nat : << x, y >> \in R <=> x < y
  BY DEF OpToRel
<1> HIDE DEF R
<1>3. PICK m \in S : \A y \in S : ~ (<< y, m >> \in R)
  BY <1>1, WFMin
<1>4. \A y \in S : ~ (y < m)
  BY <1>2, <1>3
<1>5. \A y \in S : m <= y
  BY <1>4
<1> QED BY <1>5

\* What holds of 0, and of k + 1 if of k < n, holds up to n.
LEMMA InductionUpTo ==
  ASSUME NEW n \in Nat, NEW H \in SUBSET Nat, 0 \in H,
         \A k \in 0 .. n - 1 : k \in H => k + 1 \in H
  PROVE  \A k \in 0 .. n : k \in H
<1> DEFINE S == { k \in 0 .. n : k \notin H }
<1>1. S \in SUBSET Nat /\ \A k : k \in S <=> k \in 0 .. n /\ k \notin H
  OBVIOUS
<1> SUFFICES ASSUME S # {} PROVE FALSE
  OBVIOUS
<1> HIDE DEF S
<1>2. PICK m \in S : \A k \in S : m <= k
  BY <1>1, LeastNumber
<1>3. m \in 0 .. n /\ m \notin H /\ m # 0
  BY <1>1, <1>2
<1>4. m - 1 \in 0 .. n - 1 /\ (m - 1) + 1 = m /\ m - 1 \in 0 .. n /\ ~ (m <= m - 1)
  BY <1>3
<1>5. m - 1 \in H
  BY <1>1, <1>2, <1>4
<1> QED BY <1>3, <1>4, <1>5

\* 2^0 = 1, the others double.
LEMMA PowerStep ==
  /\ MaxPower \in Nat /\ MaxPower >= 30
  /\ 2^0 = 1
  /\ \A k \in 0 .. MaxPower - 1 : 2^(k + 1) = 2 * 2^k
BY MaxPowerAssumption, PowersOfTwo

\* Powers of two are positive.
LEMMA PowerType == \A k \in 0 .. MaxPower : 2^k \in Nat \ {0}
<1> DEFINE H == { k \in Nat : 2^k \in Nat \ {0} }
<1>1. 0 \in H
  BY PowerStep
<1>2. \A k \in 0 .. MaxPower - 1 : k \in H => k + 1 \in H
  <2> SUFFICES ASSUME NEW k \in 0 .. MaxPower - 1, 2^k \in Nat \ {0}
               PROVE  2^(k + 1) \in Nat \ {0}
    OBVIOUS
  <2>1. 2^(k + 1) = 2 * 2^k
    BY PowerStep
  <2> DEFINE a == 2^k
             b == 2^(k + 1)
  <2>2. b = 2 * a /\ a \in Nat \ {0}
    BY <2>1
  <2> HIDE DEF a, b
  <2>3. b \in Nat \ {0}
    BY <2>2
  <2> QED BY <2>3 DEF b
<1>3. H \in SUBSET Nat
  OBVIOUS
<1> HIDE DEF H
<1>4. \A k \in 0 .. MaxPower : k \in H
  BY <1>1, <1>2, <1>3, InductionUpTo, PowerStep
<1> QED BY <1>4 DEF H

\* The product of two powers is the power of the sum.
LEMMA PowerOfSum ==
  ASSUME NEW i \in Nat, NEW j \in Nat, i + j <= MaxPower
  PROVE  2^(i + j) = 2^i * 2^j
<1> DEFINE H == { k \in Nat : i + k <= MaxPower => 2^(i + k) = 2^i * 2^k }
<1>0. i \in 0 .. MaxPower /\ i + 0 = i /\ j \in 0 .. MaxPower
  BY MaxPowerAssumption
<1>1. 0 \in H
  <2>1. 2^i = 2^i * 1
    BY <1>0, PowerType
  <2> QED BY <1>0, <2>1, PowerStep
<1>2. \A k \in 0 .. MaxPower - 1 : k \in H => k + 1 \in H
  <2> SUFFICES ASSUME NEW k \in 0 .. MaxPower - 1, i + (k + 1) <= MaxPower,
                      2^(i + k) = 2^i * 2^k
               PROVE  2^(i + (k + 1)) = 2^i * 2^(k + 1)
    BY PowerStep
  <2>1. i + k \in 0 .. MaxPower - 1 /\ i + (k + 1) = (i + k) + 1
    BY MaxPowerAssumption
  <2>2. 2^((i + k) + 1) = 2 * 2^(i + k) /\ 2^(k + 1) = 2 * 2^k
    BY <2>1, PowerStep
  <2> DEFINE a == 2^i
             b == 2^k
  <2>3. a \in Nat /\ b \in Nat
    <3>1. k \in 0 .. MaxPower
      BY MaxPowerAssumption
    <3> QED BY <1>0, <3>1, PowerType
  <2>4. 2^((i + k) + 1) = 2 * (a * b)
    BY <2>2
  <2> HIDE DEF a, b
  <2>5. 2 * (a * b) = a * (2 * b)
    BY <2>3
  <2> QED BY <2>1, <2>2, <2>4, <2>5 DEF a, b
<1>3. H \in SUBSET Nat
  OBVIOUS
<1> HIDE DEF H
<1>4. \A k \in 0 .. MaxPower : k \in H
  BY <1>1, <1>2, <1>3, InductionUpTo, PowerStep
<1>5. j \in H
  BY <1>0, <1>4
<1> QED BY <1>5 DEF H

\* Powers grow with their exponents, and the other way round.
LEMMA PowersGrow ==
  ASSUME NEW i \in 0 .. MaxPower, NEW j \in 0 .. MaxPower
  PROVE  /\ i <= j <=> 2^i <= 2^j
         /\ i < j => 2 * 2^i <= 2^j
<1>1. \A a, b \in 0 .. MaxPower : a < b => 2 * 2^a <= 2^b
  <2> SUFFICES ASSUME NEW a \in 0 .. MaxPower, NEW b \in 0 .. MaxPower, a < b
               PROVE  2 * 2^a <= 2^b
    OBVIOUS
  <2> DEFINE d == b - (a + 1)
  <2>1. d \in 0 .. MaxPower /\ a + 1 \in 0 .. MaxPower /\ (a + 1) + d = b /\ b <= MaxPower
    BY MaxPowerAssumption
  <2> HIDE DEF d
  <2>2. 2^b = 2^(a + 1) * 2^d
    BY <2>1, PowerOfSum
  <2>3. 2^(a + 1) = 2 * 2^a
    <3>1. a \in 0 .. MaxPower - 1
      BY MaxPowerAssumption
    <3> QED BY <3>1, PowerStep
  <2>4. 2^d \in Nat \ {0} /\ 2^(a + 1) \in Nat
    BY <2>1, PowerType
  <2>5. \A x \in Nat, y \in Nat \ {0} : x * y >= x
    OBVIOUS
  <2>6. 2^(a + 1) * 2^d >= 2^(a + 1)
    BY <2>4, <2>5
  <2> QED BY <2>2, <2>3, <2>6
<1>2. 2^i \in Nat \ {0} /\ 2^j \in Nat \ {0}
  BY PowerType
<1>3. CASE i < j
  BY <1>1, <1>2, <1>3
<1>4. CASE i = j
  BY <1>2, <1>4
<1>5. CASE i > j
  <2>1. 2 * 2^j <= 2^i
    BY <1>1, <1>5
  <2> QED BY <1>2, <1>5, <2>1
<1> QED BY <1>3, <1>4, <1>5

-----------------------------------------------------------------------------
(***************************************************************************)
(* The parts of a float.                                                   *)
(***************************************************************************)

\* A quotient is one if the divisor goes into the dividend once.
LEMMA GoesOnce ==
  ASSUME NEW n \in Nat, NEW d \in Nat \ {0}
  PROVE  n \div d = 1 <=> d <= n /\ n < 2 * d
<1>1. n = (n \div d) * d + (n % d) /\ n \div d \in Nat /\ n % d \in 0 .. d - 1
  OBVIOUS
<1> DEFINE q == n \div d
           r == n % d
<1>2. n = q * d + r /\ q \in Nat /\ r \in 0 .. d - 1
  BY <1>1
<1> HIDE DEF q, r
<1>3. q = 1 => d <= n /\ n < 2 * d
  BY <1>2
<1>4. q = 0 => n < d
  BY <1>2
<1>5. q >= 2 => q * d >= 2 * d
  BY <1>2
<1>6. q >= 2 => n >= 2 * d
  <2>1. q * d \in Nat
    BY <1>2
  <2> QED BY <1>2, <1>5, <2>1
<1>7. q = 1 <=> d <= n /\ n < 2 * d
  BY <1>2, <1>3, <1>4, <1>6
<1> QED BY <1>7 DEF q

\* The highest power of two in a number is the one next below it.
LEMMA HighestPower ==
  ASSUME NEW n \in Nat, NEW k \in 0 .. MaxPower, 2^k <= n, n < 2 * 2^k
  PROVE  Log2(n) = k
<1>1. n \div 2^k = 1
  BY PowerType, GoesOnce
<1>2. ASSUME NEW j \in 0 .. MaxPower, n \div 2^j = 1 PROVE j = k
  <2> DEFINE a == 2^j
             b == 2^k
  <2>1. a \in Nat \ {0} /\ b \in Nat \ {0}
    BY PowerType
  <2>2. (j < k => 2 * a <= b) /\ (k < j => 2 * b <= a)
    BY PowersGrow
  <2>3. b <= n /\ n < 2 * b /\ n \div a = 1
    BY <1>2
  <2> HIDE DEF a, b
  <2>4. a <= n /\ n < 2 * a
    BY <2>1, <2>3, GoesOnce
  <2>5. ~ (j < k) /\ ~ (k < j)
    BY <2>1, <2>2, <2>3, <2>4
  <2> QED BY <2>5
<1> QED BY <1>1, <1>2 DEF Log2

\* A number of p bits has one among its first p.
LEMMA NumberOfBits ==
  ASSUME NEW p \in 0 .. MaxPower, NEW n \in Nat \ {0}, n < 2^p
  PROVE  /\ Log2(n) \in 0 .. p - 1
         /\ 2^Log2(n) <= n /\ n < 2 * 2^Log2(n)
<1> DEFINE S == { k \in 0 .. p : n < 2^k }
<1>0. p \in Nat /\ p <= MaxPower /\ MaxPower \in Nat
  BY MaxPowerAssumption
<1>1. p \in S /\ S \in SUBSET Nat /\ \A k : k \in S <=> k \in 0 .. p /\ n < 2^k
  BY <1>0
<1> HIDE DEF S
<1>2. PICK m \in S : \A k \in S : m <= k
  BY <1>1, LeastNumber
<1>3. m \in 0 .. p /\ n < 2^m
  BY <1>1, <1>2
<1>4. m # 0
  <2>1. 2^0 = 1 /\ ~ (n < 1)
    BY PowerStep
  <2> QED BY <1>3, <2>1
<1> DEFINE k == m - 1
<1>5. k \in 0 .. p - 1 /\ k + 1 = m /\ k \in 0 .. p /\ k \in 0 .. MaxPower - 1
      /\ k \in 0 .. MaxPower /\ ~ (m <= k)
  BY <1>0, <1>3, <1>4
<1> HIDE DEF k
<1>6. ~ (n < 2^k)
  BY <1>1, <1>2, <1>5
<1>7. 2^m = 2 * 2^k /\ 2^k \in Nat
  BY <1>5, PowerStep, PowerType
<1>8. 2^k <= n /\ n < 2 * 2^k
  BY <1>3, <1>6, <1>7
<1>9. Log2(n) = k
  BY <1>5, <1>8, HighestPower
<1> QED BY <1>5, <1>8, <1>9

\* A product of an odd number and a power of two is taken apart into these.
LEMMA OddTimesPower ==
  ASSUME NEW m \in Nat, m % 2 = 1, NEW e \in 0 .. MaxPower
  PROVE  Exactly(m * 2^e) = [m |-> m, e |-> e]
<1> DEFINE n == m * 2^e
           fits(k) == n % 2^k = 0 /\ (n \div 2^k) % 2 = 1
<1>1. 2^e \in Nat \ {0} /\ n \in Nat
  BY PowerType
<1>2. n % 2^e = 0 /\ n \div 2^e = m
  <2>1. \A d \in Nat \ {0} : (m * d) % d = 0 /\ (m * d) \div d = m
    OBVIOUS
  <2> QED BY <1>1, <2>1
\* An odd multiple of one power is no odd multiple of a lower one.
<1>3. ASSUME NEW i \in 0 .. MaxPower, NEW j \in 0 .. MaxPower, i < j,
             NEW a \in Nat, NEW b \in Nat, a * 2^i = b * 2^j
      PROVE  a % 2 = 0
  <2> DEFINE d == j - (i + 1)
             x == 2^i
             y == 2^d
  <2>1. d \in 0 .. MaxPower /\ i + 1 \in Nat /\ (i + 1) + d = j /\ j <= MaxPower
        /\ i \in 0 .. MaxPower - 1
    BY <1>3, MaxPowerAssumption
  <2>2. 2^j = 2^(i + 1) * 2^d /\ 2^(i + 1) = 2 * 2^i
    <3> HIDE DEF d
    <3> QED BY <2>1, PowerOfSum, PowerStep
  <2>3. x \in Nat \ {0} /\ y \in Nat
    BY <2>1, PowerType
  <2>4. a * x = b * ((2 * x) * y)
    BY <1>3, <2>2
  <2> HIDE DEF x, y
  <2>5. b * ((2 * x) * y) = (2 * (b * y)) * x
    BY <2>3
  <2> DEFINE c == b * y
  <2>6. c \in Nat /\ a * x = (2 * c) * x
    BY <2>3, <2>4, <2>5
  <2> HIDE DEF c
  <2>7. a = 2 * c
    <3>1. (a * x) \div x = a /\ ((2 * c) * x) \div x = 2 * c
      BY <2>3, <2>6
    <3> QED BY <2>6, <3>1
  <2> QED BY <2>6, <2>7
<1>4. ASSUME NEW k \in 0 .. MaxPower, fits(k) PROVE k = e
  <2> DEFINE a == n \div 2^k
  <2>1. 2^k \in Nat \ {0}
    BY PowerType
  <2>2. a \in Nat /\ n = a * 2^k
    <3>1. \A d \in Nat \ {0} : n % d = 0 => n \div d \in Nat /\ n = (n \div d) * d
      <4> HIDE DEF n
      <4> QED BY <1>1
    <3> QED BY <1>4, <2>1, <3>1
  <2>3. a % 2 = 1
    BY <1>4
  <2>4. a * 2^k = m * 2^e
    BY <2>2
  <2> HIDE DEF a, n, fits
  <2>5. k < e => a % 2 = 0
    BY <1>3, <2>2, <2>4, Zenon
  <2>6. e < k => m % 2 = 0
    BY <1>3, <2>2, <2>4, Zenon
  <2> QED BY <2>3, <2>5, <2>6
<1>5. fits(e)
  BY <1>2
<1>6. (CHOOSE k \in 0 .. MaxPower : fits(k)) = e
  <2> HIDE DEF fits
  <2> QED BY <1>4, <1>5
<1>7. Exactly(n) = [m |-> n \div 2^e, e |-> e]
  BY <1>6 DEF Exactly
<1> QED BY <1>2, <1>7

\* A number of p bits is an odd number of p bits times a power of two.
LEMMA ExactNumber ==
  ASSUME NEW p \in 1 .. MaxPower, NEW n \in Nat \ {0}, n < 2^p
  PROVE  \E m \in Nat \ {0}, e \in 0 .. p - 1 :
           m <= n /\ n = m * 2^e /\ Exactly(n) = [m |-> m, e |-> e]
<1> DEFINE S == { k \in 0 .. p - 1 : n % 2^(k + 1) # 0 }
<1>0. p \in Nat /\ p >= 1 /\ p <= MaxPower /\ MaxPower \in Nat
  BY MaxPowerAssumption
<1>1. S \in SUBSET Nat /\ \A k : k \in S <=> k \in 0 .. p - 1 /\ n % 2^(k + 1) # 0
  BY <1>0
<1>2. p - 1 \in S
  <2>1. n % 2^p = n
    <3>1. 2^p \in Nat
      BY <1>0, PowerType
    <3>2. \A d \in Nat : n < d => n % d = n
      OBVIOUS
    <3> QED BY <3>1, <3>2
  <2>2. (p - 1) + 1 = p /\ p - 1 \in 0 .. p - 1
    BY <1>0
  <2> HIDE DEF S
  <2> QED BY <1>1, <2>1, <2>2
<1> HIDE DEF S
<1>3. PICK e \in S : \A k \in S : e <= k
  BY <1>1, <1>2, LeastNumber
<1>4. /\ e \in 0 .. p - 1 /\ e \in 0 .. MaxPower /\ e \in 0 .. MaxPower - 1
      /\ n % 2^(e + 1) # 0
  BY <1>0, <1>1, <1>3
<1>5. n % 2^e = 0
  <2>1. CASE e = 0
    <3>1. n % 1 = 0 /\ 2^0 = 1
      BY PowerStep
    <3> QED BY <2>1, <3>1
  <2>2. CASE e # 0
    <3>1. e - 1 \in 0 .. p - 1 /\ (e - 1) + 1 = e /\ ~ (e <= e - 1)
      BY <1>0, <1>4, <2>2
    <3>2. e - 1 \notin S
      BY <1>3, <3>1
    <3> QED BY <1>1, <3>1, <3>2
  <2> QED BY <2>1, <2>2
<1> DEFINE x == 2^e
           m == n \div x
<1>6. x \in Nat \ {0} /\ n % x = 0 /\ n % (2 * x) # 0
  BY <1>4, <1>5, PowerType, PowerStep
<1> HIDE DEF x
<1>7. m \in Nat /\ n = m * x
  <2>1. n = (n \div x) * x + (n % x) /\ n \div x \in Nat
    BY <1>6
  <2> QED BY <1>6, <2>1
<1> HIDE DEF m
<1>8. m # 0 /\ m <= n
  <2>1. m = 0 => m * x = 0
    BY <1>6
  <2>2. m * x >= m
    BY <1>6, <1>7
  <2> QED BY <1>7, <2>1, <2>2
<1>9. m % 2 = 1
  <2> SUFFICES ASSUME m % 2 = 0 PROVE FALSE
    BY <1>7
  <2>1. PICK c \in Nat : m = 2 * c
    <3>1. m = 2 * (m \div 2) /\ m \div 2 \in Nat
      BY <1>7
    <3> QED BY <3>1
  <2>2. n = c * (2 * x)
    BY <1>6, <1>7, <2>1
  <2>3. \A d \in Nat \ {0} : (c * d) % d = 0
    OBVIOUS
  <2>4. 2 * x \in Nat \ {0}
    BY <1>6
  <2> QED BY <1>6, <2>2, <2>3, <2>4
<1>10. n = m * 2^e
  BY <1>7 DEF x
<1>11. Exactly(n) = [m |-> m, e |-> e]
  BY <1>4, <1>7, <1>9, <1>10, OddTimesPower
<1> QED BY <1>4, <1>7, <1>8, <1>10, <1>11

\* It is its own float of p bits.
LEMMA FloatOfNumber ==
  ASSUME NEW p \in 1 .. MaxPower, NEW n \in Nat \ {0}, NEW m \in Nat \ {0}, NEW e,
         m < 2^p, Exactly(n) = [m |-> m, e |-> e]
  PROVE  Float(n, p) = [m |-> m, e |-> e]
<1>1. Log2(m) \in 0 .. p - 1
  BY NumberOfBits
<1>2. Log2(m) + 1 - p <= 0
  BY <1>1
<1>3. Float(n, p) = Rounded([m |-> m, e |-> e], p)
  BY DEF Float
<1> QED BY <1>2, <1>3 DEF Rounded

-----------------------------------------------------------------------------
(***************************************************************************)
(* Quotients of floats.                                                    *)
(***************************************************************************)

\* The shift that brings the quotient of a and b to p bits.
IsShift(a, b, p, s) ==
  b * 2^(p - 1) <= a * 2^s /\ a * 2^s < 2 * (b * 2^(p - 1))

\* There is only one.
LEMMA OneShift ==
  ASSUME NEW a \in Nat \ {0}, NEW b \in Nat \ {0}, NEW p \in 1 .. MaxPower,
         NEW s \in 0 .. MaxPower, NEW t \in 0 .. MaxPower,
         IsShift(a, b, p, s), IsShift(a, b, p, t)
  PROVE  s = t
<1>1. ASSUME NEW i \in 0 .. MaxPower, NEW j \in 0 .. MaxPower, i < j,
             IsShift(a, b, p, i), IsShift(a, b, p, j)
      PROVE  FALSE
  <2> DEFINE x == 2^i
             y == 2^j
             h == 2^(p - 1)
  <2>1. x \in Nat /\ y \in Nat /\ 2 * x <= y
    BY <1>1, PowerType, PowersGrow
  <2>2. h \in Nat
    <3>1. p - 1 \in 0 .. MaxPower
      BY MaxPowerAssumption
    <3> QED BY <3>1, PowerType
  <2>3. b * h <= a * x /\ a * y < 2 * (b * h)
    BY <1>1 DEF IsShift
  <2> HIDE DEF x, y, h
  <2>4. a * (2 * x) <= a * y
    BY <2>1
  <2>5. a * (2 * x) = 2 * (a * x) /\ a * x \in Nat /\ a * y \in Nat /\ b * h \in Nat
    BY <2>1, <2>2
  <2> QED BY <2>3, <2>4, <2>5
<1>2. ~ (s < t) /\ ~ (t < s)
  BY <1>1
<1> QED BY <1>2

\* The quotient is scaled by it.
IsQuotient(a, i, b, j, p) ==
  \E s \in 0 .. 2 * p - 1 :
    /\ IsShift(a, b, p, s)
    /\ Quotient([m |-> a, e |-> i], [m |-> b, e |-> j], p) =
         [m |-> NearestToQuotient(a * 2^s, b), e |-> i - j - s]

\* Every quotient of two floats is.
LEMMA QuotientOfFloats ==
  ASSUME NEW p \in Nat \ {0}, 2 * p <= MaxPower,
         NEW a \in Nat \ {0}, NEW b \in Nat \ {0}, a < 2^p, b < 2^p,
         NEW i \in Int, NEW j \in Int
  PROVE  IsQuotient(a, i, b, j, p)
<1> DEFINE k == Log2(a)
           l == Log2(b)
           least == p - 1 + l - k
           v == a * 2^least
           w == b * 2^(p - 1)
<1>0. p \in 0 .. MaxPower /\ p - 1 \in 0 .. MaxPower /\ MaxPower \in Nat
  BY MaxPowerAssumption
<1>1. /\ k \in 0 .. p - 1 /\ 2^k <= a /\ a < 2 * 2^k
      /\ l \in 0 .. p - 1 /\ 2^l <= b /\ b < 2 * 2^l
  BY <1>0, NumberOfBits
<1> HIDE DEF k, l
<1>2. /\ least \in 0 .. 2 * p - 2 /\ least \in 0 .. MaxPower - 1 /\ least \in 0 .. MaxPower
      /\ k \in 0 .. MaxPower /\ l \in 0 .. MaxPower
      /\ k + least = l + (p - 1) /\ k + least <= MaxPower /\ least + 1 \in 0 .. 2 * p - 1
  BY <1>0, <1>1
<1>3. 2^(k + least) = 2^k * 2^least /\ 2^(l + (p - 1)) = 2^l * 2^(p - 1)
  <2> HIDE DEF least
  <2> QED BY <1>0, <1>2, PowerOfSum
<1>4. 2^k * 2^least = 2^l * 2^(p - 1)
  BY <1>2, <1>3
<1> DEFINE x == 2^least
           h == 2^(p - 1)
           c == 2^k
           d == 2^l
<1>5. x \in Nat \ {0} /\ h \in Nat \ {0} /\ c \in Nat \ {0} /\ d \in Nat \ {0}
  BY <1>0, <1>2, PowerType
<1>6. c * x = d * h /\ c <= a /\ a < 2 * c /\ d <= b /\ b < 2 * d
  BY <1>1, <1>4
<1>7. v = a * x /\ w = b * h
  OBVIOUS
<1> HIDE DEF x, h, c, d, v, w, least
<1>8. c * x <= v /\ v < 2 * (c * x) /\ d * h <= w /\ w < 2 * (d * h)
  <2>1. \A y \in Nat \ {0}, f \in Nat, g \in Nat :
          f <= g /\ g < 2 * f => f * y <= g * y /\ g * y < 2 * (f * y)
    OBVIOUS
  <2> QED BY <1>5, <1>6, <1>7, <2>1
<1>9. v \in Nat /\ w \in Nat /\ c * x \in Nat
  BY <1>5, <1>7
<1>10. v < 2 * w /\ w < 2 * v
  BY <1>6, <1>8, <1>9
<1>11. a * 2^(least + 1) = 2 * v
  <2>1. 2^(least + 1) = 2 * x
    BY <1>2, PowerStep DEF x
  <2> QED BY <1>5, <1>7, <2>1
<1> DEFINE shift == IF v >= w THEN least ELSE least + 1
<1>12. Quotient([m |-> a, e |-> i], [m |-> b, e |-> j], p) =
         [m |-> NearestToQuotient(a * 2^shift, b), e |-> i - j - shift]
  BY DEF Quotient, v, w, least, k, l, x, h
<1>13. IsShift(a, b, p, shift)
  <2>1. CASE v >= w
    BY <1>9, <1>10, <2>1 DEF IsShift, v, w
  <2>2. CASE ~ (v >= w)
    BY <1>9, <1>10, <1>11, <2>2 DEF IsShift, w
  <2> QED BY <2>1, <2>2
<1>14. shift \in 0 .. 2 * p - 1
  BY <1>2
<1> QED BY <1>12, <1>13, <1>14 DEF IsQuotient

-----------------------------------------------------------------------------
(***************************************************************************)
(* The ratio of the sample rates.                                          *)
(***************************************************************************)

\* The ratio as the floats have it: u * 2^t / 2^(t + h), which is u for the rates
\* above the internal one, and a half for the one below.
Ratio(u, h, t) == [m |-> u * 2^t, e |-> - (t + h)]

\* The exponents that occur.
IsRatio(u, h, t) ==
  \/ u = 1 /\ h \in {0, 1} /\ t = MantissaBits - 1
  \/ u \in {2, 3} /\ h = 0 /\ t = MantissaBits - 2

\* The bounds of the exponents.
LEMMA Bits ==
  /\ MantissaBits \in Nat /\ MantissaBits >= 10 /\ 2 * MantissaBits <= MaxPower
  /\ MantissaBits \in 1 .. MaxPower /\ MaxPower \in Nat
  /\ 960 < 2^MantissaBits
<1>1. /\ MantissaBits \in Nat /\ MantissaBits >= 10 /\ 2 * MantissaBits <= MaxPower
      /\ MaxPower \in Nat
  BY RequestAssumption, MaxPowerAssumption
<1>2. 2^10 = 1024
  OBVIOUS
<1>3. 2^10 <= 2^MantissaBits
  <2>1. 10 \in 0 .. MaxPower /\ MantissaBits \in 0 .. MaxPower
    BY <1>1
  <2> QED BY <1>1, <2>1, PowersGrow
<1>4. 2^MantissaBits \in Nat
  BY <1>1, PowerType
<1>5. 960 < 2^MantissaBits
  BY <1>2, <1>3, <1>4
<1> QED BY <1>1, <1>5

\* A power under a name: the provers look up its value instead of computing it.
Power(k) == 2^k

\* m * 2^e is n, as a float too.
IsFloatOf(n, m, e) ==
  Exactly(n) = [m |-> m, e |-> e] /\ Float(n, MantissaBits) = [m |-> m, e |-> e]

\* An odd number of 9 bits times a power of two is exact.
LEMMA FloatOfOdd ==
  ASSUME NEW n \in Nat \ {0}, NEW m \in 1 .. 375, m % 2 = 1,
         NEW e \in 0 .. MaxPower, n = m * Power(e)
  PROVE  IsFloatOf(n, m, e)
<1>1. Exactly(n) = [m |-> m, e |-> e]
  BY OddTimesPower DEF Power
<1>3. m < 2^MantissaBits
  <2>1. MantissaBits \in 0 .. MaxPower
    BY Bits
  <2>2. 2^MantissaBits \in Nat
    BY <2>1, PowerType
  <2> QED BY <2>2, Bits
<1>4. m \in Nat \ {0} /\ MantissaBits \in 1 .. MaxPower
  BY Bits
<1>5. Float(n, MantissaBits) = [m |-> m, e |-> e]
  BY <1>1, <1>3, <1>4, FloatOfNumber
<1> QED BY <1>1, <1>5 DEF IsFloatOf

\* The supported sample rates are exact.
LEMMA RatesAreExact ==
  /\ Float(8000, MantissaBits) = [m |-> 125, e |-> 6]
  /\ Float(16000, MantissaBits) = [m |-> 125, e |-> 7]
  /\ Float(32000, MantissaBits) = [m |-> 125, e |-> 8]
  /\ Float(48000, MantissaBits) = [m |-> 375, e |-> 7]
<1>1. 6 \in 0 .. MaxPower /\ 7 \in 0 .. MaxPower /\ 8 \in 0 .. MaxPower
  BY MaxPowerAssumption
<1>2. Power(6) = 64 /\ Power(7) = 128 /\ Power(8) = 256
  BY DEF Power
<1>3. IsFloatOf(8000, 125, 6) /\ IsFloatOf(16000, 125, 7)
  BY <1>1, <1>2, FloatOfOdd
<1>4. IsFloatOf(32000, 125, 8) /\ IsFloatOf(48000, 375, 7)
  BY <1>1, <1>2, FloatOfOdd
<1> QED BY <1>3, <1>4 DEF IsFloatOf

\* Integer division by its defining property.
LEMMA Division ==
  ASSUME NEW a \in Int, NEW d \in Nat \ {0}, NEW q \in Int, NEW r \in 0 .. d - 1,
         a = q * d + r
  PROVE  a \div d = q /\ a % d = r
<1>1. a = (a \div d) * d + (a % d) /\ a \div d \in Int /\ a % d \in 0 .. d - 1
  OBVIOUS
<1> DEFINE k == a \div d
           l == a % d
<1>2. k \in Int /\ l \in 0 .. d - 1 /\ k * d + l = q * d + r
  BY <1>1
<1> HIDE DEF k, l
<1>3. k = q
  <2>1. CASE k > q
    <3>1. k * d >= (q + 1) * d
      BY <1>2, <2>1
    <3>2. (q + 1) * d = q * d + d
      OBVIOUS
    <3>3. k * d \in Int /\ q * d \in Int
      BY <1>2
    <3> QED BY <1>2, <3>1, <3>2, <3>3
  <2>2. CASE k < q
    <3>1. q * d >= (k + 1) * d
      BY <1>2, <2>2
    <3>2. (k + 1) * d = k * d + d
      BY <1>2
    <3>3. k * d \in Int /\ q * d \in Int
      BY <1>2
    <3> QED BY <1>2, <3>1, <3>2, <3>3
  <2> QED BY <1>2, <2>1, <2>2
<1>4. l = r
  <2>1. q * d \in Int
    OBVIOUS
  <2> QED BY <1>2, <1>3, <2>1
<1> QED BY <1>3, <1>4 DEF k, l

\* A quotient without remainder is not rounded, and one of multiples is rounded
\* like that of the numbers they are multiples of.
LEMMA Nearest ==
  ASSUME NEW a \in Nat, NEW b \in Nat \ {0}, NEW c \in Nat \ {0}
  PROVE  /\ NearestToQuotient(a * b, b) = a
         /\ NearestToQuotient(a * c, b * c) = NearestToQuotient(a, b)
<1>1. NearestToQuotient(a * b, b) = a
  <2>1. (a * b) \div b = a /\ (a * b) % b = 0
    OBVIOUS
  <2>2. ~ (2 * 0 > b) /\ 2 * 0 # b
    OBVIOUS
  <2> QED BY <2>1, <2>2 DEF NearestToQuotient
<1> DEFINE q == a \div b
           r == a % b
<1>2. a = q * b + r /\ q \in Nat /\ r \in 0 .. b - 1
  OBVIOUS
<1> HIDE DEF q, r
<1> DEFINE d == b * c
           x == r * c
<1>3. d \in Nat \ {0} /\ x \in 0 .. d - 1 /\ a * c = q * d + x /\ a * c \in Nat
  <2>1. d \in Nat \ {0} /\ x \in Nat /\ a * c \in Nat
    BY <1>2
  <2>2. (r + 1) * c <= b * c /\ (r + 1) * c = r * c + c
    BY <1>2
  <2>3. a * c = (q * b + r) * c /\ (q * b + r) * c = q * (b * c) + r * c
    BY <1>2
  <2>4. x < d
    BY <1>2, <2>1, <2>2
  <2> QED BY <2>1, <2>3, <2>4
<1> HIDE DEF d, x
<1>4. (a * c) \div d = q /\ (a * c) % d = x
  BY <1>2, <1>3, Division
<1>5. (2 * x > d <=> 2 * r > b) /\ (2 * x = d <=> 2 * r = b)
  <2> DEFINE f == 2 * r
  <2>1. f \in Nat /\ 2 * x = f * c
    BY <1>2 DEF x
  <2> HIDE DEF f
  <2>2. f > b => f * c > b * c
    BY <2>1
  <2>3. f < b => f * c < b * c
    BY <2>1
  <2>4. f * c \in Nat /\ b * c \in Nat /\ d = b * c
    BY <2>1 DEF d
  <2>5. (2 * x > d <=> f > b) /\ (2 * x = d <=> f = b)
    BY <2>1, <2>2, <2>3, <2>4
  <2> QED BY <2>5 DEF f
<1>6. NearestToQuotient(a * c, b * c) = NearestToQuotient(a, b)
  BY <1>4, <1>5 DEF NearestToQuotient, q, r, d
<1> QED BY <1>1, <1>6

\* The ratio of a multiple of 125 to 125.
LEMMA RatioOf125 ==
  ASSUME NEW u \in {1, 3}, NEW i \in Int, NEW s \in 0 .. MaxPower,
         u = 1 => s = MantissaBits - 1,
         u = 3 => s = MantissaBits - 2
  PROVE  Quotient([m |-> 125 * u, e |-> i], [m |-> 125, e |-> 7], MantissaBits) =
           [m |-> u * 2^s, e |-> i - 7 - s]
<1> DEFINE a == 125 * u
<1>0. a \in Nat \ {0} /\ a <= 375 /\ 125 \in Nat \ {0}
  OBVIOUS
<1>1. a < 2^MantissaBits /\ 125 < 2^MantissaBits
  <2>1. 2^MantissaBits \in Nat /\ 375 < 2^MantissaBits
    <3>1. MantissaBits \in 0 .. MaxPower
      BY Bits
    <3>2. 2^MantissaBits \in Nat
      BY <3>1, PowerType
    <3> QED BY <3>2, Bits
  <2> QED BY <1>0, <2>1
<1>2. IsShift(a, 125, MantissaBits, s)
  <2> DEFINE x == 2^s
  <2>1. x \in Nat \ {0}
    BY PowerType
  <2>2. CASE u = 1
    <3>1. 2^(MantissaBits - 1) = x
      BY <2>2
    <3> HIDE DEF x
    <3>2. 125 * x <= 125 * x /\ 125 * x < 2 * (125 * x)
      BY <2>1
    <3> QED BY <2>2, <3>1, <3>2 DEF IsShift, x
  <2>3. CASE u = 3
    <3>1. MantissaBits - 1 = s + 1 /\ s \in 0 .. MaxPower - 1
      BY <2>3, Bits
    <3>2. 2^(MantissaBits - 1) = 2 * x
      BY <3>1, PowerStep
    <3> HIDE DEF x
    <3>3. 125 * (2 * x) <= 375 * x /\ 375 * x < 2 * (125 * (2 * x))
      BY <2>1
    <3> QED BY <2>3, <3>2, <3>3 DEF IsShift, x
  <2> QED BY <2>2, <2>3
<1> HIDE DEF a
<1>3. PICK k \in 0 .. 2 * MantissaBits - 1 :
        /\ IsShift(a, 125, MantissaBits, k)
        /\ Quotient([m |-> a, e |-> i], [m |-> 125, e |-> 7], MantissaBits) =
             [m |-> NearestToQuotient(a * 2^k, 125), e |-> i - 7 - k]
  <2>1. MantissaBits \in Nat \ {0} /\ 2 * MantissaBits <= MaxPower
    BY Bits
  <2>2. 7 \in Int
    OBVIOUS
  <2>3. IsQuotient(a, i, 125, 7, MantissaBits)
    BY <1>0, <1>1, <2>1, <2>2, QuotientOfFloats
  <2> QED BY <2>3 DEF IsQuotient
<1>4. k = s
  <2>1. k \in 0 .. MaxPower
    BY <1>3, Bits
  <2> QED BY <1>0, <1>2, <1>3, <2>1, Bits, OneShift
<1>5. NearestToQuotient(a * 2^s, 125) = u * 2^s
  <2> DEFINE x == 2^s
  <2>1. x \in Nat \ {0} /\ u \in Nat
    BY PowerType
  <2> HIDE DEF x
  <2>2. u * x \in Nat /\ a * x = (u * x) * 125
    BY <2>1 DEF a
  <2>3. NearestToQuotient((u * x) * 125, 125) = u * x
    BY <2>2, Nearest
  <2> QED BY <2>2, <2>3 DEF x
<1> QED BY <1>3, <1>4, <1>5 DEF a

\* What the ratio of a rate is, and that the other modules count with the same.
HasRatio(rate, u, h, t) ==
  /\ IsRatio(u, h, t)
  /\ Quotient(Float(rate, MantissaBits), Float(16000, MantissaBits), MantissaBits) =
       Ratio(u, h, t)
  /\ u = rate \div Least(rate, 16000)
  /\ Power(h) = 16000 \div Least(rate, 16000)

\* Every supported rate has one.
LEMMA RatioOfRate ==
  ASSUME NEW rate \in kSupportedSampleRates
  PROVE  \E u, h, t \in Nat : HasRatio(rate, u, h, t)
<1> DEFINE s == MantissaBits - 1
           t == MantissaBits - 2
<1>1. s \in 0 .. MaxPower /\ t \in 0 .. MaxPower /\ s \in Nat /\ t \in Nat /\ s = t + 1
      /\ t \in 0 .. MaxPower - 1
  BY Bits
<1>2. 2^s = 2 * 2^t /\ 2^t \in Nat /\ 2^s \in Nat
  BY <1>1, PowerStep, PowerType
<1>3. Power(0) = 1 /\ Power(1) = 2
  BY DEF Power
<1>4. \A i \in Int : Quotient([m |-> 125, e |-> i], [m |-> 125, e |-> 7], MantissaBits) =
                       [m |-> 2^s, e |-> i - 7 - s]
  <2> SUFFICES ASSUME NEW i \in Int
               PROVE  Quotient([m |-> 125, e |-> i], [m |-> 125, e |-> 7], MantissaBits) =
                        [m |-> 2^s, e |-> i - 7 - s]
    OBVIOUS
  <2> DEFINE u == 1
  <2>1. u \in {1, 3} /\ (u = 1 => s = MantissaBits - 1) /\ (u = 3 => s = MantissaBits - 2)
    OBVIOUS
  <2>2. 125 * u = 125 /\ u * 2^s = 2^s
    BY <1>2
  <2> HIDE DEF u, s
  <2>3. Quotient([m |-> 125 * u, e |-> i], [m |-> 125, e |-> 7], MantissaBits) =
          [m |-> u * 2^s, e |-> i - 7 - s]
    BY <1>1, <2>1, RatioOf125
  <2> QED BY <2>2, <2>3
<1>5. Quotient([m |-> 375, e |-> 7], [m |-> 125, e |-> 7], MantissaBits) =
        [m |-> 3 * 2^t, e |-> 7 - 7 - t]
  <2> DEFINE u == 3
             i == 7
  <2>1. u \in {1, 3} /\ (u = 1 => t = MantissaBits - 1) /\ (u = 3 => t = MantissaBits - 2)
    OBVIOUS
  <2>2. 125 * u = 375 /\ i \in Int
    OBVIOUS
  <2> HIDE DEF u, t, i
  <2>3. Quotient([m |-> 125 * u, e |-> i], [m |-> 125, e |-> 7], MantissaBits) =
          [m |-> u * 2^t, e |-> i - 7 - t]
    BY <1>1, <2>1, <2>2, RatioOf125
  <2> QED BY <2>2, <2>3 DEF u, i
<1>6. CASE rate = 8000
  <2>1. Ratio(1, 1, s) = [m |-> 2^s, e |-> 6 - 7 - s]
    <3>1. 1 * 2^s = 2^s /\ - (s + 1) = 6 - 7 - s
      BY <1>1, <1>2
    <3> QED BY <3>1 DEF Ratio
  <2>2. IsRatio(1, 1, s)
    BY DEF IsRatio
  <2>3. Least(rate, 16000) = 8000 /\ 8000 \div 8000 = 1 /\ 16000 \div 8000 = 2
    BY <1>6 DEF Least
  <2>4. HasRatio(rate, 1, 1, s)
    <3> HIDE DEF s
    <3> QED BY <1>3, <1>4, <1>6, <2>1, <2>2, <2>3, RatesAreExact DEF HasRatio
  <2> QED BY <1>1, <2>4
<1>7. CASE rate = 16000
  <2>1. Ratio(1, 0, s) = [m |-> 2^s, e |-> 7 - 7 - s]
    <3>1. 1 * 2^s = 2^s /\ - (s + 0) = 7 - 7 - s
      BY <1>1, <1>2
    <3> QED BY <3>1 DEF Ratio
  <2>2. IsRatio(1, 0, s)
    BY DEF IsRatio
  <2>3. Least(rate, 16000) = 16000 /\ 16000 \div 16000 = 1
    BY <1>7 DEF Least
  <2>4. HasRatio(rate, 1, 0, s)
    <3> HIDE DEF s
    <3> QED BY <1>3, <1>4, <1>7, <2>1, <2>2, <2>3, RatesAreExact DEF HasRatio
  <2> QED BY <1>1, <2>4
<1>8. CASE rate = 32000
  <2>1. Ratio(2, 0, t) = [m |-> 2^s, e |-> 8 - 7 - s]
    <3>1. 2 * 2^t = 2^s /\ - (t + 0) = 8 - 7 - s
      BY <1>1, <1>2
    <3> QED BY <3>1 DEF Ratio
  <2>2. IsRatio(2, 0, t)
    BY DEF IsRatio
  <2>3. Least(rate, 16000) = 16000 /\ 16000 \div 16000 = 1 /\ 32000 \div 16000 = 2
    BY <1>8 DEF Least
  <2>4. HasRatio(rate, 2, 0, t)
    <3> HIDE DEF s, t
    <3> QED BY <1>3, <1>4, <1>8, <2>1, <2>2, <2>3, RatesAreExact DEF HasRatio
  <2> QED BY <1>1, <2>4
<1>9. CASE rate = 48000
  <2>1. Ratio(3, 0, t) = [m |-> 3 * 2^t, e |-> 7 - 7 - t]
    <3>1. - (t + 0) = 7 - 7 - t
      BY <1>1
    <3> QED BY <3>1 DEF Ratio
  <2>2. IsRatio(3, 0, t)
    BY DEF IsRatio
  <2>3. Least(rate, 16000) = 16000 /\ 16000 \div 16000 = 1 /\ 48000 \div 16000 = 3
    BY <1>9 DEF Least
  <2>4. HasRatio(rate, 3, 0, t)
    <3> HIDE DEF t
    <3> QED BY <1>3, <1>5, <1>9, <2>1, <2>2, <2>3, RatesAreExact DEF HasRatio
  <2> QED BY <1>1, <2>4
<1> QED BY <1>6, <1>7, <1>8, <1>9 DEF kSupportedSampleRates

-----------------------------------------------------------------------------
(***************************************************************************)
(* The samples of a request.                                               *)
(***************************************************************************)

\* Rounding moves a quotient by a half at most.
LEMMA NearestIsNear ==
  ASSUME NEW a \in Nat, NEW b \in {1, 2, 3}
  PROVE  /\ NearestToQuotient(a, b) \in Nat
         /\ b * NearestToQuotient(a, b) <= a + 1
         /\ a <= b * NearestToQuotient(a, b) + 1
         /\ b = 1 => NearestToQuotient(a, b) = a
<1>1. CASE b = 1
  BY <1>1 DEF NearestToQuotient
<1>2. CASE b = 2
  BY <1>2 DEF NearestToQuotient
<1>3. CASE b = 3
  BY <1>3 DEF NearestToQuotient
<1> QED BY <1>1, <1>2, <1>3

\* A quotient of n and one of the ratios, rounded to a fraction of an even
\* denominator, is still on the same side of every whole number.
LEMMA RoundedUpQuotient ==
  ASSUME NEW n \in Nat \ {0}, NEW u \in {1, 2, 3}, NEW d \in Nat, d >= 2
  PROVE  - ((- NearestToQuotient(n * d, u)) \div d) = (n + u - 1) \div u
<1> DEFINE c == (n + u - 1) \div u
           j == u * c - n
           x == n * d
           y == c * d
           m == NearestToQuotient(x, u)
<1>1. c \in Nat /\ j \in 0 .. u - 1 /\ n = u * c - j
  <2>1. CASE u = 1
    BY <2>1
  <2>2. CASE u = 2
    BY <2>2
  <2>3. CASE u = 3
    BY <2>3
  <2> QED BY <2>1, <2>2, <2>3
<1> HIDE DEF c, j
<1>2. x \in Nat /\ y \in Nat /\ x = u * y - j * d
  <2>1. x \in Nat /\ y \in Nat
    BY <1>1
  <2>2. (u * c - j) * d = u * (c * d) - j * d
    BY <1>1
  <2> QED BY <1>1, <2>1, <2>2
<1> HIDE DEF x, y
<1>3. m \in Nat /\ u * m <= x + 1 /\ x <= u * m + 1 /\ (u = 1 => m = x)
  BY <1>2, NearestIsNear
<1> HIDE DEF m
<1>4. y - m \in 0 .. d - 1
  <2>1. CASE u = 1
    BY <1>1, <1>2, <1>3, <2>1
  <2>2. CASE u = 2
    <3>1. CASE j = 0
      BY <1>2, <1>3, <2>2, <3>1
    <3>2. CASE j = 1
      BY <1>2, <1>3, <2>2, <3>2
    <3> QED BY <1>1, <2>2, <3>1, <3>2
  <2>3. CASE u = 3
    <3>1. CASE j = 0
      BY <1>2, <1>3, <2>3, <3>1
    <3>2. CASE j = 1
      BY <1>2, <1>3, <2>3, <3>2
    <3>3. CASE j = 2
      BY <1>2, <1>3, <2>3, <3>3
    <3> QED BY <1>1, <2>3, <3>1, <3>2, <3>3
  <2> QED BY <2>1, <2>2, <2>3
<1>5. (- m) \div d = - c
  <2>1. - m = (- c) * d + (y - m)
    <3>1. (- c) * d = - y
      BY <1>1 DEF y
    <3> QED BY <1>2, <1>3, <3>1
  <2>2. - m \in Int /\ - c \in Int /\ d \in Nat \ {0}
    BY <1>1, <1>3
  <2> QED BY <1>4, <2>1, <2>2, Division
<1>6. - (- c) = c
  BY <1>1
<1> QED BY <1>5, <1>6 DEF m, x, c

\* What the exponents and the mantissa of a ratio can be.
LEMMA RatioBounds ==
  ASSUME NEW u \in Nat, NEW h \in Nat, NEW t \in Nat, IsRatio(u, h, t)
  PROVE  /\ u \in {1, 2, 3} /\ h \in {0, 1} /\ t \in 0 .. MantissaBits - 1
         /\ t \in 0 .. MaxPower
         /\ u * 2^t \in Nat \ {0} /\ u * 2^t < 2^MantissaBits
         /\ u = 1 => 2^(MantissaBits - 1) = 2^t /\ 2^MantissaBits = 2 * 2^t
         /\ u # 1 => /\ h = 0
                     /\ 2^(MantissaBits - 1) = 2 * 2^t /\ 2^MantissaBits = 4 * 2^t
<1> DEFINE p == MantissaBits
<1>1. /\ p - 2 \in 0 .. MaxPower - 1 /\ p - 1 \in 0 .. MaxPower - 1
      /\ (p - 2) + 1 = p - 1 /\ (p - 1) + 1 = p
      /\ p - 2 \in 0 .. MaxPower /\ p - 1 \in 0 .. MaxPower
  BY Bits
<1>2. 2^((p - 2) + 1) = 2 * 2^(p - 2) /\ 2^((p - 1) + 1) = 2 * 2^(p - 1)
  <2> HIDE DEF p
  <2> QED BY <1>1, PowerStep
<1>3. 2^(p - 1) = 2 * 2^(p - 2) /\ 2^p = 2 * 2^(p - 1)
  <2> HIDE DEF p
  <2> QED BY <1>1, <1>2
<1> DEFINE x == 2^(p - 2)
           y == 2^(p - 1)
           z == 2^p
<1>4. x \in Nat \ {0} /\ y = 2 * x /\ z = 2 * y
  BY <1>1, <1>3, PowerType
<1>5. CASE u = 1 /\ h \in {0, 1} /\ t = p - 1
  <2>1. 2^t = y
    BY <1>5
  <2> HIDE DEF x, y, z
  <2>2. u * y \in Nat \ {0} /\ u * y < z
    BY <1>4, <1>5
  <2>3. u * 2^t \in Nat \ {0} /\ u * 2^t < z /\ y = 2^t /\ z = 2 * 2^t
    BY <1>4, <2>1, <2>2
  <2>4. u \in {1, 2, 3} /\ t \in 0 .. MantissaBits - 1 /\ t \in 0 .. MaxPower
    BY <1>1, <1>5
  <2> QED BY <1>5, <2>3, <2>4 DEF y, z, p
<1>6. CASE u \in {2, 3} /\ h = 0 /\ t = p - 2
  <2>1. 2^t = x
    BY <1>6
  <2> HIDE DEF x, y, z
  <2>2. u * x \in Nat \ {0} /\ u * x < z /\ y = 2 * x /\ z = 4 * x
    <3>1. CASE u = 2
      BY <1>4, <3>1
    <3>2. CASE u = 3
      BY <1>4, <3>2
    <3> QED BY <1>6, <3>1, <3>2
  <2>3. u * 2^t \in Nat \ {0} /\ u * 2^t < z /\ y = 2 * 2^t /\ z = 4 * 2^t
    BY <1>4, <2>1, <2>2
  <2>4. u \in {1, 2, 3} /\ t \in 0 .. MantissaBits - 1 /\ t \in 0 .. MaxPower
    BY <1>1, <1>6
  <2> QED BY <1>6, <2>3, <2>4 DEF y, z, p
<1> QED BY <1>5, <1>6 DEF IsRatio

\* The quotient of m * 2^e and a ratio, scaled by s, is rounded up to a number of
\* samples.
IsRoundedUp(m, e, u, h, t, s, f) ==
  Ceiling([m |-> NearestToQuotient(m * 2^s, u * 2^t), e |-> f]) =
    (m * 2^e * 2^h + u - 1) \div u

\* It is if the quotient has a fraction.
LEMMA QuotientWithFraction ==
  ASSUME NEW m \in Nat \ {0}, NEW e \in Nat, NEW f \in Int, f < 0,
         NEW u \in Nat, NEW h \in Nat, NEW t \in Nat, NEW s \in Nat,
         u \in {1, 2, 3}, s + f = e + t + h, s <= MaxPower
  PROVE  IsRoundedUp(m, e, u, h, t, s, f)
<1> DEFINE g == - f
<1>0. g \in Nat \ {0} /\ s = e + h + g + t
  OBVIOUS
<1> HIDE DEF g
<1>1. /\ e + h \in Nat /\ e + h <= MaxPower /\ e \in Nat /\ h \in Nat
      /\ (e + h) + g \in Nat /\ (e + h) + g <= MaxPower
      /\ ((e + h) + g) + t <= MaxPower /\ s = ((e + h) + g) + t
  BY <1>0, MaxPowerAssumption
<1>2. /\ 2^(e + h) = 2^e * 2^h
      /\ 2^((e + h) + g) = 2^(e + h) * 2^g
      /\ 2^(((e + h) + g) + t) = 2^((e + h) + g) * 2^t
  BY <1>0, <1>1, PowerOfSum
<1>3. 2^s = (((2^e * 2^h) * 2^g) * 2^t)
  BY <1>1, <1>2
<1> DEFINE a == 2^e
           b == 2^h
           d == 2^g
           x == 2^t
           n == m * a * b
<1>4. a \in Nat \ {0} /\ b \in Nat \ {0} /\ d \in Nat \ {0} /\ x \in Nat \ {0}
  <2>1. e \in 0 .. MaxPower /\ h \in 0 .. MaxPower /\ g \in 0 .. MaxPower /\ t \in 0 .. MaxPower
    BY <1>0, <1>1, MaxPowerAssumption
  <2> QED BY <2>1, PowerType
<1>5. d >= 2
  <2>1. 0 \in 0 .. MaxPower /\ g \in 0 .. MaxPower /\ 0 < g
    BY <1>0, <1>1, MaxPowerAssumption
  <2>2. 2 * 2^0 <= 2^g
    BY <2>1, PowersGrow
  <2> QED BY <1>4, <2>2, PowerStep
<1>6. m * 2^s = m * (((a * b) * d) * x)
  BY <1>3
<1> HIDE DEF a, b, d, x
<1>7. n \in Nat \ {0} /\ m * (((a * b) * d) * x) = (n * d) * x /\ n * d \in Nat
  <2>1. a * b \in Nat \ {0} /\ n = m * (a * b)
    BY <1>4
  <2>2. n \in Nat \ {0}
    BY <2>1
  <2>3. n * d \in Nat
    BY <1>4, <2>2
  <2>4. m * (((a * b) * d) * x) = ((m * (a * b)) * d) * x
    <3> DEFINE c == a * b
    <3>1. c \in Nat
      BY <2>1
    <3> HIDE DEF c
    <3>2. m * ((c * d) * x) = ((m * c) * d) * x
      BY <1>4, <3>1
    <3> QED BY <3>2 DEF c
  <2> QED BY <2>1, <2>2, <2>3, <2>4
<1> HIDE DEF n
<1>8. NearestToQuotient((n * d) * x, u * x) = NearestToQuotient(n * d, u)
  BY <1>4, <1>7, Nearest
<1>9. - ((- NearestToQuotient(n * d, u)) \div d) = (n + u - 1) \div u
  BY <1>4, <1>5, <1>7, RoundedUpQuotient
<1>10. NearestToQuotient(m * 2^s, u * x) = NearestToQuotient(n * d, u)
  BY <1>6, <1>7, <1>8
<1>11. - ((- NearestToQuotient(m * 2^s, u * 2^t)) \div 2^g) =
         (m * 2^e * 2^h + u - 1) \div u
  BY <1>9, <1>10 DEF n, a, b, d, x
<1> QED BY <1>11 DEF IsRoundedUp, Ceiling, g

\* And if it has none: this takes a ratio that is a power of two.
LEMMA QuotientWithoutFraction ==
  ASSUME NEW m \in Nat \ {0}, NEW e \in Nat, NEW g \in Nat,
         NEW u \in Nat, NEW h \in Nat, NEW t \in Nat, NEW s \in Nat,
         IsRatio(u, h, t), s + g = e + t + h, s + g <= MaxPower,
         m < 2^MantissaBits, m * 2^e < 2^MantissaBits,
         IsShift(m, u * 2^t, MantissaBits, s)
  PROVE  IsRoundedUp(m, e, u, h, t, s, g)
<1> DEFINE a == 2^e
           b == 2^h
           c == 2^g
           x == 2^s
           y == 2^t
<1>1. /\ u \in {1, 2, 3} /\ h \in {0, 1} /\ t \in 0 .. MaxPower
      /\ u = 1 => 2^(MantissaBits - 1) = y /\ 2^MantissaBits = 2 * y
      /\ u # 1 => h = 0 /\ 2^(MantissaBits - 1) = 2 * y /\ 2^MantissaBits = 4 * y
  BY RatioBounds
<1>2. /\ e \in 0 .. MaxPower /\ h \in 0 .. MaxPower /\ g \in 0 .. MaxPower
      /\ s \in 0 .. MaxPower /\ e + t <= MaxPower /\ e + h <= MaxPower
  BY <1>1, MaxPowerAssumption
<1>3. a \in Nat \ {0} /\ b \in Nat \ {0} /\ c \in Nat \ {0} /\ x \in Nat \ {0}
      /\ y \in Nat \ {0}
  BY <1>1, <1>2, PowerType
<1>4. (u * y) * 2^(MantissaBits - 1) <= m * x /\ m < 2^MantissaBits /\ m * a < 2^MantissaBits
  BY DEF IsShift
<1>5. CASE u # 1
  <2>1. x * c = a * y
    <3>1. s + g = e + t
      BY <1>1, <1>5
    <3>2. 2^(s + g) = 2^s * 2^g /\ 2^(e + t) = 2^e * 2^t
      BY <1>2, PowerOfSum
    <3> QED BY <3>1, <3>2
  <2>2. (u * y) * (2 * y) <= m * x /\ m * a < 4 * y
    BY <1>1, <1>4, <1>5
  <2> HIDE DEF a, b, c, x, y
  <2>3. (u * y) * (2 * y) >= 4 * (y * y)
    <3>1. CASE u = 2
      BY <1>3, <3>1
    <3>2. CASE u = 3
      BY <1>3, <3>2
    <3> QED BY <1>1, <1>5, <3>1, <3>2
  <2>4. m * x <= (m * x) * c /\ (m * x) * c = m * (x * c)
    BY <1>3
  <2>5. m * (a * y) = (m * a) * y /\ (m * a) * y < (4 * y) * y
    <3>1. m * a \in Nat
      BY <1>3
    <3>2. m * (a * y) = (m * a) * y
      BY <1>3
    <3> DEFINE n == m * a
    <3>3. n \in Nat /\ n < 4 * y
      BY <2>2, <3>1
    <3> HIDE DEF n
    <3>4. n * y < (4 * y) * y
      BY <1>3, <3>3
    <3> QED BY <3>2, <3>4 DEF n
  <2>6. (4 * y) * y = 4 * (y * y)
    BY <1>3
  <2>7. /\ m * x \in Nat /\ (m * x) * c \in Nat /\ (m * a) * y \in Nat /\ y * y \in Nat
        /\ (u * y) * (2 * y) \in Nat
    BY <1>1, <1>3
  <2> QED BY <2>1, <2>2, <2>3, <2>4, <2>5, <2>6, <2>7
<1>6. CASE u = 1
  <2>1. s >= t
    <3> SUFFICES ASSUME s < t PROVE FALSE
      OBVIOUS
    <3>1. 2 * x <= y
      BY <1>1, <1>2, PowersGrow
    <3>2. (1 * y) * y <= m * x /\ m < 2 * y
      BY <1>1, <1>4, <1>6
    <3> HIDE DEF x, y
    <3>3. m * (2 * x) <= m * y /\ m * y < (2 * y) * y
      BY <1>3, <3>1, <3>2
    <3>4. m * (2 * x) = 2 * (m * x) /\ (2 * y) * y = 2 * (y * y) /\ (1 * y) * y = y * y
      BY <1>3
    <3>5. m * x \in Nat /\ m * y \in Nat /\ y * y \in Nat
      BY <1>3
    <3> QED BY <3>2, <3>3, <3>4, <3>5
  <2> DEFINE d == s - t
             z == 2^d
  <2>2. d \in 0 .. MaxPower /\ d + t = s /\ d + g = e + h /\ d \in Nat
        /\ d + g <= MaxPower /\ d + t <= MaxPower
    BY <1>2, <2>1, MaxPowerAssumption
  <2> HIDE DEF d
  <2>3. x = z * y /\ z * c = a * b
    <3>1. 2^(d + t) = 2^d * 2^t /\ 2^(d + g) = 2^d * 2^g /\ 2^(e + h) = 2^e * 2^h
      BY <1>2, <2>2, PowerOfSum
    <3> QED BY <2>2, <3>1
  <2>4. z \in Nat
    BY <2>2, PowerType
  <2> HIDE DEF a, b, c, x, y, z
  <2>5. m * x = (m * z) * y /\ u * y = y /\ m * z \in Nat
    BY <1>3, <1>6, <2>3, <2>4
  <2>6. NearestToQuotient(m * x, u * y) = m * z
    <3>1. NearestToQuotient((m * z) * y, y) = m * z
      BY <1>3, <2>5, Nearest
    <3> QED BY <2>5, <3>1
  <2>7. (m * z) * c = m * a * b
    <3>1. (m * z) * c = m * (z * c) /\ m * (a * b) = m * a * b
      BY <1>3, <2>4
    <3> QED BY <2>3, <3>1
  <2>8. (m * a * b + u - 1) \div u = m * a * b
    <3> DEFINE n == m * a * b
    <3>1. n \in Nat
      BY <1>3
    <3> HIDE DEF n
    <3>2. (n + 1 - 1) \div 1 = n
      BY <3>1
    <3> QED BY <1>6, <3>2 DEF n
  <2>9. NearestToQuotient(m * 2^s, u * 2^t) * 2^g = (m * 2^e * 2^h + u - 1) \div u
    BY <2>6, <2>7, <2>8 DEF a, b, c, x, y
  <2> QED BY <2>9 DEF IsRoundedUp, Ceiling
<1> QED BY <1>5, <1>6

\* A request divided by the ratio and rounded up.
LEMMA CeilingOfRequest ==
  ASSUME NEW n \in Nat \ {0}, n < 2^MantissaBits,
         NEW u \in Nat, NEW h \in Nat, NEW t \in Nat, IsRatio(u, h, t)
  PROVE  Ceiling(Quotient(Float(n, MantissaBits), Ratio(u, h, t), MantissaBits)) =
           (n * Power(h) + u - 1) \div u
<1> DEFINE p == MantissaBits
<1>1. /\ p \in 1 .. MaxPower /\ p \in Nat \ {0} /\ 2 * p <= MaxPower
  BY Bits
<1>2. PICK m \in Nat \ {0}, e \in 0 .. p - 1 :
        m <= n /\ n = m * 2^e /\ Exactly(n) = [m |-> m, e |-> e]
  <2> HIDE DEF p
  <2> QED BY <1>1, ExactNumber DEF p
<1>3. m < 2^p
  <2>1. 2^p \in Nat
    <3>1. p \in 0 .. MaxPower
      BY <1>1
    <3> QED BY <3>1, PowerType
  <2> QED BY <1>2, <2>1
<1>4. Float(n, p) = [m |-> m, e |-> e]
  <2> HIDE DEF p
  <2> QED BY <1>1, <1>2, <1>3, FloatOfNumber
<1> DEFINE b == u * 2^t
           j == - (t + h)
<1>5. /\ b \in Nat \ {0} /\ b < 2^p /\ u \in {1, 2, 3} /\ h \in {0, 1} /\ t \in 0 .. p - 1
      /\ j \in Int /\ e \in Int
  BY RatioBounds, <1>1, <1>2
<1>6. IsQuotient(m, e, b, j, p)
  <2> HIDE DEF p, b, j
  <2> QED BY <1>1, <1>3, <1>5, QuotientOfFloats
<1>7. PICK s \in 0 .. 2 * p - 1 :
        /\ IsShift(m, b, p, s)
        /\ Quotient([m |-> m, e |-> e], [m |-> b, e |-> j], p) =
             [m |-> NearestToQuotient(m * 2^s, b), e |-> e - j - s]
  <2> HIDE DEF p, b, j
  <2> QED BY <1>6 DEF IsQuotient
<1> DEFINE f == e - j - s
<1>8. f \in Int /\ s + f = e + t + h /\ s \in Nat /\ e \in Nat /\ e <= p - 1 /\ t <= p - 1
      /\ s <= MaxPower
  BY <1>1, <1>2, <1>5, <1>7, MaxPowerAssumption
<1>9. m < 2^MantissaBits /\ m * 2^e < 2^MantissaBits /\ IsShift(m, u * 2^t, MantissaBits, s)
  BY <1>2, <1>3, <1>7
<1>10. Quotient(Float(n, p), Ratio(u, h, t), p) =
         [m |-> NearestToQuotient(m * 2^s, u * 2^t), e |-> f]
  <2> HIDE DEF p
  <2> QED BY <1>4, <1>7 DEF Ratio
<1> HIDE DEF f
<1>11. IsRoundedUp(m, e, u, h, t, s, f)
  <2>1. CASE f < 0
    BY <1>5, <1>8, <2>1, QuotientWithFraction
  <2>2. CASE ~ (f < 0)
    <3>1. f \in Nat /\ s + f <= MaxPower
      BY <1>1, <1>5, <1>8, <2>2, MaxPowerAssumption
    <3> QED BY <1>8, <1>9, <3>1, QuotientWithoutFraction
  <2> QED BY <2>1, <2>2
<1>12. m * 2^e * 2^h = n * Power(h)
  BY <1>2 DEF Power
<1> HIDE DEF p
<1> QED BY <1>10, <1>11, <1>12 DEF IsRoundedUp, p

-----------------------------------------------------------------------------
(***************************************************************************)
(* The durations of the decoder.                                           *)
(***************************************************************************)

\* The values of the powers that occur.
LEMMA Powers ==
  /\ Power(0) = 1 /\ Power(2) = 4 /\ Power(3) = 8 /\ Power(4) = 16 /\ Power(7) = 128
  /\ Power(13) = 8192 /\ Power(14) = 16384 /\ Power(23) = 8388608
  /\ Power(27) = 134217728 /\ Power(28) = 268435456 /\ Power(30) = 1073741824
BY SMT DEF Power

\* Four hundredths, or eight, are 10737418 * 2^(i - 30) in 24 bits.
LEMMA Hundredths ==
  ASSUME NEW i \in Int
  PROVE  Quotient([m |-> 1, e |-> i], [m |-> 25, e |-> 2], 24) =
           [m |-> 10737418, e |-> i - 30]
<1>1. ASSUME NEW a \in Nat \ {0}, NEW b \in Nat \ {0}, NEW j \in Int, NEW p \in Nat,
             NEW k \in Int, k = p - 1 + Log2(b) - Log2(a),
             a * Power(k) < b * Power(p - 1)
      PROVE  Quotient([m |-> a, e |-> i], [m |-> b, e |-> j], p) =
               [m |-> NearestToQuotient(a * Power(k + 1), b), e |-> i - j - (k + 1)]
  <2>1. ~ (a * 2^k >= b * 2^(p - 1))
    BY <1>1, SMT DEF Power
  <2> QED BY <1>1, <2>1, SMT DEF Quotient, Power
<1>2. Log2(1) = 0 /\ Log2(25) = 4
  <2>1. \A n \in Nat, k \in 0 .. MaxPower : Power(k) <= n /\ n < 2 * Power(k) => Log2(n) = k
    BY HighestPower, SMT DEF Power
  <2> QED BY <2>1, Powers, MaxPowerAssumption, SMT
<1>3. 27 = 24 - 1 + Log2(25) - Log2(1) /\ 1 * Power(27) < 25 * Power(24 - 1)
  BY <1>2, Powers, SMT
<1>4. Quotient([m |-> 1, e |-> i], [m |-> 25, e |-> 2], 24) =
        [m |-> NearestToQuotient(1 * Power(27 + 1), 25), e |-> i - 2 - (27 + 1)]
  BY <1>1, <1>3, SMT
<1>5. NearestToQuotient(1 * Power(27 + 1), 25) = 10737418
  <2>1. Power(27 + 1) = 268435456
    BY Powers, SMT
  <2>2. 268435456 \div 25 = 10737418 /\ 268435456 % 25 = 6
    BY SMT
  <2> QED BY <2>1, <2>2, SMT DEF NearestToQuotient
<1> QED BY <1>4, <1>5, SMT

\* Times the sample rate they are 10485760 * 2^(i - 16).
LEMMA HundredthsOfSeconds ==
  ASSUME NEW i \in Int
  PROVE  Product([m |-> 10737418, e |-> i - 30], [m |-> 125, e |-> 7], 24) =
           [m |-> 10485760, e |-> i - 16]
<1>1. ASSUME NEW a \in Nat \ {0}, NEW f \in Int, NEW p \in Nat, NEW k \in Nat \ {0},
             k = Log2(a) + 1 - p
      PROVE  Rounded([m |-> a, e |-> f], p) =
               [m |-> NearestToQuotient(a, Power(k)), e |-> f + k]
  BY <1>1, SMT DEF Rounded, Power
<1>2. Log2(1342177250) = 30
  <2>1. \A n \in Nat, k \in 0 .. MaxPower : Power(k) <= n /\ n < 2 * Power(k) => Log2(n) = k
    BY HighestPower, SMT DEF Power
  <2> QED BY <2>1, Powers, MaxPowerAssumption, SMT
<1>3. Rounded([m |-> 1342177250, e |-> i - 23], 24) =
        [m |-> NearestToQuotient(1342177250, Power(7)), e |-> i - 23 + 7]
  BY <1>1, <1>2, SMT
<1>4. NearestToQuotient(1342177250, Power(7)) = 10485760
  <2>1. 1342177250 \div 128 = 10485759 /\ 1342177250 % 128 = 98
    BY SMT
  <2> QED BY <2>1, Powers, SMT DEF NearestToQuotient
<1>5. 10737418 * 125 = 1342177250 /\ i - 30 + 7 = i - 23 /\ i - 23 + 7 = i - 16
  BY SMT
<1> QED BY <1>3, <1>4, <1>5, SMT DEF Product

\* The durations are four hops and two.
LEMMA Durations == ConcealmentDurationSamples = 1280 /\ FadeDurationSamples = 640
<1>1. IsFloatOf(8, 1, 3) /\ IsFloatOf(4, 1, 2) /\ IsFloatOf(100, 25, 2)
      /\ IsFloatOf(16000, 125, 7)
  BY Powers, MaxPowerAssumption, FloatOfOdd, SMT
<1>2. ASSUME NEW n, NEW i \in Int, Exactly(n) = [m |-> 1, e |-> i]
      PROVE  DurationSamples(n) = Truncated([m |-> 10485760, e |-> i - 16])
  <2>1. Quotient(Exactly(n), Exactly(100), 24) = [m |-> 10737418, e |-> i - 30]
    BY <1>1, <1>2, Hundredths, SMT DEF IsFloatOf
  <2>2. Product([m |-> 10737418, e |-> i - 30], Exactly(16000), 24) =
          [m |-> 10485760, e |-> i - 16]
    BY <1>1, HundredthsOfSeconds, SMT DEF IsFloatOf
  <2> QED BY <2>1, <2>2, SMT DEF DurationSamples, kInternalSampleRateHz
<1>3. /\ DurationSamples(8) = Truncated([m |-> 10485760, e |-> 3 - 16])
      /\ DurationSamples(4) = Truncated([m |-> 10485760, e |-> 2 - 16])
  BY <1>1, <1>2, SMT DEF IsFloatOf
<1>4. ASSUME NEW n \in Nat, NEW k \in Nat \ {0}
      PROVE  Truncated([m |-> n, e |-> - k]) = n \div Power(k)
  BY <1>4, SMT DEF Truncated, Power
<1>5. 10485760 \div 8192 = 1280 /\ 10485760 \div 16384 = 640
  BY SMT
<1>6. 3 - 16 = - 13 /\ 2 - 16 = - 14
  BY SMT
<1>7. Truncated([m |-> 10485760, e |-> 3 - 16]) = 1280
  BY <1>4, <1>5, <1>6, Powers, SMT
<1>8. Truncated([m |-> 10485760, e |-> 2 - 16]) = 640
  BY <1>4, <1>5, <1>6, Powers, SMT
<1> QED BY <1>3, <1>7, <1>8, SMT DEF ConcealmentDurationSamples, FadeDurationSamples

-----------------------------------------------------------------------------
(***************************************************************************)
(* The life of a decoder.                                                  *)
(***************************************************************************)

\* The inductive invariant.  A decoder that is in use or being created has
\* parameters that passed AreParamsSupported and model files of a client; only a
\* decoder in use has a request.  Without the first nothing is known of the rate
\* the floats divide by, without the second a Create could change it while a
\* request runs.
CreationInvariant ==
  /\ stage \in 0 .. Len(Parts)
  /\ handle \in BOOLEAN
  /\ handle => stage = 0
  /\ stage > 0 \/ handle =>
       /\ AreParamsSupported(params.sample_rate_hz, params.num_channels, params.models)
       /\ params.models \in ModelFiles
  /\ requested \in Requests \union {0}
  /\ requested > 0 => handle
  /\ NoCheckFails
  /\ FloatsCountExactly

\* The floats come to the quotient, rounded up, for every number they can hold.
LEMMA NumbersAreCounted ==
  ASSUME params.sample_rate_hz \in kSupportedSampleRates,
         NEW n \in Nat \ {0}, n < 2^MantissaBits
  PROVE  InternalNumSamplesToGenerate(n) = (n * Down + Up - 1) \div Up
<1> DEFINE rate == params.sample_rate_hz
<1>2. PICK u \in Nat, h \in Nat, t \in Nat : HasRatio(rate, u, h, t)
  BY RatioOfRate
<1>3. u = Up /\ Power(h) = Down /\ IsRatio(u, h, t)
  BY <1>2 DEF HasRatio, Up, Down, kInternalSampleRateHz
<1>4. InternalNumSamplesToGenerate(n) =
        Ceiling(Quotient(Float(n, MantissaBits), Ratio(u, h, t), MantissaBits))
  BY <1>2 DEF HasRatio, InternalNumSamplesToGenerate, kInternalSampleRateHz
<1> QED BY <1>3, <1>4, CeilingOfRequest

\* For a request, that is what the resampler needs.
LEMMA RequestsAreCounted ==
  ASSUME params.sample_rate_hz \in kSupportedSampleRates, NEW n \in Requests
  PROVE  InternalNumSamplesToGenerate(n) =
           Resampling(Up, Down)!InternalSamplesToGenerate(0, n)
<1>1. n \in Nat \ {0} /\ n < 2^MantissaBits
  <2>1. 2^MantissaBits \in Nat
    <3>1. MantissaBits \in 0 .. MaxPower
      BY Bits
    <3> QED BY <3>1, PowerType
  <2>2. n \in 1 .. 2^MantissaBits - 1
    BY RequestAssumption
  <2> QED BY <2>1, <2>2
<1>5. InternalNumSamplesToGenerate(n) = (n * Down + Up - 1) \div Up
  BY <1>1, NumbersAreCounted
<1>6. ~ (n <= 0) /\ n - 0 = n
  BY <1>1
<1> QED BY <1>5, <1>6 DEF Resampling!InternalSamplesToGenerate

\* A packet of a supported rate is a hop, as the resampler makes it and in floats.
LEMMA PacketIsHop ==
  ASSUME params.sample_rate_hz \in kSupportedSampleRates
  PROVE  /\ params.sample_rate_hz % 50 = 0
         /\ Up \in Nat \ {0} /\ Down \in Nat \ {0} /\ (Up = 1 \/ Down = 1)
         /\ (320 * Up) \div Down = NumSamplesPerPacket
         /\ InternalNumSamplesToGenerate(NumSamplesPerPacket) = 320
<1> DEFINE rate == params.sample_rate_hz
           packet == NumSamplesPerPacket
<1>1. /\ rate % 50 = 0
      /\ Up \in Nat \ {0} /\ Down \in Nat \ {0} /\ (Up = 1 \/ Down = 1)
      /\ packet \in 1 .. 960
      /\ (320 * Up) \div Down = packet
      /\ (packet * Down + Up - 1) \div Up = 320
  <2>1. CASE rate = 8000
    <3>1. Up = 1 /\ Down = 2 /\ packet = 160
      BY <2>1 DEF Up, Down, Least, NumSamplesPerPacket, kInternalSampleRateHz
    <3> QED BY <2>1, <3>1
  <2>2. CASE rate = 16000
    <3>1. Up = 1 /\ Down = 1 /\ packet = 320
      BY <2>2 DEF Up, Down, Least, NumSamplesPerPacket, kInternalSampleRateHz
    <3> QED BY <2>2, <3>1
  <2>3. CASE rate = 32000
    <3>1. Up = 2 /\ Down = 1 /\ packet = 640
      BY <2>3 DEF Up, Down, Least, NumSamplesPerPacket, kInternalSampleRateHz
    <3> QED BY <2>3, <3>1
  <2>4. CASE rate = 48000
    <3>1. Up = 3 /\ Down = 1 /\ packet = 960
      BY <2>4 DEF Up, Down, Least, NumSamplesPerPacket, kInternalSampleRateHz
    <3> QED BY <2>4, <3>1
  <2> QED BY <2>1, <2>2, <2>3, <2>4 DEF kSupportedSampleRates
<1> HIDE DEF packet
<1>2. packet \in Nat \ {0} /\ packet < 2^MantissaBits
  <2>1. 2^MantissaBits \in Nat
    <3>1. MantissaBits \in 0 .. MaxPower
      BY Bits
    <3> QED BY <3>1, PowerType
  <2> QED BY <1>1, <2>1, Bits
<1>3. InternalNumSamplesToGenerate(packet) = 320
  BY <1>1, <1>2, NumbersAreCounted
<1> QED BY <1>1, <1>3 DEF packet

\* Supported parameters belong together.
LEMMA SupportedPartsFit ==
  ASSUME AreParamsSupported(params.sample_rate_hz, params.num_channels, params.models),
         params.models \in ModelFiles
  PROVE  PartsFitTogether
<1> DEFINE hop == GetNumSamplesPerHop(kInternalSampleRateHz)
<1>1. hop = 320
  BY DEF GetNumSamplesPerHop, kInternalSampleRateHz, kFrameRate
<1> HIDE DEF hop
<1>2. /\ params.sample_rate_hz % kFrameRate = 0
      /\ Up \in Nat \ {0} /\ Down \in Nat \ {0} /\ (Up = 1 \/ Down = 1)
      /\ (hop * Up) \div Down = NumSamplesPerPacket
      /\ InternalNumSamplesToGenerate(NumSamplesPerPacket) = hop
  BY <1>1, PacketIsHop DEF AreParamsSupported, kFrameRate
<1>3. Resampling(Up, Down)!RatioAssumption
  BY <1>2 DEF Resampling!RatioAssumption
<1>4. Resampling(Up, Down)!NumResampled(hop) = NumSamplesPerPacket
  BY <1>2 DEF Resampling!NumResampled
<1>5. ConcealmentDurationSamples = 4 * hop /\ FadeDurationSamples = 2 * hop
  BY <1>1, Durations
<1>6. \A part \in {"comfort_noise_generator", "noise_estimator"} : NumSamplesPerHop(part) = hop
  BY DEF NumSamplesPerHop, hop
<1>7. /\ NumFeatures("generative_model") = kNumFeatures
      /\ NumFeatures("feature_estimator") = kNumFeatures
      /\ NumFeatures("noise_estimator") = kNumMelBins
      /\ NumFeatures("comfort_noise_generator") = kNumMelBins
      /\ NumFeatures("vector_quantizer") = params.models.num_features
  BY DEF NumFeatures
<1>8. ASSUME FilesOfThisVersionFit
      PROVE  /\ NumSamplesPerHop("generative_model") = hop
             /\ params.models.num_features = kNumFeatures
             /\ \A bits \in SupportedQuantizedBits :
                  bits % params.models.bits_per_quantizer = 0
  BY <1>8 DEF FilesOfThisVersionFit, AreParamsSupported, NumSamplesPerHop, hop
<1> QED BY <1>2, <1>3, <1>4, <1>5, <1>6, <1>7, <1>8 DEF PartsFitTogether, hop

\* There are six parts.
LEMMA PartsType == Len(Parts) = 6 /\ DOMAIN Parts = 1 .. 6
BY DEF Parts

\* The CHECKs hold for parameters that are supported.
LEMMA ChecksHold ==
  /\ kInternalSampleRateHz % kFrameRate = 0
  /\ params.sample_rate_hz \in kSupportedSampleRates => RatioIsWhole
  /\ DurationsAreWholeHops
<1>1. kInternalSampleRateHz % kFrameRate = 0
  BY DEF kInternalSampleRateHz, kFrameRate
<1>2. ASSUME params.sample_rate_hz \in kSupportedSampleRates PROVE RatioIsWhole
  <2> DEFINE rate == params.sample_rate_hz
  <2>1. \/ rate = 8000 \/ rate = 16000 \/ rate = 32000 \/ rate = 48000
    BY <1>2 DEF kSupportedSampleRates
  <2> HIDE DEF rate
  <2>2. IF rate > 16000 THEN rate % 16000 = 0 ELSE 16000 % rate = 0
    BY <2>1
  <2> QED BY <2>2 DEF RatioIsWhole, kInternalSampleRateHz, rate
<1>3. DurationsAreWholeHops
  <2>1. GetNumSamplesPerHop(kInternalSampleRateHz) = 320
    BY DEF GetNumSamplesPerHop, kInternalSampleRateHz, kFrameRate
  <2>2. 1280 % 320 = 0 /\ 640 % 320 = 0
    OBVIOUS
  <2> QED BY <2>1, <2>2, Durations DEF DurationsAreWholeHops
<1> QED BY <1>1, <1>2, <1>3

\* The invariant holds of a process in which no decoder was created yet.
LEMMA InitCreation == Init => CreationInvariant
<1> SUFFICES ASSUME Init PROVE CreationInvariant
  OBVIOUS
<1>1. /\ stage \in 0 .. Len(Parts) /\ ~ (stage > 0) /\ handle = FALSE /\ requested = 0
      /\ ~ (requested > 0) /\ ended = "no"
  BY PartsType DEF Init
<1> QED BY <1>1 DEF CreationInvariant, NoCheckFails, FloatsCountExactly

\* init starts to create a decoder.
LEMMA StartCreateStep ==
  ASSUME CreationInvariant, NEW rate \in SampleRates, NEW channels \in Channels,
         NEW models \in ModelFiles, StartCreate(rate, channels, models)
  PROVE  CreationInvariant'
<1>1. stage = 0 /\ ~ handle /\ handle' = handle /\ requested' = requested
  BY DEF StartCreate
<1>2. requested = 0
  BY <1>1, RequestAssumption DEF CreationInvariant
<1>3. /\ params'.sample_rate_hz = rate /\ params'.num_channels = channels
      /\ params'.models = models
  BY DEF StartCreate
<1>4. stage' \in {0, 1} /\ (stage' = 1 <=> AreParamsSupported(rate, channels, models))
  BY DEF StartCreate
<1>5. ended' = "no"
  BY ChecksHold DEF StartCreate
<1>6. FloatsCountExactly'
  BY <1>1, <1>2 DEF FloatsCountExactly
<1>7. /\ stage' > 0 => AreParamsSupported(params'.sample_rate_hz, params'.num_channels,
                                          params'.models)
      /\ params'.models \in ModelFiles
  BY <1>3, <1>4
<1> QED BY <1>1, <1>2, <1>4, <1>5, <1>6, <1>7, PartsType
    DEF CreationInvariant, NoCheckFails, AreParamsSupported

\* A part is created.
LEMMA CreatePartStep ==
  ASSUME CreationInvariant, NEW library \in Libraries, CreatePart(library)
  PROVE  CreationInvariant'
<1>1. /\ stage \in 1 .. 6 /\ ~ handle
      /\ params' = params /\ requested' = requested
      /\ stage' = IF stage = 6 THEN 0 ELSE stage + 1
      /\ handle' = (stage = 6)
  BY PartsType DEF CreationInvariant, CreatePart
<1>2. requested = 0
  BY <1>1, RequestAssumption DEF CreationInvariant
<1>3. /\ AreParamsSupported(params.sample_rate_hz, params.num_channels, params.models)
      /\ params.models \in ModelFiles
  BY <1>1 DEF CreationInvariant
<1>4. ended' = "no"
  BY <1>3, ChecksHold DEF CreatePart, AreParamsSupported
<1>5. FloatsCountExactly'
  BY <1>1, <1>2 DEF FloatsCountExactly
<1> QED BY <1>1, <1>2, <1>3, <1>4, <1>5, PartsType
    DEF CreationInvariant, NoCheckFails, AreParamsSupported

\* A part cannot be created.
LEMMA FailPartStep ==
  ASSUME CreationInvariant, NEW library \in Libraries, FailPart(library)
  PROVE  CreationInvariant'
<1>1. /\ stage' = 0 /\ ~ handle /\ handle' = handle
      /\ requested' = requested /\ ended' = ended
  BY DEF CreationInvariant, FailPart
<1>2. requested = 0
  BY <1>1, RequestAssumption DEF CreationInvariant
<1> QED BY <1>1, <1>2, PartsType
    DEF CreationInvariant, NoCheckFails, FloatsCountExactly

\* The process ends, but not at a CHECK.
LEMMA UseNullDelegateStep ==
  ASSUME CreationInvariant, NEW library \in Libraries, UseNullDelegate(library)
  PROVE  CreationInvariant'
<1>1. /\ stage > 0 /\ stage' = stage /\ handle' = handle /\ params' = params
      /\ requested' = requested /\ generated' = generated /\ ended' = "null_pointer"
  BY DEF UseNullDelegate
<1>2. ~ (requested > 0)
  BY <1>1, PartsType DEF CreationInvariant
<1> QED BY <1>1, <1>2
    DEF CreationInvariant, NoCheckFails, FloatsCountExactly, AreParamsSupported

\* The client asks for samples.
LEMMA DecodeSamplesStep ==
  ASSUME CreationInvariant, NEW n \in Requests, DecodeSamples(n)
  PROVE  CreationInvariant'
<1>1. /\ handle /\ stage = 0 /\ handle' = handle /\ stage' = stage
      /\ params' = params /\ requested' = n
      /\ generated' = InternalNumSamplesToGenerate(n)
  BY DEF CreationInvariant, DecodeSamples
<1>2. /\ AreParamsSupported(params.sample_rate_hz, params.num_channels, params.models)
      /\ params.models \in ModelFiles
  BY <1>1 DEF CreationInvariant
<1>3. ended' = "no"
  BY ChecksHold DEF DecodeSamples
<1>4. generated' = Resampling(Up, Down)!InternalSamplesToGenerate(0, n)
  BY <1>1, <1>2, RequestsAreCounted DEF AreParamsSupported
<1>5. Up' = Up /\ Down' = Down
  BY <1>1 DEF Up, Down
<1>6. FloatsCountExactly'
  BY <1>1, <1>4, <1>5 DEF FloatsCountExactly, Resampling!InternalSamplesToGenerate
<1> QED BY <1>1, <1>2, <1>3, <1>6, PartsType
    DEF CreationInvariant, NoCheckFails, AreParamsSupported

\* The samples are there.
LEMMA ReturnSamplesStep ==
  ASSUME CreationInvariant, ReturnSamples
  PROVE  CreationInvariant'
<1>1. /\ requested' = 0 /\ handle' = handle /\ stage' = stage /\ params' = params
      /\ ended' = ended
  BY DEF ReturnSamples
<1> QED BY <1>1
    DEF CreationInvariant, NoCheckFails, FloatsCountExactly, AreParamsSupported

\* The decoder is deleted.
LEMMA ReleaseStep ==
  ASSUME CreationInvariant, Release
  PROVE  CreationInvariant'
<1>1. /\ handle /\ stage = 0 /\ requested = 0 /\ requested' = 0 /\ ~ handle'
      /\ handle' = FALSE /\ stage' = 0 /\ ended' = ended
  BY DEF CreationInvariant, Release
<1>2. stage' \in 0 .. Len(Parts) /\ ~ (stage' > 0) /\ ~ (requested' > 0)
  BY <1>1, PartsType
<1> QED BY <1>1, <1>2 DEF CreationInvariant, NoCheckFails, FloatsCountExactly

\* Every step preserves the invariant.
LEMMA CreationStep == CreationInvariant /\ [Next]_vars => CreationInvariant'
<1> SUFFICES ASSUME CreationInvariant, [Next]_vars PROVE CreationInvariant'
  OBVIOUS
<1>1. CASE \E rate \in SampleRates, channels \in Channels, models \in ModelFiles :
             StartCreate(rate, channels, models)
  BY <1>1, StartCreateStep
<1>2. CASE \E library \in Libraries :
             CreatePart(library) \/ FailPart(library) \/ UseNullDelegate(library)
  BY <1>2, CreatePartStep, FailPartStep, UseNullDelegateStep
<1>3. CASE \E n \in Requests : DecodeSamples(n)
  BY <1>3, DecodeSamplesStep
<1>4. CASE ReturnSamples
  BY <1>4, ReturnSamplesStep
<1>5. CASE Release
  BY <1>5, ReleaseStep
<1>6. CASE UNCHANGED vars
  <2>1. /\ params' = params /\ stage' = stage /\ handle' = handle
        /\ ended' = ended /\ requested' = requested /\ generated' = generated
    BY <1>6 DEF vars
  <2>2. Up' = Up /\ Down' = Down
    BY <2>1 DEF Up, Down
  <2>3. FloatsCountExactly'
    BY <2>1, <2>2
    DEF CreationInvariant, FloatsCountExactly, Resampling!InternalSamplesToGenerate
  <2> QED BY <2>1, <2>3 DEF CreationInvariant, NoCheckFails, AreParamsSupported
<1> QED BY <1>1, <1>2, <1>3, <1>4, <1>5, <1>6 DEF Next

\* It always holds.
THEOREM CreationIsInvariant == Spec => []CreationInvariant
BY InitCreation, CreationStep, PTL DEF Spec

\* Whatever rate, channels and files a client comes with, no CHECK on the hop,
\* on the ratio of the rates or on the durations ends the process.
THEOREM NoCheckEverFails == Spec => []NoCheckFails
<1>1. CreationInvariant => NoCheckFails
  BY DEF CreationInvariant
<1> QED BY <1>1, CreationIsInvariant, PTL

\* The parts of every decoder init hands out were made for each other: at every
\* supported rate a packet is a whole number of samples that takes one hop, by the
\* ratio and in floats of any number of bits from 10, and those who make features agree
\* with those who take them.  Of the parts that come from the files it says so only
\* if all files with the identifier of this code have the sizes it expects, for
\* that is all Create asks of them.
THEOREM PartsAlwaysFitTogether == Spec => []PartsFitTogether
<1>1. CreationInvariant => PartsFitTogether
  <2>1. CASE handle
    BY <2>1, SupportedPartsFit DEF CreationInvariant
  <2>2. CASE ~ handle
    BY <2>2 DEF PartsFitTogether
  <2> QED BY <2>1, <2>2
<1> QED BY <1>1, CreationIsInvariant, PTL

\* The floats a request is divided in come to the samples it takes, for floats of
\* any number of bits from 10 and every request that is a whole number in them.
THEOREM FloatsAlwaysCountExactly == Spec => []FloatsCountExactly
<1>1. CreationInvariant => FloatsCountExactly
  BY DEF CreationInvariant
<1> QED BY <1>1, CreationIsInvariant, PTL
=============================================================================
