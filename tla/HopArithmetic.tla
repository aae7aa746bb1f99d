---------------------------- MODULE HopArithmetic ----------------------------
(***************************************************************************)
(* Facts about multiples of the hop and positions in a hop, for every      *)
(* length of the hop, and about the samples a queue of feature vectors     *)
(* owes.  The proofs about the decoder rest on the former: all its         *)
(* counters are compared at hop boundaries.  Those about the two           *)
(* generators rest on the latter: adding features appends a hop to what is *)
(* owed, and samples that are handed out are cut off its front.            *)
(***************************************************************************)
EXTENDS GenerativeModel, SequenceTheorems, TLAPS

-----------------------------------------------------------------------------
(***************************************************************************)
(* Hops.                                                                   *)
(***************************************************************************)

\* Every number of samples is a number of whole hops and a position in a hop.
LEMMA WholeHops ==
  ASSUME NEW x \in Int
  PROVE  /\ x % NumSamplesPerHop \in 0 .. NumSamplesPerHop - 1
         /\ \E q \in Int : x = q * NumSamplesPerHop + (x % NumSamplesPerHop)
<1>1. x = (x \div NumSamplesPerHop) * NumSamplesPerHop + (x % NumSamplesPerHop)
  BY HopAssumption
<1>2. x \div NumSamplesPerHop \in Int
  BY HopAssumption
<1>3. x % NumSamplesPerHop \in 0 .. NumSamplesPerHop - 1
  BY HopAssumption
<1> QED BY <1>1, <1>2, <1>3

\* Whole hops do not change the position in a hop.
LEMMA PositionInHop ==
  ASSUME NEW q \in Int, NEW r \in 0 .. NumSamplesPerHop - 1
  PROVE  (q * NumSamplesPerHop + r) % NumSamplesPerHop = r
BY HopAssumption

\* Samples that stay inside the hop move the position, samples that fill the
\* hop bring it back to the beginning.
LEMMA MoveInHop ==
  ASSUME NEW x \in Int, NEW n \in Nat,
         n <= NumSamplesPerHop - (x % NumSamplesPerHop)
  PROVE  (x + n) % NumSamplesPerHop =
           IF n = NumSamplesPerHop - (x % NumSamplesPerHop) THEN 0
           ELSE (x % NumSamplesPerHop) + n
<1> DEFINE r == x % NumSamplesPerHop
<1>1. PICK q \in Int : x = q * NumSamplesPerHop + r
  BY WholeHops
<1>2. r \in 0 .. NumSamplesPerHop - 1
  BY WholeHops
<1> HIDE DEF r
<1>3. CASE n = NumSamplesPerHop - r
  <2>1. x + n = (q + 1) * NumSamplesPerHop + 0
    BY <1>1, <1>2, <1>3, HopAssumption
  <2> QED BY <2>1, <1>3, PositionInHop, HopAssumption DEF r
<1>4. CASE n < NumSamplesPerHop - r
  <2>1. x + n = q * NumSamplesPerHop + (r + n)
    BY <1>1, <1>2, <1>4, HopAssumption
  <2>2. r + n \in 0 .. NumSamplesPerHop - 1
    BY <1>2, <1>4, HopAssumption
  <2> QED BY <2>1, <2>2, <1>2, <1>4, PositionInHop, HopAssumption DEF r
<1> QED BY <1>2, <1>3, <1>4, HopAssumption DEF r

\* A hop more or less is at the same position.
LEMMA HopShift ==
  ASSUME NEW x \in Int
  PROVE  /\ (x + NumSamplesPerHop) % NumSamplesPerHop = x % NumSamplesPerHop
         /\ (x - NumSamplesPerHop) % NumSamplesPerHop = x % NumSamplesPerHop
<1> DEFINE r == x % NumSamplesPerHop
<1>1. PICK q \in Int : x = q * NumSamplesPerHop + r
  BY WholeHops
<1>2. r \in 0 .. NumSamplesPerHop - 1
  BY WholeHops
<1> HIDE DEF r
<1>3. /\ x + NumSamplesPerHop = (q + 1) * NumSamplesPerHop + r
      /\ x - NumSamplesPerHop = (q - 1) * NumSamplesPerHop + r
  BY <1>1, <1>2, HopAssumption
<1> QED BY <1>2, <1>3, PositionInHop DEF r

\* Between two hop boundaries there is at least a hop.
LEMMA HopGap ==
  ASSUME NEW x \in Int, NEW y \in Int, x < y,
         x % NumSamplesPerHop = 0, y % NumSamplesPerHop = 0
  PROVE  x + NumSamplesPerHop <= y
<1>a. PICK i \in Int : x = i * NumSamplesPerHop + (x % NumSamplesPerHop)
  BY WholeHops
<1>b. PICK j \in Int : y = j * NumSamplesPerHop + (y % NumSamplesPerHop)
  BY WholeHops
<1>1. x = i * NumSamplesPerHop
  BY <1>a, HopAssumption
<1>2. y = j * NumSamplesPerHop
  BY <1>b, HopAssumption
<1>3. i < j
  BY <1>1, <1>2, HopAssumption
<1>4. (j - i - 1) * NumSamplesPerHop >= 0
  BY <1>3, HopAssumption
<1> QED BY <1>1, <1>2, <1>4, HopAssumption

\* The rest of the hop in which x lies ends before the next boundary y.
LEMMA RestOfHop ==
  ASSUME NEW x \in Int, NEW y \in Int, x < y, y % NumSamplesPerHop = 0
  PROVE  x + (NumSamplesPerHop - (x % NumSamplesPerHop)) <= y
<1> DEFINE r == x % NumSamplesPerHop
<1>1. PICK q \in Int : x = q * NumSamplesPerHop + r
  BY WholeHops
<1>2. r \in 0 .. NumSamplesPerHop - 1
  BY WholeHops
<1> HIDE DEF r
<1>3. PICK j \in Int : y = j * NumSamplesPerHop + (y % NumSamplesPerHop)
  BY WholeHops
<1>4. q < j
  BY <1>1, <1>2, <1>3, HopAssumption
<1>5. (j - q - 1) * NumSamplesPerHop >= 0
  BY <1>4, HopAssumption
<1> QED BY <1>1, <1>2, <1>3, <1>5, HopAssumption DEF r

\* Positions in a hop can be counted from any hop boundary y.
LEMMA FromBoundary ==
  ASSUME NEW x \in Int, NEW y \in Int, y % NumSamplesPerHop = 0
  PROVE  (x - y) % NumSamplesPerHop = x % NumSamplesPerHop
<1> DEFINE r == x % NumSamplesPerHop
<1>1. PICK q \in Int : x = q * NumSamplesPerHop + r
  BY WholeHops
<1>2. PICK j \in Int : y = j * NumSamplesPerHop + (y % NumSamplesPerHop)
  BY WholeHops
<1>3. r \in 0 .. NumSamplesPerHop - 1
  BY WholeHops
<1> HIDE DEF r
<1>4. y = j * NumSamplesPerHop
  BY <1>2, HopAssumption
<1>5. x - y = (q - j) * NumSamplesPerHop + r
  BY <1>1, <1>3, <1>4, HopAssumption
<1> QED BY <1>3, <1>5, PositionInHop DEF r

\* The samples available from a model, for a queue of k feature vectors.
LEMMA Available ==
  ASSUME NEW k \in Nat, NEW r \in 0 .. NumSamplesPerHop - 1, r > 0 => k > 0
  PROVE  /\ k > 0 => k * NumSamplesPerHop >= NumSamplesPerHop
         /\ k * NumSamplesPerHop - r \in Nat
         /\ k * NumSamplesPerHop - r > 0 <=> k > 0
         /\ (k * NumSamplesPerHop - r) % NumSamplesPerHop =
              IF r = 0 THEN 0 ELSE NumSamplesPerHop - r
<1>1. k > 0 => (k - 1) * NumSamplesPerHop >= 0
  BY HopAssumption
<1>2. k * NumSamplesPerHop = (k - 1) * NumSamplesPerHop + NumSamplesPerHop
  BY HopAssumption
<1>3. k > 0 => k * NumSamplesPerHop >= NumSamplesPerHop
  BY <1>1, <1>2, HopAssumption
<1>4. k * NumSamplesPerHop - r \in Nat /\ (k * NumSamplesPerHop - r > 0 <=> k > 0)
  BY <1>3, HopAssumption
<1>5. (k * NumSamplesPerHop + 0) % NumSamplesPerHop = 0
  BY PositionInHop, HopAssumption
<1>6. ASSUME r > 0
      PROVE  (k * NumSamplesPerHop - r) % NumSamplesPerHop = NumSamplesPerHop - r
  <2> DEFINE s == NumSamplesPerHop - r
  <2>1. s \in 0 .. NumSamplesPerHop - 1
    BY <1>6, HopAssumption
  <2>2. k * NumSamplesPerHop - r = (k - 1) * NumSamplesPerHop + s
    BY <1>2, HopAssumption
  <2> HIDE DEF s
  <2>3. ((k - 1) * NumSamplesPerHop + s) % NumSamplesPerHop = s
    BY <2>1, PositionInHop
  <2> QED BY <2>2, <2>3 DEF s
<1> QED BY <1>3, <1>4, <1>5, <1>6, HopAssumption

\* No samples are no samples, on either side of zero.
LEMMA MinusZero == - 0 = 0
<1>1. \A z \in Int : - z = 0 - z
  OBVIOUS
<1>2. 0 \in Int
  OBVIOUS
<1>3. - 0 = 0 - 0
  BY <1>1, <1>2, Zenon
<1> QED BY <1>3

-----------------------------------------------------------------------------
(***************************************************************************)
(* What a queue owes.                                                      *)
(***************************************************************************)

\* The samples a queue owes from the position m of its first hop on.
Owed(queue, m) ==
  [ k \in 1 .. Len(queue) * NumSamplesPerHop - m |->
      << queue[((k - 1 + m) \div NumSamplesPerHop) + 1],
         ((k - 1 + m) % NumSamplesPerHop) + 1 >> ]

\* What a position of the stream is in a hop.
Place == 1 .. NumSamplesPerHop

\* The hop of one feature vector.
Hop(features) == [ i \in 1 .. NumSamplesPerHop |-> << features, i >> ]

\* A position in hop d is found in hop d.
LEMMA PlaceInHop ==
  ASSUME NEW d \in Int, NEW x \in Int, NEW r \in 0 .. NumSamplesPerHop - 1,
         x = d * NumSamplesPerHop + r
  PROVE  x \div NumSamplesPerHop = d /\ x % NumSamplesPerHop = r
BY HopAssumption

\* A position before the end of l hops is in one of them.
LEMMA PlaceInQueue ==
  ASSUME NEW x \in Nat, NEW l \in Nat, x < l * NumSamplesPerHop
  PROVE  /\ x \div NumSamplesPerHop \in 0 .. l - 1
         /\ x % NumSamplesPerHop \in 0 .. NumSamplesPerHop - 1
<1> DEFINE d == x \div NumSamplesPerHop
           r == x % NumSamplesPerHop
<1>1. d \in Nat /\ r \in 0 .. NumSamplesPerHop - 1 /\ x = d * NumSamplesPerHop + r
  BY HopAssumption
<1> HIDE DEF d, r
<1>2. d < l
  <2> SUFFICES ASSUME d >= l PROVE FALSE
    BY <1>1
  <2>1. (d - l) * NumSamplesPerHop >= 0
    BY <1>1, HopAssumption
  <2>2. d * NumSamplesPerHop = (d - l) * NumSamplesPerHop + l * NumSamplesPerHop
    BY <1>1, HopAssumption
  <2>3. l * NumSamplesPerHop \in Int /\ (d - l) * NumSamplesPerHop \in Int
    BY <1>1, HopAssumption
  <2> QED BY <1>1, <2>1, <2>2, <2>3
<1> QED BY <1>1, <1>2 DEF d, r

\* What is owed is a sequence of samples, each at its place.
LEMMA OwedSamples ==
  ASSUME NEW F, NEW queue \in Seq(F), NEW m \in 0 .. NumSamplesPerHop - 1,
         m > 0 => queue # <<>>
  PROVE  /\ Owed(queue, m) \in Seq(F \X Place)
         /\ Len(Owed(queue, m)) = Len(queue) * NumSamplesPerHop - m
         /\ Len(queue) * NumSamplesPerHop - m \in Nat
         /\ \A k \in 1 .. Len(queue) * NumSamplesPerHop - m :
              Owed(queue, m)[k] =
                << queue[((k - 1 + m) \div NumSamplesPerHop) + 1],
                   ((k - 1 + m) % NumSamplesPerHop) + 1 >>
<1> DEFINE n == Len(queue) * NumSamplesPerHop - m
           T == F \X Place
           sample(k) == << queue[((k - 1 + m) \div NumSamplesPerHop) + 1],
                           ((k - 1 + m) % NumSamplesPerHop) + 1 >>
<1>1. Len(queue) \in Nat /\ (m > 0 => Len(queue) > 0)
  OBVIOUS
<1>2. n \in Nat
  BY <1>1, Available
<1>3. ASSUME NEW k \in 1 .. n PROVE sample(k) \in T
  <2> DEFINE x == k - 1 + m
  <2>1. x \in Nat /\ x < Len(queue) * NumSamplesPerHop
    BY <1>1, <1>2, <1>3, HopAssumption
  <2> HIDE DEF x
  <2>2. /\ x \div NumSamplesPerHop \in 0 .. Len(queue) - 1
        /\ x % NumSamplesPerHop \in 0 .. NumSamplesPerHop - 1
    BY <1>1, <2>1, PlaceInQueue
  <2>3. (x \div NumSamplesPerHop) + 1 \in 1 .. Len(queue)
    BY <1>1, <2>2
  <2>4. queue[(x \div NumSamplesPerHop) + 1] \in F
    BY <2>3, ElementOfSeq
  <2>5. (x % NumSamplesPerHop) + 1 \in Place
    BY <2>2, HopAssumption DEF Place
  <2> QED BY <2>4, <2>5 DEF x
<1>4. Owed(queue, m) = [ k \in 1 .. n |-> sample(k) ]
  BY DEF Owed
<1> HIDE DEF n, T, sample
<1>5. Owed(queue, m) \in Seq(T) /\ Len(Owed(queue, m)) = n
  BY <1>2, <1>3, <1>4
<1>6. \A k \in 1 .. n : Owed(queue, m)[k] = sample(k)
  BY <1>4
<1> QED BY <1>2, <1>5, <1>6 DEF n, T, sample

\* A hop is a sequence of samples.
LEMMA HopSamples ==
  ASSUME NEW F, NEW features \in F
  PROVE  /\ Hop(features) \in Seq(F \X Place)
         /\ Len(Hop(features)) = NumSamplesPerHop
         /\ \A i \in 1 .. NumSamplesPerHop : Hop(features)[i] = << features, i >>
BY HopAssumption DEF Hop, Place

\* A feature vector is owed as a hop behind what is owed already.
LEMMA OwedAppend ==
  ASSUME NEW F, NEW queue \in Seq(F), NEW m \in 0 .. NumSamplesPerHop - 1,
         m > 0 => queue # <<>>, NEW features \in F
  PROVE  Owed(Append(queue, features), m) = Owed(queue, m) \o Hop(features)
<1> DEFINE l == Len(queue)
           n == Len(queue) * NumSamplesPerHop - m
           longer == Append(queue, features)
           s == Owed(queue, m)
           t == Hop(features)
           u == Owed(longer, m)
           T == F \X Place
<1>1. /\ longer \in Seq(F) /\ longer # <<>> /\ Len(longer) = l + 1 /\ l \in Nat
      /\ \A i \in 1 .. l : longer[i] = queue[i]
      /\ longer[l + 1] = features
  BY AppendProperties
<1>2. /\ s \in Seq(T) /\ Len(s) = n /\ n \in Nat
      /\ \A k \in 1 .. n : s[k] = << queue[((k - 1 + m) \div NumSamplesPerHop) + 1],
                                     ((k - 1 + m) % NumSamplesPerHop) + 1 >>
  BY OwedSamples
<1>3. Len(longer) * NumSamplesPerHop - m = n + NumSamplesPerHop
  BY <1>1, HopAssumption
<1>4. /\ u \in Seq(T) /\ Len(u) = n + NumSamplesPerHop
      /\ \A k \in 1 .. n + NumSamplesPerHop :
           u[k] = << longer[((k - 1 + m) \div NumSamplesPerHop) + 1],
                     ((k - 1 + m) % NumSamplesPerHop) + 1 >>
  <2> HIDE DEF longer, n
  <2>1. /\ u \in Seq(T) /\ Len(u) = Len(longer) * NumSamplesPerHop - m
        /\ \A k \in 1 .. Len(longer) * NumSamplesPerHop - m :
             u[k] = << longer[((k - 1 + m) \div NumSamplesPerHop) + 1],
                       ((k - 1 + m) % NumSamplesPerHop) + 1 >>
    BY <1>1, OwedSamples
  <2> QED BY <1>3, <2>1
<1>5. /\ t \in Seq(T) /\ Len(t) = NumSamplesPerHop
      /\ \A i \in 1 .. NumSamplesPerHop : t[i] = << features, i >>
  BY HopSamples
<1>6. n = l * NumSamplesPerHop - m /\ l * NumSamplesPerHop \in Int
  BY <1>1, HopAssumption
<1> HIDE DEF l, n, longer, s, t, u, T
<1>7. /\ s \o t \in Seq(T) /\ Len(s \o t) = n + NumSamplesPerHop
      /\ \A k \in 1 .. n + NumSamplesPerHop :
           (s \o t)[k] = IF k <= n THEN s[k] ELSE t[k - n]
  BY <1>2, <1>5, ConcatProperties
<1> DEFINE p == l * NumSamplesPerHop
<1>p. n \in Nat /\ p \in Int /\ n = p - m /\ NumSamplesPerHop \in Nat \ {0}
  BY <1>2, <1>6, HopAssumption
<1>8. ASSUME NEW k \in 1 .. n + NumSamplesPerHop
      PROVE  u[k] = (s \o t)[k]
  <2> DEFINE x == k - 1 + m
             d == x \div NumSamplesPerHop
             r == x % NumSamplesPerHop
  <2> HIDE DEF p
  <2>0. k \in Nat /\ k >= 1 /\ k <= n + NumSamplesPerHop
    BY <1>p, <1>8
  <2>1. x \in Nat
    BY <1>p, <2>0
  <2>2. u[k] = << longer[d + 1], r + 1 >>
    BY <1>4, <1>8
  <2>3. (s \o t)[k] = IF k <= n THEN s[k] ELSE t[k - n]
    BY <1>7, <1>8
  <2>4. CASE k <= n
    <3>1. x < p
      BY <1>p, <2>0, <2>4
    <3>2. s[k] = << queue[d + 1], r + 1 >>
      <4>1. k \in 1 .. n
        BY <1>p, <2>0, <2>4
      <4> QED BY <1>2, <4>1
    <3> HIDE DEF x
    <3>3. d \in 0 .. l - 1
      BY <1>1, <2>1, <3>1, PlaceInQueue DEF p
    <3> HIDE DEF d, r
    <3>4. longer[d + 1] = queue[d + 1]
      BY <1>1, <3>3
    <3> QED BY <2>2, <2>3, <2>4, <3>2, <3>4
  <2>5. CASE k > n
    <3>1. /\ k - n - 1 \in 0 .. NumSamplesPerHop - 1
          /\ x = p + (k - n - 1)
      BY <1>p, <2>0, <2>5
    <3> HIDE DEF x
    <3>2. d = l /\ r = k - n - 1
      BY <1>1, <2>1, <3>1, PlaceInHop DEF p
    <3>3. k - n \in 1 .. NumSamplesPerHop /\ r + 1 = k - n
      BY <1>p, <2>0, <3>1, <3>2
    <3>4. t[k - n] = << features, k - n >>
      BY <1>5, <3>3
    <3> HIDE DEF d, r
    <3>5. u[k] = << features, k - n >>
      BY <1>1, <2>2, <3>2, <3>3
    <3>6. ~(k <= n)
      BY <1>p, <2>0, <2>5
    <3> QED BY <2>3, <3>4, <3>5, <3>6
  <2>6. k <= n \/ k > n
    BY <1>p, <2>0
  <2> QED BY <2>4, <2>5, <2>6
<1> QED BY <1>4, <1>7, <1>8, SeqEqual DEF s, t, u, longer

\* The n next samples of the first feature vector in the queue.
FrontOf(queue, m, n) == [ i \in 1 .. n |-> << Head(queue), m + i >> ]

\* The samples at the front are those of the first feature vector in the queue,
\* from the position in its hop on.
LEMMA OwedFront ==
  ASSUME NEW F, NEW queue \in Seq(F), queue # <<>>,
         NEW m \in 0 .. NumSamplesPerHop - 1, NEW n \in 1 .. NumSamplesPerHop - m
  PROVE  /\ n <= Len(Owed(queue, m))
         /\ \A i \in 1 .. n : Owed(queue, m)[i] = << Head(queue), m + i >>
         /\ SubSeq(Owed(queue, m), 1, n) = FrontOf(queue, m, n)
         /\ FrontOf(queue, m, n) \in Seq(F \X Place)
<1> DEFINE s == Owed(queue, m)
           t == [ i \in 1 .. n |-> << Head(queue), m + i >> ]
           T == F \X Place
           l == Len(queue) * NumSamplesPerHop - m
<1>1. Len(queue) \in Nat /\ Len(queue) > 0 /\ Head(queue) = queue[1] /\ Head(queue) \in F
  OBVIOUS
<1>2. /\ s \in Seq(T) /\ Len(s) = l /\ l \in Nat
      /\ \A k \in 1 .. l : s[k] = << queue[((k - 1 + m) \div NumSamplesPerHop) + 1],
                                     ((k - 1 + m) % NumSamplesPerHop) + 1 >>
  BY OwedSamples
<1>3. n <= l
  <2>1. Len(queue) * NumSamplesPerHop >= NumSamplesPerHop
    BY <1>1, Available, HopAssumption
  <2>2. Len(queue) * NumSamplesPerHop \in Int
    BY <1>1, HopAssumption
  <2> QED BY <2>1, <2>2, HopAssumption
<1> HIDE DEF l, s
<1>4. ASSUME NEW i \in 1 .. n PROVE s[i] = << Head(queue), m + i >>
  <2> DEFINE x == i - 1 + m
  <2>1. i \in 1 .. l
    BY <1>2, <1>3
  <2>2. x \in 0 .. NumSamplesPerHop - 1 /\ x = 0 * NumSamplesPerHop + x
    BY HopAssumption
  <2>3. s[i] = << queue[(x \div NumSamplesPerHop) + 1], (x % NumSamplesPerHop) + 1 >>
    BY <1>2, <2>1
  <2>4. x + 1 = m + i
    BY HopAssumption
  <2> HIDE DEF x
  <2>5. x \div NumSamplesPerHop = 0 /\ x % NumSamplesPerHop = x
    BY <2>2, PlaceInHop
  <2> QED BY <1>1, <2>3, <2>4, <2>5
<1>5. \A i \in 1 .. n : << Head(queue), m + i >> \in T
  BY <1>1, HopAssumption DEF Place
<1>6. t \in Seq(T) /\ Len(t) = n /\ \A i \in 1 .. n : t[i] = << Head(queue), m + i >>
  <2> HIDE DEF T
  <2> QED BY <1>5
<1> HIDE DEF T, t
<1>7. /\ SubSeq(s, 1, n) \in Seq(T) /\ Len(SubSeq(s, 1, n)) = n
      /\ \A i \in 1 .. n : SubSeq(s, 1, n)[i] = s[i]
  BY <1>2, <1>3
<1>8. SubSeq(s, 1, n) = t
  <2> DEFINE front == SubSeq(s, 1, n)
  <2>1. front \in Seq(T) /\ Len(front) = Len(t)
    BY <1>6, <1>7
  <2>2. \A i \in 1 .. Len(front) : front[i] = t[i]
    BY <1>4, <1>6, <1>7
  <2> HIDE DEF front
  <2>3. front = t
    BY <1>6, <2>1, <2>2, SeqEqual
  <2> QED BY <2>3 DEF front
<1> QED BY <1>2, <1>3, <1>4, <1>6, <1>8 DEF s, t, T, FrontOf

\* The samples behind those that are handed out are owed by the queue and the
\* position after the call, whether or not the call ends the hop.
LEMMA OwedRest ==
  ASSUME NEW F, NEW queue \in Seq(F), queue # <<>>,
         NEW m \in 0 .. NumSamplesPerHop - 1, NEW n \in 1 .. NumSamplesPerHop - m
  PROVE  SubSeq(Owed(queue, m), n + 1, Len(Owed(queue, m))) =
           IF m + n = NumSamplesPerHop THEN Owed(Tail(queue), 0) ELSE Owed(queue, m + n)
<1> DEFINE s == Owed(queue, m)
           T == F \X Place
           l == Len(queue) * NumSamplesPerHop - m
           r == SubSeq(s, n + 1, l)
<1>1. Len(queue) \in Nat /\ Len(queue) > 0
  OBVIOUS
<1>2. /\ s \in Seq(T) /\ Len(s) = l /\ l \in Nat
      /\ \A k \in 1 .. l : s[k] = << queue[((k - 1 + m) \div NumSamplesPerHop) + 1],
                                     ((k - 1 + m) % NumSamplesPerHop) + 1 >>
  BY OwedSamples
<1>3. n <= l
  BY <1>2, OwedFront
<1>4. l = Len(queue) * NumSamplesPerHop - m /\ Len(queue) * NumSamplesPerHop \in Int
  BY <1>1, HopAssumption
<1> HIDE DEF l, s, T
<1>5. /\ r \in Seq(T) /\ Len(r) = l - n /\ l - n \in Nat
      /\ \A k \in 1 .. l - n : r[k] = s[n + k]
  BY <1>2, <1>3
<1>6. ASSUME NEW k \in 1 .. l - n
      PROVE  r[k] = << queue[((n + k - 1 + m) \div NumSamplesPerHop) + 1],
                       ((n + k - 1 + m) % NumSamplesPerHop) + 1 >>
  <2>1. n + k \in 1 .. l
    BY <1>2, <1>3, <1>6
  <2> QED BY <1>2, <1>5, <1>6, <2>1
<1>7. CASE m + n = NumSamplesPerHop
  <2> DEFINE u == Owed(Tail(queue), 0)
  <2>1. Tail(queue) \in Seq(F) /\ Len(Tail(queue)) = Len(queue) - 1
        /\ \A i \in 1 .. Len(queue) - 1 : Tail(queue)[i] = queue[i + 1]
    BY <1>1
  <2>2. Len(Tail(queue)) * NumSamplesPerHop - 0 = l - n
    BY <1>1, <1>4, <1>7, <2>1, HopAssumption
  <2>3. /\ u \in Seq(T) /\ Len(u) = l - n
        /\ \A k \in 1 .. l - n :
             u[k] = << Tail(queue)[((k - 1 + 0) \div NumSamplesPerHop) + 1],
                       ((k - 1 + 0) % NumSamplesPerHop) + 1 >>
    <3>1. 0 \in 0 .. NumSamplesPerHop - 1 /\ ~(0 > 0)
      BY HopAssumption
    <3>2. /\ u \in Seq(T) /\ Len(u) = Len(Tail(queue)) * NumSamplesPerHop - 0
          /\ \A k \in 1 .. Len(Tail(queue)) * NumSamplesPerHop - 0 :
               u[k] = << Tail(queue)[((k - 1 + 0) \div NumSamplesPerHop) + 1],
                         ((k - 1 + 0) % NumSamplesPerHop) + 1 >>
      BY <2>1, <3>1, OwedSamples DEF T
    <3> QED BY <2>2, <3>2
  <2> HIDE DEF u
  <2>4. ASSUME NEW k \in 1 .. l - n PROVE r[k] = u[k]
    <3> DEFINE y == k - 1
               d == y \div NumSamplesPerHop
               p == y % NumSamplesPerHop
    <3>0. k \in Nat /\ k >= 1 /\ k <= l - n
      BY <1>5, <2>4
    <3>1. y \in Nat /\ k - 1 + 0 = y /\ y < Len(Tail(queue)) * NumSamplesPerHop
      <4>1. Len(Tail(queue)) * NumSamplesPerHop \in Int
        BY <1>1, <2>1, HopAssumption
      <4> QED BY <1>5, <2>2, <3>0, <4>1
    <3>2. n + k - 1 + m = NumSamplesPerHop + y
      BY <1>7, <3>0, HopAssumption
    <3>3. d \in 0 .. Len(queue) - 2 /\ p \in 0 .. NumSamplesPerHop - 1
      <4> HIDE DEF y
      <4>1. d \in 0 .. Len(Tail(queue)) - 1 /\ p \in 0 .. NumSamplesPerHop - 1
        BY <1>1, <2>1, <3>1, PlaceInQueue
      <4> QED BY <1>1, <2>1, <4>1
    <3>4. y = d * NumSamplesPerHop + p
      <4> HIDE DEF y
      <4> QED BY <3>1, HopAssumption
    <3>5. u[k] = << Tail(queue)[d + 1], p + 1 >>
      BY <2>3, <2>4, <3>1
    <3>6. r[k] = << queue[((NumSamplesPerHop + y) \div NumSamplesPerHop) + 1],
                    ((NumSamplesPerHop + y) % NumSamplesPerHop) + 1 >>
      BY <1>6, <2>4, <3>2
    <3> HIDE DEF y, d, p
    <3>7. NumSamplesPerHop + y = (d + 1) * NumSamplesPerHop + p
      BY <1>1, <3>3, <3>4, HopAssumption
    <3>8. /\ (NumSamplesPerHop + y) \div NumSamplesPerHop = d + 1
          /\ (NumSamplesPerHop + y) % NumSamplesPerHop = p
      <4>1. d + 1 \in Int /\ NumSamplesPerHop + y \in Int
        BY <1>1, <3>1, <3>3, HopAssumption
      <4> QED BY <3>3, <3>7, <4>1, PlaceInHop
    <3>9. Tail(queue)[d + 1] = queue[d + 1 + 1]
      <4>1. d + 1 \in 1 .. Len(queue) - 1
        BY <1>1, <3>3
      <4> QED BY <2>1, <4>1
    <3> QED BY <3>5, <3>6, <3>8, <3>9
  <2>5. r = u
    BY <1>5, <2>3, <2>4, SeqEqual
  <2> QED BY <1>2, <1>7, <2>5 DEF s, u
<1>8. CASE m + n # NumSamplesPerHop
  <2> DEFINE u == Owed(queue, m + n)
  <2>1. m + n \in 0 .. NumSamplesPerHop - 1
    BY <1>8, HopAssumption
  <2>2. Len(queue) * NumSamplesPerHop - (m + n) = l - n
    BY <1>4, HopAssumption
  <2>3. /\ u \in Seq(T) /\ Len(u) = l - n
        /\ \A k \in 1 .. l - n :
             u[k] = << queue[((k - 1 + (m + n)) \div NumSamplesPerHop) + 1],
                       ((k - 1 + (m + n)) % NumSamplesPerHop) + 1 >>
    <3>1. /\ u \in Seq(T) /\ Len(u) = Len(queue) * NumSamplesPerHop - (m + n)
          /\ \A k \in 1 .. Len(queue) * NumSamplesPerHop - (m + n) :
               u[k] = << queue[((k - 1 + (m + n)) \div NumSamplesPerHop) + 1],
                         ((k - 1 + (m + n)) % NumSamplesPerHop) + 1 >>
      BY <2>1, OwedSamples DEF T
    <3> QED BY <2>2, <3>1
  <2>4. \A k \in 1 .. l - n : k - 1 + (m + n) = n + k - 1 + m
    BY <1>5, HopAssumption
  <2> HIDE DEF u
  <2>5. ASSUME NEW k \in 1 .. l - n PROVE r[k] = u[k]
    BY <1>6, <2>3, <2>4, <2>5
  <2>6. r = u
    BY <1>5, <2>3, <2>5, SeqEqual
  <2> QED BY <1>2, <1>8, <2>6 DEF s, u
<1> QED BY <1>7, <1>8

-----------------------------------------------------------------------------
(***************************************************************************)
(* What the methods of a generator do to it.                               *)
(***************************************************************************)

\* A call that returns n samples out of the hop that is in the buffer.
LEMMA Played ==
  ASSUME NEW F, NEW before \in GenerativeModels(F), NEW n \in Nat \ {0},
         CanGenerate(before, n),
         before.next_sample_in_hop > 0 => before.features_queue # <<>>
  PROVE  LET owed  == Owed(before.features_queue, before.next_sample_in_hop)
             after == Advance(before, n)
         IN  /\ before.features_queue # <<>>
             /\ n \in 1 .. NumSamplesPerHop - before.next_sample_in_hop
             /\ after \in GenerativeModels(F)
             /\ after.hop = before.hop
             /\ after.next_sample_in_hop > 0 => after.features_queue = before.features_queue
             /\ Owed(after.features_queue, after.next_sample_in_hop)
                  = SubSeq(owed, n + 1, Len(owed))
<1> DEFINE q == before.features_queue
           m == before.next_sample_in_hop
           after == Advance(before, n)
<1>1. /\ q \in Seq(F) /\ Len(q) \in Nat /\ m \in 0 .. NumSamplesPerHop - 1
      /\ before.hop \in F \union {NoFeatures}
      /\ before = [ features_queue |-> q, next_sample_in_hop |-> m, hop |-> before.hop ]
  BY DEF GenerativeModels
<1>2. NumSamplesAvailable(before) > 0 /\ n <= NumSamplesPerHop - m
  BY DEF CanGenerate
<1>3. q # <<>> /\ Len(q) > 0
  <2>1. Len(q) * NumSamplesPerHop - m > 0
    BY <1>2 DEF NumSamplesAvailable
  <2>2. Len(q) > 0
    <3>1. m > 0 => Len(q) > 0
      BY <1>1
    <3> HIDE DEF q, m
    <3> QED BY <1>1, <2>1, <3>1, Available
  <2> QED BY <1>1, <2>2
<1>4. n \in 1 .. NumSamplesPerHop - m
  BY <1>1, <1>2, HopAssumption
<1>5. Head(q) \in F /\ Tail(q) \in Seq(F)
  BY <1>1, <1>3
<1>a. after = Advance([ features_queue |-> q, next_sample_in_hop |-> m,
                        hop |-> before.hop ], n)
  BY <1>1
<1> HIDE DEF q, m, after
<1>6. CASE m + n = NumSamplesPerHop
  <2>1. after = [ features_queue |-> Tail(q), next_sample_in_hop |-> 0, hop |-> before.hop ]
    BY <1>6, <1>a DEF Advance
  <2>2. after \in GenerativeModels(F)
    BY <1>1, <1>5, <2>1, HopAssumption DEF GenerativeModels
  <2>3. /\ after.features_queue = Tail(q) /\ after.next_sample_in_hop = 0
        /\ after.hop = before.hop
    BY <2>1
  <2>4. Owed(Tail(q), 0) = SubSeq(Owed(q, m), n + 1, Len(Owed(q, m)))
    BY <1>1, <1>3, <1>4, <1>6, OwedRest
  <2> QED BY <1>3, <1>4, <2>2, <2>3, <2>4 DEF q, m, after
<1>7. CASE m + n # NumSamplesPerHop
  <2>1. after = [ features_queue |-> q, next_sample_in_hop |-> m + n, hop |-> before.hop ]
    BY <1>7, <1>a DEF Advance
  <2>2. m + n \in 0 .. NumSamplesPerHop - 1
    BY <1>1, <1>4, <1>7, HopAssumption
  <2>3. after \in GenerativeModels(F)
    BY <1>1, <2>1, <2>2 DEF GenerativeModels
  <2>4. /\ after.features_queue = q /\ after.next_sample_in_hop = m + n
        /\ after.hop = before.hop
    BY <2>1
  <2>5. Owed(q, m + n) = SubSeq(Owed(q, m), n + 1, Len(Owed(q, m)))
    BY <1>1, <1>3, <1>4, <1>7, OwedRest
  <2> QED BY <1>3, <1>4, <2>3, <2>4, <2>5 DEF q, m, after
<1> QED BY <1>6, <1>7

\* Conditioning changes what is in the buffer, neither the queue nor the
\* position in the hop.
LEMMA Conditioned ==
  ASSUME NEW F, NEW before \in GenerativeModels(F), before.features_queue # <<>>
  PROVE  LET conditioned == RunConditioning(before)
         IN  /\ conditioned \in GenerativeModels(F)
             /\ conditioned.features_queue = before.features_queue
             /\ conditioned.next_sample_in_hop = before.next_sample_in_hop
             /\ conditioned.hop = IF before.next_sample_in_hop = 0
                                  THEN Head(before.features_queue) ELSE before.hop
             /\ \A n \in Int : CanGenerate(before, n) => CanGenerate(conditioned, n)
<1> DEFINE q == before.features_queue
           m == before.next_sample_in_hop
           conditioned == RunConditioning(before)
           hop == IF m = 0 THEN Head(q) ELSE before.hop
<1>1. /\ q \in Seq(F) /\ Len(q) \in Nat /\ m \in 0 .. NumSamplesPerHop - 1
      /\ before.hop \in F \union {NoFeatures}
      /\ before = [ features_queue |-> q, next_sample_in_hop |-> m, hop |-> before.hop ]
  BY DEF GenerativeModels
<1>2. Head(q) \in F
  BY <1>1
<1>3. conditioned = [ features_queue |-> q, next_sample_in_hop |-> m, hop |-> hop ]
  <2>1. CASE m = 0
    BY <1>1, <2>1 DEF RunConditioning
  <2>2. CASE m # 0
    BY <1>1, <2>2 DEF RunConditioning
  <2> QED BY <2>1, <2>2
<1> HIDE DEF q, m, conditioned
<1>4. conditioned \in GenerativeModels(F)
  BY <1>1, <1>2, <1>3 DEF GenerativeModels
<1>5. \A n \in Int : CanGenerate(before, n) => CanGenerate(conditioned, n)
  BY <1>3 DEF CanGenerate, NumSamplesAvailable, q, m
<1> QED BY <1>3, <1>4, <1>5 DEF q, m, conditioned

\* Features are queued behind those there are.
LEMMA Queued ==
  ASSUME NEW F, NEW before \in GenerativeModels(F), NEW features \in F,
         before.next_sample_in_hop > 0 => before.features_queue # <<>>
  PROVE  LET after == AddFeatures(before, features)
         IN  /\ after \in GenerativeModels(F)
             /\ after.features_queue # <<>>
             /\ after.next_sample_in_hop = before.next_sample_in_hop
             /\ after.hop = before.hop
             /\ before.features_queue # <<>> =>
                  Head(after.features_queue) = Head(before.features_queue)
             /\ Owed(after.features_queue, after.next_sample_in_hop)
                  = Owed(before.features_queue, before.next_sample_in_hop) \o Hop(features)
<1> DEFINE q == before.features_queue
           m == before.next_sample_in_hop
           after == AddFeatures(before, features)
<1>1. /\ q \in Seq(F) /\ m \in 0 .. NumSamplesPerHop - 1
      /\ before.hop \in F \union {NoFeatures}
      /\ before = [ features_queue |-> q, next_sample_in_hop |-> m, hop |-> before.hop ]
      /\ (m > 0 => q # <<>>)
  BY DEF GenerativeModels
<1>2. after = [ features_queue |-> Append(q, features), next_sample_in_hop |-> m,
                hop |-> before.hop ]
  <2>1. \A x : x = [ features_queue |-> q, next_sample_in_hop |-> m, hop |-> before.hop ]
          => AddFeatures(x, features)
               = [ features_queue |-> Append(q, features), next_sample_in_hop |-> m,
                   hop |-> before.hop ]
    BY DEF AddFeatures
  <2> QED BY <1>1, <2>1
<1> HIDE DEF q, m, after
<1>3. /\ Append(q, features) \in Seq(F) /\ Append(q, features) # <<>>
      /\ q # <<>> => Head(Append(q, features)) = Head(q)
  BY <1>1, AppendProperties, HeadTailAppend
<1>4. /\ after.features_queue = Append(q, features) /\ after.next_sample_in_hop = m
      /\ after.hop = before.hop
      /\ after \in GenerativeModels(F)
  BY <1>1, <1>2, <1>3 DEF GenerativeModels
<1>5. Owed(Append(q, features), m) = Owed(q, m) \o Hop(features)
  BY <1>1, OwedAppend
<1> QED BY <1>3, <1>4, <1>5 DEF q, m, after
=============================================================================
