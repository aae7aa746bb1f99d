--------------------- MODULE ComfortNoiseGeneratorProofs ---------------------
(***************************************************************************)
(* Proofs about ComfortNoiseGenerator, for every length of the hop and of  *)
(* the window.  That a frame is added to what overlaps it is the           *)
(* definition of overlap-add, one frame later, rests on one fact about     *)
(* sums: what remains of the frames there are, moved by a hop, is what     *)
(* they contribute behind the next one.  That the noise is a stream of     *)
(* samples rests on the newest frame being the one of the features at the  *)
(* front of the queue whenever a hop is read.                              *)
(***************************************************************************)
EXTENDS ComfortNoiseGenerator, HopArithmetic, FiniteSetTheorems, WellFoundedInduction

-----------------------------------------------------------------------------
(***************************************************************************)
(* The size of a frame.                                                    *)
(***************************************************************************)

\* A set of natural numbers has a least one.
LEMMA LeastNumber ==
  ASSUME NEW S \in SUBSET Nat, S # {}
  PROVE  \E m \in S : \A k \in S : m <= k
<1> DEFINE R == OpToRel(<, Nat)
<1>1. IsWellFoundedOn(R, Nat)
  BY NatLessThanWellFounded
<1>2. \A x, y \in Nat : << x, y >> \in R <=> x < y
  BY DEF OpToRel
<1> HIDE DEF R
<1>3. PICK m \in S : \A y \in S : ~ (<< y, m >> \in R)
  BY <1>1, WFMin
<1>4. \A y \in S : ~ (y < m)
  BY <1>2, <1>3
<1>5. \A y \in S : m <= y
  BY <1>4
<1> QED BY <1>5

\* The first power, the half of the second.
LEMMA PowerOfZero == 2^0 = 1
<1>1. 0 \in 0 .. NumSamplesPerWindow - 1
  BY NoiseAssumption
<1>2. 2^(0 + 1) = 2 * 2^0
  BY <1>1, PowersOfTwo
<1> QED BY <1>2

\* A power of two is more than its exponent: the least exponent of which this is
\* not so cannot be 0, and not one more than one of which it is.
LEMMA PowersGrow ==
  \A k \in 0 .. NumSamplesPerWindow : 2^k \in Nat /\ 2^k > k
<1> DEFINE S == { k \in 0 .. NumSamplesPerWindow : ~ (2^k \in Nat /\ 2^k > k) }
<1>1. S \in SUBSET Nat
      /\ \A k : k \in S <=> k \in 0 .. NumSamplesPerWindow /\ ~ (2^k \in Nat /\ 2^k > k)
  BY NoiseAssumption
<1> SUFFICES ASSUME S # {} PROVE FALSE
  OBVIOUS
<1> HIDE DEF S
<1>2. PICK m \in S : \A k \in S : m <= k
  BY <1>1, LeastNumber
<1>3. m \in 0 .. NumSamplesPerWindow /\ ~ (2^m \in Nat /\ 2^m > m)
  BY <1>1, <1>2
<1>4. m # 0
  <2>1. 2^0 = 1
    BY PowerOfZero
  <2>2. 2^0 \in Nat /\ 2^0 > 0
    BY <2>1
  <2> QED BY <1>3, <2>2, Zenon
<1> DEFINE l == m - 1
<1>5. l \in 0 .. NumSamplesPerWindow - 1 /\ l \in 0 .. NumSamplesPerWindow /\ l + 1 = m
      /\ ~ (m <= l)
  BY <1>3, <1>4, NoiseAssumption
<1> HIDE DEF l
<1>6. 2^l \in Nat /\ 2^l > l
  BY <1>1, <1>2, <1>5
<1>7. 2^m = 2 * 2^l
  BY <1>5, PowersOfTwo
<1> DEFINE a == 2^l
           b == 2^m
<1>8. a \in Nat /\ a > l /\ b = 2 * a /\ l \in Nat
  BY <1>5, <1>6, <1>7, NoiseAssumption
<1> HIDE DEF a, b
<1>9. b \in Nat /\ b > m
  BY <1>5, <1>8
<1> QED BY <1>3, <1>9 DEF b

\* One lies between the window and twice the window: the least that is not below it.
LEMMA PowerOfTheWindow ==
  \E k \in 0 .. NumSamplesPerWindow :
    2^k >= NumSamplesPerWindow /\ 2^k < 2 * NumSamplesPerWindow
<1> DEFINE S == { k \in 0 .. NumSamplesPerWindow : 2^k >= NumSamplesPerWindow }
<1>1. S \in SUBSET Nat
      /\ \A k : k \in S <=> k \in 0 .. NumSamplesPerWindow /\ 2^k >= NumSamplesPerWindow
  BY NoiseAssumption
<1>2. NumSamplesPerWindow \in S
  <2>1. NumSamplesPerWindow \in 0 .. NumSamplesPerWindow
    BY NoiseAssumption
  <2>2. 2^NumSamplesPerWindow \in Nat /\ 2^NumSamplesPerWindow > NumSamplesPerWindow
    BY <2>1, PowersGrow
  <2>3. 2^NumSamplesPerWindow >= NumSamplesPerWindow
    BY <2>2, NoiseAssumption
  <2> HIDE DEF S
  <2> QED BY <1>1, <2>1, <2>3
<1> HIDE DEF S
<1>3. PICK m \in S : \A k \in S : m <= k
  BY <1>1, <1>2, LeastNumber
<1>4. m \in 0 .. NumSamplesPerWindow /\ 2^m >= NumSamplesPerWindow
  BY <1>1, <1>3
<1>5. 2^m < 2 * NumSamplesPerWindow
  <2>1. m # 0
    <3>1. 2^0 = 1
      BY PowerOfZero
    <3>2. ~ (2^0 >= NumSamplesPerWindow)
      BY <3>1, NoiseAssumption
    <3> QED BY <1>4, <3>2, Zenon
  <2> DEFINE l == m - 1
  <2>2. l \in 0 .. NumSamplesPerWindow - 1 /\ l \in 0 .. NumSamplesPerWindow /\ l + 1 = m
        /\ ~ (m <= l)
    BY <1>4, <2>1, NoiseAssumption
  <2> HIDE DEF l
  <2>3. ~ (2^l >= NumSamplesPerWindow)
    BY <1>1, <1>3, <2>2
  <2>4. 2^m = 2 * 2^l /\ 2^l \in Nat
    BY <2>2, PowersOfTwo, PowersGrow
  <2> QED BY <2>3, <2>4, NoiseAssumption
<1> QED BY <1>4, <1>5

\* A frame is at least as long as the window, hence as a hop.
LEMMA FrameSize ==
  /\ FftSize \in Nat
  /\ FftSize >= NumSamplesPerHop
  /\ Overlap \in Nat /\ FftSize - Overlap = NumSamplesPerHop
<1> DEFINE S == { 2^k : k \in 0 .. NumSamplesPerWindow }
           fits(p) == p >= NumSamplesPerWindow /\ p < 2 * NumSamplesPerWindow
<1>1. PICK k \in 0 .. NumSamplesPerWindow : fits(2^k)
  BY PowerOfTheWindow
<1>2. \E p \in S : fits(p)
  BY <1>1
<1>3. FftSize = CHOOSE p \in S : fits(p)
  BY DEF FftSize
<1>4. \A p \in S : p \in Nat
  BY PowersGrow
<1> HIDE DEF S, fits
<1>5. FftSize \in S /\ fits(FftSize)
  BY <1>2, <1>3
<1>6. FftSize \in Nat /\ FftSize >= NumSamplesPerWindow
  BY <1>4, <1>5 DEF fits
<1> QED BY <1>6, NoiseAssumption, HopAssumption DEF Overlap

\* The frames that are kept are all that can reach the current hop.
LEMMA FramesReach ==
  /\ MaxFrames \in Nat /\ MaxFrames >= 1
  /\ \A a \in Nat, i \in Nat \ {0} :
       a * NumSamplesPerHop + i <= FftSize => a <= MaxFrames - 1
<1> DEFINE x == FftSize + NumSamplesPerHop - 1
           r == x % NumSamplesPerHop
<1>1. x \in Nat /\ FftSize \in Nat /\ NumSamplesPerHop \in Nat /\ NumSamplesPerHop >= 1
      /\ FftSize >= NumSamplesPerHop
      /\ x = FftSize + NumSamplesPerHop - 1
  BY FrameSize, HopAssumption
<1>2. MaxFrames = x \div NumSamplesPerHop
  BY DEF MaxFrames
<1> HIDE DEF x
<1>3. /\ MaxFrames \in Nat /\ r \in 0 .. NumSamplesPerHop - 1
      /\ x = MaxFrames * NumSamplesPerHop + r
  BY <1>1, <1>2
<1> HIDE DEF r
<1>4. MaxFrames >= 1
  <2>1. CASE MaxFrames = 0
    <3>1. MaxFrames * NumSamplesPerHop = 0
      BY <1>1, <2>1
    <3> QED BY <1>1, <1>3, <3>1
  <2> QED BY <1>3, <2>1
<1>5. ASSUME NEW a \in Nat, NEW i \in Nat \ {0}, a * NumSamplesPerHop + i <= FftSize
      PROVE  a <= MaxFrames - 1
  <2> SUFFICES ASSUME a >= MaxFrames PROVE FALSE
    BY <1>3
  <2>1. (a - MaxFrames) * NumSamplesPerHop >= 0
    BY <1>1, <1>3
  <2>2. a * NumSamplesPerHop = (a - MaxFrames) * NumSamplesPerHop + MaxFrames * NumSamplesPerHop
    BY <1>1, <1>3
  <2>3. /\ (a - MaxFrames) * NumSamplesPerHop \in Int
        /\ MaxFrames * NumSamplesPerHop \in Int /\ a * NumSamplesPerHop \in Int
    BY <1>1, <1>3
  <2> QED BY <1>1, <1>3, <1>5, <2>1, <2>2, <2>3
<1> QED BY <1>3, <1>4, <1>5

-----------------------------------------------------------------------------
(***************************************************************************)
(* The sum.                                                                *)
(***************************************************************************)

\* The i-th sample when l frames are kept.
SumOf(l, i) ==
  { << age, age * NumSamplesPerHop + i >> : age \in
      { a \in 0 .. l - 1 : a * NumSamplesPerHop + i <= FftSize } }

\* The frames that are kept of l + 1.
Kept(l) == IF l + 1 < MaxFrames THEN l + 1 ELSE MaxFrames

\* A sum is of samples of frames.
LEMMA SumType ==
  ASSUME NEW l \in Nat, NEW i \in Nat
  PROVE  SumOf(l, i) \in SUBSET (Nat \X Nat)
<1>1. ASSUME NEW a \in 0 .. l - 1 PROVE << a, a * NumSamplesPerHop + i >> \in Nat \X Nat
  <2>1. a \in Nat /\ a * NumSamplesPerHop \in Nat
    BY HopAssumption
  <2> QED BY <2>1
<1> QED BY <1>1 DEF SumOf

\* What overlaps the next frame is the sum as it was a hop further on, and no
\* frame that is forgotten is missing from it.
LEMMA NextSum ==
  ASSUME NEW l \in Nat, NEW i \in 1 .. FftSize
  PROVE  SumOf(Kept(l), i)
           = (IF i <= Overlap THEN Older(SumOf(l, NumSamplesPerHop + i)) ELSE {})
               \union {<< 0, i >>}
<1> DEFINE old == IF i <= Overlap THEN Older(SumOf(l, NumSamplesPerHop + i)) ELSE {}
           sum == SumOf(Kept(l), i)
<1>1. /\ FftSize \in Nat /\ NumSamplesPerHop \in Nat /\ NumSamplesPerHop >= 1
      /\ Overlap = FftSize - NumSamplesPerHop /\ Overlap \in Nat
      /\ MaxFrames \in Nat /\ MaxFrames >= 1 /\ i \in Nat \ {0} /\ i <= FftSize
  BY FrameSize, FramesReach, HopAssumption DEF Overlap
<1>2. Kept(l) \in Nat /\ Kept(l) >= 1
  BY <1>1 DEF Kept
<1>3. ASSUME NEW a \in Nat
      PROVE  /\ (a + 1) * NumSamplesPerHop + i = a * NumSamplesPerHop + (NumSamplesPerHop + i)
             /\ a * NumSamplesPerHop \in Nat
  BY <1>1
<1>4. << 0, i >> \in sum
  <2>1. 0 * NumSamplesPerHop + i = i
    BY <1>1
  <2>2. 0 \in { a \in 0 .. Kept(l) - 1 : a * NumSamplesPerHop + i <= FftSize }
    BY <1>1, <1>2, <2>1
  <2>3. << 0, 0 * NumSamplesPerHop + i >> \in sum
    BY <2>2 DEF SumOf
  <2> QED BY <2>1, <2>3
<1>5. ASSUME NEW c \in old PROVE c \in sum
  <2>1. i <= Overlap /\ c \in Older(SumOf(l, NumSamplesPerHop + i))
    BY <1>5
  <2>2. PICK d \in SumOf(l, NumSamplesPerHop + i) : c = << d[1] + 1, d[2] >>
    BY <2>1 DEF Older
  <2>3. PICK a \in 0 .. l - 1 :
          /\ a * NumSamplesPerHop + (NumSamplesPerHop + i) <= FftSize
          /\ d = << a, a * NumSamplesPerHop + (NumSamplesPerHop + i) >>
    BY <2>2 DEF SumOf
  <2>4. a \in Nat /\ a + 1 \in Nat /\ a + 1 <= l
    BY <2>3
  <2>5. c = << a + 1, (a + 1) * NumSamplesPerHop + i >>
    BY <1>3, <2>2, <2>3, <2>4
  <2>6. (a + 1) * NumSamplesPerHop + i <= FftSize
    BY <1>3, <2>3, <2>4
  <2>7. a + 1 <= MaxFrames - 1
    BY <1>1, <2>4, <2>6, FramesReach
  <2>8. a + 1 \in 0 .. Kept(l) - 1
    BY <1>1, <2>4, <2>7 DEF Kept
  <2> QED BY <2>5, <2>6, <2>8 DEF SumOf
<1>6. ASSUME NEW c \in sum PROVE c \in old \union {<< 0, i >>}
  <2>1. PICK b \in 0 .. Kept(l) - 1 :
          /\ b * NumSamplesPerHop + i <= FftSize
          /\ c = << b, b * NumSamplesPerHop + i >>
    BY <1>6 DEF SumOf
  <2>2. CASE b = 0
    <3>1. 0 * NumSamplesPerHop + i = i
      BY <1>1
    <3> QED BY <2>1, <2>2, <3>1
  <2>3. CASE b # 0
    <3> DEFINE a == b - 1
               p == a * NumSamplesPerHop
    <3>1. a \in Nat /\ a + 1 = b /\ a <= l - 1 /\ a \in 0 .. l - 1
      BY <1>1, <2>3 DEF Kept
    <3> HIDE DEF a
    <3>2. /\ b * NumSamplesPerHop + i = p + (NumSamplesPerHop + i)
          /\ p \in Nat
      BY <1>3, <3>1
    <3> HIDE DEF p
    <3>3. i <= Overlap
      BY <1>1, <2>1, <3>2
    <3>4. << a, p + (NumSamplesPerHop + i) >> \in SumOf(l, NumSamplesPerHop + i)
      BY <2>1, <3>1, <3>2 DEF SumOf, p
    <3>5. c = << a + 1, p + (NumSamplesPerHop + i) >>
      BY <2>1, <3>1, <3>2
    <3>6. c \in Older(SumOf(l, NumSamplesPerHop + i))
      BY <3>4, <3>5 DEF Older
    <3> QED BY <3>3, <3>6
  <2> QED BY <2>2, <2>3
<1>7. sum = old \union {<< 0, i >>}
  BY <1>4, <1>5, <1>6
<1> QED BY <1>7

\* The place of a sample in the newest frame.
NewestPlace(sample) == CHOOSE i \in 1 .. FftSize : << 0, i >> \in sample

\* Of the newest frame, a sum holds one sample, the one at its own place.
LEMMA NewestInSum ==
  ASSUME NEW l \in Nat \ {0}, NEW i \in 1 .. FftSize
  PROVE  NewestPlace(SumOf(l, i)) = i
<1>1. NumSamplesPerHop \in Nat /\ 0 * NumSamplesPerHop + i = i /\ i <= FftSize
      /\ FftSize \in Nat
  BY FrameSize, HopAssumption
<1>2. << 0, i >> \in SumOf(l, i)
  <2>1. 0 \in { a \in 0 .. l - 1 : a * NumSamplesPerHop + i <= FftSize }
    BY <1>1
  <2>2. << 0, 0 * NumSamplesPerHop + i >> \in SumOf(l, i)
    BY <2>1 DEF SumOf
  <2> QED BY <1>1, <2>2
<1>3. ASSUME NEW j \in 1 .. FftSize, << 0, j >> \in SumOf(l, i) PROVE j = i
  <2>1. PICK a \in 0 .. l - 1 : << 0, j >> = << a, a * NumSamplesPerHop + i >>
    BY <1>3 DEF SumOf
  <2>2. a = 0 /\ j = a * NumSamplesPerHop + i
    BY <2>1
  <2> QED BY <1>1, <2>2
<1> DEFINE sum == SumOf(l, i)
<1> HIDE DEF sum
<1>4. (CHOOSE j \in 1 .. FftSize : << 0, j >> \in sum) = i
  BY <1>2, <1>3 DEF sum
<1> QED BY <1>4 DEF sum, NewestPlace

-----------------------------------------------------------------------------
(***************************************************************************)
(* The invariant.                                                          *)
(***************************************************************************)

Frames == [features : Features, heard : BOOLEAN]

\* In the middle of a hop its features are still queued.
ModelIsGenerator ==
  /\ model \in GenerativeModels(Features)
  /\ model.next_sample_in_hop > 0 => model.features_queue # <<>>

\* In the middle of a hop the newest frame is the one of its features: nothing
\* that is refused in between puts another frame before it.
NewestFrameIsOfTheHop ==
  model.next_sample_in_hop > 0 =>
    frames # <<>> /\ frames[1].features = Head(model.features_queue)

NoiseInvariant ==
  /\ ModelIsGenerator
  /\ frames \in Seq(Frames)
  /\ NewestFrameIsOfTheHop
  /\ NoiseIsOverlapAdd

\* The buffers hold the sums of the frames that are kept.
LEMMA BuffersHoldSums ==
  /\ NoiseIsOverlapAdd <=>
       /\ reconstructed_samples = [ i \in 1 .. NumSamplesPerHop |-> SumOf(Len(frames), i) ]
       /\ working_output =
            [ i \in 1 .. FftSize - NumSamplesPerHop |->
                SumOf(Len(frames), NumSamplesPerHop + i) ]
  /\ NoiseIsOverlapAdd' <=>
       /\ reconstructed_samples' = [ i \in 1 .. NumSamplesPerHop |-> SumOf(Len(frames'), i) ]
       /\ working_output' =
            [ i \in 1 .. FftSize - NumSamplesPerHop |->
                SumOf(Len(frames'), NumSamplesPerHop + i) ]
BY DEF NoiseIsOverlapAdd, OverlapAdd, SumOf

\* What is newest is put before the others, and what has sounded is forgotten.
LEMMA PutFirst ==
  ASSUME NEW T, NEW first \in T, NEW s \in Seq(T)
  PROVE  LET latest == LatestOf(<< first >> \o s, MaxFrames)
         IN  /\ latest \in Seq(T) /\ Len(latest) = Kept(Len(s))
             /\ latest # <<>> /\ latest[1] = first
             /\ \A k \in 1 .. Len(latest) - 1 : k \in 1 .. Len(s) /\ latest[k + 1] = s[k]
<1> DEFINE longer == << first >> \o s
           latest == LatestOf(longer, MaxFrames)
           l == Len(s)
<1>1. /\ << first >> \in Seq(T) /\ Len(<< first >>) = 1 /\ << first >>[1] = first
      /\ l \in Nat
  OBVIOUS
<1>2. /\ longer \in Seq(T) /\ Len(longer) = 1 + l
      /\ longer[1] = first
      /\ \A k \in 1 .. l : longer[k + 1] = s[k]
  <2>1. /\ longer \in Seq(T) /\ Len(longer) = Len(<< first >>) + l
        /\ \A k \in 1 .. Len(<< first >>) + l :
             longer[k] = IF k <= Len(<< first >>) THEN << first >>[k]
                         ELSE s[k - Len(<< first >>)]
    BY <1>1, ConcatProperties
  <2> HIDE DEF longer, l
  <2>2. /\ Len(longer) = 1 + l
        /\ \A k \in 1 .. 1 + l :
             longer[k] = IF k <= 1 THEN << first >>[k] ELSE s[k - 1]
    BY <1>1, <2>1
  <2>3. longer[1] = first
    BY <1>1, <2>2
  <2>4. ASSUME NEW k \in 1 .. l PROVE longer[k + 1] = s[k]
    <3>1. k + 1 \in 1 .. 1 + l /\ ~(k + 1 <= 1) /\ (k + 1) - 1 = k
      BY <1>1
    <3> QED BY <2>2, <3>1
  <2> QED BY <2>1, <2>2, <2>3, <2>4
<1> HIDE DEF longer
<1>3. MaxFrames \in Nat /\ MaxFrames >= 1
  BY FramesReach
<1>4. latest = SubSeq(longer, 1, Kept(l)) /\ Kept(l) \in 1 .. Len(longer)
  <2>1. Kept(l) = IF Len(longer) < MaxFrames THEN Len(longer) ELSE MaxFrames
    BY <1>1, <1>2, <1>3 DEF Kept
  <2>2. latest = SubSeq(longer, 1, Kept(l))
    BY <2>1 DEF LatestOf
  <2>3. Kept(l) \in 1 .. Len(longer)
    BY <1>1, <1>2, <1>3 DEF Kept
  <2> QED BY <2>2, <2>3
<1> DEFINE n == Kept(l)
<1> HIDE DEF latest, l, n
<1>5. n \in Nat /\ n >= 1 /\ n <= Len(longer) /\ latest = SubSeq(longer, 1, n)
  BY <1>1, <1>2, <1>4 DEF n
<1>6. /\ latest \in Seq(T) /\ Len(latest) = n /\ \A k \in 1 .. n : latest[k] = longer[k]
  BY <1>2, <1>5
<1>7. latest[1] = first /\ latest # <<>>
  <2>1. latest[1] = first
    BY <1>2, <1>5, <1>6
  <2>2. Len(latest) # 0
    BY <1>5, <1>6
  <2>3. Len(<<>>) = 0
    OBVIOUS
  <2> QED BY <2>1, <2>2, <2>3
<1>8. ASSUME NEW k \in 1 .. n - 1 PROVE k \in 1 .. l /\ latest[k + 1] = s[k]
  <2>1. k \in 1 .. l /\ k + 1 \in 1 .. n
    BY <1>1, <1>2, <1>5
  <2> QED BY <1>2, <1>6, <2>1
<1> QED BY <1>6, <1>7, <1>8 DEF latest, longer, n, l

\* The newest frame is put before the others.
LEMMA FramePutFirst ==
  ASSUME NEW f \in Features, NEW heard \in BOOLEAN, frames \in Seq(Frames)
  PROVE  LET longer == << [features |-> f, heard |-> heard] >> \o frames
             latest == LatestOf(longer, MaxFrames)
         IN  /\ latest \in Seq(Frames) /\ Len(latest) = Kept(Len(frames))
             /\ latest # <<>> /\ latest[1].features = f
<1> DEFINE first == [features |-> f, heard |-> heard]
<1>1. first \in Frames /\ first.features = f
  BY DEF Frames
<1> HIDE DEF first
<1> QED BY <1>1, PutFirst DEF first

\* A frame that is made is added to the sum of those before it, and the newest
\* frame is then the one of the features in front.
LEMMA FrameAdded ==
  ASSUME model \in GenerativeModels(Features), model.features_queue # <<>>,
         frames \in Seq(Frames), NoiseIsOverlapAdd,
         NEW heard \in BOOLEAN, MakeFrame(heard)
  PROVE  /\ frames' \in Seq(Frames)
         /\ frames' # <<>> /\ frames'[1].features = Head(model.features_queue)
         /\ NoiseIsOverlapAdd'
<1> DEFINE f == Head(model.features_queue)
           l == Len(frames)
           T == SUBSET (Nat \X Nat)
           sum(i) == SumOf(Kept(l), i)
<1>1. f \in Features
  BY DEF GenerativeModels
<1>2. frames' = LatestOf(<< [features |-> f, heard |-> heard] >> \o frames, MaxFrames)
  BY DEF MakeFrame
<1> HIDE DEF f
<1>3. /\ frames' \in Seq(Frames) /\ Len(frames') = Kept(l)
      /\ frames' # <<>> /\ frames'[1].features = f
  BY <1>1, <1>2, FramePutFirst
<1>4. /\ FftSize \in Nat /\ Overlap \in Nat /\ FftSize - Overlap = NumSamplesPerHop
      /\ NumSamplesPerHop \in Nat /\ Overlap = FftSize - NumSamplesPerHop
      /\ l \in Nat /\ Kept(l) \in Nat
  BY FrameSize, HopAssumption, FramesReach DEF Kept, Overlap
<1>5. ASSUME NEW i \in 1 .. FftSize PROVE Added[i] = sum(i) /\ sum(i) \in T
  <2>1. Added[i] = (IF i <= Overlap THEN Older(working_output[i]) ELSE {}) \union {<< 0, i >>}
    BY DEF Added
  <2>2. i <= Overlap => working_output[i] = SumOf(l, NumSamplesPerHop + i)
    <3>1. working_output = [ j \in 1 .. Overlap |-> SumOf(l, NumSamplesPerHop + j) ]
      BY <1>4, BuffersHoldSums
    <3>2. i <= Overlap => i \in 1 .. Overlap
      BY <1>4
    <3> HIDE DEF l
    <3> QED BY <3>1, <3>2
  <2>3. sum(i) = (IF i <= Overlap THEN Older(SumOf(l, NumSamplesPerHop + i)) ELSE {})
                   \union {<< 0, i >>}
    BY <1>4, NextSum
  <2>4. sum(i) \in T
    BY <1>4, SumType
  <2> HIDE DEF sum, l
  <2> QED BY <2>1, <2>2, <2>3, <2>4
<1> DEFINE a == Added
<1>6. a = [ i \in 1 .. FftSize |-> sum(i) ]
  <2>1. DOMAIN a = 1 .. FftSize /\ a = [ i \in 1 .. FftSize |-> a[i] ]
    BY DEF Added
  <2> HIDE DEF sum, a
  <2>2. \A i \in 1 .. FftSize : a[i] = sum(i)
    BY <1>5 DEF a
  <2> QED BY <2>1, <2>2
<1>7. /\ reconstructed_samples' = SubSeq(a, 1, NumSamplesPerHop)
      /\ working_output' = SubSeq(a, NumSamplesPerHop + 1, FftSize)
  BY <1>4 DEF MakeFrame
<1> HIDE DEF a, sum, T
<1>8. a \in Seq(T) /\ Len(a) = FftSize /\ \A i \in 1 .. FftSize : a[i] = sum(i)
  BY <1>4, <1>5, <1>6
<1>9. reconstructed_samples' = [ i \in 1 .. NumSamplesPerHop |-> sum(i) ]
  <2> DEFINE h == NumSamplesPerHop
             s == SubSeq(a, 1, h)
             t == [ i \in 1 .. h |-> sum(i) ]
  <2>1. h \in Nat /\ h <= FftSize /\ \A i \in 1 .. h : i \in 1 .. FftSize
    BY <1>4
  <2> HIDE DEF h
  <2>2. s \in Seq(T) /\ Len(s) = h /\ \A i \in 1 .. h : s[i] = a[i]
    BY <1>4, <1>8, <2>1
  <2>3. t \in Seq(T) /\ Len(t) = h /\ \A i \in 1 .. h : t[i] = sum(i)
    BY <1>5, <2>1
  <2> HIDE DEF s, t
  <2>4. \A i \in 1 .. h : s[i] = t[i]
    BY <1>8, <2>1, <2>2, <2>3
  <2>5. s = t
    BY <2>2, <2>3, <2>4, SeqEqual
  <2> QED BY <1>7, <2>5 DEF s, t, h
<1>10. working_output' = [ i \in 1 .. Overlap |-> sum(NumSamplesPerHop + i) ]
  <2> DEFINE h == NumSamplesPerHop
             s == SubSeq(a, h + 1, FftSize)
             later(i) == sum(h + i)
             t == [ i \in 1 .. Overlap |-> later(i) ]
  <2>1. /\ h \in Nat /\ h <= FftSize /\ FftSize = h + Overlap
        /\ \A i \in 1 .. Overlap : h + i \in 1 .. FftSize
    BY <1>4
  <2> HIDE DEF h
  <2>2. s \in Seq(T) /\ Len(s) = Overlap /\ \A i \in 1 .. Overlap : s[i] = a[h + i]
    BY <1>4, <1>8, <2>1
  <2>3. \A i \in 1 .. Overlap : later(i) \in T /\ a[h + i] = later(i)
    BY <1>5, <1>8, <2>1
  <2> HIDE DEF later
  <2>4. t \in Seq(T) /\ Len(t) = Overlap /\ \A i \in 1 .. Overlap : t[i] = later(i)
    BY <1>4, <2>3
  <2> HIDE DEF s, t
  <2>5. \A i \in 1 .. Overlap : s[i] = t[i]
    BY <2>2, <2>3, <2>4
  <2>6. s = t
    BY <2>2, <2>4, <2>5, SeqEqual
  <2> QED BY <1>7, <2>6 DEF s, t, h, later
<1>11. NoiseIsOverlapAdd'
  BY <1>3, <1>4, <1>9, <1>10, BuffersHoldSums DEF sum
<1> QED BY <1>3, <1>11 DEF f

-----------------------------------------------------------------------------
(***************************************************************************)
(* What every call does to the samples owed.                               *)
(***************************************************************************)

\* The samples owed are those of the queue and the position in the hop.
LEMMA QueueIsOwed ==
  /\ SamplesOwed = Owed(model.features_queue, model.next_sample_in_hop)
  /\ SamplesOwed' = Owed(model'.features_queue, model'.next_sample_in_hop)
BY DEF SamplesOwed, Owed, NumSamplesAvailable

\* The reply as the client of a stream of samples sees it.
StreamReply == [reply EXCEPT !.samples = NewestFrame(@)]

\* Samples of noise as samples of the frame of the given features.
OfFrame(samples, features) ==
  [ k \in DOMAIN samples |-> << features, NewestPlace(samples[k]) >> ]

\* The reply the stream gives is that of the newest frame.
LEMMA ReplyOfNewestFrame ==
  /\ StreamReply = [reply EXCEPT !.samples = OfFrame(@, frames[1].features)]
  /\ StreamReply' = [reply' EXCEPT !.samples = OfFrame(@, frames'[1].features)]
BY DEF StreamReply, NewestFrame, OfFrame, NewestPlace

\* Only the samples of a reply are seen in another way.
LEMMA ReplyAs ==
  ASSUME NEW r, NEW ok, NEW samples, NEW features,
         r = [ok |-> ok, samples |-> samples]
  PROVE  [r EXCEPT !.samples = OfFrame(@, features)]
           = [ok |-> ok, samples |-> OfFrame(samples, features)]
<1>1. \A x : [r EXCEPT !.samples = x] = [ok |-> ok, samples |-> x]
  OBVIOUS
<1>2. r.samples = samples
  OBVIOUS
<1> QED BY <1>1, <1>2

\* The client's calls add features ...
Adds(features) ==
  /\ SamplesOwed' = SamplesOwed \o Hop(features)
  /\ StreamReply' = Succeeds(<<>>)

\* ... hand out n samples of one hop ...
HandsOut(n) ==
  /\ n <= Len(SamplesOwed)
  /\ n = 0 \/ SamplesOwed[n][2] = SamplesOwed[1][2] + n - 1
  /\ SamplesOwed' = SubSeq(SamplesOwed, n + 1, Len(SamplesOwed))
  /\ StreamReply' = Succeeds(SubSeq(SamplesOwed, 1, n))

\* ... or are refused.
Refuses == StreamReply' = Refused /\ UNCHANGED SamplesOwed

\* A reply without samples is what it is.
LEMMA ReplyWithoutSamples ==
  /\ reply = Succeeds(<<>>) => StreamReply = Succeeds(<<>>)
  /\ reply' = Succeeds(<<>>) => StreamReply' = Succeeds(<<>>)
  /\ reply' = Refused => StreamReply' = Refused
<1>1. \A f : OfFrame(<<>>, f) = <<>>
  BY DEF OfFrame
<1>2. \A ok, r, f : r = [ok |-> ok, samples |-> <<>>]
                      => [r EXCEPT !.samples = OfFrame(@, f)] = [ok |-> ok, samples |-> <<>>]
  <2> TAKE ok, r, f
  <2> HAVE r = [ok |-> ok, samples |-> <<>>]
  <2>1. [r EXCEPT !.samples = OfFrame(@, f)] = [ok |-> ok, samples |-> OfFrame(<<>>, f)]
    BY ReplyAs
  <2> QED BY <1>1, <2>1
<1> QED BY <1>2, ReplyOfNewestFrame DEF Succeeds, Refused

\* What is read out of the buffer in the middle of its hop is of the newest frame.
LEMMA ReadOfNewestFrame ==
  ASSUME NEW m \in 0 .. NumSamplesPerHop - 1, NEW n \in 1 .. NumSamplesPerHop - m,
         frames' \in Seq(Frames), frames' # <<>>, NoiseIsOverlapAdd',
         reply' = Succeeds(SubSeq(reconstructed_samples', m + 1, m + n))
  PROVE  StreamReply' = Succeeds([ k \in 1 .. n |-> << frames'[1].features, m + k >> ])
<1> DEFINE h == NumSamplesPerHop
           l == Len(frames')
           T == SUBSET (Nat \X Nat)
           sum(i) == SumOf(l, i)
           buffer == reconstructed_samples'
           read == SubSeq(buffer, m + 1, m + n)
           f == frames'[1].features
<1>1. /\ h \in Nat /\ h >= 1 /\ m \in Nat /\ n \in Nat /\ n >= 1 /\ m + n <= h
      /\ FftSize \in Nat /\ h <= FftSize
  BY HopAssumption, FrameSize
<1>2. l \in Nat \ {0}
  OBVIOUS
<1>3. buffer = [ i \in 1 .. h |-> sum(i) ]
  BY BuffersHoldSums
<1>4. \A i \in 1 .. h : sum(i) \in T
  BY <1>1, <1>2, SumType
<1>5. \A i \in 1 .. h : NewestPlace(sum(i)) = i
  BY <1>1, <1>2, NewestInSum
<1>6. /\ OfFrame(read, f) = [ k \in DOMAIN read |-> << f, NewestPlace(read[k]) >> ]
      /\ reply' = Succeeds(read)
      /\ StreamReply' = [reply' EXCEPT !.samples = OfFrame(@, f)]
  BY ReplyOfNewestFrame DEF OfFrame
<1> HIDE DEF h, l, T, sum, buffer, f
<1>7. buffer \in Seq(T) /\ Len(buffer) = h /\ \A i \in 1 .. h : buffer[i] = sum(i)
  BY <1>1, <1>3, <1>4
<1>8. /\ read \in Seq(T) /\ Len(read) = n /\ DOMAIN read = 1 .. n
      /\ \A k \in 1 .. n : read[k] = buffer[m + k]
  BY <1>1, <1>7
<1> HIDE DEF read
<1>9. ASSUME NEW k \in 1 .. n
      PROVE  NewestPlace(read[k]) = m + k
  <2>1. m + k \in 1 .. h
    BY <1>1
  <2> QED BY <1>5, <1>7, <1>8, <2>1
<1>10. OfFrame(read, f) = [ k \in 1 .. n |-> << f, m + k >> ]
  BY <1>6, <1>8, <1>9
<1>11. StreamReply' = Succeeds(OfFrame(read, f))
  <2>1. reply' = [ok |-> TRUE, samples |-> read]
    BY <1>6 DEF Succeeds
  <2>2. [reply' EXCEPT !.samples = OfFrame(@, f)] = [ok |-> TRUE, samples |-> OfFrame(read, f)]
    <3>1. \A r : r = [ok |-> TRUE, samples |-> read]
                   => [r EXCEPT !.samples = OfFrame(@, f)]
                        = [ok |-> TRUE, samples |-> OfFrame(read, f)]
      BY ReplyAs, Zenon
    <3> QED BY <2>1, <3>1
  <2> QED BY <1>6, <2>2 DEF Succeeds
<1> QED BY <1>10, <1>11 DEF f

\* A generator that has samples available has features queued.
LEMMA QueueIsNotEmpty ==
  ASSUME model \in GenerativeModels(Features), NumSamplesAvailable(model) > 0
  PROVE  model.features_queue # <<>>
<1> DEFINE q == model.features_queue
           m == model.next_sample_in_hop
<1>1. m \in 0 .. NumSamplesPerHop - 1
  BY DEF GenerativeModels
<1>2. CASE q = <<>>
  <2>1. Len(q) = 0 /\ 0 * NumSamplesPerHop = 0
    BY <1>2, HopAssumption
  <2>2. NumSamplesAvailable(model) = 0 - m
    BY <2>1 DEF NumSamplesAvailable
  <2> HIDE DEF m
  <2> QED BY <1>1, <2>2, HopAssumption
<1> QED BY <1>2

\* A call before which the buffers are right leaves them right: either it makes
\* a frame at the beginning of a hop, or it leaves the noise alone.
LEMMA NoiseAfterConditioning ==
  ASSUME NoiseInvariant, NEW n \in Int, NEW heard \in BOOLEAN,
         IF Conditions(n) THEN MakeFrame(heard) ELSE UNCHANGED noise
  PROVE  /\ frames' \in Seq(Frames)
         /\ NoiseIsOverlapAdd'
         /\ Conditions(n) \/ model.next_sample_in_hop > 0 =>
              /\ model.features_queue # <<>>
              /\ frames' # <<>> /\ frames'[1].features = Head(model.features_queue)
<1>1. /\ model \in GenerativeModels(Features) /\ frames \in Seq(Frames) /\ NoiseIsOverlapAdd
      /\ model.next_sample_in_hop > 0 =>
           /\ model.features_queue # <<>>
           /\ frames # <<>> /\ frames[1].features = Head(model.features_queue)
  BY DEF NoiseInvariant, ModelIsGenerator, NewestFrameIsOfTheHop
<1>2. CASE Conditions(n)
  <2>1. model.features_queue # <<>>
    BY <1>1, <1>2, QueueIsNotEmpty DEF Conditions
  <2> QED BY <1>1, <1>2, <2>1, FrameAdded
<1>3. CASE ~Conditions(n)
  <2>1. UNCHANGED << working_output, reconstructed_samples, frames >>
    BY <1>3 DEF noise
  <2>2. NoiseIsOverlapAdd'
    BY <1>1, <2>1, BuffersHoldSums
  <2> QED BY <1>1, <1>3, <2>1, <2>2
<1> QED BY <1>2, <1>3

\* Every call adds features, hands out samples or is refused, and keeps the
\* invariant.
LEMMA CallsMoveTheStream ==
  ASSUME NoiseInvariant, Next
  PROVE  /\ NoiseInvariant'
         /\ \/ \E f \in Features : Adds(f)
            \/ \E n \in 0 .. NumSamplesPerHop : HandsOut(n)
            \/ Refuses
<1> DEFINE q == model.features_queue
           m == model.next_sample_in_hop
<1>1. /\ model \in GenerativeModels(Features)
      /\ q \in Seq(Features) /\ m \in 0 .. NumSamplesPerHop - 1
      /\ m > 0 => q # <<>>
      /\ SamplesOwed = Owed(q, m)
      /\ SamplesOwed \in Seq(Features \X Place)
      /\ frames \in Seq(Frames) /\ NoiseIsOverlapAdd
      /\ m > 0 => frames # <<>> /\ frames[1].features = Head(q)
  <2>1. /\ model \in GenerativeModels(Features) /\ (m > 0 => q # <<>>)
        /\ frames \in Seq(Frames) /\ NoiseIsOverlapAdd
        /\ m > 0 => frames # <<>> /\ frames[1].features = Head(q)
    BY DEF NoiseInvariant, ModelIsGenerator, NewestFrameIsOfTheHop
  <2>2. q \in Seq(Features) /\ m \in 0 .. NumSamplesPerHop - 1
    BY <2>1 DEF GenerativeModels
  <2>3. Owed(q, m) \in Seq(Features \X Place)
    <3>1. m > 0 => q # <<>>
      BY <2>1
    <3> HIDE DEF q, m
    <3> QED BY <2>2, <3>1, OwedSamples
  <2> QED BY <2>1, <2>2, <2>3, QueueIsOwed
<1>2. ASSUME NEW f \in Features, AddWellFormedFeatures(f)
      PROVE  NoiseInvariant' /\ Adds(f)
  <2>1. model' = AddFeatures(model, f) /\ reply' = Succeeds(<<>>)
        /\ UNCHANGED << working_output, reconstructed_samples, frames >>
    BY <1>2 DEF AddWellFormedFeatures, noise
  <2>2. /\ model' \in GenerativeModels(Features)
        /\ model'.features_queue # <<>> /\ model'.next_sample_in_hop = m
        /\ q # <<>> => Head(model'.features_queue) = Head(q)
        /\ Owed(model'.features_queue, model'.next_sample_in_hop) = Owed(q, m) \o Hop(f)
    BY <1>1, <2>1, Queued
  <2>3. NoiseIsOverlapAdd'
    BY <1>1, <2>1, BuffersHoldSums
  <2>4. NoiseInvariant'
    <3>1. ModelIsGenerator'
      BY <2>2 DEF ModelIsGenerator
    <3>2. NewestFrameIsOfTheHop'
      BY <1>1, <2>1, <2>2 DEF NewestFrameIsOfTheHop
    <3> QED BY <1>1, <2>1, <2>3, <3>1, <3>2 DEF NoiseInvariant
  <2>5. SamplesOwed' = SamplesOwed \o Hop(f)
    BY <1>1, <2>2, QueueIsOwed
  <2> QED BY <2>1, <2>4, <2>5, ReplyWithoutSamples DEF Adds
<1>3. CASE AddMalformedFeatures
  <2>1. UNCHANGED << model, working_output, reconstructed_samples, frames >> /\ reply' = Refused
    BY <1>3 DEF AddMalformedFeatures, noise
  <2>2. NoiseIsOverlapAdd'
    BY <1>1, <2>1, BuffersHoldSums
  <2>3. NoiseInvariant'
    BY <1>1, <2>1, <2>2 DEF NoiseInvariant, ModelIsGenerator, NewestFrameIsOfTheHop
  <2>4. Refuses
    BY <2>1, QueueIsOwed, ReplyWithoutSamples DEF Refuses
  <2> QED BY <2>3, <2>4
<1>4. ASSUME NEW n \in -1 .. NumSamplesPerHop + 1, GenerateSamples(n)
      PROVE  NoiseInvariant' /\ n \in 0 .. NumSamplesPerHop /\ HandsOut(n)
  <2>1. /\ CanGenerate(model, n) /\ model' = Generate(model, n)
        /\ reply' = Succeeds(SubSeq(reconstructed_samples', m + 1, m + n))
        /\ IF Conditions(n) THEN MakeFrame(TRUE) ELSE UNCHANGED noise
    BY <1>4 DEF GenerateSamples, RunModel
  <2>2. n \in Int
    BY HopAssumption
  <2>3. /\ frames' \in Seq(Frames) /\ NoiseIsOverlapAdd'
        /\ Conditions(n) \/ m > 0 =>
             q # <<>> /\ frames' # <<>> /\ frames'[1].features = Head(q)
    BY <2>1, <2>2, NoiseAfterConditioning
  <2>4. CASE n = 0
    <3>1. model' = model
      BY <2>1, <2>4 DEF Generate
    <3>2. reply' = Succeeds(<<>>)
      <4>1. m + n = m /\ m \in Int
        BY <1>1, <2>4, HopAssumption
      <4>2. SubSeq(reconstructed_samples', m + 1, m) = <<>>
        <5> HIDE DEF m
        <5>1. m < m + 1 /\ m + 1 \in Int
          BY <4>1
        <5> QED BY <4>1, <5>1, SubSeqEmpty
      <4> QED BY <2>1, <4>1, <4>2
    <3>3. NoiseInvariant'
      BY <1>1, <2>3, <3>1 DEF NoiseInvariant, ModelIsGenerator, NewestFrameIsOfTheHop
    <3>4. /\ SubSeq(SamplesOwed, 1, 0) = <<>>
          /\ SubSeq(SamplesOwed, 0 + 1, Len(SamplesOwed)) = SamplesOwed
          /\ Len(SamplesOwed) \in Nat
      <4> DEFINE s == SamplesOwed
                 T == Features \X Place
      <4>1. s \in Seq(T)
        BY <1>1
      <4> HIDE DEF s, T
      <4>2. SubSeq(s, 1, Len(s)) = s /\ 0 + 1 = 1 /\ Len(s) \in Nat
        BY <4>1, SubSeqFull, LenProperties
      <4>3. SubSeq(s, 1, 0) = <<>>
        BY SubSeqEmpty
      <4> QED BY <4>2, <4>3 DEF s
    <3>5. SamplesOwed' = SamplesOwed
      BY <3>1, QueueIsOwed
    <3>6. StreamReply' = Succeeds(<<>>)
      BY <3>2, ReplyWithoutSamples
    <3>7. n \in 0 .. NumSamplesPerHop
      BY <2>4, HopAssumption
    <3>8. SamplesOwed' = SubSeq(SamplesOwed, 0 + 1, Len(SamplesOwed))
      BY <3>4, <3>5, Zenon
    <3>9. StreamReply' = Succeeds(SubSeq(SamplesOwed, 1, 0))
      BY <3>4, <3>6, Zenon
    <3>10. 0 <= Len(SamplesOwed)
      BY <3>4
    <3>11. HandsOut(0)
      BY <3>8, <3>9, <3>10 DEF HandsOut
    <3> QED BY <2>4, <3>3, <3>7, <3>11
  <2>5. CASE n # 0
    <3> DEFINE before == RunConditioning(model)
    <3>1. n \in Nat \ {0} /\ NumSamplesAvailable(model) > 0
      BY <2>1, <2>5, HopAssumption DEF CanGenerate
    <3>2. Conditions(n) \/ m > 0
      BY <1>1, <3>1, HopAssumption DEF Conditions
    <3>3. q # <<>> /\ frames' # <<>> /\ frames'[1].features = Head(q)
      BY <2>3, <3>2
    <3>4. /\ before \in GenerativeModels(Features)
          /\ before.features_queue = q /\ before.next_sample_in_hop = m
          /\ CanGenerate(before, n)
      BY <1>1, <2>1, <2>2, <3>3, Conditioned
    <3>5. model' = Advance(before, n)
      BY <2>1, <2>5 DEF Generate
    <3> HIDE DEF before
    <3>6. /\ n \in 1 .. NumSamplesPerHop - m
          /\ model' \in GenerativeModels(Features)
          /\ model'.next_sample_in_hop > 0 => model'.features_queue = q
          /\ Owed(model'.features_queue, model'.next_sample_in_hop)
               = SubSeq(Owed(q, m), n + 1, Len(Owed(q, m)))
      BY <1>1, <3>1, <3>4, <3>5, Played
    <3>7. NoiseInvariant'
      <4>1. ModelIsGenerator'
        BY <3>3, <3>6 DEF ModelIsGenerator
      <4>2. NewestFrameIsOfTheHop'
        BY <3>3, <3>6 DEF NewestFrameIsOfTheHop
      <4> QED BY <2>3, <4>1, <4>2 DEF NoiseInvariant
    <3>8. StreamReply' = Succeeds([ k \in 1 .. n |-> << Head(q), m + k >> ])
      <4>1. StreamReply' = Succeeds([ k \in 1 .. n |-> << frames'[1].features, m + k >> ])
        BY <1>1, <2>1, <2>3, <3>3, <3>6, ReadOfNewestFrame
      <4> QED BY <3>3, <4>1
    <3>9. /\ n <= Len(Owed(q, m))
          /\ \A i \in 1 .. n : Owed(q, m)[i] = << Head(q), m + i >>
          /\ SubSeq(Owed(q, m), 1, n) = [ i \in 1 .. n |-> << Head(q), m + i >> ]
      <4>1. /\ q \in Seq(Features) /\ q # <<>> /\ m \in 0 .. NumSamplesPerHop - 1
            /\ n \in 1 .. NumSamplesPerHop - m
        BY <1>1, <3>3, <3>6
      <4> HIDE DEF q, m
      <4>2. /\ n <= Len(Owed(q, m))
            /\ \A i \in 1 .. n : Owed(q, m)[i] = << Head(q), m + i >>
            /\ SubSeq(Owed(q, m), 1, n) = FrontOf(q, m, n)
        BY <4>1, OwedFront
      <4> QED BY <4>2 DEF FrontOf
    <3>10. n \in 0 .. NumSamplesPerHop /\ 1 \in 1 .. n /\ n \in 1 .. n /\ m \in Nat
      <4>1. m \in 0 .. NumSamplesPerHop - 1
        BY <1>1
      <4> HIDE DEF m
      <4> QED BY <3>6, <4>1, HopAssumption
    <3> HIDE DEF q, m
    <3>11. SamplesOwed[n][2] = SamplesOwed[1][2] + n - 1
      <4>1. SamplesOwed[n] = << Head(q), m + n >> /\ SamplesOwed[1] = << Head(q), m + 1 >>
        BY <1>1, <3>9, <3>10
      <4>2. SamplesOwed[n][2] = m + n /\ SamplesOwed[1][2] = m + 1
        BY <4>1
      <4> QED BY <3>10, <4>2
    <3>12. SamplesOwed' = SubSeq(SamplesOwed, n + 1, Len(SamplesOwed))
      BY <1>1, <3>6, QueueIsOwed
    <3> QED BY <1>1, <3>7, <3>8, <3>9, <3>10, <3>11, <3>12 DEF HandsOut
  <2> QED BY <2>4, <2>5
<1>5. ASSUME NEW n \in -1 .. NumSamplesPerHop + 1, RefuseSamples(n)
      PROVE  NoiseInvariant' /\ Refuses
  <2>1. /\ reply' = Refused /\ model' = Refuse(model, n)
        /\ IF Conditions(n) THEN MakeFrame(FALSE) ELSE UNCHANGED noise
    BY <1>5 DEF RefuseSamples
  <2>2. n \in Int
    BY HopAssumption
  <2>3. /\ frames' \in Seq(Frames) /\ NoiseIsOverlapAdd'
        /\ Conditions(n) \/ m > 0 =>
             q # <<>> /\ frames' # <<>> /\ frames'[1].features = Head(q)
    BY <2>1, <2>2, NoiseAfterConditioning
  <2>4. /\ model' \in GenerativeModels(Features)
        /\ model'.features_queue = q /\ model'.next_sample_in_hop = m
    <3>1. CASE n > 0 /\ NumSamplesAvailable(model) > 0
      <4>1. q # <<>>
        BY <1>1, <3>1, QueueIsNotEmpty
      <4> QED BY <1>1, <2>1, <3>1, <4>1, Conditioned DEF Refuse
    <3>2. CASE ~(n > 0 /\ NumSamplesAvailable(model) > 0)
      BY <1>1, <2>1, <3>2 DEF Refuse
    <3> QED BY <3>1, <3>2
  <2>5. NoiseInvariant'
    BY <1>1, <2>3, <2>4 DEF NoiseInvariant, ModelIsGenerator, NewestFrameIsOfTheHop
  <2>6. Refuses
    BY <1>1, <2>1, <2>4, QueueIsOwed, ReplyWithoutSamples DEF Refuses
  <2> QED BY <2>5, <2>6
<1> QED BY <1>2, <1>3, <1>4, <1>5 DEF Next

-----------------------------------------------------------------------------
(***************************************************************************)
(* Theorems.                                                               *)
(***************************************************************************)

\* A new generator owes nothing, and its buffers are silent.
LEMMA SilenceInitially ==
  ASSUME Init
  PROVE  NoiseInvariant /\ SamplesOwed = <<>> /\ StreamReply = Succeeds(<<>>)
<1>1. /\ model.features_queue = <<>> /\ model.next_sample_in_hop = 0
      /\ model \in GenerativeModels(Features)
  BY HopAssumption DEF Init, EmptyModel, GenerativeModels
<1>2. frames = <<>> /\ frames \in Seq(Frames) /\ Len(frames) = 0
  BY DEF Init
<1>3. \A i \in Nat : SumOf(0, i) = {}
  <2>1. 0 .. 0 - 1 = {}
    OBVIOUS
  <2> QED BY <2>1 DEF SumOf
<1>4. NoiseIsOverlapAdd
  <2>1. /\ reconstructed_samples = [ i \in 1 .. NumSamplesPerHop |-> {} ]
        /\ working_output = [ i \in 1 .. FftSize - NumSamplesPerHop |-> {} ]
    BY DEF Init, Silence, Overlap
  <2>2. /\ \A i \in 1 .. NumSamplesPerHop : SumOf(0, i) = {}
        /\ \A i \in 1 .. FftSize - NumSamplesPerHop : SumOf(0, NumSamplesPerHop + i) = {}
    BY <1>3, FrameSize, HopAssumption
  <2>3. /\ reconstructed_samples = [ i \in 1 .. NumSamplesPerHop |-> SumOf(0, i) ]
        /\ working_output =
             [ i \in 1 .. FftSize - NumSamplesPerHop |-> SumOf(0, NumSamplesPerHop + i) ]
    BY <2>1, <2>2
  <2> QED BY <1>2, <2>3, BuffersHoldSums
<1>5. SamplesOwed = <<>>
  <2>1. NumSamplesAvailable(model) = 0
    <3>1. Len(<<>>) = 0 /\ 0 * NumSamplesPerHop = 0
      BY HopAssumption
    <3> QED BY <1>1, <3>1 DEF NumSamplesAvailable
  <2> QED BY <2>1 DEF SamplesOwed
<1>6. StreamReply = Succeeds(<<>>)
  BY ReplyWithoutSamples DEF Init
<1>7. NoiseInvariant
  BY <1>1, <1>2, <1>4 DEF NoiseInvariant, ModelIsGenerator, NewestFrameIsOfTheHop
<1> QED BY <1>5, <1>6, <1>7

\* Every call keeps the invariant.
LEMMA InvariantKept ==
  ASSUME NoiseInvariant, [Next]_vars
  PROVE  NoiseInvariant'
<1>1. CASE Next
  BY <1>1, CallsMoveTheStream
<1>2. CASE UNCHANGED vars
  <2>1. UNCHANGED << model, working_output, reconstructed_samples, frames >>
    BY <1>2 DEF vars
  <2>2. NoiseIsOverlapAdd'
    BY <2>1, BuffersHoldSums DEF NoiseInvariant
  <2> QED BY <2>1, <2>2 DEF NoiseInvariant, ModelIsGenerator, NewestFrameIsOfTheHop
<1> QED BY <1>1, <1>2

\* In the middle of a hop its features are at the front of the queue, the newest
\* frame is theirs, and the buffers hold the sum of all frames.
THEOREM NoiseInvariantHolds == Spec => []NoiseInvariant
<1> QED BY SilenceInitially, InvariantKept, PTL DEF Spec

\* Whatever is asked for and refused, the buffers hold the sum of all frames made
\* since the decoder was created, each at its own distance.
THEOREM NoiseAddsUp == Spec => []NoiseIsOverlapAdd
<1>1. NoiseInvariant => NoiseIsOverlapAdd
  BY DEF NoiseInvariant
<1> QED BY <1>1, NoiseInvariantHolds, PTL

\* The noise handed out is that of the estimates, each once, from its first
\* sample to the last of its hop, and in their order.
THEOREM NoiseIsAStream == Spec => NoiseStreamsInOrder
<1>1. Init => Stream!Init
  BY SilenceInitially DEF Stream!Init, Stream!Succeeds, Succeeds, StreamReply
<1>2. ASSUME NoiseInvariant, [Next]_vars
      PROVE  [Stream!Next]_(Stream!vars)
  <2>1. CASE UNCHANGED vars
    <3>1. UNCHANGED << model, reply, frames >>
      BY <2>1 DEF vars
    <3>2. UNCHANGED SamplesOwed
      BY <3>1, QueueIsOwed
    <3>3. UNCHANGED StreamReply
      BY <3>1, ReplyOfNewestFrame
    <3> QED BY <3>2, <3>3 DEF Stream!vars, StreamReply
  <2>2. ASSUME NEW f \in Features, Adds(f) PROVE Stream!Next
    <3>1. Stream!AddFeatures(f)
      BY <2>2 DEF Adds, Hop, Succeeds, StreamReply, Stream!AddFeatures, Stream!Succeeds
    <3> QED BY <3>1 DEF Stream!Next
  <2>3. ASSUME NEW n \in 0 .. NumSamplesPerHop, HandsOut(n) PROVE Stream!Next
    <3>1. Stream!GenerateSamples(n)
      BY <2>3 DEF HandsOut, Succeeds, StreamReply, Stream!GenerateSamples, Stream!Succeeds
    <3> QED BY <3>1 DEF Stream!Next
  <2>4. CASE Refuses
    <3>1. Stream!RefuseCall
      BY <2>4 DEF Refuses, Refused, StreamReply, Stream!RefuseCall, Stream!Refused
    <3> QED BY <3>1 DEF Stream!Next
  <2>5. CASE Next
    BY <1>2, <2>2, <2>3, <2>4, <2>5, CallsMoveTheStream
  <2> QED BY <1>2, <2>1, <2>5
<1> QED BY <1>1, <1>2, NoiseInvariantHolds, PTL DEF Spec, NoiseStreamsInOrder, Stream!Spec

-----------------------------------------------------------------------------
(***************************************************************************)
(* One frame for every hop.                                                *)
(***************************************************************************)

\* Some of the newest k frames are heard, none of none.
LEMMA HeardType ==
  ASSUME NEW made, NEW k \in Nat
  PROVE  /\ NumHeard(made, k) \in Nat /\ NumHeard(made, k) <= k
         /\ k \in 1 .. k /\ made[k].heard => NumHeard(made, k) >= 1
<1> DEFINE S == { j \in 1 .. k : made[j].heard }
<1>1. IsFiniteSet(1 .. k) /\ Cardinality(1 .. k) = k
  BY FS_Interval
<1>2. S \in SUBSET (1 .. k)
  OBVIOUS
<1>3. k \in 1 .. k /\ made[k].heard => S # {}
  BY Zenon
<1>4. NumHeard(made, k) = Cardinality(S)
  BY DEF NumHeard
<1> HIDE DEF S
<1>5. IsFiniteSet(S) /\ Cardinality(S) <= k
  BY <1>1, <1>2, FS_Subset
<1>6. Cardinality(S) \in Nat /\ (Cardinality(S) = 0 <=> S = {})
  BY <1>5, FS_CardinalityType, FS_EmptySet
<1> QED BY <1>3, <1>4, <1>5, <1>6

\* A frame that is put before the others counts if it is heard, and moves those
\* that were counted.
LEMMA HeardBefore ==
  ASSUME NEW made, NEW longer, NEW k \in Nat,
         \A j \in 1 .. k : longer[j + 1] = made[j],
         NEW first \in {0, 1}, longer[1].heard <=> first = 1
  PROVE  NumHeard(longer, k + 1) = NumHeard(made, k) + first
<1> DEFINE S == { j \in 1 .. k : made[j].heard }
           T == { j \in 1 .. k + 1 : longer[j].heard }
           U == T \ {1}
           f == [ j \in S |-> j + 1 ]
<1>1. S \in SUBSET (1 .. k) /\ T \in SUBSET (1 .. k + 1)
  OBVIOUS
<1>2. \A j \in 1 .. k : j \in S <=> j + 1 \in T
  <2> TAKE j \in 1 .. k
  <2>1. j + 1 \in 1 .. k + 1 /\ longer[j + 1] = made[j]
    OBVIOUS
  <2>2. j \in S <=> made[j].heard
    BY Zenon
  <2>3. j + 1 \in T <=> longer[j + 1].heard
    BY <2>1, Zenon
  <2> HIDE DEF S, T
  <2> QED BY <2>1, <2>2, <2>3, Zenon
<1>3. 1 \in T <=> first = 1
  <2>1. 1 \in 1 .. k + 1
    OBVIOUS
  <2>2. 1 \in T <=> longer[1].heard
    BY <2>1, Zenon
  <2> HIDE DEF T
  <2> QED BY <2>2, Zenon
<1>4. NumHeard(made, k) = Cardinality(S) /\ NumHeard(longer, k + 1) = Cardinality(T)
  BY DEF NumHeard
<1> HIDE DEF S, T
<1>5. IsFiniteSet(S) /\ IsFiniteSet(T)
  <2>1. IsFiniteSet(1 .. k) /\ IsFiniteSet(1 .. k + 1)
    BY FS_Interval
  <2> QED BY <1>1, <2>1, FS_Subset
<1>6. f \in Bijection(S, U)
  <2>1. \A j \in S : j + 1 \in U
    BY <1>1, <1>2
  <2>2. \A i \in U : i - 1 \in S /\ (i - 1) + 1 = i
    <3> TAKE i \in U
    <3>1. i \in T /\ i # 1 /\ i \in 1 .. k + 1
      BY <1>1
    <3>2. i - 1 \in 1 .. k /\ (i - 1) + 1 = i
      BY <3>1
    <3> QED BY <1>2, <3>1, <3>2
  <2>3. \A i, j \in S : i + 1 = j + 1 => i = j
    BY <1>1
  <2> QED BY <2>1, <2>2, <2>3 DEF Bijection, Injection, Surjection, IsInjective
<1>7. Cardinality(U) = Cardinality(S)
  BY <1>5, <1>6, FS_Bijection DEF ExistsBijection
<1>8. Cardinality(U) = IF 1 \in T THEN Cardinality(T) - 1 ELSE Cardinality(T)
  BY <1>5, FS_RemoveElement
<1>9. Cardinality(S) \in Nat /\ Cardinality(T) \in Nat
  BY <1>5, FS_CardinalityType
<1> QED BY <1>3, <1>4, <1>7, <1>8, <1>9

\* The hops begun are named by their features, and the frames that were heard
\* are theirs.
HopsInvariant ==
  /\ NoiseInvariant
  /\ played \in Seq(Features)
  /\ EveryHopHasItsFrame

\* A heard frame stands for a hop that was begun.
HasItsHop(made, begun, k) ==
  made[k].heard =>
    NumHeard(made, k) <= Len(begun) /\ made[k].features = begun[NumHeard(made, k)]

\* A frame for a hop is put before the frames and its features before the hops.
LEMMA FrameForHop ==
  ASSUME frames \in Seq(Frames), played \in Seq(Features),
         \A k \in 1 .. Len(frames) : HasItsHop(frames, played, k),
         NEW f \in Features,
         frames' = LatestOf(<< [features |-> f, heard |-> TRUE] >> \o frames, MaxFrames),
         played' = LatestOf(<< f >> \o played, MaxFrames)
  PROVE  /\ played' \in Seq(Features)
         /\ \A k \in 1 .. Len(frames') : HasItsHop(frames', played', k)
<1> DEFINE first == [features |-> f, heard |-> TRUE]
<1>1. first \in Frames /\ first.features = f /\ first.heard
  BY Zenon DEF Frames
<1>2. frames' = LatestOf(<< first >> \o frames, MaxFrames)
  OBVIOUS
<1> DEFINE latest == LatestOf(<< first >> \o frames, MaxFrames)
<1> HIDE DEF first
<1>3. /\ frames' \in Seq(Frames) /\ Len(frames') = Kept(Len(frames))
      /\ frames'[1] = first
      /\ \A k \in 1 .. Len(frames') - 1 : k \in 1 .. Len(frames) /\ frames'[k + 1] = frames[k]
  <2>1. /\ latest \in Seq(Frames) /\ Len(latest) = Kept(Len(frames))
        /\ latest[1] = first
        /\ \A k \in 1 .. Len(latest) - 1 : k \in 1 .. Len(frames) /\ latest[k + 1] = frames[k]
    BY <1>1, PutFirst, SMTT(30)
  <2>2. frames' = latest
    BY <1>2
  <2> HIDE DEF latest
  <2> QED BY <2>1, <2>2
<1>4. /\ played' \in Seq(Features) /\ Len(played') = Kept(Len(played))
      /\ played'[1] = f
      /\ \A k \in 1 .. Len(played') - 1 : k \in 1 .. Len(played) /\ played'[k + 1] = played[k]
  BY PutFirst
<1>5. /\ MaxFrames \in Nat /\ MaxFrames >= 1
      /\ Len(frames) \in Nat /\ Len(played) \in Nat
      /\ Len(frames') \in 1 .. MaxFrames
      /\ Len(played') = IF Len(played) + 1 < MaxFrames THEN Len(played) + 1 ELSE MaxFrames
  BY <1>3, <1>4, FramesReach DEF Kept
<1>6. frames'[1].heard
  BY <1>1, <1>3, Zenon
<1>7. ASSUME NEW k \in 1 .. Len(frames'), frames'[k].heard
      PROVE  /\ NumHeard(frames', k) <= Len(played')
             /\ frames'[k].features = played'[NumHeard(frames', k)]
  <2> DEFINE j == k - 1
             hop == NumHeard(frames', k)
             older == NumHeard(frames, j)
  <2>1. j \in Nat /\ k = j + 1 /\ \A i \in 1 .. j : frames'[i + 1] = frames[i]
    <3>1. j \in Nat /\ k = j + 1 /\ \A i \in 1 .. j : i \in 1 .. Len(frames') - 1
      BY <1>5
    <3> HIDE DEF j
    <3> QED BY <1>3, <3>1
  <2>2. hop = older + 1
    <3> HIDE DEF j
    <3>1. frames'[1].heard <=> 1 = 1
      BY <1>6, Zenon
    <3>2. 1 \in {0, 1}
      OBVIOUS
    <3>3. NumHeard(frames', j + 1) = NumHeard(frames, j) + 1
      BY <2>1, <3>1, <3>2, HeardBefore
    <3> QED BY <2>1, <3>3
  <2>3. older \in Nat /\ older <= j
    BY <2>1, HeardType
  <2>4. CASE j = 0
    <3>1. older = 0 /\ hop = 1 /\ k = 1
      BY <2>1, <2>2, <2>3, <2>4
    <3> HIDE DEF hop
    <3>2. hop <= Len(played')
      BY <1>5, <3>1
    <3>3. frames'[k].features = f /\ played'[hop] = f
      BY <1>1, <1>3, <1>4, <3>1
    <3> QED BY <3>2, <3>3 DEF hop
  <2>5. CASE j # 0
    <3>1. j \in 1 .. j /\ j \in 1 .. Len(frames') - 1
      BY <1>5, <2>1, <2>5
    <3> HIDE DEF j
    <3>2. j \in 1 .. Len(frames) /\ frames'[k] = frames[j]
      BY <1>3, <2>1, <3>1
    <3>3. frames[j].heard
      BY <1>7, <3>2, Zenon
    <3>4. older <= Len(played) /\ frames[j].features = played[older]
      BY <3>2, <3>3, Zenon DEF HasItsHop
    <3>5. older >= 1
      BY <2>1, <3>1, <3>3, HeardType
    <3> HIDE DEF older, hop
    <3>6. older \in 1 .. Len(played') - 1 /\ hop <= Len(played')
      BY <1>5, <2>1, <2>2, <2>3, <3>4, <3>5
    <3>7. played'[hop] = played[older]
      BY <1>4, <2>2, <3>6
    <3> QED BY <3>2, <3>4, <3>6, <3>7 DEF hop
  <2> QED BY <2>4, <2>5
<1>8. \A k \in 1 .. Len(frames') : HasItsHop(frames', played', k)
  BY <1>7, Zenon DEF HasItsHop
<1> QED BY <1>4, <1>8

\* A frame nobody hears is put before the frames, and no hop has begun.
LEMMA FrameForNothing ==
  ASSUME frames \in Seq(Frames), played \in Seq(Features),
         \A k \in 1 .. Len(frames) : HasItsHop(frames, played, k),
         NEW f \in Features,
         frames' = LatestOf(<< [features |-> f, heard |-> FALSE] >> \o frames, MaxFrames),
         played' = played
  PROVE  \A k \in 1 .. Len(frames') : HasItsHop(frames', played', k)
<1> DEFINE first == [features |-> f, heard |-> FALSE]
<1>1. first \in Frames /\ ~first.heard
  BY Zenon DEF Frames
<1>2. frames' = LatestOf(<< first >> \o frames, MaxFrames)
  OBVIOUS
<1> DEFINE latest == LatestOf(<< first >> \o frames, MaxFrames)
<1> HIDE DEF first
<1>3. /\ frames' \in Seq(Frames) /\ Len(frames') = Kept(Len(frames))
      /\ frames'[1] = first
      /\ \A k \in 1 .. Len(frames') - 1 : k \in 1 .. Len(frames) /\ frames'[k + 1] = frames[k]
  <2>1. /\ latest \in Seq(Frames) /\ Len(latest) = Kept(Len(frames))
        /\ latest[1] = first
        /\ \A k \in 1 .. Len(latest) - 1 : k \in 1 .. Len(frames) /\ latest[k + 1] = frames[k]
    BY <1>1, PutFirst
  <2>2. frames' = latest
    BY <1>2
  <2> HIDE DEF latest
  <2> QED BY <2>1, <2>2
<1>4. ~frames'[1].heard /\ Len(frames') \in Nat
  <2>1. ~frames'[1].heard
    BY <1>1, <1>3, Zenon
  <2>2. Len(frames') \in Nat
    BY <1>3
  <2> QED BY <2>1, <2>2, Zenon
<1>5. ASSUME NEW k \in 1 .. Len(frames'), frames'[k].heard
      PROVE  /\ NumHeard(frames', k) <= Len(played')
             /\ frames'[k].features = played'[NumHeard(frames', k)]
  <2> DEFINE j == k - 1
  <2>1. j \in Nat /\ k = j + 1 /\ \A i \in 1 .. j : frames'[i + 1] = frames[i]
    <3>1. j \in Nat /\ k = j + 1 /\ \A i \in 1 .. j : i \in 1 .. Len(frames') - 1
      BY <1>4
    <3> HIDE DEF j
    <3> QED BY <1>3, <3>1
  <2>2. k # 1
    BY <1>4, <1>5, Zenon
  <2>3. j \in 1 .. Len(frames') - 1
    BY <1>4, <2>1, <2>2
  <2> HIDE DEF j
  <2>4. NumHeard(frames', k) = NumHeard(frames, j)
    <3>1. frames'[1].heard <=> 0 = 1
      <4>1. ~(0 = 1)
        OBVIOUS
      <4> QED BY <1>4, <4>1, Zenon
    <3>2. 0 \in {0, 1}
      OBVIOUS
    <3>3. NumHeard(frames', j + 1) = NumHeard(frames, j) + 0
      BY <2>1, <3>1, <3>2, HeardBefore
    <3>4. NumHeard(frames, j) \in Nat
      BY <2>1, HeardType
    <3> QED BY <2>1, <3>3, <3>4
  <2>5. j \in 1 .. Len(frames) /\ frames'[k] = frames[j]
    BY <1>3, <2>1, <2>3
  <2>6. frames[j].heard
    BY <1>5, <2>5, Zenon
  <2>7. NumHeard(frames, j) <= Len(played) /\ frames[j].features = played[NumHeard(frames, j)]
    BY <2>5, <2>6, Zenon DEF HasItsHop
  <2> QED BY <2>4, <2>5, <2>7, Zenon
<1> QED BY <1>5, Zenon DEF HasItsHop

\* The property in terms of single frames.
LEMMA HopsAreOfFrames ==
  /\ EveryHopHasItsFrame <=> \A k \in DOMAIN frames : HasItsHop(frames, played, k)
  /\ EveryHopHasItsFrame' <=> \A k \in DOMAIN frames' : HasItsHop(frames', played', k)
BY Zenon DEF EveryHopHasItsFrame, HasItsHop

\* No hop is begun without its frame, and only a refused call makes one for none.
LEMMA HopsKept ==
  ASSUME HopsInvariant, [Next]_vars
  PROVE  HopsInvariant'
<1> DEFINE f == Head(model.features_queue)
<1>1. /\ NoiseInvariant /\ NoiseInvariant'
      /\ frames \in Seq(Frames) /\ frames' \in Seq(Frames)
      /\ played \in Seq(Features)
  <2>1. NoiseInvariant /\ played \in Seq(Features)
    BY DEF HopsInvariant
  <2>2. NoiseInvariant'
    BY <2>1, InvariantKept
  <2> QED BY <2>1, <2>2 DEF NoiseInvariant
<1>2. \A k \in 1 .. Len(frames) : HasItsHop(frames, played, k)
  <2>1. DOMAIN frames = 1 .. Len(frames)
    BY <1>1
  <2>2. EveryHopHasItsFrame
    BY DEF HopsInvariant
  <2> QED BY <2>1, <2>2, HopsAreOfFrames
<1>3. SUFFICES played' \in Seq(Features)
               /\ \A k \in 1 .. Len(frames') : HasItsHop(frames', played', k)
  <2>1. DOMAIN frames' = 1 .. Len(frames')
    BY <1>1
  <2> QED BY <1>1, <2>1, HopsAreOfFrames DEF HopsInvariant
<1>4. CASE UNCHANGED << frames, played >>
  BY <1>1, <1>2, <1>4
<1>5. ASSUME NEW n \in Int, Conditions(n)
      PROVE  f \in Features
  <2>1. model \in GenerativeModels(Features) /\ NumSamplesAvailable(model) > 0
    BY <1>1, <1>5 DEF NoiseInvariant, ModelIsGenerator, Conditions
  <2>2. model.features_queue # <<>> /\ model.features_queue \in Seq(Features)
    BY <2>1, QueueIsNotEmpty DEF GenerativeModels
  <2> QED BY <2>2
<1>6. ASSUME NEW n \in -1 .. NumSamplesPerHop + 1, GenerateSamples(n)
      PROVE  played' \in Seq(Features)
             /\ \A k \in 1 .. Len(frames') : HasItsHop(frames', played', k)
  <2>1. n \in Int
    BY HopAssumption
  <2>2. CASE Conditions(n)
    <3>1. /\ frames' = LatestOf(<< [features |-> f, heard |-> TRUE] >> \o frames, MaxFrames)
          /\ played' = LatestOf(<< f >> \o played, MaxFrames)
      BY <1>6, <2>2 DEF GenerateSamples, MakeFrame, Conditions
    <3>2. f \in Features
      BY <1>5, <2>1, <2>2
    <3> HIDE DEF f
    <3> QED BY <1>1, <1>2, <3>1, <3>2, FrameForHop
  <2>3. CASE ~Conditions(n)
    <3>1. frames' = frames
      BY <1>6, <2>3 DEF GenerateSamples, noise
    <3>2. played' = played
      BY <1>6, <2>3, HopAssumption DEF GenerateSamples, Conditions, CanGenerate
    <3> QED BY <1>4, <3>1, <3>2
  <2> QED BY <2>2, <2>3
<1>7. ASSUME NEW n \in -1 .. NumSamplesPerHop + 1, RefuseSamples(n)
      PROVE  played' \in Seq(Features)
             /\ \A k \in 1 .. Len(frames') : HasItsHop(frames', played', k)
  <2>1. n \in Int /\ played' = played
    BY <1>7, HopAssumption DEF RefuseSamples
  <2>2. CASE Conditions(n)
    <3>1. frames' = LatestOf(<< [features |-> f, heard |-> FALSE] >> \o frames, MaxFrames)
      BY <1>7, <2>2 DEF RefuseSamples, MakeFrame
    <3>2. f \in Features
      BY <1>5, <2>1, <2>2
    <3> HIDE DEF f
    <3> QED BY <1>1, <1>2, <2>1, <3>1, <3>2, FrameForNothing
  <2>3. CASE ~Conditions(n)
    BY <1>4, <1>7, <2>1, <2>3 DEF RefuseSamples, noise
  <2> QED BY <2>2, <2>3
<1>8. CASE \E g \in Features : AddWellFormedFeatures(g)
  BY <1>4, <1>8 DEF AddWellFormedFeatures, noise
<1>9. CASE AddMalformedFeatures
  BY <1>4, <1>9 DEF AddMalformedFeatures, noise
<1>10. CASE UNCHANGED vars
  BY <1>4, <1>10 DEF vars
<1> QED BY <1>6, <1>7, <1>8, <1>9, <1>10 DEF Next

\* For every hop that was begun there is one frame of its features, however
\* requests cut the hops and whatever frames refused calls put in between.
THEOREM HopsHaveFrames == Spec => []EveryHopHasItsFrame
<1>1. Init => HopsInvariant
  <2> SUFFICES ASSUME Init PROVE HopsInvariant
    OBVIOUS
  <2>1. NoiseInvariant
    BY SilenceInitially
  <2>2. frames = <<>> /\ played = <<>>
    BY DEF Init
  <2>3. EveryHopHasItsFrame
    BY <2>2, HopsAreOfFrames
  <2> QED BY <2>1, <2>2, <2>3 DEF HopsInvariant
<1>2. HopsInvariant /\ [Next]_vars => HopsInvariant'
  BY HopsKept
<1>3. HopsInvariant => EveryHopHasItsFrame
  BY DEF HopsInvariant
<1> QED BY <1>1, <1>2, <1>3, PTL DEF Spec
=============================================================================
