-------------------------- MODULE LyraGanModelProofs --------------------------
(***************************************************************************)
(* Proofs about LyraGanModel: the FIFO of feature vectors is a stream of   *)
(* samples, for every length of the hop, every set of features and every   *)
(* client.  The refinement rests on three facts about the samples owed: a  *)
(* feature vector appends a hop to them, samples that are handed out are   *)
(* cut off their front, and whatever is refused leaves them alone.         *)
(***************************************************************************)
EXTENDS LyraGanModel, HopArithmetic

-----------------------------------------------------------------------------
(***************************************************************************)
(* The stream with its features forgotten.                                 *)
(***************************************************************************)

AnyFeatures == {"any"}

\* Forgetting the features keeps the places.
LEMMA IndexSamples ==
  ASSUME NEW F, NEW s \in Seq(F \X Place)
  PROVE  /\ Indices(s) \in Seq(AnyFeatures \X Place)
         /\ Len(Indices(s)) = Len(s)
         /\ \A k \in 1 .. Len(s) : Indices(s)[k] = << "any", s[k][2] >>
<1> DEFINE n == Len(s)
           T == AnyFeatures \X Place
           sample(k) == << "any", s[k][2] >>
<1>1. n \in Nat /\ DOMAIN s = 1 .. n /\ \A k \in 1 .. n : s[k] \in F \X Place
  OBVIOUS
<1>2. ASSUME NEW k \in 1 .. n PROVE sample(k) \in T
  <2>1. s[k][2] \in Place
    BY <1>1
  <2> QED BY <2>1 DEF AnyFeatures
<1>3. Indices(s) = [ k \in 1 .. n |-> sample(k) ]
  BY <1>1 DEF Indices
<1> HIDE DEF n, T, sample
<1>4. Indices(s) \in Seq(T) /\ Len(Indices(s)) = n
  BY <1>1, <1>2, <1>3
<1>5. \A k \in 1 .. n : Indices(s)[k] = sample(k)
  BY <1>3
<1> QED BY <1>4, <1>5 DEF n, T, sample

\* The features of two pieces of the stream can be forgotten one by one.
LEMMA IndexConcat ==
  ASSUME NEW F, NEW s \in Seq(F \X Place), NEW t \in Seq(F \X Place)
  PROVE  Indices(s \o t) = Indices(s) \o Indices(t)
<1> DEFINE T == AnyFeatures \X Place
           u == s \o t
           i == Indices(s)
           j == Indices(t)
           v == i \o j
<1>1. /\ u \in Seq(F \X Place) /\ Len(u) = Len(s) + Len(t)
      /\ Len(s) \in Nat /\ Len(t) \in Nat
      /\ \A k \in 1 .. Len(s) + Len(t) :
           u[k] = IF k <= Len(s) THEN s[k] ELSE t[k - Len(s)]
  BY ConcatProperties, LenProperties
<1>2. /\ i \in Seq(T) /\ Len(i) = Len(s)
      /\ \A k \in 1 .. Len(s) : i[k] = << "any", s[k][2] >>
  BY IndexSamples
<1>3. /\ j \in Seq(T) /\ Len(j) = Len(t)
      /\ \A k \in 1 .. Len(t) : j[k] = << "any", t[k][2] >>
  BY IndexSamples
<1> HIDE DEF u, T, i, j
<1>4. /\ Indices(u) \in Seq(T) /\ Len(Indices(u)) = Len(u)
      /\ \A k \in 1 .. Len(u) : Indices(u)[k] = << "any", u[k][2] >>
  BY <1>1, IndexSamples DEF T
<1>5. /\ v \in Seq(T) /\ Len(v) = Len(s) + Len(t)
      /\ \A k \in 1 .. Len(s) + Len(t) :
           v[k] = IF k <= Len(s) THEN i[k] ELSE j[k - Len(s)]
  <2>1. i \in Seq(T) /\ j \in Seq(T)
    BY <1>2, <1>3
  <2>2. /\ v \in Seq(T) /\ Len(v) = Len(i) + Len(j)
        /\ \A k \in 1 .. Len(i) + Len(j) :
             v[k] = IF k <= Len(i) THEN i[k] ELSE j[k - Len(i)]
    BY <2>1, ConcatProperties
  <2> QED BY <1>2, <1>3, <2>2
<1> HIDE DEF v
<1>6. ASSUME NEW k \in 1 .. Len(s) + Len(t) PROVE Indices(u)[k] = v[k]
  <2>1. CASE k <= Len(s)
    <3>1. k \in 1 .. Len(s)
      BY <1>1, <2>1
    <3> QED BY <1>1, <1>2, <1>4, <1>5, <2>1, <3>1
  <2>2. CASE ~(k <= Len(s))
    <3>1. k - Len(s) \in 1 .. Len(t)
      BY <1>1, <2>2
    <3> QED BY <1>1, <1>3, <1>4, <1>5, <2>2, <3>1
  <2> QED BY <2>1, <2>2
<1>7. Indices(u) = v
  BY <1>1, <1>4, <1>5, <1>6, SeqEqual
<1> QED BY <1>7 DEF u, v, i, j

\* Forgetting the features of what is behind the first n samples is taking what
\* is behind them once the features are forgotten.
LEMMA IndexRest ==
  ASSUME NEW F, NEW s \in Seq(F \X Place), NEW n \in Nat, n <= Len(s)
  PROVE  Indices(SubSeq(s, n + 1, Len(s))) = SubSeq(Indices(s), n + 1, Len(s))
<1> DEFINE T == AnyFeatures \X Place
           l == Len(s)
           u == SubSeq(s, n + 1, l)
           i == Indices(s)
           v == SubSeq(i, n + 1, l)
<1>1. l \in Nat /\ l - n \in Nat /\ \A k \in 1 .. l - n : n + k \in 1 .. l
  OBVIOUS
<1>2. /\ u \in Seq(F \X Place) /\ Len(u) = l - n
      /\ \A k \in 1 .. l - n : u[k] = s[n + k]
  OBVIOUS
<1>3. /\ i \in Seq(T) /\ Len(i) = l
      /\ \A k \in 1 .. l : i[k] = << "any", s[k][2] >>
  BY IndexSamples
<1> HIDE DEF T, i, l
<1>4. /\ v \in Seq(T) /\ Len(v) = l - n
      /\ \A k \in 1 .. l - n : v[k] = i[n + k]
  BY <1>1, <1>3
<1> HIDE DEF u, v
<1>5. /\ Indices(u) \in Seq(T) /\ Len(Indices(u)) = l - n
      /\ \A k \in 1 .. l - n : Indices(u)[k] = << "any", u[k][2] >>
  BY <1>2, IndexSamples DEF T
<1>6. ASSUME NEW k \in 1 .. l - n PROVE Indices(u)[k] = v[k]
  BY <1>1, <1>2, <1>3, <1>4, <1>5, <1>6
<1>7. Indices(u) = v
  BY <1>4, <1>5, <1>6, SeqEqual
<1> QED BY <1>7 DEF u, v, i, l

-----------------------------------------------------------------------------
(***************************************************************************)
(* The invariant, and what every call does to the samples owed.            *)
(***************************************************************************)

\* In the middle of a hop its features are still queued, and the buffer holds
\* their samples unless the interpreter failed for this hop.
StreamInvariant ==
  /\ TypeOK
  /\ model.next_sample_in_hop > 0 =>
       /\ model.features_queue # <<>>
       /\ ~spoilt => model.hop = Head(model.features_queue)

\* The samples owed are those of the queue and the position in the hop.
LEMMA QueueIsOwed ==
  /\ SamplesOwed = Owed(model.features_queue, model.next_sample_in_hop)
  /\ SamplesOwed' = Owed(model'.features_queue, model'.next_sample_in_hop)
BY DEF SamplesOwed, Owed, NumSamplesAvailable

\* What the client's calls are to the samples owed: features are added ...
Adds(features) ==
  /\ SamplesOwed' = SamplesOwed \o Hop(features)
  /\ reply' = Succeeds(<<>>)

\* ... n samples are handed out, at the right places of the hop, and as those
\* of the right features unless the interpreter failed ...
HandsOut(n) ==
  /\ n <= Len(SamplesOwed)
  /\ n = 0 \/ SamplesOwed[n][2] = SamplesOwed[1][2] + n - 1
  /\ SamplesOwed' = SubSeq(SamplesOwed, n + 1, Len(SamplesOwed))
  /\ reply' = Succeeds(reply'.samples)
  /\ Indices(reply'.samples) = SubSeq(Indices(SamplesOwed), 1, n)
  /\ \/ reply'.samples = SubSeq(SamplesOwed, 1, n)
     \/ spoilt' /\ reply'.samples # <<>>

\* ... or the call is refused.
Refuses == reply' = Refused /\ UNCHANGED SamplesOwed

\* What the invariant says of the samples owed.
LEMMA OwedType ==
  ASSUME StreamInvariant
  PROVE  LET q == model.features_queue
             m == model.next_sample_in_hop
         IN  /\ model \in GenerativeModels(Features)
             /\ q \in Seq(Features) /\ m \in 0 .. NumSamplesPerHop - 1
             /\ m > 0 => q # <<>>
             /\ SamplesOwed = Owed(q, m)
             /\ SamplesOwed \in Seq(Features \X Place)
<1>1. /\ model \in GenerativeModels(Features)
      /\ model.next_sample_in_hop > 0 => model.features_queue # <<>>
  BY DEF StreamInvariant, TypeOK
<1>2. /\ model.features_queue \in Seq(Features)
      /\ model.next_sample_in_hop \in 0 .. NumSamplesPerHop - 1
  BY <1>1 DEF GenerativeModels
<1>3. Owed(model.features_queue, model.next_sample_in_hop) \in Seq(Features \X Place)
  BY <1>1, <1>2, OwedSamples
<1> QED BY <1>1, <1>2, <1>3, QueueIsOwed

\* The next samples are of the features in front.
LEMMA NextAreOfTheFirst ==
  \A q \in Seq(Features), m \in 0 .. NumSamplesPerHop - 1 :
    \A n \in 1 .. NumSamplesPerHop - m :
      q # <<>> =>
        /\ n <= Len(Owed(q, m))
        /\ \A i \in 1 .. n : Owed(q, m)[i] = << Head(q), m + i >>
        /\ SubSeq(Owed(q, m), 1, n) = [ i \in 1 .. n |-> << Head(q), m + i >> ]
<1> TAKE q \in Seq(Features), m \in 0 .. NumSamplesPerHop - 1
<1> TAKE n \in 1 .. NumSamplesPerHop - m
<1> HAVE q # <<>>
<1>1. /\ n <= Len(Owed(q, m))
      /\ \A i \in 1 .. n : Owed(q, m)[i] = << Head(q), m + i >>
      /\ SubSeq(Owed(q, m), 1, n) = FrontOf(q, m, n)
  BY OwedFront
<1> QED BY <1>1 DEF FrontOf

\* A call that returns n samples of the features in the buffer of "before",
\* which is the model with or without its features conditioned.
LEMMA CallHandsOut ==
  ASSUME StreamInvariant, NEW n \in Nat \ {0},
         NEW before \in GenerativeModels(Features),
         before.features_queue = model.features_queue,
         before.next_sample_in_hop = model.next_sample_in_hop,
         CanGenerate(before, n),
         model' = Advance(before, n),
         reply' = Succeeds([ i \in 1 .. n |-> << before.hop, model.next_sample_in_hop + i >> ]),
         spoilt' \in BOOLEAN,
         ~spoilt' => before.hop = Head(model.features_queue)
  PROVE  StreamInvariant' /\ n \in 0 .. NumSamplesPerHop /\ HandsOut(n)
<1> DEFINE q == model.features_queue
           m == model.next_sample_in_hop
           hop == before.hop
           s == SamplesOwed
           t == [ i \in 1 .. n |-> << hop, m + i >> ]
           F == Features \union {NoFeatures}
<1>1. /\ q \in Seq(Features) /\ m \in 0 .. NumSamplesPerHop - 1 /\ (m > 0 => q # <<>>)
      /\ s = Owed(q, m) /\ s \in Seq(Features \X Place)
  BY OwedType
<1>2. /\ q # <<>> /\ n \in 1 .. NumSamplesPerHop - m
      /\ model' \in GenerativeModels(Features) /\ model'.hop = hop
      /\ model'.next_sample_in_hop > 0 => model'.features_queue = q
      /\ Owed(model'.features_queue, model'.next_sample_in_hop)
           = SubSeq(Owed(q, m), n + 1, Len(Owed(q, m)))
  BY <1>1, Played
<1>3. /\ n <= Len(Owed(q, m))
      /\ \A i \in 1 .. n : Owed(q, m)[i] = << Head(q), m + i >>
      /\ SubSeq(Owed(q, m), 1, n) = [ i \in 1 .. n |-> << Head(q), m + i >> ]
  <2>1. /\ q \in Seq(Features) /\ q # <<>> /\ m \in 0 .. NumSamplesPerHop - 1
        /\ n \in 1 .. NumSamplesPerHop - m
    BY <1>1, <1>2
  <2> HIDE DEF q, m, hop, s, t, F
  <2> QED BY <2>1, NextAreOfTheFirst
<1>4. hop \in F
  BY DEF GenerativeModels
<1>5. n \in Nat /\ n >= 1 /\ m \in Nat /\ m + n <= NumSamplesPerHop /\ NumSamplesPerHop \in Nat
  <2>1. m \in 0 .. NumSamplesPerHop - 1 /\ n \in 1 .. NumSamplesPerHop - m
    BY <1>1, <1>2
  <2> HIDE DEF m
  <2> QED BY <2>1, HopAssumption
<1> HIDE DEF q, m, hop, s, F
<1>6. /\ t \in Seq(F \X Place) /\ Len(t) = n
      /\ \A i \in 1 .. n : t[i] = << hop, m + i >>
  <2>1. \A i \in 1 .. n : << hop, m + i >> \in F \X Place
    BY <1>4, <1>5 DEF Place
  <2> DEFINE T == F \X Place
             sample(i) == << hop, m + i >>
  <2>2. \A i \in 1 .. n : sample(i) \in T
    BY <2>1
  <2>3. t = [ i \in 1 .. n |-> sample(i) ]
    OBVIOUS
  <2> HIDE DEF T, t, sample
  <2>4. t \in Seq(T) /\ Len(t) = n /\ \A i \in 1 .. n : t[i] = sample(i)
    BY <1>5, <2>2, <2>3
  <2> QED BY <2>4 DEF T, sample
<1>7. reply' = Succeeds(t)
  BY DEF m, hop
<1> HIDE DEF t
<1>8. reply'.samples = t /\ reply'.ok = TRUE /\ reply' = Succeeds(reply'.samples)
  BY <1>7 DEF Succeeds
<1>9. StreamInvariant'
  <2>1. TypeOK'
    BY <1>2, <1>6, <1>8 DEF TypeOK, F, Place
  <2>2. model'.next_sample_in_hop > 0 =>
          /\ model'.features_queue # <<>>
          /\ ~spoilt' => model'.hop = Head(model'.features_queue)
    BY <1>2 DEF q, hop
  <2> QED BY <2>1, <2>2 DEF StreamInvariant
<1>10. SamplesOwed' = SubSeq(s, n + 1, Len(s))
  BY <1>1, <1>2, QueueIsOwed
<1>11. s[n][2] = s[1][2] + n - 1
  <2>1. s[n] = << Head(q), m + n >> /\ s[1] = << Head(q), m + 1 >>
    BY <1>1, <1>3, <1>5
  <2>2. s[n][2] = m + n /\ s[1][2] = m + 1
    BY <2>1
  <2> QED BY <1>5, <2>2
<1>12. Indices(t) = SubSeq(Indices(s), 1, n)
  <2>1. /\ Indices(t) \in Seq(AnyFeatures \X Place) /\ Len(Indices(t)) = n
        /\ \A i \in 1 .. n : Indices(t)[i] = << "any", t[i][2] >>
    BY <1>6, IndexSamples
  <2>2. /\ Indices(s) \in Seq(AnyFeatures \X Place) /\ Len(Indices(s)) = Len(s)
        /\ \A i \in 1 .. Len(s) : Indices(s)[i] = << "any", s[i][2] >>
    BY <1>1, IndexSamples
  <2> DEFINE u == Indices(t)
             v == Indices(s)
             w == SubSeq(v, 1, n)
             T == AnyFeatures \X Place
  <2>3. n <= Len(v) /\ v \in Seq(T) /\ Len(v) \in Nat
    BY <1>1, <1>3, <2>2
  <2> HIDE DEF v, u, T
  <2>4. w \in Seq(T) /\ Len(w) = n /\ \A i \in 1 .. n : w[i] = v[i]
    BY <1>5, <2>3
  <2>5. ASSUME NEW i \in 1 .. n PROVE u[i] = w[i]
    <3>1. t[i][2] = m + i
      BY <1>6, <2>5
    <3>2. s[i][2] = m + i
      BY <1>1, <1>3, <2>5
    <3>3. i \in 1 .. Len(s)
      BY <1>1, <1>3, <2>5
    <3>4. u[i] = << "any", m + i >>
      BY <2>1, <2>5, <3>1 DEF u
    <3>5. v[i] = << "any", m + i >>
      BY <2>2, <3>2, <3>3 DEF v
    <3> QED BY <2>4, <2>5, <3>4, <3>5
  <2> HIDE DEF w
  <2>6. u \in Seq(T) /\ Len(u) = n
    BY <2>1 DEF u, T
  <2>7. u = w
    BY <2>4, <2>5, <2>6, SeqEqual
  <2> QED BY <2>7 DEF u, v, w
<1>13. t = SubSeq(s, 1, n) \/ (spoilt' /\ t # <<>>)
  <2>1. CASE ~spoilt'
    BY <1>1, <1>3, <2>1 DEF t, q, hop
  <2>2. CASE spoilt'
    BY <1>5, <1>6, <2>2
  <2> QED BY <2>1, <2>2
<1>14. n <= Len(s)
  BY <1>1, <1>3
<1>15. HandsOut(n)
  BY <1>8, <1>10, <1>11, <1>12, <1>13, <1>14 DEF HandsOut, s
<1>16. n \in 0 .. NumSamplesPerHop
  BY <1>5
<1> QED BY <1>9, <1>15, <1>16

\* What is left to show of a call that returns no samples.
LEMMA InvariantWithoutSamples ==
  ASSUME model' \in GenerativeModels(Features), spoilt' \in BOOLEAN,
         reply'.ok \in BOOLEAN, reply'.samples = <<>>,
         model'.next_sample_in_hop > 0 =>
           /\ model'.features_queue # <<>>
           /\ ~spoilt' => model'.hop = Head(model'.features_queue)
  PROVE  StreamInvariant'
<1>1. reply'.samples \in Seq((Features \union {NoFeatures}) \X (1 .. NumSamplesPerHop))
  OBVIOUS
<1> QED BY <1>1 DEF StreamInvariant, TypeOK

\* Every call adds features, hands out samples or is refused, and keeps the
\* invariant.
LEMMA CallsMoveTheStream ==
  ASSUME StreamInvariant, Next
  PROVE  /\ StreamInvariant'
         /\ \/ \E f \in Features : Adds(f)
            \/ \E n \in 0 .. NumSamplesPerHop : HandsOut(n)
            \/ Refuses
<1> DEFINE q == model.features_queue
           m == model.next_sample_in_hop
<1>1. /\ model \in GenerativeModels(Features)
      /\ q \in Seq(Features) /\ m \in 0 .. NumSamplesPerHop - 1
      /\ m > 0 => q # <<>>
      /\ SamplesOwed = Owed(q, m)
      /\ SamplesOwed \in Seq(Features \X Place)
  BY OwedType
<1>2. spoilt \in BOOLEAN /\ (m > 0 /\ ~spoilt => model.hop = Head(q))
  BY DEF StreamInvariant, TypeOK
<1>3. /\ model = [ features_queue |-> q, next_sample_in_hop |-> m, hop |-> model.hop ]
      /\ model.hop \in Features \union {NoFeatures}
  BY <1>1 DEF GenerativeModels
<1>4. ASSUME NEW f \in Features, AddWellFormedFeatures(f)
      PROVE  StreamInvariant' /\ Adds(f)
  <2>1. model' = [ features_queue |-> Append(q, f), next_sample_in_hop |-> m,
                   hop |-> model.hop ]
    BY <1>3, <1>4 DEF AddWellFormedFeatures, AddFeatures
  <2>2. /\ Append(q, f) \in Seq(Features) /\ Append(q, f) # <<>>
        /\ q # <<>> => Head(Append(q, f)) = Head(q)
    BY <1>1, AppendProperties, HeadTailAppend
  <2>3. reply' = Succeeds(<<>>) /\ spoilt' = spoilt
    BY <1>4 DEF AddWellFormedFeatures
  <2> HIDE DEF q, m
  <2>4. /\ model'.features_queue = Append(q, f) /\ model'.next_sample_in_hop = m
        /\ model'.hop = model.hop
        /\ model' \in GenerativeModels(Features)
    BY <1>1, <1>3, <2>1, <2>2 DEF GenerativeModels
  <2>5. reply'.ok = TRUE /\ reply'.samples = <<>>
    BY <2>3 DEF Succeeds
  <2>6. StreamInvariant'
    <3>1. m > 0 => q # <<>> /\ Head(Append(q, f)) = Head(q)
      BY <1>1, <2>2
    <3>2. m > 0 /\ ~spoilt => model.hop = Head(q)
      BY <1>2
    <3>3. m > 0 => (~spoilt' => model'.hop = Head(model'.features_queue))
      BY <2>3, <2>4, <3>1, <3>2
    <3>4. model'.next_sample_in_hop > 0 =>
            /\ model'.features_queue # <<>>
            /\ ~spoilt' => model'.hop = Head(model'.features_queue)
      BY <2>2, <2>4, <3>3
    <3> QED BY <1>2, <2>3, <2>4, <2>5, <3>4, InvariantWithoutSamples
  <2>7. SamplesOwed' = SamplesOwed \o Hop(f)
    <3>1. SamplesOwed' = Owed(Append(q, f), m)
      BY <2>4, QueueIsOwed
    <3> QED BY <1>1, <3>1, OwedAppend
  <2> QED BY <2>3, <2>6, <2>7 DEF Adds
<1>5. CASE AddMalformedFeatures
  <2>1. UNCHANGED << model, spoilt >> /\ reply' = Refused
    BY <1>5 DEF AddMalformedFeatures
  <2>2. StreamInvariant'
    BY <2>1 DEF StreamInvariant, TypeOK, Refused
  <2>3. Refuses
    BY <2>1, QueueIsOwed DEF Refuses
  <2> QED BY <2>2, <2>3
<1>6. ASSUME NEW n \in -1 .. NumSamplesPerHop + 1, GenerateSamples(n)
      PROVE  StreamInvariant' /\ n \in 0 .. NumSamplesPerHop /\ HandsOut(n)
  <2>0. /\ CanGenerate(model, n) /\ model' = Generate(model, n)
        /\ reply' = Succeeds(Samples(model, n))
        /\ spoilt' = (spoilt /\ (n = 0 \/ m > 0))
    BY <1>6 DEF GenerateSamples
  <2>1. CASE n = 0
    <3>1. model' = model /\ spoilt' = spoilt
      BY <1>2, <2>0, <2>1 DEF Generate
    <3>2. Samples(model, n) = <<>>
      BY <2>1 DEF Samples
    <3>3. reply'.samples = <<>> /\ reply'.ok = TRUE /\ reply' = Succeeds(reply'.samples)
      BY <2>0, <3>2 DEF Succeeds
    <3>4. StreamInvariant'
      BY <1>1, <1>2, <3>1, <3>3, InvariantWithoutSamples
    <3>5. /\ SubSeq(SamplesOwed, 1, 0) = <<>>
          /\ SubSeq(SamplesOwed, 0 + 1, Len(SamplesOwed)) = SamplesOwed
          /\ Len(SamplesOwed) \in Nat
      <4> DEFINE s == SamplesOwed
                 T == Features \X Place
      <4>1. s \in Seq(T)
        BY <1>1
      <4> HIDE DEF s, T
      <4>2. SubSeq(s, 1, Len(s)) = s /\ 0 + 1 = 1 /\ Len(s) \in Nat
        BY <4>1, SubSeqFull, LenProperties
      <4>3. SubSeq(s, 1, 0) = <<>>
        BY SubSeqEmpty
      <4> QED BY <4>2, <4>3 DEF s
    <3>6. Indices(<<>>) = SubSeq(Indices(SamplesOwed), 1, 0)
      <4>1. SubSeq(Indices(SamplesOwed), 1, 0) = <<>>
        BY SubSeqEmpty
      <4>2. Indices(<<>>) = <<>>
        BY DEF Indices
      <4> QED BY <4>1, <4>2
    <3>7. SamplesOwed' = SamplesOwed
      BY <3>1, QueueIsOwed
    <3>8. n \in 0 .. NumSamplesPerHop
      BY <2>1, HopAssumption
    <3> QED BY <2>1, <3>3, <3>4, <3>5, <3>6, <3>7, <3>8 DEF HandsOut
  <2>2. CASE n # 0
    <3> DEFINE before == RunConditioning(model)
    <3>1. n \in Nat \ {0} /\ NumSamplesAvailable(model) > 0
      BY <2>0, <2>2, HopAssumption DEF CanGenerate
    <3>2. q # <<>>
      <4>1. CASE q = <<>>
        <5>1. Len(q) = 0 /\ m = 0
          BY <1>1, <4>1, HopAssumption
        <5>2. 0 * NumSamplesPerHop - 0 = 0
          BY HopAssumption
        <5> QED BY <3>1, <5>1, <5>2 DEF NumSamplesAvailable
      <4> QED BY <4>1
    <3>3. /\ before \in GenerativeModels(Features)
          /\ before.features_queue = q /\ before.next_sample_in_hop = m
          /\ before.hop = IF m = 0 THEN Head(q) ELSE model.hop
          /\ CanGenerate(before, n)
      BY <1>1, <2>0, <3>1, <3>2, Conditioned
    <3>4. model' = Advance(before, n)
      BY <2>0, <2>2 DEF Generate
    <3>5. reply' = Succeeds([ i \in 1 .. n |-> << before.hop, m + i >> ])
      BY <2>0 DEF Samples
    <3>6. spoilt' \in BOOLEAN /\ (~spoilt' => before.hop = Head(q))
      BY <1>1, <1>2, <2>0, <2>2, <3>3
    <3> HIDE DEF before
    <3> QED BY <3>1, <3>3, <3>4, <3>5, <3>6, CallHandsOut
  <2> QED BY <2>1, <2>2
<1>7. ASSUME NEW n \in -1 .. NumSamplesPerHop + 1, GenerateFromStaleTensor(n)
      PROVE  StreamInvariant' /\ n \in 0 .. NumSamplesPerHop /\ HandsOut(n)
  <2>1. /\ n \in Nat \ {0} /\ m = 0 /\ CanGenerate(model, n)
        /\ model' = Advance(model, n) /\ spoilt' = TRUE
        /\ reply' = Succeeds([ i \in 1 .. n |-> << model.hop, i >> ])
    BY <1>7, HopAssumption DEF GenerateFromStaleTensor
  <2>2. reply' = Succeeds([ i \in 1 .. n |-> << model.hop, m + i >> ])
    <3>1. \A i \in 1 .. n : m + i = i
      BY <2>1
    <3>2. [ i \in 1 .. n |-> << model.hop, m + i >> ] = [ i \in 1 .. n |-> << model.hop, i >> ]
      BY <3>1
    <3> QED BY <2>1, <3>2
  <2> QED BY <1>1, <2>1, <2>2, CallHandsOut
<1>8. ASSUME NEW n \in -1 .. NumSamplesPerHop + 1, RefuseSamples(n)
      PROVE  StreamInvariant' /\ Refuses
  <2>1. reply' = Refused /\ spoilt' = spoilt /\ model' \in {Refuse(model, n), model}
    BY <1>8 DEF RefuseSamples
  <2>2. /\ model' \in GenerativeModels(Features)
        /\ model'.features_queue = q /\ model'.next_sample_in_hop = m
        /\ m > 0 => model'.hop = model.hop
    <3>1. CASE model' = model
      BY <1>1, <3>1
    <3>2. CASE model' # model
      <4>1. model' = RunConditioning(model) /\ NumSamplesAvailable(model) > 0
        BY <2>1, <3>2 DEF Refuse
      <4>2. q # <<>>
        <5>1. CASE q = <<>>
          <6>1. Len(q) = 0 /\ m = 0
            BY <1>1, <5>1, HopAssumption
          <6>2. 0 * NumSamplesPerHop - 0 = 0
            BY HopAssumption
          <6> QED BY <4>1, <6>1, <6>2 DEF NumSamplesAvailable
        <5> QED BY <5>1
      <4>3. /\ RunConditioning(model) \in GenerativeModels(Features)
            /\ RunConditioning(model).features_queue = q
            /\ RunConditioning(model).next_sample_in_hop = m
            /\ RunConditioning(model).hop = IF m = 0 THEN Head(q) ELSE model.hop
        BY <1>1, <4>2, Conditioned
      <4>4. m > 0 => m # 0
        BY <1>1
      <4> QED BY <4>1, <4>3, <4>4
    <3> QED BY <3>1, <3>2
  <2>3. reply'.ok = FALSE /\ reply'.samples = <<>>
    BY <2>1 DEF Refused
  <2>4. StreamInvariant'
    <3>1. model'.next_sample_in_hop > 0 =>
            /\ model'.features_queue # <<>>
            /\ ~spoilt' => model'.hop = Head(model'.features_queue)
      BY <1>1, <1>2, <2>1, <2>2
    <3> QED BY <1>2, <2>1, <2>2, <2>3, <3>1, InvariantWithoutSamples
  <2>5. Refuses
    BY <1>1, <2>1, <2>2, QueueIsOwed DEF Refuses
  <2> QED BY <2>4, <2>5
<1> QED BY <1>4, <1>5, <1>6, <1>7, <1>8 DEF Next

-----------------------------------------------------------------------------
(***************************************************************************)
(* Theorems.                                                               *)
(***************************************************************************)

\* A new model owes nothing.
LEMMA NothingOwedInitially ==
  ASSUME Init
  PROVE  StreamInvariant /\ SamplesOwed = <<>> /\ reply = Succeeds(<<>>)
<1>1. /\ model.features_queue = <<>> /\ model.next_sample_in_hop = 0
      /\ model \in GenerativeModels(Features)
  BY HopAssumption DEF Init, EmptyModel, GenerativeModels
<1>2. reply = Succeeds(<<>>) /\ reply.ok = TRUE /\ reply.samples = <<>>
  BY DEF Init, Succeeds
<1>3. StreamInvariant
  <2>1. reply.samples \in Seq((Features \union {NoFeatures}) \X (1 .. NumSamplesPerHop))
    <3>1. <<>> \in Seq((Features \union {NoFeatures}) \X (1 .. NumSamplesPerHop))
      OBVIOUS
    <3>2. reply.samples = <<>>
      BY <1>2
    <3> QED BY <3>1, <3>2
  <2>2. spoilt \in BOOLEAN /\ reply.ok \in BOOLEAN
    BY <1>2, Zenon DEF Init
  <2>3. ~(model.next_sample_in_hop > 0)
    BY <1>1
  <2> QED BY <1>1, <2>1, <2>2, <2>3 DEF StreamInvariant, TypeOK
<1>4. SamplesOwed = <<>>
  <2>1. NumSamplesAvailable(model) = 0
    <3>1. Len(<<>>) = 0 /\ 0 * NumSamplesPerHop = 0
      BY HopAssumption
    <3> QED BY <1>1, <3>1 DEF NumSamplesAvailable
  <2> QED BY <2>1 DEF SamplesOwed
<1> QED BY <1>2, <1>3, <1>4

\* A reply without the features of its samples.
LEMMA IndexedReply ==
  ASSUME NEW r, NEW ok, NEW samples, r = [ok |-> ok, samples |-> samples]
  PROVE  [r EXCEPT !.samples = Indices(@)] = [ok |-> ok, samples |-> Indices(samples)]
<1>1. \A x : [r EXCEPT !.samples = x] = [ok |-> ok, samples |-> x]
  OBVIOUS
<1>2. r.samples = samples
  OBVIOUS
<1> QED BY <1>1, <1>2

\* Every call keeps the invariant.
LEMMA InvariantKept ==
  ASSUME StreamInvariant, [Next]_vars
  PROVE  StreamInvariant'
<1>1. CASE Next
  BY <1>1, CallsMoveTheStream
<1>2. CASE UNCHANGED vars
  BY <1>2 DEF vars, StreamInvariant, TypeOK
<1> QED BY <1>1, <1>2

\* In the middle of a hop its features are still at the front of the queue, and
\* the buffer holds their samples unless the interpreter failed for this hop.
THEOREM InvariantHolds == Spec => []StreamInvariant
<1> QED BY NothingOwedInitially, InvariantKept, PTL DEF Spec

\* The position in the hop stays below its end, whatever the client asks for.
THEOREM TypeCorrect == Spec => []TypeOK
<1>1. StreamInvariant => TypeOK
  BY DEF StreamInvariant
<1> QED BY <1>1, InvariantHolds, PTL

\* Every sample of every feature vector is returned once and in order, and a
\* failure of the interpreter spoils the samples of one hop and no others.
THEOREM StreamsInOrder == Spec => StreamsEverySampleInOrder
<1>1. Init => Stream!Init
  BY NothingOwedInitially DEF Stream!Init, Stream!Succeeds, Succeeds
<1>2. ASSUME StreamInvariant, [Next]_vars
      PROVE  [Stream!Next \/ (spoilt' /\ reply'.samples # <<>>)]_(Stream!vars)
  <2>1. CASE UNCHANGED vars
    BY <2>1, QueueIsOwed DEF vars, Stream!vars
  <2>2. ASSUME NEW f \in Features, Adds(f) PROVE Stream!Next
    <3>1. Stream!AddFeatures(f)
      BY <2>2 DEF Adds, Hop, Succeeds, Stream!AddFeatures, Stream!Succeeds
    <3> QED BY <3>1 DEF Stream!Next
  <2>3. ASSUME NEW n \in 0 .. NumSamplesPerHop, HandsOut(n)
        PROVE  Stream!Next \/ (spoilt' /\ reply'.samples # <<>>)
    <3>1. CASE reply'.samples = SubSeq(SamplesOwed, 1, n)
      <4>1. Stream!GenerateSamples(n)
        BY <2>3, <3>1 DEF HandsOut, Succeeds, Stream!GenerateSamples, Stream!Succeeds
      <4> QED BY <4>1 DEF Stream!Next
    <3> QED BY <2>3, <3>1 DEF HandsOut
  <2>4. CASE Refuses
    <3>1. Stream!RefuseCall
      BY <2>4 DEF Refuses, Refused, Stream!RefuseCall, Stream!Refused
    <3> QED BY <3>1 DEF Stream!Next
  <2>5. CASE Next
    BY <1>2, <2>2, <2>3, <2>4, <2>5, CallsMoveTheStream
  <2> QED BY <1>2, <2>1, <2>5
<1> QED BY <1>1, <1>2, InvariantHolds, PTL DEF Spec, StreamsEverySampleInOrder

\* Also when the interpreter fails, the client gets as many samples as it asked
\* for, at the right places of the hops, and the features are retired on time.
THEOREM StreamsInTime == Spec => StreamsOnTime
<1>1. Init => Clock!Init
  <2> SUFFICES ASSUME Init PROVE Clock!Init
    OBVIOUS
  <2>1. Indices(<<>>) = <<>>
    BY DEF Indices
  <2>2. SamplesOwed = <<>> /\ reply = Succeeds(<<>>)
    BY NothingOwedInitially
  <2>3. [reply EXCEPT !.samples = Indices(@)] = Succeeds(Indices(<<>>))
    BY <2>2, IndexedReply DEF Succeeds
  <2> QED BY <2>1, <2>2, <2>3 DEF Clock!Init, Clock!Succeeds, Succeeds
<1>2. ASSUME StreamInvariant, [Next]_vars
      PROVE  [Clock!Next]_(Clock!vars)
  <2>0. SamplesOwed \in Seq(Features \X Place)
    BY <1>2, OwedType
  <2>1. CASE UNCHANGED vars
    BY <2>1, QueueIsOwed DEF vars, Clock!vars
  <2>2. ASSUME NEW f \in Features, Adds(f) PROVE Clock!Next
    <3>1. Hop(f) \in Seq(Features \X Place)
      BY HopSamples
    <3>2. Indices(SamplesOwed') = Indices(SamplesOwed) \o Indices(Hop(f))
      BY <2>0, <2>2, <3>1, IndexConcat DEF Adds
    <3>3. Indices(Hop(f)) = [ i \in 1 .. NumSamplesPerHop |-> << "any", i >> ]
      <4>1. DOMAIN Hop(f) = 1 .. NumSamplesPerHop
        BY DEF Hop
      <4>2. \A i \in 1 .. NumSamplesPerHop : Hop(f)[i] = << f, i >>
        BY HopSamples
      <4>3. \A i \in 1 .. NumSamplesPerHop : Hop(f)[i][2] = i
        BY <4>2
      <4> QED BY <4>1, <4>3 DEF Indices
    <3>4. [reply' EXCEPT !.samples = Indices(@)] = Succeeds(<<>>)
      <4>1. Indices(<<>>) = <<>>
        BY DEF Indices
      <4>2. [reply' EXCEPT !.samples = Indices(@)] = Succeeds(Indices(<<>>))
        BY <2>2, IndexedReply DEF Adds, Succeeds
      <4> QED BY <4>1, <4>2
    <3>5. Clock!AddFeatures("any")
      BY <3>2, <3>3, <3>4 DEF Clock!AddFeatures, Clock!Succeeds, Succeeds
    <3> QED BY <3>5 DEF Clock!Next
  <2>3. ASSUME NEW n \in 0 .. NumSamplesPerHop, HandsOut(n) PROVE Clock!Next
    <3> DEFINE s == SamplesOwed
               t == reply'.samples
    <3>1. /\ Indices(s) \in Seq(AnyFeatures \X Place) /\ Len(Indices(s)) = Len(s)
          /\ \A k \in 1 .. Len(s) : Indices(s)[k] = << "any", s[k][2] >>
      BY <2>0, IndexSamples
    <3>2. /\ n <= Len(s) /\ n \in Nat /\ Len(s) \in Nat
          /\ n = 0 \/ s[n][2] = s[1][2] + n - 1
          /\ s' = SubSeq(s, n + 1, Len(s))
          /\ Indices(t) = SubSeq(Indices(s), 1, n)
          /\ reply' = Succeeds(t)
      BY <2>0, <2>3, HopAssumption DEF HandsOut
    <3>3. n = 0 \/ Indices(s)[n][2] = Indices(s)[1][2] + n - 1
      <4> SUFFICES ASSUME n # 0 PROVE Indices(s)[n][2] = Indices(s)[1][2] + n - 1
        OBVIOUS
      <4>1. n \in 1 .. Len(s) /\ 1 \in 1 .. Len(s)
        BY <3>2
      <4>2. Indices(s)[n][2] = s[n][2] /\ Indices(s)[1][2] = s[1][2]
        BY <3>1, <4>1
      <4> QED BY <3>2, <4>2
    <3>4. Indices(s') = SubSeq(Indices(s), n + 1, Len(Indices(s)))
      <4>1. /\ n + 1 \in 1 .. Len(s) + 1 /\ Len(s) \in 0 .. Len(s)
            /\ n + 1 <= Len(s) + 1
        BY <3>2
      <4>2. Indices(SubSeq(s, n + 1, Len(s))) = SubSeq(Indices(s), n + 1, Len(s))
        <5> HIDE DEF s
        <5>1. s \in Seq(Features \X Place) /\ n \in Nat /\ n <= Len(s)
          BY <2>0, <3>2 DEF s
        <5> QED BY <5>1, IndexRest
      <4> QED BY <3>1, <3>2, <4>2
    <3>5. [reply' EXCEPT !.samples = Indices(@)] = Succeeds(Indices(t))
      <4> HIDE DEF t
      <4> QED BY <3>2, IndexedReply DEF Succeeds
    <3>6. Clock!GenerateSamples(n)
      BY <3>1, <3>2, <3>3, <3>4, <3>5 DEF Clock!GenerateSamples, Clock!Succeeds, Succeeds
    <3> QED BY <3>6 DEF Clock!Next
  <2>4. CASE Refuses
    <3>1. [reply' EXCEPT !.samples = Indices(@)] = Refused
      <4>1. Indices(<<>>) = <<>>
        BY DEF Indices
      <4>2. [reply' EXCEPT !.samples = Indices(@)] = [ok |-> FALSE, samples |-> Indices(<<>>)]
        BY <2>4, IndexedReply DEF Refuses, Refused
      <4> QED BY <4>1, <4>2 DEF Refused
    <3>2. Clock!RefuseCall
      BY <2>4, <3>1 DEF Refuses, Refused, Clock!RefuseCall, Clock!Refused
    <3> QED BY <3>2 DEF Clock!Next
  <2>5. CASE Next
    BY <1>2, <2>2, <2>3, <2>4, <2>5, CallsMoveTheStream
  <2> QED BY <1>2, <2>1, <2>5
<1> QED BY <1>1, <1>2, InvariantHolds, PTL DEF Spec, StreamsOnTime, Clock!Spec
=============================================================================
