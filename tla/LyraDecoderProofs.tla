-------------------------- MODULE LyraDecoderProofs --------------------------
(***************************************************************************)
(* Proofs about LyraDecoder, for every length of the hop, every pair of    *)
(* durations and every set of requests.  The last part is about            *)
(* JniLyraDecoder, the whole decoder and its two kinds of client, and for  *)
(* every ratio of the sample rates.                                        *)
(***************************************************************************)
EXTENDS JniLyraDecoder, HopArithmetic

\* The queue a generator works on once it has been replenished.
Supplied(model, features) ==
  IF model.features_queue = <<>> THEN << features >> ELSE model.features_queue

\* A record is a generator iff its fields have their types.
LEMMA ModelFields ==
  ASSUME NEW F, NEW model \in GenerativeModels(F)
  PROVE  /\ model.features_queue \in Seq(F)
         /\ Len(model.features_queue) \in Nat
         /\ model.next_sample_in_hop \in 0 .. NumSamplesPerHop - 1
         /\ model.hop \in F \union {NoFeatures}
BY DEF GenerativeModels

\* A generator that is asked for no more than the rest of its hop serves the
\* request, and only the position, or the front of the queue, changes.
LEMMA Serve ==
  ASSUME NEW F, NEW model \in GenerativeModels(F), NEW features \in F,
         NEW n \in 1 .. NumSamplesPerHop - model.next_sample_in_hop,
         model.next_sample_in_hop > 0 =>
           /\ model.features_queue # <<>>
           /\ model.hop = Head(model.features_queue)
  PROVE  LET supplied == Supplied(model, features)
             before == Replenish(model, n, features)
             after == Generate(before, n)
             full == model.next_sample_in_hop + n = NumSamplesPerHop
         IN  /\ CanGenerate(before, n)
             /\ RunConditioning(before).hop = Head(supplied)
             /\ after \in GenerativeModels(F)
             /\ after.hop = Head(supplied)
             /\ after.features_queue = IF full THEN Tail(supplied) ELSE supplied
             /\ after.next_sample_in_hop =
                  IF full THEN 0 ELSE model.next_sample_in_hop + n
             /\ supplied \in Seq(F) /\ supplied # <<>>
<1> DEFINE supplied == Supplied(model, features)
           before == Replenish(model, n, features)
           after == Generate(before, n)
           q == model.features_queue
           m == model.next_sample_in_hop
<1>1. /\ q \in Seq(F) /\ Len(q) \in Nat /\ m \in 0 .. NumSamplesPerHop - 1
      /\ model.hop \in F \union {NoFeatures}
  BY ModelFields
<1>2. supplied \in Seq(F) /\ supplied # <<>> /\ Len(supplied) \in Nat /\ Len(supplied) > 0
  BY <1>1 DEF Supplied
<1>3. NumSamplesAvailable(model) = 0 <=> q = <<>>
  <2>1. m > 0 => Len(q) > 0
    BY <1>1
  <2>2. NumSamplesAvailable(model) \in Nat /\ (NumSamplesAvailable(model) > 0 <=> Len(q) > 0)
    BY <1>1, <2>1, Available DEF NumSamplesAvailable
  <2> QED BY <1>1, <2>2
<1>4. before = [ features_queue |-> supplied, next_sample_in_hop |-> m, hop |-> model.hop ]
  BY <1>1, <1>3, HopAssumption DEF Replenish, AddFeatures, Supplied, GenerativeModels
<1>5. NumSamplesAvailable(before) > 0
  BY <1>1, <1>2, <1>4, Available DEF NumSamplesAvailable
<1>6. CanGenerate(before, n)
  BY <1>1, <1>4, <1>5, HopAssumption DEF CanGenerate
<1>7. RunConditioning(before) =
        [ features_queue |-> supplied, next_sample_in_hop |-> m, hop |-> Head(supplied) ]
  BY <1>1, <1>4 DEF RunConditioning, Supplied
<1>8. Head(supplied) \in F
  BY <1>2
<1>9. after = Advance([ features_queue |-> supplied, next_sample_in_hop |-> m,
                         hop |-> Head(supplied) ], n)
  BY <1>1, <1>7, HopAssumption DEF Generate
<1> HIDE DEF supplied, before, after
<1>10. CASE m + n = NumSamplesPerHop
  <2>1. after = [ features_queue |-> Tail(supplied), next_sample_in_hop |-> 0,
                  hop |-> Head(supplied) ]
    BY <1>9, <1>10 DEF Advance
  <2>2. Tail(supplied) \in Seq(F)
    BY <1>2
  <2>3. after \in GenerativeModels(F)
    BY <1>8, <2>1, <2>2, HopAssumption DEF GenerativeModels
  <2> QED BY <1>2, <1>6, <1>7, <1>10, <2>1, <2>3 DEF supplied, before, after
<1>11. CASE m + n # NumSamplesPerHop
  <2>1. after = [ features_queue |-> supplied, next_sample_in_hop |-> m + n,
                  hop |-> Head(supplied) ]
    BY <1>9, <1>11 DEF Advance
  <2>2. m + n \in 0 .. NumSamplesPerHop - 1
    BY <1>1, <1>11, HopAssumption
  <2>3. after \in GenerativeModels(F)
    BY <1>2, <1>8, <2>1, <2>2 DEF GenerativeModels
  <2> QED BY <1>2, <1>6, <1>7, <1>11, <2>1, <2>3 DEF supplied, before, after
<1> QED BY <1>10, <1>11

-----------------------------------------------------------------------------
(***************************************************************************)
(* What the invariant says of a state.                                     *)
(***************************************************************************)

\* How many samples each generator has, and how many of them are received.
LEMMA Supplies ==
  ASSUME DecoderInvariant
  PROVE  LET m == generative_model.next_sample_in_hop
             q == generative_model.features_queue
             c == comfort_noise_generator.next_sample_in_hop
         IN  /\ lost % NumSamplesPerHop \in 0 .. NumSamplesPerHop - 1
             /\ Phase \in 0 .. NumSamplesPerHop - 1
             /\ q \in Seq({Received, Estimated}) /\ Len(q) \in Nat
             /\ m \in 0 .. NumSamplesPerHop - 1
             /\ c \in 0 .. NumSamplesPerHop - 1
             /\ NumSamplesAvailable(generative_model) \in Nat
             /\ NumSamplesAvailable(generative_model) > 0 <=> q # <<>>
             /\ NumSamplesAvailable(generative_model) % NumSamplesPerHop =
                  IF m = 0 THEN 0 ELSE NumSamplesPerHop - m
             /\ NumSamplesAvailable(comfort_noise_generator) =
                  IF c = 0 THEN 0 ELSE NumSamplesPerHop - c
             /\ ReceivedBacklog \in Nat
             /\ ReceivedBacklog > 0 <=>
                  q # <<>> /\ (ConcealingInHop => Len(q) > 1)
<1> DEFINE m == generative_model.next_sample_in_hop
           q == generative_model.features_queue
           c == comfort_noise_generator.next_sample_in_hop
           cq == comfort_noise_generator.features_queue
<1>1. /\ lost \in Nat
      /\ lost % NumSamplesPerHop \in 0 .. NumSamplesPerHop - 1
  BY HopAssumption, DurationAssumption DEF DecoderInvariant, TypeOK
<1>2. /\ q \in Seq({Received, Estimated}) /\ Len(q) \in Nat
      /\ m \in 0 .. NumSamplesPerHop - 1
  BY ModelFields DEF DecoderInvariant, TypeOK
<1>3. /\ cq \in Seq({Noise}) /\ Len(cq) \in Nat
      /\ c \in 0 .. NumSamplesPerHop - 1
  BY ModelFields DEF DecoderInvariant, TypeOK
<1>4. Phase \in 0 .. NumSamplesPerHop - 1
  BY <1>1, <1>2 DEF Phase
<1>5. m > 0 => Len(q) > 0
  BY <1>2 DEF DecoderInvariant, PositionInvariant
<1>6. /\ NumSamplesAvailable(generative_model) \in Nat
      /\ NumSamplesAvailable(generative_model) > 0 <=> q # <<>>
      /\ NumSamplesAvailable(generative_model) % NumSamplesPerHop =
           IF m = 0 THEN 0 ELSE NumSamplesPerHop - m
  BY <1>2, <1>5, Available DEF NumSamplesAvailable
<1>7. NumSamplesAvailable(comfort_noise_generator) =
        IF c = 0 THEN 0 ELSE NumSamplesPerHop - c
  BY <1>3, HopAssumption DEF NumSamplesAvailable, DecoderInvariant, PositionInvariant
<1>8. q # <<>> => Head(q) \in {Received, Estimated}
  BY <1>2
<1>9. q # <<>> => (Head(q) = Received <=> ~ConcealingInHop)
  BY <1>8 DEF DecoderInvariant, QueueInvariant, Received, Estimated
<1>10. q # <<>> => /\ Len(q) - 1 \in Nat
                   /\ (Len(q) - 1) * NumSamplesPerHop \in Nat
                   /\ (Len(q) - 1) * NumSamplesPerHop > 0 <=> Len(q) - 1 > 0
  <2>1. ASSUME NEW k \in Nat
        PROVE  k * NumSamplesPerHop \in Nat /\ (k * NumSamplesPerHop > 0 <=> k > 0)
    <3>1. /\ k * NumSamplesPerHop - 0 \in Nat
          /\ k * NumSamplesPerHop - 0 > 0 <=> k > 0
      BY Available, HopAssumption
    <3> QED BY <3>1, HopAssumption
  <2>2. q # <<>> => Len(q) - 1 \in Nat
    BY <1>2
  <2> QED BY <2>1, <2>2
<1>11. /\ ReceivedBacklog \in Nat
       /\ ReceivedBacklog > 0 <=> q # <<>> /\ (ConcealingInHop => Len(q) > 1)
  BY <1>2, <1>6, <1>9, <1>10 DEF ReceivedBacklog
<1> QED BY <1>1, <1>2, <1>3, <1>4, <1>6, <1>7, <1>11

\* The values one iteration of the loop computes: the chunk stays in the hop
\* being played, received audio resumes at hop boundaries, and the progress
\* never steps over the concealment duration.
LEMMA Iteration ==
  ASSUME DecoderInvariant, remaining > 0
  PROVE  /\ NumSamplesToGenerate \in 1 .. remaining
         /\ NumSamplesToGenerate \in 1 .. NumSamplesPerHop - Phase
         /\ IsPacketReceived <=> ReceivedBacklog > 0 /\ lost % NumSamplesPerHop = 0
         /\ IsPacketReceived => /\ Phase = generative_model.next_sample_in_hop
                                /\ NextConcealmentProgress = 0
         /\ ~IsPacketReceived =>
              /\ Phase = lost % NumSamplesPerHop
              /\ NextFadeDirection = IF lost >= ConcealmentDuration
                                     THEN FadeToCNG ELSE FadeFromCNG
              /\ lost < ConcealmentDuration =>
                   lost + NumSamplesToGenerate <= ConcealmentDuration
              /\ NextConcealmentProgress =
                   IF ReceivedBacklog = 0
                   THEN Least(lost + NumSamplesToGenerate, ConcealmentDuration)
                   ELSE concealment_progress + NumSamplesToGenerate
<1> DEFINE m == generative_model.next_sample_in_hop
           q == generative_model.features_queue
           c == comfort_noise_generator.next_sample_in_hop
           r == lost % NumSamplesPerHop
<1>1. /\ lost \in Nat /\ remaining \in Nat \ {0}
      /\ fade_progress \in 0 .. FadeDuration
      /\ fade_direction \in {FadeToCNG, FadeFromCNG}
      /\ FadeToCNG # FadeFromCNG
      /\ ConcealmentDuration \in Nat \ {0} /\ FadeDuration \in Nat \ {0}
      /\ FadeDuration <= ConcealmentDuration
      /\ ConcealmentDuration % NumSamplesPerHop = 0
      /\ NumSamplesPerHop \in Nat \ {0}
  BY HopAssumption, DurationAssumption
     DEF DecoderInvariant, TypeOK, FadeToCNG, FadeFromCNG
<1>2. /\ r \in 0 .. NumSamplesPerHop - 1 /\ Phase \in 0 .. NumSamplesPerHop - 1
      /\ m \in 0 .. NumSamplesPerHop - 1 /\ c \in 0 .. NumSamplesPerHop - 1
      /\ ReceivedBacklog \in Nat
      /\ NumSamplesAvailable(generative_model) \in Nat
      /\ NumSamplesAvailable(generative_model) > 0 <=> q # <<>>
      /\ NumSamplesAvailable(generative_model) % NumSamplesPerHop =
           IF m = 0 THEN 0 ELSE NumSamplesPerHop - m
      /\ NumSamplesAvailable(comfort_noise_generator) =
           IF c = 0 THEN 0 ELSE NumSamplesPerHop - c
      /\ ReceivedBacklog > 0 <=> q # <<>> /\ (ConcealingInHop => Len(q) > 1)
  BY Supplies
<1>3. lost = 0 => r = 0
  BY <1>1
<1>4. concealment_progress = IF ReceivedBacklog = 0 THEN Least(lost, ConcealmentDuration)
                             ELSE IF r = 0 THEN 0 ELSE r - NumSamplesPerHop
  BY <1>1, <1>2 DEF DecoderInvariant, ProgressTracksLoss, ConcealedHopRest
<1>5. /\ m = IF PureNoise THEN 0 ELSE Phase
      /\ c = IF NoNoise THEN 0 ELSE Phase
      /\ m > 0 => q # <<>>
  BY DEF DecoderInvariant, PositionInvariant
<1>6. PureNoise => lost > ConcealmentDuration
  BY DEF DecoderInvariant, FadeInvariant, PureNoise
<1>7. lost > ConcealmentDuration <=> fade_direction = FadeToCNG
  BY <1>1 DEF DecoderInvariant, FadeInvariant
<1>8. lost = ConcealmentDuration => r = 0 /\ NoNoise
  BY <1>1, <1>7 DEF DecoderInvariant, FadeInvariant, NoNoise
<1>h. ASSUME lost < ConcealmentDuration
      PROVE  lost + (NumSamplesPerHop - r) <= ConcealmentDuration
  <2>1. lost \in Int /\ ConcealmentDuration \in Int
    BY <1>1
  <2>2. ConcealmentDuration % NumSamplesPerHop = 0
    BY <1>1
  <2> QED BY <1>h, <2>1, <2>2, RestOfHop
<1> HIDE DEF m, q, c, r
<1>9. IsPacketReceived <=> ReceivedBacklog > 0 /\ r = 0
  BY <1>1, <1>2, <1>3, <1>4 DEF IsPacketReceived, Least, ConcealingInHop, r
<1>10. CASE IsPacketReceived
  <2>1. concealment_progress = 0
    BY <1>10 DEF IsPacketReceived
  <2>2. Phase = m
    BY <1>1, <1>2, <1>5, <1>6, <1>9, <1>10 DEF Phase, m, r
  <2>3. NumSamplesToGenerate = Least(remaining, NumSamplesPerHop - m)
    BY <1>1, <1>2, <2>1 DEF NumSamplesToGenerate, SamplesRemainingInPacket, Least
  <2>4. NumSamplesToGenerate \in 1 .. remaining /\ NumSamplesToGenerate \in 1 .. NumSamplesPerHop - Phase
    BY <1>1, <1>2, <2>2, <2>3 DEF Least
  <2>5. NextConcealmentProgress = 0
    BY <1>10, <2>1 DEF NextConcealmentProgress
  <2> QED BY <1>9, <1>10, <2>2, <2>4, <2>5 DEF m, r
<1>11. CASE ~IsPacketReceived
  <2>1. Phase = r
    <3>1. CASE lost = 0
      <4>1. ReceivedBacklog = 0
        BY <1>2, <1>3, <1>9, <1>11, <3>1
      <4>2. ~ConcealingInHop
        BY <1>1, <1>3, <3>1 DEF ConcealingInHop, r
      <4>3. q = <<>>
        BY <1>2, <4>1, <4>2
      <4> QED BY <1>2, <1>3, <1>5, <3>1, <4>3 DEF Phase, m
    <3> QED BY <3>1 DEF Phase, r
  <2>2. CASE ReceivedBacklog > 0
    <3>1. /\ r > 0
          /\ concealment_progress = r - NumSamplesPerHop
      BY <1>2, <1>4, <1>9, <1>11, <2>2
    <3>2. NumSamplesToGenerate = Least(remaining, NumSamplesPerHop - r)
      BY <1>1, <1>2, <3>1 DEF NumSamplesToGenerate, SamplesRemainingInPacket
    <3>3. /\ NumSamplesToGenerate \in 1 .. remaining
          /\ NumSamplesToGenerate \in 1 .. NumSamplesPerHop - r
      BY <1>1, <1>2, <3>2 DEF Least
    <3>4. concealment_progress # ConcealmentDuration
      BY <1>1, <1>2, <3>1
    <3>5. NextConcealmentProgress = concealment_progress + NumSamplesToGenerate
      BY <1>11, <3>4 DEF NextConcealmentProgress
    <3>6. lost # ConcealmentDuration
      BY <1>8, <3>1, <1>2
    <3>7. NextFadeDirection = IF lost >= ConcealmentDuration THEN FadeToCNG ELSE FadeFromCNG
      BY <1>1, <1>7, <1>11, <3>4, <3>6 DEF NextFadeDirection
    <3>8. lost < ConcealmentDuration => lost + (NumSamplesPerHop - r) <= ConcealmentDuration
      BY <1>h
    <3> QED BY <1>1, <1>2, <1>9, <1>11, <2>1, <2>2, <3>3, <3>5, <3>7, <3>8 DEF r
  <2>3. CASE ReceivedBacklog = 0
    <3>1. concealment_progress = Least(lost, ConcealmentDuration)
      BY <1>4, <2>3
    <3>2. CASE lost < ConcealmentDuration
      <4>1. concealment_progress = lost
        BY <1>1, <3>1, <3>2 DEF Least
      <4>2. ~PureNoise
        BY <1>1, <1>6, <3>2
      <4>3. m = r
        BY <1>5, <2>1, <4>2
      <4>4. NumSamplesToGenerate = Least(remaining, NumSamplesPerHop - r)
        BY <1>1, <1>2, <3>2, <4>1, <4>3 DEF NumSamplesToGenerate, SamplesRemainingInPacket
      <4>5. /\ NumSamplesToGenerate \in 1 .. remaining
            /\ NumSamplesToGenerate \in 1 .. NumSamplesPerHop - r
        BY <1>1, <1>2, <4>4 DEF Least
      <4>6. lost + (NumSamplesPerHop - r) <= ConcealmentDuration
        BY <3>2, <1>h
      <4>7. lost + NumSamplesToGenerate <= ConcealmentDuration
        BY <1>1, <1>2, <4>5, <4>6
      <4>8. NextConcealmentProgress = lost + NumSamplesToGenerate
        BY <1>1, <1>11, <3>2, <4>1 DEF NextConcealmentProgress
      <4>9. NextFadeDirection = FadeFromCNG
        BY <1>1, <1>7, <1>11, <3>2, <4>1 DEF NextFadeDirection
      <4> QED BY <1>1, <1>9, <1>11, <2>1, <2>3, <3>2, <4>5, <4>7, <4>8, <4>9 DEF Least, r
    <3>3. CASE lost >= ConcealmentDuration
      <4>1. concealment_progress = ConcealmentDuration
        BY <1>1, <3>1, <3>3 DEF Least
      <4>2. c = r
        BY <1>1, <1>5, <1>7, <1>8, <2>1, <3>3 DEF NoNoise
      <4>3. NumSamplesToGenerate = Least(remaining, NumSamplesPerHop - r)
        BY <1>1, <1>2, <4>1, <4>2 DEF NumSamplesToGenerate, SamplesRemainingInPacket
      <4>4. /\ NumSamplesToGenerate \in 1 .. remaining
            /\ NumSamplesToGenerate \in 1 .. NumSamplesPerHop - r
        BY <1>1, <1>2, <4>3 DEF Least
      <4>5. NextConcealmentProgress = ConcealmentDuration /\ NextFadeDirection = FadeToCNG
        BY <1>11, <4>1 DEF NextConcealmentProgress, NextFadeDirection
      <4> QED BY <1>1, <1>9, <1>11, <2>1, <2>3, <3>3, <4>4, <4>5 DEF Least, r
    <3> QED BY <1>1, <3>2, <3>3
  <2> QED BY <1>2, <2>2, <2>3
<1> QED BY <1>10, <1>11

\* What the generators do in one iteration.  Whoever takes part in the chunk
\* is at the same position of its hop, so nobody refuses the request.
LEMMA Generators ==
  ASSUME DecoderInvariant, remaining > 0
  PROVE  LET n == NumSamplesToGenerate
             model == Generate(ReplenishedModel, GenerativeSamples)
             noise == Generate(ReplenishedNoise, ComfortNoiseSamples)
             supplied == Supplied(generative_model, Estimated)
             full == Phase + n = NumSamplesPerHop
         IN  /\ OnlyComfortNoise <=> PureNoise /\ ~IsPacketReceived
             /\ OnlyGenerativeModel <=>
                  NoNoise /\ (IsPacketReceived \/ lost < ConcealmentDuration)
             /\ GenerativeModelRuns /\ ComfortNoiseRuns /\ NoiseEstimatorAccepts
             /\ NextNoiseSamples =
                  IF IsPacketReceived /\ ~full THEN Phase + n ELSE 0
             /\ Chunk = [ features |-> IF OnlyComfortNoise THEN Noise
                                       ELSE IF IsPacketReceived THEN Received
                                       ELSE Estimated,
                          heard |-> IsPacketReceived ]
             /\ OnlyComfortNoise => model = generative_model
             /\ ~OnlyComfortNoise =>
                  /\ model \in GenerativeModels({Received, Estimated})
                  /\ model.next_sample_in_hop = IF full THEN 0 ELSE Phase + n
                  /\ model.features_queue = IF full THEN Tail(supplied) ELSE supplied
                  /\ model.hop = Head(supplied)
                  /\ supplied \in Seq({Received, Estimated}) /\ supplied # <<>>
                  /\ Head(supplied) = IF IsPacketReceived THEN Received ELSE Estimated
             /\ OnlyGenerativeModel => noise = comfort_noise_generator
             /\ ~OnlyGenerativeModel =>
                  /\ noise \in GenerativeModels({Noise})
                  /\ noise.next_sample_in_hop = IF full THEN 0 ELSE Phase + n
                  /\ Len(noise.features_queue) = IF full THEN 0 ELSE 1
                  /\ noise.hop = Noise
<1> DEFINE n == NumSamplesToGenerate
           m == generative_model.next_sample_in_hop
           q == generative_model.features_queue
           c == comfort_noise_generator.next_sample_in_hop
           cq == comfort_noise_generator.features_queue
           r == lost % NumSamplesPerHop
           supplied == Supplied(generative_model, Estimated)
           full == Phase + n = NumSamplesPerHop
<1>1. /\ lost \in Nat /\ remaining \in Nat \ {0}
      /\ generative_model \in GenerativeModels({Received, Estimated})
      /\ comfort_noise_generator \in GenerativeModels({Noise})
      /\ fade_progress \in 0 .. FadeDuration
      /\ fade_direction \in {FadeToCNG, FadeFromCNG}
      /\ FadeToCNG # FadeFromCNG
      /\ ConcealmentDuration \in Nat \ {0} /\ FadeDuration \in Nat \ {0}
      /\ FadeDuration <= ConcealmentDuration
      /\ NumSamplesPerHop \in Nat \ {0}
  BY HopAssumption, DurationAssumption
     DEF DecoderInvariant, TypeOK, FadeToCNG, FadeFromCNG
<1>2. /\ r \in 0 .. NumSamplesPerHop - 1 /\ Phase \in 0 .. NumSamplesPerHop - 1
      /\ m \in 0 .. NumSamplesPerHop - 1 /\ c \in 0 .. NumSamplesPerHop - 1
      /\ q \in Seq({Received, Estimated}) /\ Len(q) \in Nat
      /\ ReceivedBacklog \in Nat
      /\ ReceivedBacklog > 0 <=> q # <<>> /\ (ConcealingInHop => Len(q) > 1)
  BY Supplies
<1>3. /\ n \in 1 .. remaining /\ n \in 1 .. NumSamplesPerHop - Phase
      /\ IsPacketReceived <=> ReceivedBacklog > 0 /\ r = 0
      /\ IsPacketReceived => Phase = m
      /\ ~IsPacketReceived => Phase = r
      /\ ~IsPacketReceived => NextFadeDirection = IF lost >= ConcealmentDuration
                                                  THEN FadeToCNG ELSE FadeFromCNG
  BY Iteration
<1>4. IsPacketReceived => NextFadeDirection = FadeFromCNG
  BY DEF NextFadeDirection
<1>5. /\ m = IF PureNoise THEN 0 ELSE Phase
      /\ c = IF NoNoise THEN 0 ELSE Phase
      /\ m > 0 => q # <<>> /\ generative_model.hop = Head(q)
      /\ noise_samples = IF lost = 0 THEN m ELSE 0
      /\ Len(cq) = IF c = 0 THEN 0 ELSE 1
      /\ c > 0 => comfort_noise_generator.hop = Noise
  BY DEF DecoderInvariant, PositionInvariant
<1>6. /\ fade_direction = FadeToCNG => lost > ConcealmentDuration /\ fade_progress > 0
      /\ fade_direction = FadeFromCNG =>
           lost <= ConcealmentDuration /\ (fade_progress > 0 => fade_progress + lost <= FadeDuration)
  BY <1>1 DEF DecoderInvariant, FadeInvariant, Least
<1>7. /\ ConcealingInHop => q # <<>>
      /\ q # <<>> => (Head(q) = Estimated <=> ConcealingInHop)
      /\ ConcealingInHop <=> r # 0 /\ ~PureNoise
  BY DEF DecoderInvariant, QueueInvariant, ConcealingInHop
<1>8. OnlyComfortNoise <=> PureNoise /\ ~IsPacketReceived
  BY <1>1, <1>3, <1>4, <1>6 DEF OnlyComfortNoise, PureNoise
<1>9. OnlyGenerativeModel <=> NoNoise /\ (IsPacketReceived \/ lost < ConcealmentDuration)
  BY <1>1, <1>3, <1>4, <1>6 DEF OnlyGenerativeModel, NoNoise
<1>10. lost = ConcealmentDuration => r = 0
  BY DurationAssumption
<1>11. ~OnlyComfortNoise => m = Phase
  BY <1>3, <1>5, <1>8
<1>12. ~OnlyGenerativeModel => c = Phase
  BY <1>1, <1>3, <1>5, <1>6, <1>9, <1>10 DEF NoNoise
<1>13. IsPacketReceived => noise_samples = Phase
  BY <1>3, <1>5, <1>1 DEF Phase
<1>14. GenerativeSamples = IF OnlyComfortNoise THEN 0 ELSE n
  BY DEF GenerativeSamples
<1>15. ComfortNoiseSamples = IF OnlyGenerativeModel THEN 0 ELSE n
  BY DEF ComfortNoiseSamples
<1>16. ~OnlyComfortNoise => Head(supplied) = IF IsPacketReceived THEN Received ELSE Estimated
  <2>1. CASE IsPacketReceived
    <3>1. q # <<>> /\ Head(q) # Estimated
      BY <1>2, <1>3, <1>7, <2>1
    <3>2. Head(q) \in {Received, Estimated}
      BY <1>2, <3>1
    <3> QED BY <2>1, <3>1, <3>2 DEF Supplied
  <2>2. CASE ~IsPacketReceived /\ ~OnlyComfortNoise
    <3>1. q # <<>> => Head(q) = Estimated
      BY <1>2, <1>3, <1>7, <1>8, <2>2
    <3> QED BY <2>2, <3>1, <1>2 DEF Supplied
  <2> QED BY <2>1, <2>2
<1>17. NoiseEstimatorAccepts /\ NextNoiseSamples = IF IsPacketReceived /\ ~full THEN Phase + n ELSE 0
  <2>1. IsPacketReceived => GenerativeSamples = n
    BY <1>8, <1>14
  <2>2. CASE IsPacketReceived
    <3>1. noise_samples + GenerativeSamples = Phase + n /\ Phase + n \in 1 .. NumSamplesPerHop
      <4>1. noise_samples = Phase /\ GenerativeSamples = n
        BY <1>13, <2>1, <2>2
      <4> HIDE DEF n
      <4> QED BY <1>1, <1>2, <1>3, <4>1
    <3>2. (Phase + n) % NumSamplesPerHop = IF full THEN 0 ELSE Phase + n
      <4>1. Phase + n < NumSamplesPerHop => (Phase + n) % NumSamplesPerHop = Phase + n
        BY <1>1, <1>2, <1>3, SMTT(30)
      <4>2. NumSamplesPerHop % NumSamplesPerHop = 0
        BY <1>1
      <4> QED BY <1>1, <3>1, <4>1, <4>2
    <3> QED BY <1>1, <2>2, <3>1, <3>2 DEF NoiseEstimatorAccepts, NextNoiseSamples
  <2>3. CASE ~IsPacketReceived
    <3>1. lost = 0 => m = 0
      BY <1>1, <1>3, <2>3 DEF Phase
    <3>2. noise_samples = 0
      BY <1>5, <3>1
    <3> QED BY <2>3, <3>2 DEF NoiseEstimatorAccepts, NextNoiseSamples
  <2> QED BY <2>2, <2>3
<1>18. ASSUME OnlyComfortNoise
       PROVE  /\ GenerativeModelRuns
              /\ Chunk.features = Noise
              /\ Generate(ReplenishedModel, GenerativeSamples) = generative_model
  <2>1. ReplenishedModel = generative_model
    BY <1>14, <1>18 DEF ReplenishedModel, Replenish
  <2>2. Generate(ReplenishedModel, GenerativeSamples) = generative_model
    BY <1>14, <1>18, <2>1 DEF Generate
  <2>3. GenerativeModelRuns
    BY <1>14, <1>18 DEF GenerativeModelRuns, CanGenerate
  <2>4. Chunk.features = Noise
    BY <1>14, <1>18 DEF Chunk
  <2> QED BY <1>18, <2>2, <2>3, <2>4
<1>19. ASSUME ~OnlyComfortNoise
       PROVE  LET model == Generate(ReplenishedModel, GenerativeSamples)
              IN  /\ GenerativeModelRuns
                  /\ Chunk.features = IF IsPacketReceived THEN Received ELSE Estimated
                  /\ model \in GenerativeModels({Received, Estimated})
                  /\ model.next_sample_in_hop = IF full THEN 0 ELSE Phase + n
                  /\ model.features_queue = IF full THEN Tail(supplied) ELSE supplied
                  /\ model.hop = Head(supplied)
                  /\ supplied \in Seq({Received, Estimated}) /\ supplied # <<>>
  <2>1. ReplenishedModel = Replenish(generative_model, n, Estimated) /\ GenerativeSamples = n
    BY <1>14, <1>19 DEF ReplenishedModel
  <2>2. /\ n \in 1 .. NumSamplesPerHop - m
        /\ m > 0 => q # <<>> /\ generative_model.hop = Head(q)
    BY <1>3, <1>5, <1>11, <1>19
  <2>3. /\ CanGenerate(ReplenishedModel, n)
        /\ RunConditioning(ReplenishedModel).hop = Head(supplied)
        /\ Generate(ReplenishedModel, n) \in GenerativeModels({Received, Estimated})
        /\ Generate(ReplenishedModel, n).hop = Head(supplied)
        /\ Generate(ReplenishedModel, n).features_queue =
             IF m + n = NumSamplesPerHop THEN Tail(supplied) ELSE supplied
        /\ Generate(ReplenishedModel, n).next_sample_in_hop =
             IF m + n = NumSamplesPerHop THEN 0 ELSE m + n
        /\ supplied \in Seq({Received, Estimated}) /\ supplied # <<>>
    BY <1>1, <2>1, <2>2, Serve
  <2>4. GenerativeModelRuns
    BY <2>1, <2>3 DEF GenerativeModelRuns
  <2>5. Chunk.features = IF IsPacketReceived THEN Received ELSE Estimated
    BY <1>3, <1>16, <1>19, <2>1, <2>3 DEF Chunk
  <2> HIDE DEF m, q, supplied, n
  <2> QED BY <1>11, <1>19, <2>1, <2>3, <2>4, <2>5
<1>20. ASSUME OnlyGenerativeModel
       PROVE  /\ ComfortNoiseRuns
              /\ Generate(ReplenishedNoise, ComfortNoiseSamples) = comfort_noise_generator
  <2>1. ReplenishedNoise = comfort_noise_generator
    BY <1>15, <1>20 DEF ReplenishedNoise, Replenish
  <2>2. Generate(ReplenishedNoise, ComfortNoiseSamples) = comfort_noise_generator
    BY <1>15, <1>20, <2>1 DEF Generate
  <2>3. ComfortNoiseRuns
    BY <1>15, <1>20 DEF ComfortNoiseRuns, CanGenerate
  <2> QED BY <1>20, <2>2, <2>3
<1>21. ASSUME ~OnlyGenerativeModel
       PROVE  LET noise == Generate(ReplenishedNoise, ComfortNoiseSamples)
              IN  /\ ComfortNoiseRuns
                  /\ noise \in GenerativeModels({Noise})
                  /\ noise.next_sample_in_hop = IF full THEN 0 ELSE Phase + n
                  /\ Len(noise.features_queue) = IF full THEN 0 ELSE 1
                  /\ noise.hop = Noise
  <2> DEFINE cool == Supplied(comfort_noise_generator, Noise)
  <2>1. ReplenishedNoise = Replenish(comfort_noise_generator, n, Noise) /\ ComfortNoiseSamples = n
    BY <1>15, <1>21 DEF ReplenishedNoise
  <2>2. cq \in Seq({Noise}) /\ Len(cq) \in Nat
    BY <1>1, ModelFields
  <2>3. /\ n \in 1 .. NumSamplesPerHop - c
        /\ c > 0 => cq # <<>> /\ comfort_noise_generator.hop = Head(cq)
    <3>1. c > 0 => Len(cq) = 1
      BY <1>5, <1>2
    <3>2. cq # <<>> => Head(cq) = Noise
      BY <2>2
    <3>3. c > 0 => cq # <<>>
      BY <2>2, <3>1
    <3> QED BY <1>3, <1>5, <1>12, <1>21, <3>2, <3>3
  <2>4. /\ CanGenerate(ReplenishedNoise, n)
        /\ Generate(ReplenishedNoise, n) \in GenerativeModels({Noise})
        /\ Generate(ReplenishedNoise, n).hop = Head(cool)
        /\ Generate(ReplenishedNoise, n).features_queue =
             IF c + n = NumSamplesPerHop THEN Tail(cool) ELSE cool
        /\ Generate(ReplenishedNoise, n).next_sample_in_hop =
             IF c + n = NumSamplesPerHop THEN 0 ELSE c + n
        /\ cool \in Seq({Noise}) /\ cool # <<>>
    BY <1>1, <2>1, <2>3, Serve
  <2>5. Len(cool) = 1 /\ Len(Tail(cool)) = 0 /\ Head(cool) = Noise
    <3>1. Len(cool) = 1
      <4>1. cq = <<>> \/ Len(cq) = 1
        BY <1>5, <2>2
      <4> QED BY <4>1 DEF Supplied
    <3> HIDE DEF cool
    <3> QED BY <2>4, <3>1
  <2>6. ComfortNoiseRuns
    BY <2>1, <2>4 DEF ComfortNoiseRuns
  <2> HIDE DEF c, cq, cool, n
  <2> QED BY <1>12, <1>21, <2>1, <2>4, <2>5, <2>6
<1>22. Chunk = [features |-> Chunk.features, heard |-> IsPacketReceived]
  BY DEF Chunk
<1>23. NoiseEstimatorAccepts /\ GenerativeModelRuns /\ ComfortNoiseRuns
  BY <1>17, <1>18, <1>19, <1>20, <1>21
<1> QED BY <1>8, <1>9, <1>16, <1>17, <1>18, <1>19, <1>20, <1>21, <1>22, <1>23

\* A fade is a whole number of hops long, so what is left of it suffices for
\* the hop being played.
LEMMA FadeAlignment ==
  ASSUME DecoderInvariant
  PROVE  /\ NumSamplesPerHop <= FadeDuration
         /\ fade_direction = FadeFromCNG /\ fade_progress > 0 =>
              /\ fade_progress >= NumSamplesPerHop - Phase
              /\ fade_progress + lost <= FadeDuration
              /\ (fade_progress + Phase) % NumSamplesPerHop = 0
         /\ fade_direction = FadeToCNG =>
              /\ fade_progress > 0
              /\ lost % NumSamplesPerHop = 0 =>
                   /\ fade_progress >= NumSamplesPerHop
                   /\ fade_progress % NumSamplesPerHop = 0
              /\ fade_progress # FadeDuration =>
                   /\ fade_progress = lost - ConcealmentDuration
                   /\ fade_progress + (NumSamplesPerHop - (lost % NumSamplesPerHop))
                        <= FadeDuration
              /\ fade_progress = FadeDuration =>
                   lost >= ConcealmentDuration + FadeDuration
         /\ lost > ConcealmentDuration <=> fade_direction = FadeToCNG
         /\ lost = ConcealmentDuration => fade_progress = 0
<1>1. /\ lost \in Nat /\ fade_progress \in 0 .. FadeDuration
      /\ fade_direction \in {FadeToCNG, FadeFromCNG}
      /\ FadeToCNG # FadeFromCNG
      /\ ConcealmentDuration \in Nat \ {0} /\ FadeDuration \in Nat \ {0}
      /\ FadeDuration <= ConcealmentDuration
      /\ NumSamplesPerHop \in Nat \ {0}
      /\ Phase \in 0 .. NumSamplesPerHop - 1
      /\ lost % NumSamplesPerHop \in 0 .. NumSamplesPerHop - 1
  BY HopAssumption, DurationAssumption, Supplies
     DEF DecoderInvariant, TypeOK, FadeToCNG, FadeFromCNG
<1>2. 0 % NumSamplesPerHop = 0
  BY <1>1
<1>3. FadeDuration % NumSamplesPerHop = 0
  BY DurationAssumption
<1>4. NumSamplesPerHop <= FadeDuration
  <2>1. 0 \in Int /\ FadeDuration \in Int /\ 0 < FadeDuration
    BY <1>1
  <2>2. 0 + NumSamplesPerHop <= FadeDuration
    BY <1>2, <1>3, <2>1, HopGap
  <2> QED BY <1>1, <2>2
<1>5. /\ fade_direction = FadeToCNG =>
           /\ lost > ConcealmentDuration
           /\ fade_progress = Least(lost - ConcealmentDuration, FadeDuration)
      /\ fade_direction = FadeFromCNG =>
           /\ lost <= ConcealmentDuration
           /\ fade_progress > 0 =>
                /\ fade_progress + lost <= FadeDuration
                /\ (fade_progress + Phase) % NumSamplesPerHop = 0
  BY DEF DecoderInvariant, FadeInvariant
<1>6. ASSUME fade_direction = FadeFromCNG, fade_progress > 0
      PROVE  fade_progress >= NumSamplesPerHop - Phase
  <2>1. /\ fade_progress + Phase \in Int /\ 0 \in Int /\ 0 < fade_progress + Phase
        /\ (fade_progress + Phase) % NumSamplesPerHop = 0
    BY <1>1, <1>5, <1>6
  <2>2. 0 + NumSamplesPerHop <= fade_progress + Phase
    BY <1>2, <2>1, HopGap
  <2> QED BY <1>1, <2>2
<1>7. (lost - ConcealmentDuration) % NumSamplesPerHop = lost % NumSamplesPerHop
  <2>1. lost \in Int /\ ConcealmentDuration \in Int /\ ConcealmentDuration % NumSamplesPerHop = 0
    BY <1>1, DurationAssumption
  <2> QED BY <2>1, FromBoundary
<1>8. ASSUME fade_direction = FadeToCNG, fade_progress # FadeDuration
      PROVE  /\ fade_progress = lost - ConcealmentDuration
             /\ fade_progress + (NumSamplesPerHop - (lost % NumSamplesPerHop)) <= FadeDuration
  <2>1. /\ fade_progress = lost - ConcealmentDuration
        /\ fade_progress \in Int /\ FadeDuration \in Int
        /\ fade_progress < FadeDuration
    BY <1>1, <1>5, <1>8 DEF Least
  <2>2. fade_progress + (NumSamplesPerHop - (fade_progress % NumSamplesPerHop)) <= FadeDuration
    BY <1>3, <2>1, RestOfHop
  <2> QED BY <1>7, <2>1, <2>2
<1>9. ASSUME fade_direction = FadeToCNG, lost % NumSamplesPerHop = 0
      PROVE  fade_progress >= NumSamplesPerHop /\ fade_progress % NumSamplesPerHop = 0
  <2>1. CASE fade_progress = FadeDuration
    BY <1>3, <1>4, <2>1
  <2>2. CASE fade_progress # FadeDuration
    <3>1. fade_progress % NumSamplesPerHop = 0
      BY <1>7, <1>8, <1>9, <2>2
    <3>2. fade_progress \in Int /\ 0 \in Int /\ 0 < fade_progress
      BY <1>1, <1>5, <1>8, <1>9, <2>2
    <3>3. 0 + NumSamplesPerHop <= fade_progress
      BY <1>2, <3>1, <3>2, HopGap
    <3> QED BY <1>1, <3>1, <3>3
  <2> QED BY <2>1, <2>2
<1>10. fade_direction = FadeToCNG => fade_progress > 0
  BY <1>1, <1>5 DEF Least
<1>11. fade_direction = FadeToCNG /\ fade_progress = FadeDuration =>
         lost >= ConcealmentDuration + FadeDuration
  BY <1>1, <1>5 DEF Least
<1>12. lost > ConcealmentDuration <=> fade_direction = FadeToCNG
  BY <1>1, <1>5
<1>13. lost = ConcealmentDuration => fade_progress = 0
  BY <1>1, <1>5
<1> QED BY <1>4, <1>5, <1>6, <1>8, <1>9, <1>10, <1>11, <1>12, <1>13

-----------------------------------------------------------------------------
(***************************************************************************)
(* What a chunk does to the counters.                                      *)
(***************************************************************************)

\* The position in the hop moves on with the chunk, whatever it is made of.
LEMMA ChunkMovesPhase ==
  ASSUME DecoderInvariant, DecodeChunk
  PROVE  LET n == NumSamplesToGenerate
             full == Phase + n = NumSamplesPerHop
         IN  /\ n \in 1 .. NumSamplesPerHop - Phase
             /\ IsPacketReceived => lost' = 0
             /\ ~IsPacketReceived =>
                  /\ lost' \in 1 .. ConcealmentDuration + FadeDuration + NumSamplesPerHop - 1
                  /\ lost < ConcealmentDuration => lost' = lost + n
                  /\ lost < ConcealmentDuration + FadeDuration => lost' = lost + n
                  /\ lost >= ConcealmentDuration => lost' > ConcealmentDuration
                  /\ lost >= ConcealmentDuration + FadeDuration =>
                       lost' >= ConcealmentDuration + FadeDuration
                  /\ lost' % NumSamplesPerHop = IF full THEN 0 ELSE Phase + n
             /\ Phase' = IF full THEN 0 ELSE Phase + n
<1> DEFINE n == NumSamplesToGenerate
           full == Phase + n = NumSamplesPerHop
           r == lost % NumSamplesPerHop
<1>1. /\ lost \in 0 .. ConcealmentDuration + FadeDuration + NumSamplesPerHop - 1
      /\ ConcealmentDuration \in Nat \ {0} /\ FadeDuration \in Nat \ {0}
      /\ NumSamplesPerHop \in Nat \ {0}
      /\ remaining > 0
  BY HopAssumption, DurationAssumption
     DEF DecoderInvariant, TypeOK, DecodeChunk, BeginIteration
<1>2. Phase \in 0 .. NumSamplesPerHop - 1
  BY Supplies
<1>3. /\ n \in 1 .. NumSamplesPerHop - Phase
      /\ ~IsPacketReceived => Phase = r
  BY <1>1, Iteration
<1>4. /\ generative_model' = Generate(ReplenishedModel, GenerativeSamples)
      /\ lost' = CountLost(Chunk, n)
  BY DEF DecodeChunk
<1>5. /\ Chunk.features = Received <=> IsPacketReceived
      /\ IsPacketReceived =>
           generative_model'.next_sample_in_hop = IF full THEN 0 ELSE Phase + n
  BY <1>1, <1>4, Generators DEF Received, Noise, Estimated
<1> HIDE DEF n
<1>6. CASE IsPacketReceived
  <2>1. lost' = 0
    BY <1>4, <1>5, <1>6 DEF CountLost
  <2> QED BY <1>3, <1>5, <1>6, <2>1 DEF Phase, n
<1>7. CASE ~IsPacketReceived
  <2>1. lost' = IF lost + n < ConcealmentDuration + FadeDuration + NumSamplesPerHop
                THEN lost + n ELSE (lost + n) - NumSamplesPerHop
    <3>1. lost' = CountLost(Chunk, n) /\ Chunk.features # Received
      BY <1>4, <1>5, <1>7
    <3>2. lost \in Int /\ n \in Int
      BY <1>1, <1>2, <1>3
    <3> QED BY <1>1, <3>1, <3>2 DEF CountLost
  <2>2. (lost + n) % NumSamplesPerHop = IF full THEN 0 ELSE Phase + n
    <3>1. n = NumSamplesPerHop - r <=> full
      BY <1>1, <1>2, <1>3, <1>7
    <3>2. lost \in Int /\ n \in Nat /\ n <= NumSamplesPerHop - r
      BY <1>1, <1>2, <1>3, <1>7
    <3>3. (lost + n) % NumSamplesPerHop = IF n = NumSamplesPerHop - r THEN 0 ELSE r + n
      BY <3>2, MoveInHop
    <3> QED BY <1>3, <1>7, <3>1, <3>3
  <2>3. ((lost + n) - NumSamplesPerHop) % NumSamplesPerHop = (lost + n) % NumSamplesPerHop
    <3> DEFINE count == lost + n
    <3>1. count \in Int
      BY <1>1, <1>2, <1>3
    <3> HIDE DEF count
    <3>2. (count - NumSamplesPerHop) % NumSamplesPerHop = count % NumSamplesPerHop
      BY <3>1, HopShift
    <3> QED BY <3>2 DEF count
  <2>4. lost' % NumSamplesPerHop = IF full THEN 0 ELSE Phase + n
    BY <2>1, <2>2, <2>3
  <2>5. n \in 1 .. NumSamplesPerHop
    BY <1>1, <1>2, <1>3
  <2>6. /\ lost' \in 1 .. ConcealmentDuration + FadeDuration + NumSamplesPerHop - 1
        /\ lost < ConcealmentDuration => lost' = lost + n
        /\ lost < ConcealmentDuration + FadeDuration => lost' = lost + n
        /\ lost >= ConcealmentDuration => lost' > ConcealmentDuration
        /\ lost >= ConcealmentDuration + FadeDuration =>
             lost' >= ConcealmentDuration + FadeDuration
    BY <1>1, <2>1, <2>5
  <2>7. Phase' = IF full THEN 0 ELSE Phase + n
    <3>1. lost' # 0
      BY <1>1, <2>6
    <3> QED BY <2>4, <3>1 DEF Phase
  <2> QED BY <1>3, <1>7, <2>4, <2>6, <2>7 DEF n
<1> QED BY <1>6, <1>7

\* A share of comfort noise after n more samples.
Softer(share, n) == IF share > n THEN share - n ELSE 0
Louder(share, n) == IF share + n < FadeDuration THEN share + n ELSE FadeDuration

\* The fade moves with the chunk, and stays in its range.
LEMMA ChunkMovesFade ==
  ASSUME DecoderInvariant, DecodeChunk
  PROVE  /\ fade_progress' \in 0 .. FadeDuration
         /\ fade_direction' \in {FadeToCNG, FadeFromCNG}
         /\ FadeInvariant'
         /\ OnlyComfortNoise => PureNoise'
         /\ PureNoise' /\ ~OnlyComfortNoise => Phase + NumSamplesToGenerate = NumSamplesPerHop
         /\ OnlyGenerativeModel => NoNoise'
         /\ NoNoise' /\ ~OnlyGenerativeModel => Phase + NumSamplesToGenerate = NumSamplesPerHop
         /\ fade_progress' = IF IsPacketReceived \/ lost < ConcealmentDuration
                             THEN Softer(fade_progress, NumSamplesToGenerate)
                             ELSE Louder(fade_progress, NumSamplesToGenerate)
<1> DEFINE n == NumSamplesToGenerate
           full == Phase + n = NumSamplesPerHop
           r == lost % NumSamplesPerHop
<1>1. /\ lost \in Nat /\ fade_progress \in 0 .. FadeDuration
      /\ fade_direction \in {FadeToCNG, FadeFromCNG}
      /\ FadeToCNG = 1 /\ FadeFromCNG = -1
      /\ ConcealmentDuration \in Nat \ {0} /\ FadeDuration \in Nat \ {0}
      /\ NumSamplesPerHop \in Nat \ {0}
      /\ remaining > 0
  BY HopAssumption, DurationAssumption
     DEF DecoderInvariant, TypeOK, DecodeChunk, BeginIteration, FadeToCNG, FadeFromCNG
<1>2. Phase \in 0 .. NumSamplesPerHop - 1 /\ r \in 0 .. NumSamplesPerHop - 1
  BY Supplies
<1>3. /\ n \in 1 .. NumSamplesPerHop - Phase
      /\ IsPacketReceived => r = 0 /\ lost' = 0
      /\ ~IsPacketReceived =>
           /\ Phase = r
           /\ NextFadeDirection = IF lost >= ConcealmentDuration THEN FadeToCNG ELSE FadeFromCNG
           /\ lost < ConcealmentDuration => lost + n <= ConcealmentDuration
  BY <1>1, Iteration, ChunkMovesPhase
<1>4. /\ ~IsPacketReceived =>
           /\ lost' \in Nat
           /\ lost < ConcealmentDuration => lost' = lost + n
           /\ lost < ConcealmentDuration + FadeDuration => lost' = lost + n
           /\ lost >= ConcealmentDuration => lost' > ConcealmentDuration
           /\ lost >= ConcealmentDuration + FadeDuration =>
                lost' >= ConcealmentDuration + FadeDuration
           /\ lost' % NumSamplesPerHop = IF full THEN 0 ELSE Phase + n
      /\ Phase' = IF full THEN 0 ELSE Phase + n
  BY <1>1, ChunkMovesPhase
<1>5. IsPacketReceived => NextFadeDirection = FadeFromCNG
  BY DEF NextFadeDirection
<1>6. /\ fade_direction' = NextFadeDirection
      /\ fade_progress' = IF OnlyComfortNoise \/ OnlyGenerativeModel THEN fade_progress
                          ELSE fade_progress + NextFadeDirection * n
  BY DEF DecodeChunk, BeginIteration, NextFadeProgress
<1>7. /\ OnlyComfortNoise <=> PureNoise /\ ~IsPacketReceived
      /\ OnlyGenerativeModel <=> NoNoise /\ (IsPacketReceived \/ lost < ConcealmentDuration)
  BY <1>1, Generators
<1>8. IsPacketReceived /\ fade_direction = FadeToCNG => Phase = 0
  <2>1. SUFFICES ASSUME IsPacketReceived, fade_direction = FadeToCNG PROVE Phase = 0
    OBVIOUS
  <2>2. lost # 0
    BY <1>1, <2>1, FadeAlignment
  <2> QED BY <1>3, <2>1, <2>2 DEF Phase
<1> HIDE DEF n, r
<1>9. CASE IsPacketReceived \/ lost < ConcealmentDuration
  <2>1. NextFadeDirection = FadeFromCNG /\ ~OnlyComfortNoise
    BY <1>1, <1>3, <1>5, <1>9 DEF OnlyComfortNoise
  <2>2. CASE fade_direction = FadeFromCNG /\ fade_progress = 0
    <3>1. OnlyGenerativeModel
      BY <1>7, <1>9, <2>2 DEF NoNoise
    <3>2. fade_progress' = 0 /\ fade_direction' = FadeFromCNG
      BY <1>6, <2>1, <2>2, <3>1
    <3>3. lost' <= ConcealmentDuration
      BY <1>1, <1>3, <1>4, <1>9
    <3>4. Softer(fade_progress, n) = 0
      BY <1>1, <1>2, <1>3, <2>2 DEF Softer
    <3> QED BY <1>1, <1>9, <2>1, <3>1, <3>2, <3>3, <3>4 DEF FadeInvariant, NoNoise, PureNoise, n
  <2>3. CASE ~(fade_direction = FadeFromCNG /\ fade_progress = 0)
    <3>1. ~OnlyGenerativeModel
      BY <1>7, <2>3 DEF NoNoise
    <3>2. fade_progress' = fade_progress - n /\ fade_direction' = FadeFromCNG
      BY <1>1, <1>2, <1>3, <1>6, <2>1, <3>1
    <3>3. fade_progress >= NumSamplesPerHop - Phase /\ (fade_progress + Phase) % NumSamplesPerHop = 0
      <4>1. CASE fade_direction = FadeFromCNG
        BY <1>1, <2>3, <4>1, FadeAlignment
      <4>2. CASE fade_direction = FadeToCNG
        <5>1. IsPacketReceived
          BY <1>1, <1>9, <4>2, FadeAlignment
        <5> QED BY <1>1, <1>3, <1>8, <4>2, <5>1, FadeAlignment DEF r
      <4> QED BY <1>1, <4>1, <4>2
    <3>4. fade_progress' \in 0 .. FadeDuration /\ fade_progress' # FadeDuration
      BY <1>1, <1>2, <1>3, <3>2, <3>3
    <3>5. fade_progress' = 0 => full
      BY <1>1, <1>2, <1>3, <3>2, <3>3
    <3>6. lost' <= ConcealmentDuration /\ fade_progress' + lost' <= FadeDuration
      <4>1. CASE IsPacketReceived
        <5>1. lost' = 0
          BY <1>3, <4>1
        <5>2. lost' <= ConcealmentDuration
          BY <1>1, <5>1
        <5>3. fade_progress' + lost' = (fade_progress - n) + 0
          BY <3>2, <5>1
        <5>4. fade_progress' + lost' <= FadeDuration
          BY <1>1, <1>2, <1>3, <5>3
        <5> QED BY <5>2, <5>4
      <4>2. CASE ~IsPacketReceived
        <5>1. lost' = lost + n /\ lost + n <= ConcealmentDuration
          BY <1>3, <1>4, <1>9, <4>2
        <5>2. fade_direction = FadeFromCNG /\ fade_progress > 0
          BY <1>1, <1>9, <2>3, <4>2, FadeAlignment
        <5>3. fade_progress + lost <= FadeDuration
          BY <5>2, FadeAlignment
        <5> QED BY <1>1, <1>2, <1>3, <3>2, <5>1, <5>3
      <4> QED BY <4>1, <4>2
    <3>7. (fade_progress' + Phase') % NumSamplesPerHop = 0
      <4>1. CASE full
        <5>1. fade_progress' + Phase' = (fade_progress + Phase) - NumSamplesPerHop
          BY <1>1, <1>2, <1>3, <1>4, <3>2, <4>1
        <5>2. fade_progress + Phase \in Int
          BY <1>1, <1>2
        <5> QED BY <3>3, <5>1, <5>2, HopShift
      <4>2. CASE ~full
        <5>1. fade_progress' + Phase' = fade_progress + Phase
          BY <1>1, <1>2, <1>3, <1>4, <3>2, <4>2
        <5> QED BY <3>3, <5>1
      <4> QED BY <4>1, <4>2
    <3>8. FadeInvariant'
      BY <1>1, <3>2, <3>6, <3>7 DEF FadeInvariant
    <3>9. fade_progress' = Softer(fade_progress, n)
      BY <1>1, <1>2, <1>3, <3>2, <3>3 DEF Softer
    <3> QED BY <1>1, <1>9, <2>1, <3>1, <3>2, <3>4, <3>5, <3>8, <3>9 DEF NoNoise, PureNoise, n
  <2> QED BY <2>2, <2>3
<1>10. CASE ~IsPacketReceived /\ lost >= ConcealmentDuration
  <2>1. NextFadeDirection = FadeToCNG /\ fade_direction' = FadeToCNG
    BY <1>3, <1>6, <1>10
  <2>2. ~OnlyGenerativeModel
    BY <1>1, <1>7, <1>10
  <2>3. ~NoNoise'
    BY <1>1, <2>1 DEF NoNoise
  <2>4. lost' > ConcealmentDuration
    BY <1>4, <1>10
  <2>5. CASE OnlyComfortNoise
    <3>1. fade_progress' = FadeDuration
      BY <1>6, <1>7, <2>5 DEF PureNoise
    <3>2. lost >= ConcealmentDuration + FadeDuration
      BY <1>7, <2>5, FadeAlignment DEF PureNoise
    <3>3. fade_progress' = Least(lost' - ConcealmentDuration, FadeDuration)
      BY <1>1, <1>4, <1>10, <3>1, <3>2 DEF Least
    <3>4. FadeInvariant'
      BY <1>1, <2>1, <2>4, <3>3 DEF FadeInvariant
    <3>5. Louder(fade_progress, n) = FadeDuration
      <4>1. fade_progress = FadeDuration
        BY <1>7, <2>5 DEF PureNoise
      <4> QED BY <1>1, <1>2, <1>3, <4>1 DEF Louder
    <3> QED BY <1>1, <1>10, <2>1, <2>2, <2>3, <2>5, <3>1, <3>4, <3>5 DEF PureNoise, n
  <2>6. CASE ~OnlyComfortNoise
    <3>1. fade_progress' = fade_progress + n
      BY <1>1, <1>2, <1>3, <1>6, <2>1, <2>2, <2>6
    <3>2. /\ fade_progress = lost - ConcealmentDuration
          /\ fade_progress + (NumSamplesPerHop - r) <= FadeDuration
      <4>1. CASE lost = ConcealmentDuration
        <5>1. r = 0
          BY <4>1, DurationAssumption DEF r
        <5> QED BY <1>1, <4>1, <5>1, FadeAlignment
      <4>2. CASE lost > ConcealmentDuration
        <5>1. fade_direction = FadeToCNG
          BY <4>2, FadeAlignment
        <5>2. fade_progress # FadeDuration
          BY <1>7, <1>10, <2>6, <5>1 DEF PureNoise
        <5> QED BY <5>1, <5>2, FadeAlignment DEF r
      <4> QED BY <1>1, <1>10, <4>1, <4>2
    <3>3. n \in 1 .. NumSamplesPerHop - r
      BY <1>3, <1>10
    <3>4. fade_progress' \in 0 .. FadeDuration
      BY <1>1, <1>2, <3>1, <3>2, <3>3
    <3>5. lost' = lost + n
      BY <1>1, <1>2, <1>4, <1>10, <3>2, <3>3
    <3>6. fade_progress' = lost' - ConcealmentDuration
      BY <1>1, <1>2, <3>1, <3>2, <3>3, <3>5
    <3>7. FadeInvariant'
      BY <1>1, <2>1, <2>4, <3>4, <3>6 DEF FadeInvariant, Least
    <3>8. fade_progress' = FadeDuration => full
      <4>1. SUFFICES ASSUME fade_progress' = FadeDuration PROVE n = NumSamplesPerHop - r
        BY <1>1, <1>2, <1>3, <1>10, <3>3
      <4> QED BY <1>1, <1>2, <3>1, <3>2, <3>3, <4>1
    <3>9. fade_progress' = Louder(fade_progress, n)
      BY <1>1, <1>2, <3>1, <3>2, <3>3 DEF Louder
    <3> QED BY <1>1, <1>10, <2>1, <2>2, <2>3, <2>6, <3>4, <3>7, <3>8, <3>9 DEF PureNoise, n
  <2> QED BY <2>5, <2>6
<1> QED BY <1>1, <1>9, <1>10

\* The received samples in a queue at position m of its first hop.
Backlog(queue, m) ==
  IF queue = <<>> THEN 0
  ELSE IF Head(queue) = Received THEN Len(queue) * NumSamplesPerHop - m
       ELSE (Len(queue) - 1) * NumSamplesPerHop

\* Playing from a queue keeps its shape, and takes from the received samples
\* only what it plays of them.
LEMMA PlayFromQueue ==
  ASSUME NEW queue \in Seq({Received, Estimated}), NEW received \in BOOLEAN,
         NEW m \in 0 .. NumSamplesPerHop - 1, NEW n \in 1 .. NumSamplesPerHop - m,
         \A i \in 2 .. Len(queue) : queue[i] = Received,
         received => queue # <<>> /\ Head(queue) = Received,
         ~received /\ queue # <<>> => Head(queue) = Estimated
  PROVE  LET full == m + n = NumSamplesPerHop
             supplied == IF queue = <<>> THEN << Estimated >> ELSE queue
             next == IF full THEN Tail(supplied) ELSE supplied
         IN  /\ \A i \in 2 .. Len(next) : next[i] = Received
             /\ ~full => next # <<>>
             /\ next # <<>> => (Head(next) = Estimated <=> ~received /\ ~full)
             /\ Backlog(next, IF full THEN 0 ELSE m + n) =
                  IF received THEN Backlog(queue, m) - n ELSE Backlog(queue, m)
<1> DEFINE full == m + n = NumSamplesPerHop
           supplied == IF queue = <<>> THEN << Estimated >> ELSE queue
           next == IF full THEN Tail(supplied) ELSE supplied
<1>1. /\ supplied \in Seq({Received, Estimated}) /\ supplied # <<>>
      /\ Head(supplied) = IF received THEN Received ELSE Estimated
      /\ \A i \in 2 .. Len(supplied) : supplied[i] = Received
      /\ Len(supplied) \in Nat /\ Len(supplied) >= 1
  <2>1. CASE queue = <<>>
    <3>1. supplied = << Estimated >> /\ ~received
      BY <2>1
    <3> HIDE DEF supplied
    <3>2. << Estimated >> \in Seq({Received, Estimated}) /\ Len(<< Estimated >>) = 1
      OBVIOUS
    <3> QED BY <3>1, <3>2
  <2>2. CASE queue # <<>>
    <3>1. supplied = queue
      BY <2>2
    <3> HIDE DEF supplied
    <3> QED BY <2>2, <3>1
  <2> QED BY <2>1, <2>2
<1>2. Received # Estimated
  BY DEF Received, Estimated
<1>3. Backlog(queue, m) = IF received THEN Len(supplied) * NumSamplesPerHop - m
                          ELSE (Len(supplied) - 1) * NumSamplesPerHop
  <2>1. CASE queue = <<>>
    <3>1. ~received /\ Len(supplied) - 1 = 0
      BY <2>1
    <3> HIDE DEF supplied
    <3>2. Backlog(queue, m) = 0
      BY <2>1 DEF Backlog
    <3>3. 0 * NumSamplesPerHop = 0
      BY HopAssumption
    <3> QED BY <3>1, <3>2, <3>3
  <2>2. CASE queue # <<>>
    <3>1. supplied = queue
      BY <2>2
    <3> HIDE DEF supplied
    <3> QED BY <1>1, <1>2, <2>2, <3>1 DEF Backlog
  <2> QED BY <2>1, <2>2
<1> HIDE DEF supplied
<1>4. CASE ~full
  <2>1. next = supplied
    BY <1>4
  <2>2. Backlog(supplied, m + n) = IF received THEN Len(supplied) * NumSamplesPerHop - (m + n)
                                   ELSE (Len(supplied) - 1) * NumSamplesPerHop
    BY <1>1, <1>2 DEF Backlog
  <2>3. Len(supplied) * NumSamplesPerHop - (m + n) = (Len(supplied) * NumSamplesPerHop - m) - n
    BY <1>1, HopAssumption
  <2> HIDE DEF next
  <2>4. Backlog(next, m + n) = IF received THEN Backlog(queue, m) - n ELSE Backlog(queue, m)
    BY <1>3, <2>1, <2>2, <2>3
  <2> QED BY <1>1, <1>2, <1>4, <2>1, <2>4 DEF next, supplied
<1>5. CASE full
  <2>1. next = Tail(supplied)
    BY <1>5
  <2>2. /\ Tail(supplied) \in Seq({Received, Estimated})
        /\ Len(Tail(supplied)) = Len(supplied) - 1
        /\ \A i \in 1 .. Len(Tail(supplied)) : Tail(supplied)[i] = Received
    BY <1>1
  <2> HIDE DEF next
  <2>3. next # <<>> => Head(next) = Received
    <3>1. SUFFICES ASSUME next # <<>> PROVE Head(next) = Received
      OBVIOUS
    <3>2. next \in Seq({Received, Estimated}) /\ \A i \in 1 .. Len(next) : next[i] = Received
      BY <2>1, <2>2
    <3>3. Len(next) >= 1 /\ Head(next) = next[1]
      BY <3>1, <3>2
    <3> QED BY <3>2, <3>3
  <2>4. Backlog(next, 0) = (Len(supplied) - 1) * NumSamplesPerHop
    <3>1. CASE next = <<>>
      <4>1. Len(supplied) - 1 = 0
        <5>1. Tail(supplied) = <<>> /\ Len(<<>>) = 0
          BY <2>1, <3>1
        <5>2. Len(Tail(supplied)) = 0
          BY <5>1
        <5> QED BY <2>2, <5>2
      <4>2. 0 * NumSamplesPerHop = 0
        BY HopAssumption
      <4> QED BY <3>1, <4>1, <4>2 DEF Backlog
    <3>2. CASE next # <<>>
      <4>1. Backlog(next, 0) = Len(next) * NumSamplesPerHop - 0
        BY <2>3, <3>2 DEF Backlog
      <4>2. Len(next) = Len(supplied) - 1
        BY <2>1, <2>2
      <4>3. (Len(supplied) - 1) * NumSamplesPerHop - 0 = (Len(supplied) - 1) * NumSamplesPerHop
        BY <1>1, HopAssumption
      <4> QED BY <4>1, <4>2, <4>3
    <3> QED BY <3>1, <3>2
  <2>5. (Len(supplied) - 1) * NumSamplesPerHop = (Len(supplied) * NumSamplesPerHop - m) - n
    <3>1. (Len(supplied) - 1) * NumSamplesPerHop = Len(supplied) * NumSamplesPerHop - NumSamplesPerHop
      BY <1>1, HopAssumption
    <3>2. Len(supplied) * NumSamplesPerHop \in Int
      BY <1>1, HopAssumption
    <3> QED BY <1>5, <3>1, <3>2, HopAssumption
  <2>6. Backlog(next, 0) = IF received THEN Backlog(queue, m) - n ELSE Backlog(queue, m)
    BY <1>3, <2>4, <2>5
  <2>7. \A i \in 2 .. Len(next) : next[i] = Received
    BY <1>1, <2>1, <2>2
  <2> QED BY <1>2, <1>5, <2>3, <2>6, <2>7 DEF next, supplied
<1> QED BY <1>4, <1>5

\* A chunk keeps the shape of the queue and the position of the generative
\* model, and plays received samples exactly when a packet is received.
LEMMA ChunkMovesQueue ==
  ASSUME DecoderInvariant, DecodeChunk
  PROVE  /\ generative_model' \in GenerativeModels({Received, Estimated})
         /\ QueueInvariant'
         /\ generative_model'.next_sample_in_hop = IF PureNoise' THEN 0 ELSE Phase'
         /\ generative_model'.next_sample_in_hop > 0 =>
              /\ generative_model'.features_queue # <<>>
              /\ generative_model'.hop = Head(generative_model'.features_queue)
         /\ ReceivedBacklog' = IF IsPacketReceived
                               THEN ReceivedBacklog - NumSamplesToGenerate
                               ELSE ReceivedBacklog
<1> DEFINE n == NumSamplesToGenerate
           q == generative_model.features_queue
           m == generative_model.next_sample_in_hop
           full == Phase + n = NumSamplesPerHop
           r == lost % NumSamplesPerHop
           supplied == Supplied(generative_model, Estimated)
<1>1. remaining > 0 /\ NumSamplesPerHop \in Nat \ {0}
  BY HopAssumption DEF DecodeChunk, BeginIteration
<1>2. /\ Phase \in 0 .. NumSamplesPerHop - 1 /\ r \in 0 .. NumSamplesPerHop - 1
      /\ q \in Seq({Received, Estimated})
      /\ ReceivedBacklog > 0 <=> q # <<>> /\ (ConcealingInHop => Len(q) > 1)
  BY Supplies
<1>3. /\ n \in 1 .. NumSamplesPerHop - Phase
      /\ IsPacketReceived <=> ReceivedBacklog > 0 /\ r = 0
      /\ IsPacketReceived => Phase = m
      /\ ~IsPacketReceived => Phase = r
  BY <1>1, Iteration
<1>4. /\ IsPacketReceived => lost' = 0
      /\ ~IsPacketReceived => lost' % NumSamplesPerHop = IF full THEN 0 ELSE Phase + n
      /\ Phase' = IF full THEN 0 ELSE Phase + n
  BY ChunkMovesPhase
<1>5. /\ OnlyComfortNoise => PureNoise' /\ PureNoise /\ ~IsPacketReceived
      /\ PureNoise' /\ ~OnlyComfortNoise => full
      /\ ~IsPacketReceived /\ PureNoise => OnlyComfortNoise
  BY <1>1, ChunkMovesFade, Generators
<1>6. /\ OnlyComfortNoise => generative_model' = generative_model
      /\ ~OnlyComfortNoise =>
           /\ generative_model' \in GenerativeModels({Received, Estimated})
           /\ generative_model'.next_sample_in_hop = IF full THEN 0 ELSE Phase + n
           /\ generative_model'.features_queue = IF full THEN Tail(supplied) ELSE supplied
           /\ generative_model'.hop = Head(supplied)
           /\ Head(supplied) = IF IsPacketReceived THEN Received ELSE Estimated
  BY <1>1, Generators DEF DecodeChunk
<1>7. /\ ReceivedBacklog = Backlog(q, m)
      /\ ReceivedBacklog' = Backlog(generative_model'.features_queue,
                                    generative_model'.next_sample_in_hop)
  BY DEF ReceivedBacklog, Backlog, NumSamplesAvailable
<1>8. /\ \A i \in 2 .. Len(q) : q[i] = Received
      /\ q # <<>> => (Head(q) = Estimated <=> ConcealingInHop)
      /\ m = IF PureNoise THEN 0 ELSE Phase
  BY DEF DecoderInvariant, QueueInvariant, PositionInvariant
<1>9. generative_model \in GenerativeModels({Received, Estimated})
  BY DEF DecoderInvariant, TypeOK
<1> HIDE DEF n, r
<1>10. CASE OnlyComfortNoise
  <2>1. generative_model' = generative_model /\ PureNoise' /\ PureNoise
    BY <1>5, <1>6, <1>10
  <2>2. m = 0
    BY <1>8, <2>1
  <2>3. QueueInvariant'
    BY <1>8, <2>1 DEF QueueInvariant, ConcealingInHop
  <2>4. ReceivedBacklog' = ReceivedBacklog
    BY <1>7, <2>1
  <2> QED BY <1>5, <1>9, <1>10, <2>1, <2>2, <2>3, <2>4
<1>11. CASE ~OnlyComfortNoise
  <2> DEFINE fq == generative_model'.features_queue
             mm == generative_model'.next_sample_in_hop
  <2>1. /\ IsPacketReceived => q # <<>> /\ Head(q) = Received
        /\ ~IsPacketReceived /\ q # <<>> => Head(q) = Estimated
    BY <1>6, <1>2, <1>3, <1>11 DEF Supplied
  <2>2. /\ IsPacketReceived \in BOOLEAN
        /\ supplied = IF q = <<>> THEN << Estimated >> ELSE q
    BY DEF IsPacketReceived, Supplied
  <2>3. Backlog(q, m) = Backlog(q, Phase)
    <3>1. CASE IsPacketReceived
      BY <1>3, <3>1
    <3>2. CASE ~IsPacketReceived
      <4>1. Received # Estimated
        BY DEF Received, Estimated
      <4> QED BY <2>1, <3>2, <4>1 DEF Backlog
    <3> QED BY <3>1, <3>2
  <2>4. fq = (IF full THEN Tail(supplied) ELSE supplied) /\ mm = (IF full THEN 0 ELSE Phase + n)
    BY <1>6, <1>11
  <2>5. /\ \A i \in 2 .. Len(fq) : fq[i] = Received
        /\ ~full => fq # <<>>
        /\ fq # <<>> => (Head(fq) = Estimated <=> ~IsPacketReceived /\ ~full)
        /\ Backlog(fq, mm) = IF IsPacketReceived THEN Backlog(q, Phase) - n ELSE Backlog(q, Phase)
    <3> DEFINE next == IF full THEN Tail(supplied) ELSE supplied
               at == IF full THEN 0 ELSE Phase + n
    <3>1. /\ \A i \in 2 .. Len(next) : next[i] = Received
          /\ ~full => next # <<>>
          /\ next # <<>> => (Head(next) = Estimated <=> ~IsPacketReceived /\ ~full)
          /\ Backlog(next, at) = IF IsPacketReceived THEN Backlog(q, Phase) - n
                                 ELSE Backlog(q, Phase)
      <4> HIDE DEF q, m
      <4>1. /\ q \in Seq({Received, Estimated})
            /\ \A i \in 2 .. Len(q) : q[i] = Received
        BY <1>2, <1>8 DEF q
      <4> QED BY <1>2, <1>3, <2>1, <2>2, <4>1, PlayFromQueue
    <3>2. fq = next /\ mm = at
      BY <2>4
    <3> HIDE DEF next, at, fq, mm
    <3> QED BY <3>1, <3>2
  <2>6. ReceivedBacklog' = IF IsPacketReceived THEN ReceivedBacklog - n ELSE ReceivedBacklog
    BY <1>7, <2>3, <2>5
  <2>7. mm = IF PureNoise' THEN 0 ELSE Phase'
    BY <1>4, <1>5, <1>11, <2>4
  <2>8. mm > 0 => fq # <<>> /\ generative_model'.hop = Head(fq)
    <3>1. full => mm = 0
      BY <2>4
    <3> QED BY <1>6, <1>11, <2>4, <2>5, <3>1
  <2>9. ConcealingInHop' <=> ~IsPacketReceived /\ ~full
    <3>1. CASE IsPacketReceived
      <4>1. lost' % NumSamplesPerHop = 0
        <5>1. 0 % NumSamplesPerHop = 0
          BY HopAssumption
        <5> QED BY <1>4, <3>1, <5>1
      <4> QED BY <3>1, <4>1 DEF ConcealingInHop
    <3>2. CASE ~IsPacketReceived
      <4>1. lost' % NumSamplesPerHop = IF full THEN 0 ELSE Phase + n
        BY <1>4, <3>2
      <4>2. Phase + n # 0
        BY <1>2, <1>3
      <4> QED BY <1>5, <1>11, <3>2, <4>1, <4>2 DEF ConcealingInHop
    <3> QED BY <3>1, <3>2
  <2>10. QueueInvariant'
    BY <2>5, <2>9 DEF QueueInvariant
  <2> HIDE DEF supplied
  <2> QED BY <1>6, <1>11, <2>6, <2>7, <2>8, <2>10 DEF n
<1> QED BY <1>10, <1>11

\* The generators, the noise estimator and everyone's position after a chunk.
LEMMA ChunkMovesPosition ==
  ASSUME DecoderInvariant, DecodeChunk
  PROVE  /\ PositionInvariant'
         /\ comfort_noise_generator' \in GenerativeModels({Noise})
         /\ noise_samples' \in 0 .. NumSamplesPerHop - 1
<1> DEFINE n == NumSamplesToGenerate
           c == comfort_noise_generator.next_sample_in_hop
           full == Phase + n = NumSamplesPerHop
<1>1. remaining > 0 /\ NumSamplesPerHop \in Nat \ {0}
  BY HopAssumption DEF DecodeChunk, BeginIteration
<1>2. Phase \in 0 .. NumSamplesPerHop - 1 /\ n \in 1 .. NumSamplesPerHop - Phase
  BY <1>1, Supplies, Iteration
<1>3. /\ IsPacketReceived => lost' = 0
      /\ ~IsPacketReceived => lost' \in 1 .. ConcealmentDuration + FadeDuration + NumSamplesPerHop - 1
      /\ Phase' = IF full THEN 0 ELSE Phase + n
  BY ChunkMovesPhase
<1>4. /\ OnlyGenerativeModel => NoNoise' /\ NoNoise
      /\ NoNoise' /\ ~OnlyGenerativeModel => full
      /\ IsPacketReceived => ~PureNoise'
  <2>1. IsPacketReceived => fade_direction' = FadeFromCNG
    BY DEF DecodeChunk, BeginIteration, NextFadeDirection
  <2>2. FadeFromCNG # FadeToCNG
    BY DEF FadeFromCNG, FadeToCNG
  <2> QED BY <1>1, <2>1, <2>2, ChunkMovesFade, Generators DEF PureNoise
<1>5. noise_samples' = IF IsPacketReceived /\ ~full THEN Phase + n ELSE 0
  BY <1>1, Generators DEF DecodeChunk
<1>6. /\ OnlyGenerativeModel => comfort_noise_generator' = comfort_noise_generator
      /\ ~OnlyGenerativeModel =>
           /\ comfort_noise_generator' \in GenerativeModels({Noise})
           /\ comfort_noise_generator'.next_sample_in_hop = IF full THEN 0 ELSE Phase + n
           /\ Len(comfort_noise_generator'.features_queue) = IF full THEN 0 ELSE 1
           /\ comfort_noise_generator'.hop = Noise
  BY <1>1, Generators DEF DecodeChunk
<1>7. /\ c = IF NoNoise THEN 0 ELSE Phase
      /\ Len(comfort_noise_generator.features_queue) = IF c = 0 THEN 0 ELSE 1
      /\ comfort_noise_generator \in GenerativeModels({Noise})
  BY DEF DecoderInvariant, PositionInvariant, TypeOK
<1>8. /\ generative_model'.next_sample_in_hop = IF PureNoise' THEN 0 ELSE Phase'
      /\ generative_model'.next_sample_in_hop > 0 =>
           /\ generative_model'.features_queue # <<>>
           /\ generative_model'.hop = Head(generative_model'.features_queue)
  BY ChunkMovesQueue
<1> HIDE DEF n
<1>9. noise_samples' = IF lost' = 0 THEN generative_model'.next_sample_in_hop ELSE 0
  <2>1. CASE IsPacketReceived
    BY <1>3, <1>4, <1>5, <1>8, <2>1
  <2>2. CASE ~IsPacketReceived
    <3>1. lost' # 0
      BY <1>3, <2>2
    <3> QED BY <1>5, <2>2, <3>1
  <2> QED BY <2>1, <2>2
<1>10. /\ comfort_noise_generator' \in GenerativeModels({Noise})
       /\ comfort_noise_generator'.next_sample_in_hop = IF NoNoise' THEN 0 ELSE Phase'
       /\ Len(comfort_noise_generator'.features_queue) =
            IF comfort_noise_generator'.next_sample_in_hop = 0 THEN 0 ELSE 1
       /\ comfort_noise_generator'.next_sample_in_hop > 0 =>
            comfort_noise_generator'.hop = Noise
  <2>1. CASE OnlyGenerativeModel
    <3>1. c = 0 /\ NoNoise'
      BY <1>4, <1>7, <2>1
    <3> QED BY <1>6, <1>7, <2>1, <3>1
  <2>2. CASE ~OnlyGenerativeModel
    <3>1. ~full => Phase + n # 0
      BY <1>1, <1>2
    <3> QED BY <1>3, <1>4, <1>6, <2>2, <3>1
  <2> QED BY <2>1, <2>2
<1>11. PositionInvariant'
  BY <1>8, <1>9, <1>10 DEF PositionInvariant
<1>12. noise_samples' \in 0 .. NumSamplesPerHop - 1
  <2>1. ~full => Phase + n \in 0 .. NumSamplesPerHop - 1
    BY <1>1, <1>2
  <2>2. 0 \in 0 .. NumSamplesPerHop - 1
    BY <1>1
  <2> QED BY <1>5, <2>1, <2>2
<1> QED BY <1>10, <1>11, <1>12

\* The concealment progress keeps its meaning, and its range.
LEMMA ChunkMovesProgress ==
  ASSUME DecoderInvariant, DecodeChunk
  PROVE  /\ ProgressTracksLoss'
         /\ concealment_progress' \in 1 - NumSamplesPerHop .. ConcealmentDuration
<1> DEFINE n == NumSamplesToGenerate
           full == Phase + n = NumSamplesPerHop
           r == lost % NumSamplesPerHop
<1>1. /\ remaining > 0 /\ lost \in Nat
      /\ ConcealmentDuration \in Nat \ {0} /\ NumSamplesPerHop \in Nat \ {0}
  BY HopAssumption, DurationAssumption
     DEF DecoderInvariant, TypeOK, DecodeChunk, BeginIteration
<1>2. r \in 0 .. NumSamplesPerHop - 1 /\ Phase \in 0 .. NumSamplesPerHop - 1
      /\ ReceivedBacklog \in Nat
  BY Supplies
<1>3. /\ n \in 1 .. NumSamplesPerHop - Phase
      /\ IsPacketReceived <=> ReceivedBacklog > 0 /\ r = 0
      /\ IsPacketReceived => concealment_progress' = 0
      /\ ~IsPacketReceived =>
           /\ Phase = r
           /\ concealment_progress' =
                IF ReceivedBacklog = 0 THEN Least(lost + n, ConcealmentDuration)
                ELSE concealment_progress + n
  BY <1>1, Iteration DEF DecodeChunk, BeginIteration
<1>4. /\ IsPacketReceived => lost' = 0
      /\ ~IsPacketReceived =>
           /\ lost' \in 1 .. ConcealmentDuration + FadeDuration + NumSamplesPerHop - 1
           /\ lost < ConcealmentDuration => lost' = lost + n
           /\ lost >= ConcealmentDuration => lost' > ConcealmentDuration
           /\ lost' % NumSamplesPerHop = IF full THEN 0 ELSE Phase + n
  BY ChunkMovesPhase
<1>5. ~IsPacketReceived => ReceivedBacklog' = ReceivedBacklog
  BY ChunkMovesQueue
<1>6. concealment_progress = IF ReceivedBacklog = 0 THEN Least(lost, ConcealmentDuration)
                             ELSE IF r = 0 THEN 0 ELSE - (NumSamplesPerHop - r)
  BY DEF DecoderInvariant, ProgressTracksLoss, ConcealedHopRest
<1> HIDE DEF n, r
<1>7. CASE IsPacketReceived
  <2>1. concealment_progress' = 0 /\ lost' = 0
    BY <1>3, <1>4, <1>7
  <2>2. 0 % NumSamplesPerHop = 0
    BY <1>1
  <2>3. ConcealedHopRest' = 0
    BY <2>1, <2>2 DEF ConcealedHopRest
  <2>4. Least(0, ConcealmentDuration) = 0
    BY <1>1 DEF Least
  <2>5. ProgressTracksLoss'
    BY <2>1, <2>3, <2>4, MinusZero DEF ProgressTracksLoss
  <2> QED BY <1>1, <2>1, <2>5
<1>8. CASE ~IsPacketReceived /\ ReceivedBacklog = 0
  <2>1. concealment_progress' = Least(lost + n, ConcealmentDuration)
    BY <1>3, <1>8
  <2>2. Least(lost + n, ConcealmentDuration) = Least(lost', ConcealmentDuration)
    <3>1. CASE lost < ConcealmentDuration
      BY <1>4, <1>8, <3>1
    <3>2. CASE lost >= ConcealmentDuration
      <4>1. lost' \in Int /\ ~(lost' <= ConcealmentDuration)
        BY <1>1, <1>4, <1>8, <3>2
      <4>2. ~(lost + n <= ConcealmentDuration)
        BY <1>1, <1>2, <1>3, <3>2
      <4> QED BY <4>1, <4>2 DEF Least
    <3> QED BY <1>1, <3>1, <3>2
  <2>3. ProgressTracksLoss'
    BY <1>5, <1>8, <2>1, <2>2 DEF ProgressTracksLoss
  <2>4. Least(lost + n, ConcealmentDuration) \in 1 - NumSamplesPerHop .. ConcealmentDuration
    BY <1>1, <1>2, <1>3 DEF Least
  <2> QED BY <2>1, <2>3, <2>4
<1>9. CASE ~IsPacketReceived /\ ReceivedBacklog # 0
  <2>1. r > 0
    BY <1>2, <1>3, <1>9
  <2>2. concealment_progress' = (- (NumSamplesPerHop - r)) + n
    BY <1>1, <1>2, <1>3, <1>6, <1>9, <2>1
  <2>3. Phase = r /\ lost' % NumSamplesPerHop = IF full THEN 0 ELSE r + n
    BY <1>3, <1>4, <1>9
  <2>4. (- (NumSamplesPerHop - r)) + n = IF full THEN 0 ELSE - (NumSamplesPerHop - (r + n))
    BY <1>1, <1>2, <1>3, <2>3
  <2>5. ~full => r + n # 0
    BY <1>1, <1>2, <1>3, <2>1
  <2>6. concealment_progress' = - ConcealedHopRest'
    BY <2>2, <2>3, <2>4, <2>5, MinusZero DEF ConcealedHopRest
  <2>7. ProgressTracksLoss'
    BY <1>5, <1>9, <2>6 DEF ProgressTracksLoss
  <2>8. (- (NumSamplesPerHop - r)) + n \in 1 - NumSamplesPerHop .. ConcealmentDuration
    BY <1>1, <1>2, <1>3, <2>1, <2>3
  <2> QED BY <2>2, <2>7, <2>8
<1> QED BY <1>7, <1>8, <1>9

\* An iteration preserves the invariant.
LEMMA IterateInvariant ==
  ASSUME DecoderInvariant, Iterate
  PROVE  DecoderInvariant'
<1>1. remaining > 0
  BY DEF Iterate, DecodeChunk, GenerativeModelFails, ComfortNoiseFails,
         NoiseEstimatorFails, BeginIteration
<1>2. DecodeChunk
  BY <1>1, Generators DEF Iterate, GenerativeModelFails, ComfortNoiseFails,
                          NoiseEstimatorFails
<1>3. /\ generative_model' \in GenerativeModels({Received, Estimated})
      /\ QueueInvariant'
  BY <1>2, ChunkMovesQueue
<1>4. /\ PositionInvariant'
      /\ comfort_noise_generator' \in GenerativeModels({Noise})
      /\ noise_samples' \in 0 .. NumSamplesPerHop - 1
  BY <1>2, ChunkMovesPosition
<1>5. /\ ProgressTracksLoss'
      /\ concealment_progress' \in 1 - NumSamplesPerHop .. ConcealmentDuration
  BY <1>2, ChunkMovesProgress
<1>6. /\ fade_progress' \in 0 .. FadeDuration
      /\ fade_direction' \in {FadeToCNG, FadeFromCNG}
      /\ FadeInvariant'
  BY <1>2, ChunkMovesFade
<1>7. remaining' \in Nat
  <2>1. NumSamplesToGenerate \in 1 .. remaining /\ remaining \in Nat
    BY <1>1, Iteration DEF DecoderInvariant, TypeOK
  <2> QED BY <1>2, <2>1 DEF DecodeChunk
<1>8. reply' \in {"none", "samples"}
  BY <1>2 DEF DecodeChunk
<1>9. /\ output' \in [ features : {NoFeatures, Received, Estimated, Noise}, heard : BOOLEAN ]
      /\ output'.heard <=> output'.features = Received
  <2>1. output' = [ features |-> IF OnlyComfortNoise THEN Noise
                                 ELSE IF IsPacketReceived THEN Received ELSE Estimated,
                    heard |-> IsPacketReceived ]
    BY <1>1, <1>2, Generators DEF DecodeChunk
  <2>2. IsPacketReceived \in BOOLEAN /\ (IsPacketReceived => ~OnlyComfortNoise)
    <3>1. IsPacketReceived \in BOOLEAN
      BY DEF IsPacketReceived
    <3> QED BY <1>1, <3>1, Generators
  <2> QED BY <2>1, <2>2 DEF Received, Estimated, Noise
<1>10. lost' \in 0 .. ConcealmentDuration + FadeDuration + NumSamplesPerHop - 1
  <2>1. /\ IsPacketReceived => lost' = 0
        /\ ~IsPacketReceived =>
             lost' \in 1 .. ConcealmentDuration + FadeDuration + NumSamplesPerHop - 1
    BY <1>2, ChunkMovesPhase
  <2>2. 0 \in 0 .. ConcealmentDuration + FadeDuration + NumSamplesPerHop - 1
    BY HopAssumption, DurationAssumption
  <2> QED BY <2>1, <2>2
<1>11. TypeOK'
  BY <1>3, <1>4, <1>5, <1>6, <1>7, <1>8, <1>9, <1>10 DEF TypeOK
<1>12. DecodingNeverFails' /\ OutputInvariant'
  BY <1>8, <1>9 DEF DecodingNeverFails, OutputInvariant
<1> QED BY <1>3, <1>4, <1>5, <1>6, <1>11, <1>12 DEF DecoderInvariant

-----------------------------------------------------------------------------
(***************************************************************************)
(* The calls between two iterations.                                       *)
(***************************************************************************)

\* A packet at the end of the queue leaves its front alone.
LEMMA AppendReceived ==
  ASSUME NEW queue \in Seq({Received, Estimated})
  PROVE  /\ Append(queue, Received) \in Seq({Received, Estimated})
         /\ Len(Append(queue, Received)) = Len(queue) + 1
         /\ Append(queue, Received) # <<>>
         /\ Head(Append(queue, Received)) =
              IF queue = <<>> THEN Received ELSE Head(queue)
         /\ (\A i \in 2 .. Len(queue) : queue[i] = Received) =>
              \A i \in 2 .. Len(queue) + 1 : Append(queue, Received)[i] = Received
<1>1. /\ Append(queue, Received) \in Seq({Received, Estimated})
      /\ Len(Append(queue, Received)) = Len(queue) + 1
      /\ \A i \in 1 .. Len(queue) : Append(queue, Received)[i] = queue[i]
      /\ Append(queue, Received)[Len(queue) + 1] = Received
  OBVIOUS
<1>2. Append(queue, Received) # <<>>
  <2>1. Len(queue) \in Nat /\ Len(queue) + 1 # 0 /\ Len(<<>>) = 0
    OBVIOUS
  <2>2. Len(Append(queue, Received)) # 0
    BY <1>1, <2>1
  <2> QED BY <2>1, <2>2
<1>3. Head(Append(queue, Received)) = IF queue = <<>> THEN Received ELSE Head(queue)
  BY <1>1, <1>2
<1>4. (\A i \in 2 .. Len(queue) : queue[i] = Received) =>
        \A i \in 2 .. Len(queue) + 1 : Append(queue, Received)[i] = Received
  BY <1>1
<1> QED BY <1>1, <1>2, <1>3, <1>4

\* A received packet is counted from where the concealment hop ends.
LEMMA SetEncodedPacketInvariant ==
  ASSUME DecoderInvariant, SetEncodedPacket
  PROVE  DecoderInvariant'
<1> DEFINE q == generative_model.features_queue
           m == generative_model.next_sample_in_hop
           c == comfort_noise_generator.next_sample_in_hop
           r == lost % NumSamplesPerHop
<1>1. /\ lost \in Nat
      /\ generative_model \in GenerativeModels({Received, Estimated})
      /\ ConcealmentDuration \in Nat \ {0} /\ NumSamplesPerHop \in Nat \ {0}
      /\ fade_direction \in {FadeToCNG, FadeFromCNG}
      /\ Received # Estimated
  BY HopAssumption, DurationAssumption DEF DecoderInvariant, TypeOK, Received, Estimated
<1>2. /\ r \in 0 .. NumSamplesPerHop - 1 /\ Phase \in 0 .. NumSamplesPerHop - 1
      /\ q \in Seq({Received, Estimated}) /\ Len(q) \in Nat
      /\ m \in 0 .. NumSamplesPerHop - 1
      /\ NumSamplesAvailable(comfort_noise_generator) =
           IF c = 0 THEN 0 ELSE NumSamplesPerHop - c
      /\ ReceivedBacklog \in Nat
      /\ ReceivedBacklog > 0 <=> q # <<>> /\ (ConcealingInHop => Len(q) > 1)
  BY Supplies
<1>3. concealment_progress = IF ReceivedBacklog = 0 THEN Least(lost, ConcealmentDuration)
                             ELSE - ConcealedHopRest
  BY DEF DecoderInvariant, ProgressTracksLoss
<1>4. ConcealedHopRest = IF r = 0 THEN 0 ELSE NumSamplesPerHop - r
  BY DEF ConcealedHopRest
<1>5. /\ m = IF PureNoise THEN 0 ELSE Phase
      /\ m > 0 => q # <<>> /\ generative_model.hop = Head(q)
      /\ c = IF NoNoise THEN 0 ELSE Phase
  BY DEF DecoderInvariant, PositionInvariant
<1>6. /\ fade_direction = FadeToCNG <=> lost > ConcealmentDuration
      /\ lost = ConcealmentDuration => fade_progress = 0
  BY FadeAlignment
<1>7. ConcealingInHop <=> r # 0 /\ ~PureNoise
  BY DEF ConcealingInHop
<1>8. /\ \A i \in 2 .. Len(q) : q[i] = Received
      /\ ConcealingInHop => q # <<>>
      /\ q # <<>> => (Head(q) = Estimated <=> ConcealingInHop)
  BY DEF DecoderInvariant, QueueInvariant
<1>9. generative_model' = [ features_queue |-> Append(q, Received),
                            next_sample_in_hop |-> m, hop |-> generative_model.hop ]
  BY <1>1 DEF SetEncodedPacket, AddFeatures, GenerativeModels
<1>10. /\ UNCHANGED << comfort_noise_generator, noise_samples, fade_progress,
                      fade_direction, remaining, output, lost >>
       /\ concealment_progress' = ConcealmentBeforePacket
       /\ reply' = "true"
  BY DEF SetEncodedPacket
<1> HIDE DEF q, m, c, r
<1>11. concealment_progress' = - ConcealedHopRest
  <2>1. CASE ReceivedBacklog > 0
    <3>1. concealment_progress = - ConcealedHopRest
      BY <1>2, <1>3, <2>1
    <3>2. - ConcealedHopRest <= 0 /\ - ConcealedHopRest \in Int
      BY <1>1, <1>2, <1>4, MinusZero
    <3> QED BY <1>1, <1>10, <3>1, <3>2 DEF ConcealmentBeforePacket
  <2>2. CASE ReceivedBacklog = 0 /\ lost >= ConcealmentDuration
    <3>1. concealment_progress = ConcealmentDuration
      BY <1>1, <1>3, <2>2 DEF Least
    <3>2. c = IF NoNoise THEN 0 ELSE r
      BY <1>1, <1>5, <2>2 DEF Phase, r
    <3>3. lost = ConcealmentDuration => r = 0
      BY DurationAssumption DEF r
    <3>4. NoNoise => r = 0
      BY <1>1, <1>6, <2>2, <3>3 DEF NoNoise, FadeToCNG, FadeFromCNG
    <3>5. NumSamplesAvailable(comfort_noise_generator) = ConcealedHopRest
      BY <1>2, <1>4, <3>2, <3>4
    <3> QED BY <1>10, <3>1, <3>5 DEF ConcealmentBeforePacket
  <2>3. CASE ReceivedBacklog = 0 /\ lost < ConcealmentDuration /\ lost > 0
    <3>1. concealment_progress = lost /\ lost # ConcealmentDuration
      BY <1>1, <1>3, <2>3 DEF Least
    <3>2. ~PureNoise
      BY <1>1, <1>6, <2>3 DEF PureNoise
    <3>3. m = r
      BY <1>1, <1>5, <2>3, <3>2 DEF Phase, r
    <3>4. NumSamplesAvailable(generative_model) = ConcealedHopRest
      <4>1. NumSamplesAvailable(generative_model) = Len(q) * NumSamplesPerHop - r
        BY <3>3 DEF NumSamplesAvailable, q, m
      <4>2. CASE r = 0
        <5>1. Len(q) = 0
          <6>1. q = <<>>
            BY <1>2, <1>7, <2>3, <4>2
          <6> QED BY <6>1
        <5>2. 0 * NumSamplesPerHop - 0 = 0
          BY <1>1
        <5> QED BY <1>4, <4>1, <4>2, <5>1, <5>2
      <4>3. CASE r # 0
        <5>1. q # <<>> /\ ~(Len(q) > 1)
          BY <1>2, <1>7, <1>8, <2>3, <3>2, <4>3
        <5>2. Len(q) = 1
          <6>1. Len(q) > 0
            BY <1>2, <5>1
          <6>2. Len(q) \in Nat /\ ~(Len(q) > 1)
            BY <1>2, <5>1
          <6>3. \A k \in Nat : k > 0 /\ ~(k > 1) => k = 1
            OBVIOUS
          <6> QED BY <6>1, <6>2, <6>3, Zenon
        <5>3. 1 * NumSamplesPerHop - r = NumSamplesPerHop - r
          BY <1>1, <1>2
        <5> QED BY <1>4, <4>1, <4>3, <5>2, <5>3
      <4> QED BY <4>2, <4>3
    <3> QED BY <1>1, <1>10, <2>3, <3>1, <3>4 DEF ConcealmentBeforePacket
  <2>4. CASE ReceivedBacklog = 0 /\ lost = 0
    <3>1. concealment_progress = 0
      BY <1>1, <1>3, <2>4 DEF Least
    <3>2. r = 0
      BY <1>1, <2>4 DEF r
    <3>3. concealment_progress' = 0
      BY <1>1, <1>10, <3>1 DEF ConcealmentBeforePacket
    <3> QED BY <1>4, <3>2, <3>3, MinusZero
  <2> QED BY <1>1, <1>2, <2>1, <2>2, <2>3, <2>4
<1>12. /\ Append(q, Received) \in Seq({Received, Estimated})
       /\ Len(Append(q, Received)) = Len(q) + 1
       /\ Append(q, Received) # <<>>
       /\ Head(Append(q, Received)) = IF q = <<>> THEN Received ELSE Head(q)
       /\ \A i \in 2 .. Len(q) + 1 : Append(q, Received)[i] = Received
  BY <1>2, <1>8, AppendReceived
<1>13. ReceivedBacklog' # 0
  <2>1. ReceivedBacklog' = IF q # <<>> /\ Head(q) # Received
                           THEN ((Len(q) + 1) - 1) * NumSamplesPerHop
                           ELSE (Len(q) + 1) * NumSamplesPerHop - m
    BY <1>9, <1>12 DEF ReceivedBacklog, NumSamplesAvailable
  <2>2. (Len(q) + 1) * NumSamplesPerHop - m > 0
    <3>1. Len(q) + 1 \in Nat /\ Len(q) + 1 > 0
      BY <1>2
    <3> QED BY <1>2, <3>1, Available
  <2>3. ASSUME q # <<>> PROVE ((Len(q) + 1) - 1) * NumSamplesPerHop # 0
    <3>1. Len(q) > 0 /\ (Len(q) + 1) - 1 = Len(q)
      BY <1>2, <2>3
    <3>2. Len(q) * NumSamplesPerHop >= NumSamplesPerHop
      BY <1>1, <1>2, <3>1, Available
    <3> QED BY <1>1, <1>2, <3>1, <3>2
  <2>4. (Len(q) + 1) * NumSamplesPerHop - m # 0
    BY <1>1, <1>2, <2>2
  <2> QED BY <2>1, <2>3, <2>4
<1>14. ProgressTracksLoss'
  <2>1. ConcealedHopRest' = ConcealedHopRest
    BY <1>10 DEF ConcealedHopRest
  <2> QED BY <1>11, <1>13, <2>1 DEF ProgressTracksLoss
<1>15. QueueInvariant'
  <2>1. ConcealingInHop' <=> ConcealingInHop
    BY <1>10 DEF ConcealingInHop, PureNoise
  <2>2. q = <<>> => ~ConcealingInHop
    BY <1>8
  <2> QED BY <1>1, <1>8, <1>9, <1>12, <2>1, <2>2 DEF QueueInvariant
<1>16. PositionInvariant'
  <2>1. /\ Phase' = Phase /\ PureNoise' = PureNoise /\ NoNoise' = NoNoise
        /\ generative_model'.next_sample_in_hop = generative_model.next_sample_in_hop
        /\ generative_model'.hop = generative_model.hop
    BY <1>9, <1>10 DEF Phase, PureNoise, NoNoise, m
  <2>2. m > 0 => Head(generative_model'.features_queue) = Head(q)
    BY <1>5, <1>9, <1>12
  <2> QED BY <1>9, <1>10, <1>12, <2>1, <2>2
          DEF DecoderInvariant, PositionInvariant, m, q
<1>17. TypeOK'
  <2>1. generative_model' \in GenerativeModels({Received, Estimated})
    BY <1>1, <1>2, <1>9, <1>12, ModelFields DEF GenerativeModels
  <2>2. - ConcealedHopRest \in 1 - NumSamplesPerHop .. ConcealmentDuration
    BY <1>1, <1>2, <1>4, MinusZero
  <2> QED BY <1>10, <1>11, <2>1, <2>2 DEF TypeOK, DecoderInvariant
<1>18. FadeInvariant' /\ OutputInvariant' /\ DecodingNeverFails'
  <2>1. Phase' = Phase
    BY <1>9, <1>10 DEF Phase, m
  <2> QED BY <1>10, <2>1
          DEF DecoderInvariant, FadeInvariant, OutputInvariant, DecodingNeverFails
<1> QED BY <1>14, <1>15, <1>16, <1>17, <1>18 DEF DecoderInvariant

\* A call that changes nothing but what is asked for and what was replied.
LEMMA RequestInvariant ==
  ASSUME DecoderInvariant,
         UNCHANGED << models, loss, output, lost >>,
         remaining' \in Nat,
         reply' \in {"none", "true", "false", "samples"}
  PROVE  DecoderInvariant'
<1>1. /\ UNCHANGED << generative_model, comfort_noise_generator, noise_samples >>
      /\ UNCHANGED << concealment_progress, fade_progress, fade_direction, output, lost >>
  BY DEF models, loss
<1>2. Phase' = Phase /\ PureNoise' = PureNoise /\ NoNoise' = NoNoise
  BY <1>1 DEF Phase, PureNoise, NoNoise
<1>3. TypeOK'
  BY <1>1 DEF DecoderInvariant, TypeOK
<1>4. ProgressTracksLoss'
  BY <1>1 DEF DecoderInvariant, ProgressTracksLoss, ReceivedBacklog, ConcealedHopRest,
              NumSamplesAvailable
<1>5. DecodingNeverFails' /\ OutputInvariant'
  BY <1>1 DEF DecoderInvariant, DecodingNeverFails, OutputInvariant
<1>6. QueueInvariant' /\ PositionInvariant' /\ FadeInvariant'
  BY <1>1, <1>2 DEF DecoderInvariant, QueueInvariant, PositionInvariant,
                    FadeInvariant, ConcealingInHop
<1> QED BY <1>3, <1>4, <1>5, <1>6 DEF DecoderInvariant

\* The constructor leaves the decoder with nothing to play and nothing lost.
LEMMA InitInvariant == Init => DecoderInvariant
<1> SUFFICES ASSUME Init PROVE DecoderInvariant
  OBVIOUS
<1> USE HopAssumption, DurationAssumption
<1>1. /\ generative_model = [ features_queue |-> <<>>, next_sample_in_hop |-> 0,
                              hop |-> NoFeatures ]
      /\ comfort_noise_generator = [ features_queue |-> <<>>, next_sample_in_hop |-> 0,
                                     hop |-> NoFeatures ]
      /\ noise_samples = 0 /\ concealment_progress = 0 /\ fade_progress = 0
      /\ fade_direction = FadeFromCNG /\ remaining = 0 /\ reply = "none" /\ lost = 0
      /\ output = [ features |-> NoFeatures, heard |-> FALSE ]
  BY DEF Init, EmptyModel
<1>2. FadeFromCNG # FadeToCNG
  BY DEF FadeFromCNG, FadeToCNG
<1>3. 0 \in 0 .. NumSamplesPerHop - 1 /\ 0 % NumSamplesPerHop = 0
  OBVIOUS
<1>4. /\ generative_model \in GenerativeModels({Received, Estimated})
      /\ comfort_noise_generator \in GenerativeModels({Noise})
  BY <1>1, <1>3 DEF GenerativeModels
<1>5. TypeOK
  BY <1>1, <1>3, <1>4 DEF TypeOK, NoFeatures, Received
<1>6. ~PureNoise /\ NoNoise /\ ~ConcealingInHop /\ Phase = 0
  BY <1>1, <1>2, <1>3 DEF PureNoise, NoNoise, ConcealingInHop, Phase
<1>7. ProgressTracksLoss
  BY <1>1 DEF ProgressTracksLoss, ReceivedBacklog, Least
<1>8. QueueInvariant /\ PositionInvariant
  BY <1>1, <1>6 DEF QueueInvariant, PositionInvariant
<1>9. FadeInvariant
  BY <1>1, <1>2 DEF FadeInvariant
<1>10. DecodingNeverFails /\ OutputInvariant
  BY <1>1 DEF DecodingNeverFails, OutputInvariant, NoFeatures, Received
<1> QED BY <1>5, <1>7, <1>8, <1>9, <1>10 DEF DecoderInvariant

\* Every step preserves the invariant if the quantizer decodes every packet.
LEMMA NextInvariant ==
  ASSUME ~QuantizerMayFail, DecoderInvariant, [Next]_vars
  PROVE  DecoderInvariant'
<1>1. CASE SetEncodedPacket
  BY <1>1, SetEncodedPacketInvariant
<1>2. CASE SetUnsupportedPacket
  <2>1. /\ UNCHANGED << models, loss, output, lost >>
        /\ remaining' = 0 /\ reply' = "false"
    BY <1>2 DEF SetUnsupportedPacket
  <2> QED BY <2>1, RequestInvariant
<1>3. CASE SetUndecodablePacket
  BY <1>3 DEF SetUndecodablePacket
<1>4. ASSUME NEW n \in Requests, DecodeSamples(n) PROVE DecoderInvariant'
  <2>1. /\ UNCHANGED << models, loss, output, lost >>
        /\ remaining' = n /\ reply' = "none"
    BY <1>4 DEF DecodeSamples
  <2>2. n \in Nat
    BY CallAssumption
  <2> QED BY <2>1, <2>2, RequestInvariant
<1>5. CASE Iterate
  BY <1>5, IterateInvariant
<1>6. CASE UNCHANGED vars
  <2>1. /\ UNCHANGED << models, loss, output, lost >>
        /\ UNCHANGED << remaining, reply >>
    BY <1>6 DEF vars, models, loss
  <2>2. remaining \in Nat /\ reply \in {"none", "true", "false", "samples"}
    BY DEF DecoderInvariant, TypeOK, DecodingNeverFails
  <2> QED BY <2>1, <2>2, RequestInvariant
<1> QED BY <1>1, <1>2, <1>3, <1>4, <1>5, <1>6 DEF Next

-----------------------------------------------------------------------------
(***************************************************************************)
(* The theorems: what holds whenever every packet of a supported size can  *)
(* be decoded, whatever the order of the calls and the sizes requested.    *)
(***************************************************************************)

\* DecoderInvariant holds in every reachable state.
THEOREM InvariantHolds == ASSUME ~QuantizerMayFail PROVE Spec => []DecoderInvariant
<1>1. Init => DecoderInvariant
  BY InitInvariant
<1>2. DecoderInvariant /\ [Next]_vars => DecoderInvariant'
  BY NextInvariant
<1> QED BY <1>1, <1>2, PTL DEF Spec

\* Every variable keeps its type; the two progress counters keep the ranges
\* lyra_decoder.h documents for them.
THEOREM TypeCorrect == ASSUME ~QuantizerMayFail PROVE Spec => []TypeOK
<1>1. DecoderInvariant => TypeOK
  BY DEF DecoderInvariant
<1> QED BY <1>1, InvariantHolds, PTL

\* DecodeSamples returns the samples it was asked for: no generator and no
\* noise estimator refuses its part of an iteration.
THEOREM NeverFails == ASSUME ~QuantizerMayFail PROVE Spec => []DecodingNeverFails
<1>1. DecoderInvariant => DecodingNeverFails
  BY DEF DecoderInvariant
<1> QED BY <1>1, InvariantHolds, PTL

\* concealment_progress_ has the meaning lyra_decoder.h gives it.
THEOREM ProgressIsLoss == ASSUME ~QuantizerMayFail PROVE Spec => []ProgressTracksLoss
<1>1. DecoderInvariant => ProgressTracksLoss
  BY DEF DecoderInvariant
<1> QED BY <1>1, InvariantHolds, PTL

\* Comfort noise is faded in by what is lost beyond the concealment duration.
THEOREM FadeIsLoss == ASSUME ~QuantizerMayFail PROVE Spec => []FadeTracksLoss
<1>1. DecoderInvariant => FadeTracksLoss
  <2>1. SUFFICES ASSUME DecoderInvariant PROVE FadeTracksLoss
    OBVIOUS
  <2>2. lost > ConcealmentDuration <=> fade_direction = FadeToCNG
    BY <2>1, FadeAlignment
  <2> QED BY <2>1, <2>2 DEF DecoderInvariant, FadeInvariant, FadeTracksLoss
<1> QED BY <1>1, InvariantHolds, PTL

\* The noise estimator hears the audio of received packets and nothing else.
THEOREM EstimatorHears ==
  ASSUME ~QuantizerMayFail PROVE Spec => []EstimatorHearsReceivedAudio
<1>1. DecoderInvariant => EstimatorHearsReceivedAudio
  <2>1. SUFFICES ASSUME DecoderInvariant PROVE EstimatorHearsReceivedAudio
    OBVIOUS
  <2>2. ASSUME noise_samples > 0
        PROVE  /\ generative_model.hop = Received
               /\ generative_model.next_sample_in_hop = noise_samples
    <3>1. lost = 0 /\ generative_model.next_sample_in_hop = noise_samples
      <4>1. noise_samples = IF lost = 0 THEN generative_model.next_sample_in_hop ELSE 0
        BY <2>1 DEF DecoderInvariant, PositionInvariant
      <4>2. ~(0 > 0)
        OBVIOUS
      <4> QED BY <2>2, <4>1, <4>2
    <3>2. /\ generative_model.features_queue # <<>>
          /\ generative_model.hop = Head(generative_model.features_queue)
      BY <2>1, <2>2, <3>1 DEF DecoderInvariant, PositionInvariant
    <3>3. ~ConcealingInHop
      <4>1. 0 % NumSamplesPerHop = 0
        BY HopAssumption
      <4> QED BY <3>1, <4>1 DEF ConcealingInHop
    <3>4. Head(generative_model.features_queue) # Estimated
      BY <2>1, <3>2, <3>3 DEF DecoderInvariant, QueueInvariant
    <3>5. Head(generative_model.features_queue) \in {Received, Estimated}
      BY <2>1, <3>2, Supplies
    <3> QED BY <3>1, <3>2, <3>4, <3>5
  <2> QED BY <2>1, <2>2 DEF DecoderInvariant, OutputInvariant, EstimatorHearsReceivedAudio
<1> QED BY <1>1, InvariantHolds, PTL

\* A fade never starts on what an earlier one left in the comfort noise
\* generator.
THEOREM NoiseIsFresh == ASSUME ~QuantizerMayFail PROVE Spec => []ComfortNoiseIsFresh
<1>1. DecoderInvariant => ComfortNoiseIsFresh
  <2>1. SUFFICES ASSUME DecoderInvariant PROVE ComfortNoiseIsFresh
    OBVIOUS
  <2> DEFINE m == generative_model.next_sample_in_hop
             c == comfort_noise_generator.next_sample_in_hop
             r == lost % NumSamplesPerHop
  <2>2. /\ NumSamplesAvailable(generative_model) % NumSamplesPerHop =
             IF m = 0 THEN 0 ELSE NumSamplesPerHop - m
        /\ NumSamplesAvailable(comfort_noise_generator) =
             IF c = 0 THEN 0 ELSE NumSamplesPerHop - c
    BY <2>1, Supplies
  <2>3. c = IF NoNoise THEN 0 ELSE Phase
    BY <2>1 DEF DecoderInvariant, PositionInvariant
  <2>4. lost = 0 => Phase = m
    BY DEF Phase
  <2>5. lost # 0 => Phase = r
    BY DEF Phase
  <2> HIDE DEF m, c, r
  <2> QED BY <2>2, <2>3, <2>4, <2>5 DEF ComfortNoiseIsFresh, NoNoise, ConcealedHopRest, r
<1> QED BY <1>1, InvariantHolds, PTL

-----------------------------------------------------------------------------
(***************************************************************************)
(* The decoder implements its promise.                                     *)
(***************************************************************************)

\* A packet adds a hop to what waits to be played.
LEMMA PacketJoinsBacklog ==
  ASSUME DecoderInvariant, SetEncodedPacket
  PROVE  ReceivedBacklog' = ReceivedBacklog + NumSamplesPerHop
<1> DEFINE q == generative_model.features_queue
           m == generative_model.next_sample_in_hop
<1>1. /\ generative_model \in GenerativeModels({Received, Estimated})
      /\ NumSamplesPerHop \in Nat \ {0} /\ Received # Estimated
  BY HopAssumption DEF DecoderInvariant, TypeOK, Received, Estimated
<1>2. /\ q \in Seq({Received, Estimated}) /\ Len(q) \in Nat
      /\ m \in 0 .. NumSamplesPerHop - 1
  BY <1>1, ModelFields
<1>3. q = <<>> => m = 0
  <2>1. m > 0 => q # <<>>
    BY DEF DecoderInvariant, PositionInvariant
  <2> QED BY <1>2, <2>1
<1>4. /\ generative_model'.features_queue = Append(q, Received)
      /\ generative_model'.next_sample_in_hop = m
  BY <1>1 DEF SetEncodedPacket, AddFeatures, GenerativeModels
<1> HIDE DEF q, m
<1>5. /\ Len(Append(q, Received)) = Len(q) + 1
      /\ Append(q, Received) # <<>>
      /\ Head(Append(q, Received)) = IF q = <<>> THEN Received ELSE Head(q)
  BY <1>2, AppendReceived
<1>6. ReceivedBacklog' = IF q # <<>> /\ Head(q) # Received
                         THEN ((Len(q) + 1) - 1) * NumSamplesPerHop
                         ELSE (Len(q) + 1) * NumSamplesPerHop - m
  BY <1>4, <1>5 DEF ReceivedBacklog, NumSamplesAvailable
<1>7. ReceivedBacklog = IF q = <<>> THEN 0
                        ELSE IF Head(q) = Received THEN Len(q) * NumSamplesPerHop - m
                        ELSE (Len(q) - 1) * NumSamplesPerHop
  BY DEF ReceivedBacklog, NumSamplesAvailable, q, m
<1>8. (Len(q) + 1) * NumSamplesPerHop = Len(q) * NumSamplesPerHop + NumSamplesPerHop
  BY <1>1, <1>2
<1>9. CASE q = <<>>
  <2>1. ReceivedBacklog' = (Len(q) + 1) * NumSamplesPerHop - 0 /\ ReceivedBacklog = 0
    BY <1>3, <1>6, <1>7, <1>9
  <2>2. Len(q) = 0
    BY <1>9
  <2>3. (0 + 1) * NumSamplesPerHop - 0 = 0 + NumSamplesPerHop
    BY <1>1
  <2> QED BY <2>1, <2>2, <2>3
<1>10. CASE q # <<>> /\ Head(q) = Received
  <2>1. /\ ReceivedBacklog' = (Len(q) + 1) * NumSamplesPerHop - m
        /\ ReceivedBacklog = Len(q) * NumSamplesPerHop - m
    BY <1>6, <1>7, <1>10
  <2>2. Len(q) * NumSamplesPerHop \in Int
    BY <1>1, <1>2
  <2> QED BY <1>1, <1>2, <1>8, <2>1, <2>2
<1>11. CASE q # <<>> /\ Head(q) # Received
  <2>1. /\ ReceivedBacklog' = ((Len(q) + 1) - 1) * NumSamplesPerHop
        /\ ReceivedBacklog = (Len(q) - 1) * NumSamplesPerHop
    BY <1>6, <1>7, <1>11
  <2>2. ((Len(q) + 1) - 1) * NumSamplesPerHop = (Len(q) - 1) * NumSamplesPerHop + NumSamplesPerHop
    BY <1>1, <1>2
  <2> QED BY <2>1, <2>2
<1> QED BY <1>9, <1>10, <1>11

\* A chunk of received audio is one the backlog holds.
LEMMA ChunkIsInBacklog ==
  ASSUME DecoderInvariant, remaining > 0, IsPacketReceived
  PROVE  NumSamplesToGenerate <= ReceivedBacklog
<1> DEFINE q == generative_model.features_queue
           m == generative_model.next_sample_in_hop
           n == NumSamplesToGenerate
<1>1. /\ q \in Seq({Received, Estimated}) /\ Len(q) \in Nat
      /\ m \in 0 .. NumSamplesPerHop - 1 /\ NumSamplesPerHop \in Nat \ {0}
      /\ ReceivedBacklog > 0 => q # <<>>
  BY Supplies, HopAssumption
<1>2. /\ n \in 1 .. NumSamplesPerHop - m /\ ReceivedBacklog > 0
      /\ lost % NumSamplesPerHop = 0
  BY Iteration
<1>3. q # <<>> /\ Len(q) > 0
  BY <1>1, <1>2
<1>4. Head(q) = Received
  <2>1. Head(q) \in {Received, Estimated}
    BY <1>1, <1>3
  <2>2. ~ConcealingInHop
    BY <1>2 DEF ConcealingInHop
  <2> QED BY <1>3, <2>1, <2>2 DEF DecoderInvariant, QueueInvariant
<1>5. ReceivedBacklog = Len(q) * NumSamplesPerHop - m
  BY <1>3, <1>4 DEF ReceivedBacklog, NumSamplesAvailable
<1>6. Len(q) * NumSamplesPerHop >= NumSamplesPerHop /\ Len(q) * NumSamplesPerHop \in Int
  <2>1. Len(q) * NumSamplesPerHop >= NumSamplesPerHop
    BY <1>1, <1>3, Available, 0 \in 0 .. NumSamplesPerHop - 1
  <2> QED BY <1>1, <2>1
<1> HIDE DEF q, m, n
<1>7. n <= Len(q) * NumSamplesPerHop - m
  BY <1>1, <1>2, <1>6
<1> QED BY <1>5, <1>7 DEF n

\* Every step of the decoder is a step of its promise, or invisible to it.
LEMMA StepKeepsPromise ==
  ASSUME ~QuantizerMayFail, DecoderInvariant, [Next]_vars
  PROVE  [Promise!Next]_(Promise!vars)
<1> DEFINE n == NumSamplesToGenerate
<1>1. CASE SetEncodedPacket
  <2>1. Promise!ReceivePacket
    BY <1>1, PacketJoinsBacklog DEF Promise!ReceivePacket, SetEncodedPacket
  <2> QED BY <2>1 DEF Promise!Next
<1>2. ASSUME UNCHANGED models PROVE ReceivedBacklog' = ReceivedBacklog
  BY <1>2 DEF models, ReceivedBacklog, NumSamplesAvailable
<1>3. CASE SetUnsupportedPacket
  <2>1. UNCHANGED Promise!vars
    BY <1>2, <1>3 DEF SetUnsupportedPacket, loss, Promise!vars
  <2> QED BY <2>1
<1>4. CASE SetUndecodablePacket
  BY <1>4 DEF SetUndecodablePacket
<1>5. ASSUME NEW k \in Requests, DecodeSamples(k) PROVE [Promise!Next]_(Promise!vars)
  <2>1. Promise!Request(k)
    BY <1>2, <1>5 DEF DecodeSamples, loss, Promise!Request
  <2> QED BY <2>1 DEF Promise!Next
<1>6. CASE Iterate
  <2>1. remaining > 0
    BY <1>6 DEF Iterate, DecodeChunk, GenerativeModelFails, ComfortNoiseFails,
                NoiseEstimatorFails, BeginIteration
  <2>2. DecodeChunk
    BY <1>6, <2>1, Generators DEF Iterate, GenerativeModelFails, ComfortNoiseFails,
                                  NoiseEstimatorFails
  <2>3. /\ n \in 1 .. remaining /\ n \in 1 .. NumSamplesPerHop - Phase
        /\ IsPacketReceived <=> ReceivedBacklog > 0 /\ lost % NumSamplesPerHop = 0
        /\ ~IsPacketReceived => Phase = lost % NumSamplesPerHop
    BY <2>1, Iteration
  <2>4. /\ ReceivedBacklog' = IF IsPacketReceived THEN ReceivedBacklog - n ELSE ReceivedBacklog
        /\ fade_progress' = IF IsPacketReceived \/ lost < ConcealmentDuration
                            THEN Softer(fade_progress, n) ELSE Louder(fade_progress, n)
        /\ remaining' = remaining - n
    BY <2>2, ChunkMovesQueue, ChunkMovesFade DEF DecodeChunk
  <2>5. CASE IsPacketReceived
    <3>1. n <= ReceivedBacklog /\ lost' = 0
      BY <2>1, <2>2, <2>5, ChunkIsInBacklog, ChunkMovesPhase
    <3> HIDE DEF n
    <3>2. Promise!PlayReceived(n)
      BY <2>3, <2>4, <2>5, <3>1
         DEF Promise!PlayReceived, Promise!AtHopBoundary, Promise!Softer, Softer
    <3> QED BY <2>3, <3>2 DEF Promise!Next
  <2>6. CASE ~IsPacketReceived
    <3>1. lost' = IF lost + n < ConcealmentDuration + FadeDuration + NumSamplesPerHop
                  THEN lost + n ELSE lost + n - NumSamplesPerHop
      <4>1. Chunk.features # Received
        BY <2>1, <2>6, Generators DEF Received, Estimated, Noise
      <4>2. lost' = CountLost(Chunk, n)
        BY <2>2 DEF DecodeChunk
      <4>3. lost + n - NumSamplesPerHop = (lost + n) - NumSamplesPerHop
        BY <2>3, HopAssumption DEF DecoderInvariant, TypeOK
      <4> HIDE DEF n
      <4> QED BY <4>1, <4>2, <4>3 DEF CountLost
    <3>2. lost >= ConcealmentDuration <=> ~(lost < ConcealmentDuration)
      BY DurationAssumption DEF DecoderInvariant, TypeOK
    <3>3. /\ ~(lost % NumSamplesPerHop = 0 /\ ReceivedBacklog > 0)
          /\ n <= NumSamplesPerHop - (lost % NumSamplesPerHop)
      BY <2>3, <2>6
    <3> HIDE DEF n
    <3>4. Promise!Conceal(n)
      BY <2>4, <2>6, <3>1, <3>2, <3>3
         DEF Promise!Conceal, Promise!AtHopBoundary, Promise!CountLost,
             Promise!Softer, Promise!Louder, Softer, Louder
    <3> QED BY <2>3, <3>4 DEF Promise!Next
  <2> QED BY <2>5, <2>6
<1>7. CASE UNCHANGED vars
  <2>1. UNCHANGED Promise!vars
    BY <1>2, <1>7 DEF vars, models, Promise!vars
  <2> QED BY <2>1
<1> QED BY <1>1, <1>3, <1>4, <1>5, <1>6, <1>7 DEF Next

\* The decoder implements LossConcealment: requests are filled in full, audio
\* resumes at the first hop boundary after a packet, and comfort noise follows
\* the length of the loss.
THEOREM KeepsPromise == ASSUME ~QuantizerMayFail PROVE Spec => ConcealsLoss
<1>1. Init => Promise!Init
  BY DEF Init, EmptyModel, Promise!Init, ReceivedBacklog
<1>2. DecoderInvariant /\ [Next]_vars => [Promise!Next]_(Promise!vars)
  BY StepKeepsPromise
<1> QED BY <1>1, <1>2, InvariantHolds, PTL DEF Spec, ConcealsLoss, Promise!Spec
-----------------------------------------------------------------------------
(***************************************************************************)
(* What remains true when packets cannot be decoded and calls do fail.     *)
(***************************************************************************)

\* A generator in the middle of a hop has the features of that hop.
Started(model) == model.next_sample_in_hop > 0 => model.features_queue # <<>>

\* The queues stay short and the wait before a packet stays within a hop,
\* although neither progress counter keeps its meaning.
FailureInvariant ==
  /\ generative_model \in GenerativeModels({Received, Estimated})
  /\ comfort_noise_generator \in GenerativeModels({Noise})
  /\ Started(generative_model) /\ Started(comfort_noise_generator)
  /\ EstimatesNeverPileUp
  /\ concealment_progress \in Int /\ concealment_progress >= - NumSamplesPerHop
  /\ concealment_progress > 0 => Len(generative_model.features_queue) <= 1
  /\ remaining \in Nat

\* What a generator has left, by the length of its queue.
LEMMA StartedSupply ==
  ASSUME NEW F, NEW model \in GenerativeModels(F), Started(model)
  PROVE  /\ NumSamplesAvailable(model) \in Nat
         /\ NumSamplesAvailable(model) = 0 <=> model.features_queue = <<>>
         /\ Len(model.features_queue) <= 1 => NumSamplesAvailable(model) <= NumSamplesPerHop
         /\ model.next_sample_in_hop = 0 => NumSamplesAvailable(model) % NumSamplesPerHop = 0
<1> DEFINE q == model.features_queue
           m == model.next_sample_in_hop
<1>1. q \in Seq(F) /\ Len(q) \in Nat /\ m \in 0 .. NumSamplesPerHop - 1
  BY ModelFields
<1>2. m > 0 => Len(q) > 0
  BY <1>1 DEF Started
<1>3. NumSamplesAvailable(model) = Len(q) * NumSamplesPerHop - m
  BY DEF NumSamplesAvailable
<1>4. q = <<>> <=> Len(q) = 0
  BY <1>1
<1>5. Len(q) <= 1 => Len(q) * NumSamplesPerHop <= NumSamplesPerHop
  <2>1. 0 * NumSamplesPerHop = 0 /\ 1 * NumSamplesPerHop = NumSamplesPerHop
    BY HopAssumption
  <2> QED BY <1>1, <2>1, HopAssumption
<1> HIDE DEF q, m
<1>6. /\ Len(q) * NumSamplesPerHop - m \in Nat
      /\ Len(q) * NumSamplesPerHop - m > 0 <=> Len(q) > 0
      /\ m = 0 => (Len(q) * NumSamplesPerHop - m) % NumSamplesPerHop = 0
  BY <1>1, <1>2, Available
<1>7. Len(q) * NumSamplesPerHop \in Int
  BY <1>1, HopAssumption
<1> QED BY <1>1, <1>3, <1>4, <1>5, <1>6, <1>7, HopAssumption DEF q, m

\* Whatever becomes of a request, the generator is left with what it had, with
\* one feature vector less, or with the one that was made up for it.
LEMMA AfterAnyRequest ==
  ASSUME NEW F, NEW model \in GenerativeModels(F), NEW features \in F, NEW n \in Nat,
         Started(model), NEW after,
         \/ /\ CanGenerate(Replenish(model, n, features), n)
            /\ after = Generate(Replenish(model, n, features), n)
         \/ after = Refuse(Replenish(model, n, features), n)
  PROVE  /\ after \in GenerativeModels(F) /\ Started(after)
         /\ model.features_queue # <<>> =>
              after.features_queue \in {model.features_queue, Tail(model.features_queue)}
         /\ model.features_queue = <<>> =>
              after.features_queue \in {<<>>, << features >>}
<1> DEFINE q == model.features_queue
           m == model.next_sample_in_hop
           before == Replenish(model, n, features)
           queue == IF n > 0 THEN Supplied(model, features) ELSE q
<1> USE HopAssumption
<1>1. /\ q \in Seq(F) /\ Len(q) \in Nat /\ m \in 0 .. NumSamplesPerHop - 1
      /\ model.hop \in F \union {NoFeatures}
  BY ModelFields
<1>2. NumSamplesAvailable(model) = 0 <=> q = <<>>
  BY StartedSupply
<1>3. before = [ features_queue |-> queue, next_sample_in_hop |-> m, hop |-> model.hop ]
  BY <1>1, <1>2 DEF Replenish, AddFeatures, Supplied, GenerativeModels
<1>4. /\ queue \in Seq(F) /\ (n > 0 => queue # <<>>) /\ (m > 0 => queue # <<>>)
      /\ q # <<>> => queue = q
      /\ q = <<>> => queue \in {<<>>, << features >>}
  BY <1>1 DEF Supplied, Started
<1>0. \/ CanGenerate(before, n) /\ after = Generate(before, n)
      \/ after = Refuse(before, n)
  OBVIOUS
<1> HIDE DEF queue, before
<1>5. CASE n = 0
  <2>1. after = before
    BY <1>0, <1>5 DEF Generate, Refuse
  <2>2. after \in GenerativeModels(F) /\ Started(after)
    BY <1>1, <1>3, <1>4, <2>1 DEF GenerativeModels, Started
  <2> QED BY <1>3, <1>4, <2>1, <2>2
<1>6. CASE n > 0
  <2>1. queue # <<>> /\ Head(queue) \in F /\ Tail(queue) \in Seq(F)
    BY <1>4, <1>6
  <2>2. PICK hop \in F \union {NoFeatures} :
          RunConditioning(before) =
            [ features_queue |-> queue, next_sample_in_hop |-> m, hop |-> hop ]
    <3>1. CASE m = 0
      BY <1>3, <2>1, <3>1 DEF RunConditioning
    <3>2. CASE m # 0
      BY <1>1, <1>3, <3>2 DEF RunConditioning
    <3> QED BY <3>1, <3>2
  <2>3. CASE CanGenerate(before, n) /\ after = Generate(before, n)
    <3>1. n <= NumSamplesPerHop - m
      BY <1>3, <1>6, <2>3 DEF CanGenerate
    <3>2. after = Advance([ features_queue |-> queue, next_sample_in_hop |-> m, hop |-> hop ], n)
      BY <1>6, <2>2, <2>3 DEF Generate
    <3>3. CASE m + n = NumSamplesPerHop
      <4>1. after = [ features_queue |-> Tail(queue), next_sample_in_hop |-> 0, hop |-> hop ]
        BY <3>2, <3>3 DEF Advance
      <4>2. after \in GenerativeModels(F) /\ Started(after)
        BY <2>1, <4>1 DEF GenerativeModels, Started
      <4>3. Tail(<< features >>) = <<>>
        OBVIOUS
      <4> QED BY <1>4, <2>1, <4>1, <4>2, <4>3
    <3>4. CASE m + n # NumSamplesPerHop
      <4>1. after = [ features_queue |-> queue, next_sample_in_hop |-> m + n, hop |-> hop ]
        BY <3>2, <3>4 DEF Advance
      <4>2. m + n \in 0 .. NumSamplesPerHop - 1
        BY <1>1, <3>1, <3>4
      <4>3. after \in GenerativeModels(F) /\ Started(after)
        BY <1>4, <2>1, <4>1, <4>2 DEF GenerativeModels, Started
      <4> QED BY <1>4, <4>1, <4>3
    <3> QED BY <3>3, <3>4
  <2>4. CASE after = Refuse(before, n)
    <3>1. after.features_queue = queue /\ after \in GenerativeModels(F) /\ Started(after)
      BY <1>1, <1>3, <1>4, <2>1, <2>2, <2>4 DEF Refuse, GenerativeModels, Started
    <3> QED BY <1>4, <3>1
  <2> QED BY <1>0, <2>3, <2>4
<1> QED BY <1>5, <1>6

\* What the change of a queue means for its length and for what is behind its
\* front.
LEMMA QueueStaysShort ==
  ASSUME NEW F, NEW q \in Seq(F), NEW made_up, NEW after,
         q # <<>> => after \in {q, Tail(q)},
         q = <<>> => after \in {<<>>, << made_up >>}
  PROVE  /\ Len(q) <= 1 => Len(after) <= 1
         /\ q = <<>> => Len(after) <= 1
         /\ (\A i \in 2 .. Len(q) : q[i] = Received)
              => \A i \in 2 .. Len(after) : after[i] = Received
<1>1. CASE after = q
  <2>1. q = <<>> => Len(q) <= 1
    OBVIOUS
  <2> QED BY <1>1, <2>1
<1>2. CASE q # <<>> /\ after = Tail(q)
  <2>1. /\ Len(after) = Len(q) - 1 /\ Len(q) \in Nat
        /\ \A i \in 1 .. Len(after) : after[i] = q[i + 1]
    BY <1>2
  <2> QED BY <1>2, <2>1
<1>3. CASE q = <<>> /\ after = << made_up >>
  <2>1. Len(after) = 1
    BY <1>3
  <2> QED BY <2>1
<1> QED BY <1>1, <1>2, <1>3

\* An iteration asks for at least one sample, and before a packet for no more
\* than are left to wait for it.
LEMMA AnyIteration ==
  ASSUME FailureInvariant, remaining > 0
  PROVE  /\ NumSamplesToGenerate \in 1 .. remaining
         /\ concealment_progress < 0 => NumSamplesToGenerate <= - concealment_progress
         /\ GenerativeSamples \in Nat /\ ComfortNoiseSamples \in Nat
<1> DEFINE a == NumSamplesAvailable(generative_model)
           c == NumSamplesAvailable(comfort_noise_generator)
<1>1. /\ remaining \in Nat \ {0} /\ concealment_progress \in Int
      /\ NumSamplesPerHop \in Nat \ {0} /\ ConcealmentDuration \in Nat \ {0}
  BY HopAssumption, DurationAssumption DEF FailureInvariant
<1>2. a \in Nat /\ c \in Nat
  BY StartedSupply DEF FailureInvariant
<1>3. a % NumSamplesPerHop \in Nat
  BY <1>1, <1>2
<1> HIDE DEF a, c
<1>4. SamplesRemainingInPacket =
        IF concealment_progress < 0 THEN - concealment_progress
        ELSE IF concealment_progress < ConcealmentDuration
             THEN a % NumSamplesPerHop ELSE c
  BY DEF SamplesRemainingInPacket, a, c
<1>5. /\ SamplesRemainingInPacket \in Nat
      /\ concealment_progress < 0 =>
           SamplesRemainingInPacket = - concealment_progress /\ SamplesRemainingInPacket > 0
  BY <1>1, <1>2, <1>3, <1>4
<1>6. /\ NumSamplesToGenerate \in 1 .. remaining
      /\ concealment_progress < 0 => NumSamplesToGenerate <= - concealment_progress
  BY <1>1, <1>5 DEF NumSamplesToGenerate, Least
<1>7. GenerativeSamples \in Nat /\ ComfortNoiseSamples \in Nat
  BY <1>1, <1>6 DEF GenerativeSamples, ComfortNoiseSamples
<1> QED BY <1>6, <1>7

\* An iteration, however it ends, makes up features for an empty queue only.
LEMMA AnyIterationKeeps ==
  ASSUME FailureInvariant, Iterate
  PROVE  FailureInvariant'
<1> DEFINE q == generative_model.features_queue
           cq == comfort_noise_generator.features_queue
           n == NumSamplesToGenerate
<1>1. /\ remaining > 0 /\ remaining \in Nat
      /\ concealment_progress' = NextConcealmentProgress
  BY DEF Iterate, DecodeChunk, GenerativeModelFails, ComfortNoiseFails,
         NoiseEstimatorFails, BeginIteration, FailureInvariant
<1>2. /\ n \in 1 .. remaining
      /\ concealment_progress < 0 => n <= - concealment_progress
      /\ GenerativeSamples \in Nat /\ ComfortNoiseSamples \in Nat
  BY <1>1, AnyIteration
<1>3. /\ generative_model \in GenerativeModels({Received, Estimated})
      /\ comfort_noise_generator \in GenerativeModels({Noise})
      /\ Started(generative_model) /\ Started(comfort_noise_generator)
      /\ q \in Seq({Received, Estimated}) /\ Len(q) \in Nat
      /\ cq \in Seq({Noise}) /\ Len(cq) \in Nat
      /\ \A i \in 2 .. Len(q) : q[i] = Received
      /\ Len(cq) <= 1
  BY ModelFields DEF FailureInvariant, EstimatesNeverPileUp
<1>4. /\ generative_model' \in GenerativeModels({Received, Estimated})
      /\ Started(generative_model)'
      /\ q # <<>> => q' \in {q, Tail(q)}
      /\ q = <<>> => q' \in {<<>>, << Estimated >>}
  <2>1. \/ /\ CanGenerate(Replenish(generative_model, GenerativeSamples, Estimated),
                          GenerativeSamples)
           /\ generative_model' =
                Generate(Replenish(generative_model, GenerativeSamples, Estimated),
                         GenerativeSamples)
        \/ generative_model' =
             Refuse(Replenish(generative_model, GenerativeSamples, Estimated),
                    GenerativeSamples)
    BY DEF Iterate, DecodeChunk, GenerativeModelFails, ComfortNoiseFails,
           NoiseEstimatorFails, GenerativeModelRuns, ReplenishedModel
  <2>2. /\ generative_model' \in GenerativeModels({Received, Estimated})
        /\ Started(generative_model')
        /\ q # <<>> => generative_model'.features_queue \in {q, Tail(q)}
        /\ q = <<>> => generative_model'.features_queue \in {<<>>, << Estimated >>}
    <3> DEFINE F == {Received, Estimated}
    <3>1. /\ generative_model \in GenerativeModels(F) /\ Started(generative_model)
          /\ Estimated \in F /\ GenerativeSamples \in Nat
      BY <1>2, <1>3
    <3> HIDE DEF q, F
    <3>2. /\ generative_model' \in GenerativeModels(F)
          /\ Started(generative_model')
          /\ generative_model.features_queue # <<>> =>
               generative_model'.features_queue \in
                 {generative_model.features_queue, Tail(generative_model.features_queue)}
          /\ generative_model.features_queue = <<>> =>
               generative_model'.features_queue \in {<<>>, << Estimated >>}
      BY <2>1, <3>1, AfterAnyRequest
    <3> QED BY <3>2 DEF q, F
  <2> QED BY <2>2 DEF Started
<1>5. /\ comfort_noise_generator' \in GenerativeModels({Noise})
      /\ Started(comfort_noise_generator)'
      /\ cq # <<>> => cq' \in {cq, Tail(cq)}
      /\ cq = <<>> => cq' \in {<<>>, << Noise >>}
  <2>1. CASE UNCHANGED comfort_noise_generator
    BY <1>3, <2>1 DEF Started
  <2>2. CASE ~UNCHANGED comfort_noise_generator
    <3>1. \/ /\ CanGenerate(Replenish(comfort_noise_generator, ComfortNoiseSamples, Noise),
                            ComfortNoiseSamples)
             /\ comfort_noise_generator' =
                  Generate(Replenish(comfort_noise_generator, ComfortNoiseSamples, Noise),
                           ComfortNoiseSamples)
          \/ comfort_noise_generator' =
               Refuse(Replenish(comfort_noise_generator, ComfortNoiseSamples, Noise),
                      ComfortNoiseSamples)
      BY <2>2 DEF Iterate, DecodeChunk, GenerativeModelFails, ComfortNoiseFails,
                  NoiseEstimatorFails, ComfortNoiseRuns, ReplenishedNoise
    <3>2. /\ comfort_noise_generator' \in GenerativeModels({Noise})
          /\ Started(comfort_noise_generator')
          /\ cq # <<>> => comfort_noise_generator'.features_queue \in {cq, Tail(cq)}
          /\ cq = <<>> => comfort_noise_generator'.features_queue \in {<<>>, << Noise >>}
      <4> HIDE DEF cq
      <4>1. Noise \in {Noise} /\ ComfortNoiseSamples \in Nat
        BY <1>2
      <4> QED BY <1>3, <3>1, <4>1, AfterAnyRequest, SMTT(30) DEF cq
    <3> QED BY <3>2 DEF Started
  <2> QED BY <2>1, <2>2
<1> HIDE DEF n
<1>6. EstimatesNeverPileUp'
  <2>1. \A i \in 2 .. Len(q') : q'[i] = Received
    BY <1>3, <1>4, QueueStaysShort, ZenonT(30)
  <2>2. Len(cq') <= 1
    BY <1>3, <1>5, QueueStaysShort
  <2> QED BY <2>1, <2>2 DEF EstimatesNeverPileUp
<1>7. /\ concealment_progress \in Int /\ concealment_progress >= - NumSamplesPerHop
      /\ concealment_progress > 0 => Len(q) <= 1
      /\ NumSamplesPerHop \in Nat \ {0} /\ ConcealmentDuration \in Nat \ {0}
  BY HopAssumption, DurationAssumption DEF FailureInvariant
<1>8. /\ concealment_progress' \in Int /\ concealment_progress' >= - NumSamplesPerHop
      /\ concealment_progress' > 0 => Len(q') <= 1
  <2>1. concealment_progress' \in {concealment_progress, concealment_progress + n}
    BY <1>1 DEF NextConcealmentProgress, n
  <2>2. /\ concealment_progress' \in Int /\ concealment_progress' >= - NumSamplesPerHop
    BY <1>1, <1>2, <1>7, <2>1
  <2>3. ASSUME concealment_progress' > 0 PROVE Len(q') <= 1
    <3>1. CASE concealment_progress > 0
      <4>1. Len(q) <= 1
        BY <1>7, <3>1
      <4> QED BY <1>3, <1>4, <4>1, QueueStaysShort
    <3>2. CASE concealment_progress = 0
      <4>1. ~IsPacketReceived
        BY <1>1, <2>3, <3>2, <1>7 DEF NextConcealmentProgress
      <4>2. NumSamplesAvailable(generative_model) = 0
        <5>1. NumSamplesAvailable(generative_model) \in Nat
          BY <1>3, StartedSupply
        <5> QED BY <3>2, <4>1, <5>1 DEF IsPacketReceived
      <4>3. q = <<>>
        BY <1>3, <4>2, StartedSupply
      <4> QED BY <1>3, <1>4, <4>3, QueueStaysShort
    <3>3. CASE concealment_progress < 0
      BY <1>1, <1>2, <1>7, <2>1, <2>3, <3>3
    <3> QED BY <1>7, <3>1, <3>2, <3>3
  <2> QED BY <2>2, <2>3
<1>9. remaining' \in Nat
  BY <1>1, <1>2 DEF Iterate, DecodeChunk, GenerativeModelFails, ComfortNoiseFails,
                    NoiseEstimatorFails, Abandon, n
<1> QED BY <1>4, <1>5, <1>6, <1>8, <1>9 DEF FailureInvariant

\* Where the progress is moved to by a packet, decodable or not.
LEMMA WaitBeforePacket ==
  ASSUME FailureInvariant
  PROVE  /\ ConcealmentBeforePacket \in Int
         /\ ConcealmentBeforePacket >= - NumSamplesPerHop /\ ConcealmentBeforePacket <= 0
         /\ InStep => ConcealmentBeforePacket % NumSamplesPerHop = 0
<1> DEFINE a == NumSamplesAvailable(generative_model)
           c == NumSamplesAvailable(comfort_noise_generator)
<1>1. /\ concealment_progress \in Int /\ concealment_progress >= - NumSamplesPerHop
      /\ NumSamplesPerHop \in Nat \ {0} /\ ConcealmentDuration \in Nat \ {0}
  BY HopAssumption, DurationAssumption DEF FailureInvariant
<1>2. /\ a \in Nat /\ (concealment_progress > 0 => a <= NumSamplesPerHop)
      /\ InStep => a % NumSamplesPerHop = 0
  BY StartedSupply DEF FailureInvariant, InStep
<1>3. /\ c \in Nat /\ c <= NumSamplesPerHop
      /\ InStep => c % NumSamplesPerHop = 0
  BY StartedSupply DEF FailureInvariant, EstimatesNeverPileUp, InStep
<1> HIDE DEF a, c
<1>4. ASSUME NEW x \in Nat, x <= NumSamplesPerHop, x % NumSamplesPerHop = 0
      PROVE  (- x) % NumSamplesPerHop = 0
  <2>1. x = 0 \/ x = NumSamplesPerHop
    BY <1>1, <1>4
  <2>2. (0 - 0) % NumSamplesPerHop = 0 /\ (0 - NumSamplesPerHop) % NumSamplesPerHop = 0
    <3>1. 0 % NumSamplesPerHop = 0
      BY <1>1
    <3> QED BY <3>1, HopShift
  <2>3. - x = 0 - x
    OBVIOUS
  <2> QED BY <2>1, <2>2, <2>3
<1>5. ConcealmentBeforePacket =
        IF concealment_progress = ConcealmentDuration THEN - c
        ELSE IF concealment_progress > 0 THEN - a ELSE concealment_progress
  BY DEF ConcealmentBeforePacket, a, c
<1>6. CASE concealment_progress = ConcealmentDuration
  BY <1>1, <1>3, <1>4, <1>5, <1>6
<1>7. CASE concealment_progress # ConcealmentDuration /\ concealment_progress > 0
  BY <1>1, <1>2, <1>4, <1>5, <1>7
<1>8. CASE concealment_progress # ConcealmentDuration /\ ~(concealment_progress > 0)
  BY <1>1, <1>5, <1>8 DEF InStep
<1> QED BY <1>6, <1>7, <1>8

\* Every step preserves the invariant, whether or not packets are decodable.
LEMMA FailureInvariantKept ==
  ASSUME FailureInvariant, [Next]_vars
  PROVE  FailureInvariant'
<1> DEFINE q == generative_model.features_queue
<1>1. CASE SetEncodedPacket
  <2>1. /\ generative_model \in GenerativeModels({Received, Estimated})
        /\ q \in Seq({Received, Estimated}) /\ Len(q) \in Nat
        /\ \A i \in 2 .. Len(q) : q[i] = Received
    BY ModelFields DEF FailureInvariant, EstimatesNeverPileUp
  <2>2. generative_model' =
          [ features_queue |-> Append(q, Received),
            next_sample_in_hop |-> generative_model.next_sample_in_hop,
            hop |-> generative_model.hop ]
    BY <1>1, <2>1 DEF SetEncodedPacket, AddFeatures, GenerativeModels
  <2>3. /\ Append(q, Received) \in Seq({Received, Estimated})
        /\ Append(q, Received) # <<>>
        /\ \A i \in 2 .. Len(Append(q, Received)) : Append(q, Received)[i] = Received
    BY <2>1, AppendReceived
  <2>4. /\ generative_model' \in GenerativeModels({Received, Estimated})
        /\ Started(generative_model)'
    BY <2>1, <2>2, <2>3 DEF GenerativeModels, Started
  <2>5. /\ concealment_progress' \in Int /\ concealment_progress' >= - NumSamplesPerHop
        /\ concealment_progress' <= 0
    BY <1>1, WaitBeforePacket DEF SetEncodedPacket
  <2>6. EstimatesNeverPileUp'
    BY <1>1, <2>2, <2>3 DEF SetEncodedPacket, FailureInvariant, EstimatesNeverPileUp
  <2> QED BY <1>1, <2>4, <2>5, <2>6 DEF SetEncodedPacket, FailureInvariant, Started
<1>2. CASE SetUndecodablePacket
  <2>1. /\ concealment_progress' \in Int /\ concealment_progress' >= - NumSamplesPerHop
        /\ concealment_progress' <= 0
    BY <1>2, WaitBeforePacket DEF SetUndecodablePacket
  <2> QED BY <1>2, <2>1 DEF SetUndecodablePacket, models, FailureInvariant, Started,
                            EstimatesNeverPileUp
<1>3. ASSUME UNCHANGED << models, loss >>, remaining' \in Nat PROVE FailureInvariant'
  BY <1>3 DEF models, loss, FailureInvariant, Started, EstimatesNeverPileUp
<1>4. CASE SetUnsupportedPacket
  BY <1>3, <1>4 DEF SetUnsupportedPacket
<1>5. ASSUME NEW n \in Requests, DecodeSamples(n) PROVE FailureInvariant'
  BY <1>3, <1>5, CallAssumption DEF DecodeSamples
<1>6. CASE Iterate
  BY <1>6, AnyIterationKeeps
<1>7. CASE UNCHANGED vars
  BY <1>3, <1>7 DEF vars, models, loss, FailureInvariant
<1> QED BY <1>1, <1>2, <1>4, <1>5, <1>6, <1>7 DEF Next

\* The constructor leaves nothing queued.
LEMMA FailureInvariantInitially == Init => FailureInvariant
<1> SUFFICES ASSUME Init PROVE FailureInvariant
  OBVIOUS
<1>1. EmptyModel \in GenerativeModels({Received, Estimated})
      /\ EmptyModel \in GenerativeModels({Noise})
  BY HopAssumption DEF EmptyModel, GenerativeModels
<1>2. /\ EmptyModel.features_queue = <<>> /\ EmptyModel.next_sample_in_hop = 0
      /\ Len(<<>>) = 0
  BY DEF EmptyModel
<1> QED BY <1>1, <1>2, HopAssumption
        DEF Init, FailureInvariant, Started, EstimatesNeverPileUp

\* Features that were made up never pile up, also when packets cannot be decoded
\* and calls fail half-way through an iteration.
THEOREM EstimatesStayShort == Spec => []EstimatesNeverPileUp
<1>1. FailureInvariant => EstimatesNeverPileUp
  BY DEF FailureInvariant
<1> QED BY <1>1, FailureInvariantInitially, FailureInvariantKept, PTL DEF Spec

\* No iteration makes more than a hop, whatever has failed before.
LEMMA AtMostAHop ==
  ASSUME FailureInvariant, remaining > 0
  PROVE  NumSamplesToGenerate <= NumSamplesPerHop
<1> DEFINE a == NumSamplesAvailable(generative_model)
           c == NumSamplesAvailable(comfort_noise_generator)
<1>1. /\ remaining \in Nat \ {0} /\ NumSamplesPerHop \in Nat \ {0}
      /\ ConcealmentDuration \in Nat \ {0}
      /\ concealment_progress \in Int /\ - concealment_progress <= NumSamplesPerHop
  BY HopAssumption, DurationAssumption DEF FailureInvariant
<1>2. a \in Nat /\ c \in Nat /\ c <= NumSamplesPerHop
  BY StartedSupply DEF FailureInvariant, EstimatesNeverPileUp
<1> HIDE DEF a, c
<1>3. a % NumSamplesPerHop \in Nat /\ a % NumSamplesPerHop <= NumSamplesPerHop
  BY <1>1, <1>2
<1>4. SamplesRemainingInPacket =
        IF concealment_progress < 0 THEN - concealment_progress
        ELSE IF concealment_progress < ConcealmentDuration
             THEN a % NumSamplesPerHop ELSE c
  BY DEF SamplesRemainingInPacket, a, c
<1>5. SamplesRemainingInPacket \in Nat /\ SamplesRemainingInPacket <= NumSamplesPerHop
  BY <1>1, <1>2, <1>3, <1>4
<1> QED BY <1>1, <1>5 DEF NumSamplesToGenerate, Least

\* The loop of DecodeSamplesInternal ends for all durations and requests: each
\* iteration leaves less to be made, also when packets cannot be decoded.
THEOREM LoopShortens == Spec => IterationsMakeProgress
<1>1. ASSUME FailureInvariant, [Next]_vars, remaining > 0
      PROVE  \/ UNCHANGED vars
             \/ /\ remaining' \in 0 .. remaining - 1
                /\ reply' # "nullopt" => remaining - remaining' <= NumSamplesPerHop
  <2>1. /\ remaining \in Nat /\ NumSamplesPerHop \in Nat
        /\ NumSamplesToGenerate \in 1 .. remaining
        /\ NumSamplesToGenerate <= NumSamplesPerHop
    BY <1>1, AnyIteration, AtMostAHop, HopAssumption DEF FailureInvariant
  <2>2. CASE DecodeChunk
    BY <1>1, <2>1, <2>2 DEF DecodeChunk
  <2>3. CASE GenerativeModelFails \/ ComfortNoiseFails \/ NoiseEstimatorFails
    BY <1>1, <2>1, <2>3 DEF GenerativeModelFails, ComfortNoiseFails,
                            NoiseEstimatorFails, Abandon
  <2>4. Iterate \/ UNCHANGED vars
    BY <1>1 DEF Next, SetEncodedPacket, SetUnsupportedPacket, SetUndecodablePacket,
                DecodeSamples
  <2> QED BY <2>2, <2>3, <2>4 DEF Iterate
<1> DEFINE A == remaining > 0 =>
                  /\ remaining' \in 0 .. remaining - 1
                  /\ reply' # "nullopt" => remaining - remaining' <= NumSamplesPerHop
<1>2. FailureInvariant /\ [Next]_vars => [A]_vars
  BY <1>1
<1> QED BY <1>2, FailureInvariantInitially, FailureInvariantKept, PTL
        DEF Spec, IterationsMakeProgress

\* A generator at the beginning of a hop serves a request for a whole hop, and is
\* at the beginning of a hop again.
LEMMA WholeHopServed ==
  ASSUME NEW F, NEW model \in GenerativeModels(F), NEW features \in F,
         NEW n \in {0, NumSamplesPerHop}, model.next_sample_in_hop = 0
  PROVE  LET before == Replenish(model, n, features)
         IN  /\ CanGenerate(before, n)
             /\ Generate(before, n).next_sample_in_hop = 0
<1> DEFINE before == Replenish(model, n, features)
           q == model.features_queue
<1> USE HopAssumption
<1>0. /\ q \in Seq(F) /\ Len(q) \in Nat /\ Started(model)
      /\ model.next_sample_in_hop \in 0 .. NumSamplesPerHop - 1
  BY ModelFields DEF Started
<1>1. CASE n = 0
  BY <1>1 DEF CanGenerate, Generate, Replenish
<1>2. CASE n = NumSamplesPerHop
  <2> DEFINE queue == Supplied(model, features)
  <2>1. NumSamplesAvailable(model) = 0 <=> q = <<>>
    BY <1>0, StartedSupply
  <2>2. before = [ features_queue |-> queue, next_sample_in_hop |-> 0, hop |-> model.hop ]
    BY <1>0, <1>2, <2>1 DEF Replenish, AddFeatures, Supplied, GenerativeModels
  <2>3. queue \in Seq(F) /\ queue # <<>> /\ Len(queue) \in Nat /\ Len(queue) > 0
    BY <1>0 DEF Supplied
  <2> HIDE DEF queue, before
  <2>4. NumSamplesAvailable(before) > 0
    BY <2>2, <2>3, Available DEF NumSamplesAvailable
  <2>5. CanGenerate(before, n)
    BY <1>2, <2>2, <2>4 DEF CanGenerate
  <2>6. RunConditioning(before) =
          [ features_queue |-> queue, next_sample_in_hop |-> 0, hop |-> Head(queue) ]
    BY <2>2 DEF RunConditioning
  <2>7. Generate(before, n) =
          Advance([ features_queue |-> queue, next_sample_in_hop |-> 0,
                    hop |-> Head(queue) ], n)
    BY <1>2, <2>6 DEF Generate
  <2>8. Generate(before, n).next_sample_in_hop = 0
    BY <1>2, <2>7 DEF Advance
  <2> QED BY <2>5, <2>8 DEF before
<1> QED BY <1>1, <1>2

\* An iteration that begins in step, with whole hops to produce, plays one hop
\* and ends in step.
LEMMA IterationInStep ==
  ASSUME FailureInvariant, InStep, remaining % NumSamplesPerHop = 0, Iterate
  PROVE  InStep' /\ remaining' % NumSamplesPerHop = 0 /\ reply' # "nullopt"
<1> DEFINE h == NumSamplesPerHop
           a == NumSamplesAvailable(generative_model)
           c == NumSamplesAvailable(comfort_noise_generator)
<1>1. remaining > 0
  BY DEF Iterate, DecodeChunk, GenerativeModelFails, ComfortNoiseFails,
         NoiseEstimatorFails, BeginIteration
<1>2. /\ remaining \in Nat \ {0} /\ h \in Nat \ {0} /\ remaining % h = 0
      /\ concealment_progress \in Int /\ concealment_progress >= - h
      /\ concealment_progress % h = 0 /\ ConcealmentDuration \in Nat \ {0}
      /\ noise_samples = 0
      /\ generative_model \in GenerativeModels({Received, Estimated})
      /\ comfort_noise_generator \in GenerativeModels({Noise})
      /\ generative_model.next_sample_in_hop = 0
      /\ comfort_noise_generator.next_sample_in_hop = 0
  BY <1>1, HopAssumption, DurationAssumption DEF FailureInvariant, InStep
<1>3. a \in Nat /\ a % h = 0
  BY <1>2, StartedSupply DEF FailureInvariant
<1>4. c \in Nat /\ c % h = 0 /\ c <= h
  BY <1>2, StartedSupply DEF FailureInvariant, EstimatesNeverPileUp
<1>5. remaining >= h
  <2>1. 0 % h = 0
    BY <1>2
  <2>2. 0 + h <= remaining
    BY <1>2, <2>1, HopGap
  <2> QED BY <1>2, <2>2
<1>6. concealment_progress < 0 => concealment_progress = - h
  <2>1. 0 % h = 0
    BY <1>2
  <2>2. concealment_progress < 0 => concealment_progress + h <= 0
    BY <1>2, <2>1, HopGap
  <2> QED BY <1>2, <2>2
<1>7. c \in {0, h}
  BY <1>2, <1>4
<1> HIDE DEF a, c, h
<1>8. SamplesRemainingInPacket =
        IF concealment_progress < 0 THEN - concealment_progress
        ELSE IF concealment_progress < ConcealmentDuration THEN a % h ELSE c
  BY DEF SamplesRemainingInPacket, a, c, h
<1>9. SamplesRemainingInPacket \in {0, h}
  BY <1>2, <1>3, <1>6, <1>7, <1>8
<1>10. NumSamplesToGenerate = h
  BY <1>2, <1>5, <1>9 DEF NumSamplesToGenerate, Least, h
<1>11. GenerativeSamples \in {0, h} /\ ComfortNoiseSamples \in {0, h}
  BY <1>10 DEF GenerativeSamples, ComfortNoiseSamples
<1>12. /\ GenerativeModelRuns
       /\ Generate(ReplenishedModel, GenerativeSamples).next_sample_in_hop = 0
  BY <1>2, <1>11, WholeHopServed DEF GenerativeModelRuns, ReplenishedModel, h
<1>13. /\ ComfortNoiseRuns
       /\ Generate(ReplenishedNoise, ComfortNoiseSamples).next_sample_in_hop = 0
  BY <1>2, <1>11, WholeHopServed DEF ComfortNoiseRuns, ReplenishedNoise, h
<1>14. NoiseEstimatorAccepts /\ NextNoiseSamples = 0
  <2>1. (0 + 0) % h = 0 /\ (0 + h) % h = 0
    BY <1>2
  <2> QED BY <1>2, <1>11, <2>1 DEF NoiseEstimatorAccepts, NextNoiseSamples, h
<1>15. DecodeChunk
  BY <1>12, <1>13, <1>14 DEF Iterate, GenerativeModelFails, ComfortNoiseFails,
                             NoiseEstimatorFails
<1>16. concealment_progress' % h = 0
  <2>1. concealment_progress' \in {concealment_progress, concealment_progress + h}
    BY <1>10, <1>15 DEF DecodeChunk, BeginIteration, NextConcealmentProgress
  <2>2. (concealment_progress + h) % h = 0
    BY <1>2, HopShift DEF h
  <2> QED BY <1>2, <2>1, <2>2
<1>17. remaining' % h = 0
  <2>1. remaining' = remaining - h
    BY <1>10, <1>15 DEF DecodeChunk
  <2>2. remaining \in Int /\ (remaining - NumSamplesPerHop) % NumSamplesPerHop = remaining % NumSamplesPerHop
    BY <1>2, HopShift
  <2> QED BY <1>2, <2>1, <2>2 DEF h
<1>18. reply' # "nullopt"
  BY <1>15 DEF DecodeChunk
<1>19. InStep'
  BY <1>12, <1>13, <1>14, <1>15, <1>16 DEF InStep, DecodeChunk, h
<1> QED BY <1>17, <1>18, <1>19 DEF h

\* While whole hops are asked for, the generators and the noise estimator keep in
\* step and no call fails, also when packets cannot be decoded.
THEOREM WholeHopsStayInStep == Spec => WholeHopsKeepInStep
<1>1. ASSUME FailureInvariant, [Next]_vars, InStep, remaining % NumSamplesPerHop = 0,
             remaining = 0 => remaining' % NumSamplesPerHop = 0
      PROVE  /\ InStep'
             /\ remaining' % NumSamplesPerHop = 0
             /\ reply' = "nullopt" => reply = "nullopt"
  <2>0. 0 % NumSamplesPerHop = 0
    BY HopAssumption
  <2>1. CASE SetEncodedPacket
    <3>1. generative_model'.next_sample_in_hop = generative_model.next_sample_in_hop
      BY <1>1, <2>1 DEF SetEncodedPacket, AddFeatures, FailureInvariant, GenerativeModels
    <3>2. concealment_progress' % NumSamplesPerHop = 0
      BY <1>1, <2>1, WaitBeforePacket DEF SetEncodedPacket
    <3> QED BY <1>1, <2>1, <3>1, <3>2 DEF SetEncodedPacket, InStep
  <2>2. CASE SetUndecodablePacket
    <3>1. concealment_progress' % NumSamplesPerHop = 0
      BY <1>1, <2>2, WaitBeforePacket DEF SetUndecodablePacket
    <3> QED BY <1>1, <2>2, <3>1 DEF SetUndecodablePacket, models, InStep
  <2>3. CASE SetUnsupportedPacket
    BY <1>1, <2>3 DEF SetUnsupportedPacket, models, loss, InStep
  <2>4. ASSUME NEW n \in Requests, DecodeSamples(n)
        PROVE  /\ InStep'
               /\ remaining' % NumSamplesPerHop = 0
               /\ reply' = "nullopt" => reply = "nullopt"
    BY <1>1, <2>4 DEF DecodeSamples, models, loss, InStep
  <2>5. CASE Iterate
    BY <1>1, <2>5, IterationInStep
  <2>6. CASE UNCHANGED vars
    BY <1>1, <2>6 DEF vars, InStep
  <2> QED BY <1>1, <2>1, <2>2, <2>3, <2>4, <2>5, <2>6 DEF Next
<1> DEFINE A == /\ InStep
                /\ remaining % NumSamplesPerHop = 0
                /\ remaining = 0 => remaining' % NumSamplesPerHop = 0
                => /\ InStep'
                   /\ remaining' % NumSamplesPerHop = 0
                   /\ reply' = "nullopt" => reply = "nullopt"
<1>2. FailureInvariant /\ [Next]_vars => [A]_vars
  BY <1>1
<1> QED BY <1>2, FailureInvariantInitially, FailureInvariantKept, PTL
        DEF Spec, WholeHopsKeepInStep

-----------------------------------------------------------------------------
(***************************************************************************)
(* Numbers of samples at the two rates.                                    *)
(***************************************************************************)

\* A quotient rounded up covers the dividend, by less than the divisor.
LEMMA CoversRequest ==
  ASSUME NEW n \in Nat, NEW d \in Nat \ {0}
  PROVE  LET q == (n + d - 1) \div d
         IN  q \in Nat /\ q * d \in n .. n + d - 1
<1> DEFINE x == n + d - 1
<1>1. x \in Nat
  OBVIOUS
<1>2. x = (x \div d) * d + (x % d) /\ x \div d \in Nat /\ x % d \in 0 .. d - 1
  BY <1>1
<1>3. (x \div d) * d \in Nat
  BY <1>2
<1> QED BY <1>2, <1>3

\* Less than an internal sample's worth is left over after a call that succeeds,
\* and no more than before after one that fails.
LEMMA LeftoverAfterCall ==
  ASSUME NEW l \in 0 .. Up - 1, NEW n \in Nat
  PROVE  /\ NumLeftoverAfter(l, n) \in 0 .. Up - 1
         /\ l - NumLeftoverUsed(l, n) \in 0 .. Up - 1
<1>0. Up \in Nat \ {0} /\ Down \in Nat \ {0} /\ (Up = 1 \/ Down = 1)
  BY RatioAssumption
<1>1. CASE n <= l
  <2>1. (0 * Up) \div Down = 0
    BY <1>0
  <2>2. NumLeftoverAfter(l, n) = l - n
    BY <1>0, <1>1, <2>1 DEF NumLeftoverAfter, NumLeftoverUsed,
         InternalSamplesToGenerate, NumResampled
  <2>3. NumLeftoverUsed(l, n) = n
    BY <1>0, <1>1 DEF NumLeftoverUsed
  <2> QED BY <1>0, <1>1, <2>2, <2>3
<1>2. CASE n > l
  <2> DEFINE m == n - l
             g == (m * Down + Up - 1) \div Up
             external == (g * Up) \div Down
  <2>1. m \in Nat
    BY <1>0, <1>2
  <2>2. /\ NumLeftoverUsed(l, n) = l
        /\ NumLeftoverAfter(l, n) = external - m
    <3>1. InternalSamplesToGenerate(l, n) = g
      BY <1>0, <1>2 DEF InternalSamplesToGenerate
    <3>2. NumLeftoverUsed(l, n) = l
      BY <1>0, <1>2 DEF NumLeftoverUsed
    <3>3. NumLeftoverAfter(l, n) = l - l + external - m
      BY <3>1, <3>2 DEF NumLeftoverAfter, NumResampled
    <3>4. external \in Int
      <4>1. m * Down \in Nat
        BY <1>0, <2>1
      <4>2. g \in Nat
        BY <1>0, <4>1, CoversRequest
      <4> HIDE DEF g
      <4>3. g * Up \in Nat
        BY <1>0, <4>2
      <4> QED BY <1>0, <4>3
    <3> HIDE DEF external, m
    <3> QED BY <2>1, <3>2, <3>3, <3>4, l \in Int
  <2> HIDE DEF m
  <2>3. external \in m .. m + Up - 1
    <3>1. CASE Down = 1
      <4>1. g = (m + Up - 1) \div Up
        BY <2>1, <3>1
      <4>2. g \in Nat /\ g * Up \in m .. m + Up - 1
        BY <1>0, <2>1, <4>1, CoversRequest
      <4> HIDE DEF g
      <4>3. (g * Up) \div 1 = g * Up
        BY <1>0, <2>1, <4>2
      <4> QED BY <3>1, <4>2, <4>3
    <3>2. CASE Up = 1
      <4>1. m * Down \in Nat
        BY <1>0, <2>1
      <4>2. g = m * Down
        BY <3>2, <4>1
      <4> HIDE DEF g
      <4>3. (m * Down) \div Down = m
        BY <1>0, <2>1
      <4>4. external = m
        BY <3>2, <4>1, <4>2, <4>3
      <4> QED BY <2>1, <3>2, <4>4
    <3> QED BY <1>0, <3>1, <3>2
  <2> HIDE DEF external
  <2> QED BY <1>0, <2>1, <2>2, <2>3
<1> QED BY <1>0, <1>1, <1>2

\* A packet's worth of external samples is resampled from one hop, with nothing
\* left over.
LEMMA PacketIsHop ==
  /\ NumSamplesPerPacket \in Nat \ {0}
  /\ InternalSamplesToGenerate(0, NumSamplesPerPacket) = NumSamplesPerHop
  /\ NumLeftoverAfter(0, NumSamplesPerPacket) = 0
<1> DEFINE h == NumSamplesPerHop
           p == NumSamplesPerPacket
<1>0. /\ Up \in Nat \ {0} /\ Down \in Nat \ {0} /\ (Up = 1 \/ Down = 1)
      /\ h \in Nat \ {0} /\ h % Down = 0
  BY RatioAssumption, HopAssumption, ExternalAssumption
<1>1. p = (h * Up) \div Down
  BY DEF NumSamplesPerPacket, NumResampled
<1>2. p \in Nat \ {0} /\ InternalSamplesToGenerate(0, p) = h
  <2>1. CASE Down = 1
    <3>1. h * Up \in Nat \ {0}
      BY <1>0
    <3>2. p = h * Up
      BY <1>1, <2>1, <3>1
    <3>3. (h * Up + Up - 1) \div Up = h
      BY <1>0
    <3>4. InternalSamplesToGenerate(0, p) = (p * 1 + Up - 1) \div Up
      BY <2>1, <3>1, <3>2 DEF InternalSamplesToGenerate
    <3> HIDE DEF h, p
    <3> QED BY <3>1, <3>2, <3>3, <3>4
  <2>2. CASE Up = 1
    <3>1. h = (h \div Down) * Down + (h % Down) /\ h \div Down \in Nat
      BY <1>0
    <3>2. p = h \div Down
      BY <1>0, <1>1, <2>2
    <3>3. p \in Nat /\ p * Down = h
      BY <1>0, <3>1, <3>2
    <3> HIDE DEF h, p
    <3>4. p # 0
      BY <1>0, <3>3
    <3>5. InternalSamplesToGenerate(0, p) = (p * Down + 1 - 1) \div 1
      BY <2>2, <3>3, <3>4 DEF InternalSamplesToGenerate
    <3> QED BY <1>0, <3>3, <3>4, <3>5
  <2> QED BY <1>0, <2>1, <2>2
<1>3. NumResampled(h) = p
  BY DEF NumSamplesPerPacket
<1>4. NumLeftoverUsed(0, p) = 0
  BY <1>2 DEF NumLeftoverUsed
<1> HIDE DEF p
<1>5. NumLeftoverAfter(0, p) = 0 - 0 + p - (p - 0)
  BY <1>2, <1>3, <1>4 DEF NumLeftoverAfter
<1> QED BY <1>2, <1>5 DEF p
-----------------------------------------------------------------------------
(***************************************************************************)
(* The Android client.                                                     *)
(***************************************************************************)

\* A generative model with these features in its queue, at the beginning of a
\* hop, its buffer holding what was played last.
Waiting(queue, hop) ==
  [features_queue |-> queue, next_sample_in_hop |-> 0, hop |-> hop]

\* The resampler's part of a state, whoever calls.
ResamplerInvariant ==
  /\ leftover \in 0 .. Up - 1
  /\ requested \in Nat

\* Between and during the calls of decodeToBuffer no concealment, no fade and no
\* half-played hop is left: a packet is handed over to an empty decoder, and the
\* only iteration of the loop plays all of it.
AndroidInvariant ==
  /\ android \in {"idle", "packet", "decoding", "other"}
  /\ android # "other" =>
       /\ leftover = 0 /\ noise_samples = 0
       /\ lost = 0 /\ concealment_progress = 0 /\ fade_progress = 0
       /\ output.features \in {NoFeatures, Received}
       /\ reply # "nullopt"
  /\ android = "idle" =>
       /\ requested = 0 /\ remaining = 0
       /\ generative_model = Waiting(<<>>, output.features)
  /\ android = "packet" =>
       /\ requested = 0 /\ remaining = 0
       /\ generative_model = Waiting(<< Received >>, output.features)
  /\ android = "decoding" =>
       /\ requested = NumSamplesPerPacket
       /\ \/ /\ remaining = NumSamplesPerHop
             /\ generative_model = Waiting(<< Received >>, output.features)
          \/ /\ remaining = 0 /\ reply = "samples"
             /\ generative_model = Waiting(<<>>, output.features)

\* The only iteration of decodeToBuffer plays the packet to its end, in one
\* chunk, and nothing fails in it.
LEMMA PacketInOneChunk ==
  ASSUME lost = 0, concealment_progress = 0, fade_progress = 0, noise_samples = 0,
         NEW hop \in {NoFeatures, Received},
         generative_model = Waiting(<< Received >>, hop),
         remaining = NumSamplesPerHop,
         Iterate
  PROVE  /\ generative_model' = Waiting(<<>>, Received)
         /\ concealment_progress' = 0 /\ fade_progress' = 0 /\ noise_samples' = 0
         /\ lost' = 0 /\ remaining' = 0 /\ reply' = "samples"
         /\ output'.features = Received
<1> USE HopAssumption, DurationAssumption
<1> DEFINE h == NumSamplesPerHop
<1>1. /\ generative_model.features_queue = << Received >>
      /\ generative_model.next_sample_in_hop = 0
      /\ Len(<< Received >>) = 1
      /\ Head(<< Received >>) = Received /\ Tail(<< Received >>) = <<>>
  BY DEF Waiting
<1>2. NumSamplesAvailable(generative_model) = h
  <2>1. NumSamplesAvailable(generative_model) = 1 * h - 0
    BY <1>1, Zenon DEF NumSamplesAvailable
  <2> QED BY <2>1
<1>3. IsPacketReceived
  BY <1>2 DEF IsPacketReceived
<1>4. NumSamplesToGenerate = h
  <2>1. h % h = 0
    OBVIOUS
  <2>2. SamplesRemainingInPacket = 0
    BY <1>2, <2>1 DEF SamplesRemainingInPacket
  <2> QED BY <2>2 DEF NumSamplesToGenerate, Least
<1>5. /\ NextFadeDirection = FadeFromCNG /\ FadeFromCNG # FadeToCNG
      /\ NextConcealmentProgress = 0
  BY <1>3 DEF NextFadeDirection, FadeFromCNG, FadeToCNG, NextConcealmentProgress
<1>6. OnlyGenerativeModel /\ ~OnlyComfortNoise
  BY <1>5 DEF OnlyGenerativeModel, OnlyComfortNoise
<1>7. GenerativeSamples = h /\ ComfortNoiseSamples = 0 /\ NextFadeProgress = 0
  BY <1>4, <1>6 DEF GenerativeSamples, ComfortNoiseSamples, NextFadeProgress
<1>8. ReplenishedModel = generative_model
  BY <1>2, <1>7 DEF ReplenishedModel, Replenish
<1>9. RunConditioning(ReplenishedModel) = Waiting(<< Received >>, Received)
  BY <1>1, <1>8 DEF RunConditioning, Waiting
<1>10. GenerativeModelRuns /\ ComfortNoiseRuns
  BY <1>1, <1>2, <1>7, <1>8 DEF GenerativeModelRuns, ComfortNoiseRuns, CanGenerate
<1>11. Generate(ReplenishedModel, GenerativeSamples) = Waiting(<<>>, Received)
  <2> DEFINE before == Waiting(<< Received >>, Received)
  <2>1. Advance(before, h) = Waiting(<<>>, Received)
    <3>1. Advance(before, h) =
            [before EXCEPT !.next_sample_in_hop = 0, !.features_queue = Tail(@)]
      BY DEF Advance, Waiting
    <3>2. before = [ features_queue |-> << Received >>, next_sample_in_hop |-> 0,
                     hop |-> Received ]
      BY DEF Waiting
    <3> HIDE DEF before
    <3> QED BY <1>1, <3>1, <3>2 DEF Waiting
  <2> QED BY <1>1, <1>7, <1>9, <2>1 DEF Generate
<1>12. NoiseEstimatorAccepts /\ NextNoiseSamples = 0
  <2>1. (0 + h) % h = 0
    OBVIOUS
  <2> QED BY <1>3, <1>7, <2>1 DEF NoiseEstimatorAccepts, NextNoiseSamples
<1>13. Chunk.features = Received
  BY <1>7, <1>9 DEF Chunk, Waiting
<1>14. DecodeChunk
  BY <1>10, <1>12 DEF Iterate, GenerativeModelFails, ComfortNoiseFails, NoiseEstimatorFails
<1>15. lost' = 0 /\ remaining' = 0
  BY <1>4, <1>13, <1>14 DEF DecodeChunk, CountLost
<1> QED BY <1>5, <1>7, <1>11, <1>12, <1>13, <1>14, <1>15 DEF DecodeChunk, BeginIteration

\* The resampler's part is preserved by every step.
LEMMA ResamplerStep ==
  ASSUME ResamplerInvariant, [JniNext]_jniVars
  PROVE  ResamplerInvariant'
<1>0. /\ Up \in Nat \ {0} /\ NumSamplesPerPacket \in Nat
      /\ ExternalRequests \subseteq Nat
  BY RatioAssumption, PacketIsHop, ExternalAssumption
<1>1. CASE Recreate
  BY <1>0, <1>1 DEF Recreate, ResamplerInvariant
<1>2. CASE AcceptPacket \/ RejectPacket
  BY <1>2 DEF AcceptPacket, RejectPacket, ResamplerInvariant
<1>3. ASSUME NEW n \in ExternalRequests \union {NumSamplesPerPacket}, RequestSamples(n)
      PROVE  ResamplerInvariant'
  BY <1>0, <1>3 DEF RequestSamples, ResamplerInvariant
<1>4. CASE Decode
  BY <1>4 DEF Decode, jni, ResamplerInvariant
<1>5. CASE ReturnSamples
  BY <1>0, <1>5, LeftoverAfterCall DEF ReturnSamples, ResamplerInvariant
<1>6. CASE ReturnNothing
  BY <1>0, <1>6, LeftoverAfterCall DEF ReturnNothing, ResamplerInvariant
<1>7. CASE UNCHANGED jniVars
  BY <1>7 DEF jniVars, jni, ResamplerInvariant
<1> QED BY <1>1, <1>2, <1>3, <1>4, <1>5, <1>6, <1>7 DEF JniNext

\* So is what is known of the Android client.
LEMMA AndroidStep ==
  ASSUME AndroidInvariant, [JniNext]_jniVars
  PROVE  AndroidInvariant'
<1> USE HopAssumption, DurationAssumption
<1>1. CASE Recreate
  BY <1>1 DEF Recreate, AndroidInvariant, EmptyModel, Waiting
<1>2. CASE AcceptPacket
  <2>1. CASE android = "idle"
    <3>1. generative_model' = Waiting(<< Received >>, output.features)
      BY <1>2, <2>1 DEF AcceptPacket, SetEncodedPacket, AddFeatures, AndroidInvariant, Waiting
    <3>2. concealment_progress' = 0
      BY <1>2, <2>1 DEF AcceptPacket, SetEncodedPacket, ConcealmentBeforePacket,
                        AndroidInvariant
    <3> QED BY <1>2, <2>1, <3>1, <3>2 DEF AcceptPacket, SetEncodedPacket, AndroidInvariant
  <2>2. CASE android # "idle"
    BY <1>2, <2>2 DEF AcceptPacket, AndroidInvariant
  <2> QED BY <2>1, <2>2
<1>3. CASE RejectPacket
  <2>1. CASE android = "idle"
    <3>1. concealment_progress' = 0
      BY <1>3, <2>1 DEF RejectPacket, SetUnsupportedPacket, SetUndecodablePacket, loss,
                        ConcealmentBeforePacket, AndroidInvariant
    <3> QED BY <1>3, <2>1, <3>1 DEF RejectPacket, SetUnsupportedPacket,
              SetUndecodablePacket, models, loss, AndroidInvariant
  <2>2. CASE android # "idle"
    BY <1>3, <2>2 DEF RejectPacket, AndroidInvariant
  <2> QED BY <2>1, <2>2
<1>4. ASSUME NEW n \in ExternalRequests \union {NumSamplesPerPacket}, RequestSamples(n)
      PROVE  AndroidInvariant'
  <2>1. CASE android = "packet" /\ n = NumSamplesPerPacket
    <3>1. InternalSamplesToGenerate(leftover, n) = NumSamplesPerHop
      BY <2>1, PacketIsHop DEF AndroidInvariant
    <3>2. DecodeSamples(NumSamplesPerHop)
      BY <1>4, <3>1 DEF RequestSamples
    <3> QED BY <1>4, <2>1, <3>2 DEF RequestSamples, DecodeSamples, models, loss,
                                    AndroidInvariant
  <2>2. CASE ~(android = "packet" /\ n = NumSamplesPerPacket)
    BY <1>4, <2>2 DEF RequestSamples, AndroidInvariant
  <2> QED BY <2>1, <2>2
<1>5. CASE Decode
  <2>1. Iterate /\ UNCHANGED << leftover, requested, android >>
    BY <1>5 DEF Decode, jni
  <2>2. remaining > 0
    BY <2>1 DEF Iterate, DecodeChunk, GenerativeModelFails, ComfortNoiseFails,
                NoiseEstimatorFails, BeginIteration
  <2>3. CASE android = "other"
    BY <2>1, <2>3 DEF AndroidInvariant
  <2>4. CASE android # "other"
    <3>1. android = "decoding" /\ remaining = NumSamplesPerHop
          /\ generative_model = Waiting(<< Received >>, output.features)
          /\ output.features \in {NoFeatures, Received}
          /\ lost = 0 /\ concealment_progress = 0 /\ fade_progress = 0
          /\ noise_samples = 0
      BY <2>2, <2>4 DEF AndroidInvariant
    <3>2. /\ generative_model' = Waiting(<<>>, Received)
          /\ concealment_progress' = 0 /\ fade_progress' = 0 /\ noise_samples' = 0
          /\ lost' = 0 /\ remaining' = 0 /\ reply' = "samples"
          /\ output'.features = Received
      BY <2>1, <3>1, PacketInOneChunk
    <3> QED BY <2>1, <3>1, <3>2 DEF AndroidInvariant
  <2> QED BY <2>3, <2>4
<1>6. CASE ReturnSamples \/ ReturnNothing
  <2>1. CASE android = "decoding"
    <3>1. ReturnSamples
      BY <1>6, <2>1 DEF ReturnNothing, AndroidInvariant
    <3>2. leftover' = 0
      BY <2>1, <3>1, PacketIsHop DEF ReturnSamples, AndroidInvariant
    <3>3. remaining = 0 /\ generative_model = Waiting(<<>>, output.features)
      BY <2>1, <3>1 DEF ReturnSamples, AndroidInvariant
    <3> QED BY <2>1, <3>1, <3>2, <3>3 DEF ReturnSamples, vars, AndroidInvariant
  <2>2. CASE android # "decoding"
    BY <1>6, <2>2 DEF ReturnSamples, ReturnNothing, AndroidInvariant
  <2> QED BY <2>1, <2>2
<1>7. CASE UNCHANGED jniVars
  BY <1>7 DEF jniVars, vars, jni, AndroidInvariant
<1> QED BY <1>1, <1>2, <1>3, <1>4, <1>5, <1>6, <1>7 DEF JniNext

\* Less than one internal sample's worth is ever left over in the resampler,
\* whatever is requested and whichever calls fail below it.
THEOREM LeftoverStaysShort == JniSpec => []LeftoverIsPartOfASample
<1>1. JniInit => ResamplerInvariant
  BY RatioAssumption DEF JniInit, ResamplerInvariant
<1>2. ResamplerInvariant /\ [JniNext]_jniVars => ResamplerInvariant'
  BY ResamplerStep
<1>3. ResamplerInvariant => LeftoverIsPartOfASample
  BY DEF ResamplerInvariant, LeftoverIsPartOfASample
<1> QED BY <1>1, <1>2, <1>3, PTL DEF JniSpec

\* An Android client hears its packets, each to its last sample, and nothing
\* else, at every pair of sample rates, also when packets are rejected.
THEOREM AndroidHears == JniSpec => []AndroidHearsItsPackets
<1>1. JniInit => AndroidInvariant
  BY DEF JniInit, Init, AndroidInvariant, EmptyModel, Waiting
<1>2. AndroidInvariant /\ [JniNext]_jniVars => AndroidInvariant'
  BY AndroidStep
<1>3. AndroidInvariant => AndroidHearsItsPackets
  BY DEF AndroidInvariant, AndroidHearsItsPackets, ReceivedBacklog, Waiting, EmptyModel
<1> QED BY <1>1, <1>2, <1>3, PTL DEF JniSpec

-----------------------------------------------------------------------------
(***************************************************************************)
(* Clients of both kinds, when every packet can be decoded.                *)
(***************************************************************************)

\* A decoder that was created anew is as good as the first.
LEMMA NewDecoder == Init' => DecoderInvariant'
BY InitInvariant, PTL

\* Behind the resampler the decoder only ever gets calls it can serve.
LEMMA ComposedStep ==
  ASSUME ~QuantizerMayFail, DecoderInvariant, ResamplerInvariant, [JniNext]_jniVars
  PROVE  DecoderInvariant'
<1>1. CASE Recreate
  <2>1. Init'
    BY <1>1 DEF Recreate, Init
  <2> QED BY <2>1, NewDecoder
<1>2. CASE AcceptPacket \/ RejectPacket
  <2>1. Next
    BY <1>2 DEF AcceptPacket, RejectPacket, Next
  <2> QED BY <2>1, NextInvariant
<1>3. ASSUME NEW n \in ExternalRequests \union {NumSamplesPerPacket}, RequestSamples(n)
      PROVE  DecoderInvariant'
  <2> DEFINE internal == InternalSamplesToGenerate(leftover, n)
  <2>1. internal \in Requests \union {0}
    BY ExternalAssumption DEF ResamplerInvariant
  <2>2. CASE internal > 0 /\ DecodeSamples(internal)
    <3>1. Next
      BY <2>1, <2>2 DEF Next
    <3> QED BY <3>1, NextInvariant
  <2>3. CASE reply' = "samples" /\ UNCHANGED << models, loss, remaining, output, lost >>
    BY <2>3, RequestInvariant DEF DecoderInvariant, TypeOK
  <2> QED BY <1>3, <2>2, <2>3 DEF RequestSamples
<1>4. CASE Decode
  BY <1>4, IterateInvariant DEF Decode
<1>5. CASE ReturnSamples \/ ReturnNothing \/ UNCHANGED jniVars
  BY <1>5, NextInvariant DEF ReturnSamples, ReturnNothing, jniVars
<1> QED BY <1>1, <1>2, <1>3, <1>4, <1>5 DEF JniNext

\* The decoder's invariant, and with it everything proved from it, survives the
\* resampler, requests that leftover samples answer, and release and init.
THEOREM ComposedInvariantHolds ==
  ASSUME ~QuantizerMayFail PROVE JniSpec => []DecoderInvariant
<1>1. JniInit => DecoderInvariant /\ ResamplerInvariant
  BY InitInvariant, RatioAssumption DEF JniInit, ResamplerInvariant
<1>2. DecoderInvariant /\ ResamplerInvariant /\ [JniNext]_jniVars
        => (DecoderInvariant /\ ResamplerInvariant)'
  BY ResamplerStep, ComposedStep
<1> QED BY <1>1, <1>2, PTL DEF JniSpec

\* With decodable packets no client of either kind is ever returned nullopt (or
\* -5): ReturnNothing never happens.
THEOREM ClientsGetAudio ==
  ASSUME ~QuantizerMayFail PROVE JniSpec => [][~ReturnNothing]_jniVars
<1>1. DecoderInvariant /\ [JniNext]_jniVars => [~ReturnNothing]_jniVars
  BY DEF DecoderInvariant, DecodingNeverFails, ReturnNothing
<1> QED BY <1>1, ComposedInvariantHolds, PTL DEF JniSpec
=============================================================================
