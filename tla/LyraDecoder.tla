----------------------------- MODULE LyraDecoder -----------------------------
(***************************************************************************)
(* The packet loss machine of LyraDecoder (lyra_decoder.cc), at the        *)
(* internal sample rate.  The application hands over the packets that      *)
(* reach it (SetEncodedPacket) and asks for audio (DecodeSamples) whether  *)
(* or not a packet came.  Audio is produced chunk by chunk, and every      *)
(* chunk comes from a received packet, from features estimated in place of *)
(* a lost one, from comfort noise, or from a crossfade of two of these.    *)
(*                                                                         *)
(* Calls do not overlap: LyraDecoder has no lock and its callers run one   *)
(* call at a time.  One iteration of the loop of DecodeSamplesInternal is  *)
(* one action.  Features are abstracted to where they come from, samples   *)
(* to how many there are and which features they were made of.             *)
(***************************************************************************)
EXTENDS GenerativeModel

CONSTANTS
  ConcealmentDuration,   \* GetConcealmentDurationSamples()
  FadeDuration,          \* GetFadeDurationSamples()
  Requests,              \* numbers of samples the application may ask for
  MaxBacklog,            \* bound of the model: hops queued for playing
  MaxProgress,           \* bound of the model: no call is made beyond this
                         \* concealment or fade progress (see DecodeSamples)
  QuantizerMayFail       \* may DecodeToLossyFeatures return nullopt?

\* The CHECKs of the two duration functions, and the order of their values.
ASSUME DurationAssumption ==
  /\ ConcealmentDuration \in Nat \ {0}
  /\ FadeDuration \in Nat \ {0}
  /\ ConcealmentDuration % NumSamplesPerHop = 0
  /\ FadeDuration % NumSamplesPerHop = 0
  /\ FadeDuration <= ConcealmentDuration

ASSUME CallAssumption ==
  /\ Requests \subseteq Nat \ {0}
  /\ MaxBacklog \in Nat
  /\ MaxProgress \in Nat /\ MaxProgress >= ConcealmentDuration
  /\ QuantizerMayFail \in BOOLEAN

VARIABLES
  generative_model,          \* generative_model_
  comfort_noise_generator,   \* comfort_noise_generator_
  noise_samples,             \* next_sample_in_hop_ of noise_estimator_
  concealment_progress,      \* concealment_progress_
  fade_progress,             \* fade_progress_
  fade_direction,            \* fade_direction_
  remaining,                 \* samples the running call has yet to produce
  reply,                     \* what the last call returned, "none" during one
  output,                    \* the last chunk
  lost                       \* history: see CountLost

models == << generative_model, comfort_noise_generator, noise_samples >>
loss   == << concealment_progress, fade_progress, fade_direction >>
call   == << remaining, reply, output, lost >>
vars   == << generative_model, comfort_noise_generator, noise_samples,
             concealment_progress, fade_progress, fade_direction,
             remaining, reply, output, lost >>

Received  == "received"     \* features of a received packet
Estimated == "estimated"    \* features of the feature estimator
Noise     == "noise"        \* features of the noise estimator

FadeToCNG   == 1
FadeFromCNG == -1

Least(a, b) == IF a <= b THEN a ELSE b

Init ==
  /\ generative_model = EmptyModel
  /\ comfort_noise_generator = EmptyModel
  /\ noise_samples = 0
  /\ concealment_progress = 0
  /\ fade_progress = 0
  /\ fade_direction = FadeFromCNG
  /\ remaining = 0
  /\ reply = "none"
  /\ output = [features |-> NoFeatures, heard |-> FALSE]
  /\ lost = 0

-----------------------------------------------------------------------------
(***************************************************************************)
(* SetEncodedPacket.                                                       *)
(***************************************************************************)

\* Faulty variants: the comfort noise that plays is forgotten, or everything.
FinishGenerativeModelOnly ==
  IF concealment_progress > 0 THEN - NumSamplesAvailable(generative_model)
                              ELSE concealment_progress

FinishNothing == 0

\* "Finish playing out any concealment or comfort noise packets before moving
\* on to the packet we are receiving."
ConcealmentBeforePacket ==
  IF concealment_progress = ConcealmentDuration
  THEN - NumSamplesAvailable(comfort_noise_generator)
  ELSE IF concealment_progress > 0
       THEN - NumSamplesAvailable(generative_model)
       ELSE concealment_progress

SetEncodedPacket ==
  /\ remaining = 0
  /\ Len(generative_model.features_queue) < MaxBacklog
  /\ concealment_progress' = ConcealmentBeforePacket
  /\ generative_model' = AddFeatures(generative_model, Received)
  /\ reply' = "true"
  /\ UNCHANGED << comfort_noise_generator, noise_samples, fade_progress,
                  fade_direction, remaining, output, lost >>

\* A packet of a size no bitrate has.
SetUnsupportedPacket ==
  /\ remaining = 0
  /\ reply' = "false"
  /\ UNCHANGED << models, loss, remaining, output, lost >>

\* The packet is well formed but the vector quantizer does not decode it.  The
\* concealment progress has already been moved when this is found out.
SetUndecodablePacket ==
  /\ QuantizerMayFail
  /\ remaining = 0
  /\ concealment_progress' = ConcealmentBeforePacket
  /\ reply' = "false"
  /\ UNCHANGED << models, fade_progress, fade_direction, remaining, output, lost >>

-----------------------------------------------------------------------------
(***************************************************************************)
(* DecodeSamplesInternal: the values of one iteration of its loop.         *)
(***************************************************************************)

\* Faulty variant: all that is queued counts as the packet being played.
SamplesRemainingInQueue ==
  IF concealment_progress < 0 THEN - concealment_progress
  ELSE IF concealment_progress < ConcealmentDuration
       THEN NumSamplesAvailable(generative_model)
       ELSE NumSamplesAvailable(comfort_noise_generator)

\* GetNumSamplesToGenerate: the rest of the hop being played.
SamplesRemainingInPacket ==
  IF concealment_progress < 0 THEN - concealment_progress
  ELSE IF concealment_progress < ConcealmentDuration
       THEN NumSamplesAvailable(generative_model) % NumSamplesPerHop
       ELSE NumSamplesAvailable(comfort_noise_generator)

\* Faulty variant: nothing is made up at a packet boundary.
NumSamplesLeft == Least(remaining, SamplesRemainingInPacket)

\* GetNumSamplesToGenerate: up to the next packet boundary or the end of the
\* request.  Without any samples left a whole hop can always be made up.
NumSamplesToGenerate ==
  Least(remaining, IF SamplesRemainingInPacket = 0 THEN NumSamplesPerHop
                                                   ELSE SamplesRemainingInPacket)

\* Faulty variant: any features that wait are taken for a packet's.
AnyFeaturesWait ==
  NumSamplesAvailable(generative_model) > 0 /\ concealment_progress >= 0

\* is_packet_received
IsPacketReceived ==
  NumSamplesAvailable(generative_model) > 0 /\ concealment_progress = 0

\* Faulty variants: a received packet does not end the comfort noise, and the
\* end of the concealment is missed.
NeverFadesBack ==
  IF concealment_progress = ConcealmentDuration THEN FadeToCNG ELSE fade_direction

NeverFadesToNoise ==
  IF IsPacketReceived THEN FadeFromCNG
  ELSE IF concealment_progress > ConcealmentDuration THEN FadeToCNG
       ELSE fade_direction

NextFadeDirection ==
  IF IsPacketReceived THEN FadeFromCNG
  ELSE IF concealment_progress = ConcealmentDuration THEN FadeToCNG
       ELSE fade_direction

\* Faulty variants: the progress is not held at the concealment duration, and
\* the concealment before a packet is not counted down.
UnboundedProgress ==
  IF IsPacketReceived THEN concealment_progress
  ELSE concealment_progress + NumSamplesToGenerate

ProgressWaits ==
  IF concealment_progress <= 0 /\ NumSamplesAvailable(generative_model) > 0
  THEN concealment_progress
  ELSE IF concealment_progress = ConcealmentDuration THEN concealment_progress
       ELSE concealment_progress + NumSamplesToGenerate

NextConcealmentProgress ==
  IF IsPacketReceived \/ concealment_progress = ConcealmentDuration
  THEN concealment_progress
  ELSE concealment_progress + NumSamplesToGenerate

OnlyComfortNoise ==
  NextFadeDirection = FadeToCNG /\ fade_progress = FadeDuration

\* Faulty variant: the comfort noise stops as soon as its fade-out begins.
NoFadeOut == NextFadeDirection = FadeFromCNG

OnlyGenerativeModel ==
  NextFadeDirection = FadeFromCNG /\ fade_progress = 0

GenerativeSamples == IF OnlyComfortNoise THEN 0 ELSE NumSamplesToGenerate

ComfortNoiseSamples == IF OnlyGenerativeModel THEN 0 ELSE NumSamplesToGenerate

\* Faulty variant: the fade goes on when it is over.
FadesOn == fade_progress + NextFadeDirection * NumSamplesToGenerate

NextFadeProgress ==
  IF OnlyComfortNoise \/ OnlyGenerativeModel THEN fade_progress
  ELSE fade_progress + NextFadeDirection * NumSamplesToGenerate

\* Faulty variant: features are made up whether or not the generator has any.
AlwaysReplenish(model, num_samples, features) ==
  IF num_samples > 0 THEN AddFeatures(model, features) ELSE model

\* RunGenerativeModel and RunComfortNoiseGenerator: a generator that ran dry
\* is given features before it is asked for samples.
Replenish(model, num_samples, features) ==
  IF num_samples > 0 /\ NumSamplesAvailable(model) = 0
  THEN AddFeatures(model, features)
  ELSE model

ReplenishedModel == Replenish(generative_model, GenerativeSamples, Estimated)

ReplenishedNoise == Replenish(comfort_noise_generator, ComfortNoiseSamples, Noise)

GenerativeModelRuns == CanGenerate(ReplenishedModel, GenerativeSamples)

ComfortNoiseRuns == CanGenerate(ReplenishedNoise, ComfortNoiseSamples)

\* ReceiveSamples refuses more samples than fit in its hop.
NoiseEstimatorAccepts ==
  IsPacketReceived => noise_samples + GenerativeSamples <= NumSamplesPerHop

\* Faulty variant: the noise estimator does not start a new hop.
NoNewNoiseHop ==
  IF IsPacketReceived THEN noise_samples + GenerativeSamples ELSE noise_samples

\* The noise estimator's position after it took the samples of this chunk.
NextNoiseSamples ==
  IF IsPacketReceived
  THEN (noise_samples + GenerativeSamples) % NumSamplesPerHop
  ELSE noise_samples

\* Faulty variant: the noise estimator hears whatever the generative model made.
EstimatorHearsAll ==
  [ features |-> IF GenerativeSamples = 0 THEN Noise
                 ELSE RunConditioning(ReplenishedModel).hop,
    heard    |-> GenerativeSamples > 0 ]

\* What the chunk is made of; heard: the noise estimator was given it.
Chunk ==
  [ features |-> IF GenerativeSamples = 0 THEN Noise
                 ELSE RunConditioning(ReplenishedModel).hop,
    heard    |-> IsPacketReceived ]

\* The history: how many samples were played since the last one of a received
\* packet, up to a hop beyond pure comfort noise (bound of the model).
CountLost(chunk, num_samples) ==
  IF chunk.features = Received THEN 0
  ELSE LET count == lost + num_samples
       IN  IF count < ConcealmentDuration + FadeDuration + NumSamplesPerHop
           THEN count ELSE count - NumSamplesPerHop

-----------------------------------------------------------------------------
(***************************************************************************)
(* DecodeSamples.                                                          *)
(***************************************************************************)

\* Neither progress leaves its range unless a packet was undecodable; when one
\* was, both can grow without end.
DecodeSamples(num_samples) ==
  /\ remaining = 0
  /\ concealment_progress <= MaxProgress
  /\ fade_progress \in -MaxProgress .. MaxProgress
  /\ remaining' = num_samples
  /\ reply' = "none"
  /\ UNCHANGED << models, loss, output, lost >>

\* The part of an iteration that precedes the generators.
BeginIteration ==
  /\ remaining > 0
  /\ fade_direction' = NextFadeDirection
  /\ concealment_progress' = NextConcealmentProgress

\* An iteration that appends a chunk to the result.
DecodeChunk ==
  /\ BeginIteration
  /\ GenerativeModelRuns
  /\ ComfortNoiseRuns
  /\ NoiseEstimatorAccepts
  /\ generative_model' = Generate(ReplenishedModel, GenerativeSamples)
  /\ comfort_noise_generator' = Generate(ReplenishedNoise, ComfortNoiseSamples)
  /\ noise_samples' = NextNoiseSamples
  /\ fade_progress' = NextFadeProgress
  /\ remaining' = remaining - NumSamplesToGenerate
  /\ reply' = IF remaining' = 0 THEN "samples" ELSE "none"
  /\ output' = Chunk
  /\ lost' = CountLost(Chunk, NumSamplesToGenerate)

\* The call returns nullopt, and what it had produced is dropped.
Abandon ==
  /\ remaining' = 0
  /\ reply' = "nullopt"
  /\ UNCHANGED << output, lost >>

\* "Model could not be run on features."
GenerativeModelFails ==
  /\ BeginIteration
  /\ ~GenerativeModelRuns
  /\ generative_model' = Refuse(ReplenishedModel, GenerativeSamples)
  /\ Abandon
  /\ UNCHANGED << comfort_noise_generator, noise_samples, fade_progress >>

\* "Could not generate comfort noise."  The generative model has moved on.
ComfortNoiseFails ==
  /\ BeginIteration
  /\ GenerativeModelRuns
  /\ ~ComfortNoiseRuns
  /\ generative_model' = Generate(ReplenishedModel, GenerativeSamples)
  /\ comfort_noise_generator' = Refuse(ReplenishedNoise, ComfortNoiseSamples)
  /\ Abandon
  /\ UNCHANGED << noise_samples, fade_progress >>

\* "Could not update noise estimator on decoder output."
NoiseEstimatorFails ==
  /\ BeginIteration
  /\ GenerativeModelRuns
  /\ ComfortNoiseRuns
  /\ ~NoiseEstimatorAccepts
  /\ generative_model' = Generate(ReplenishedModel, GenerativeSamples)
  /\ comfort_noise_generator' = Generate(ReplenishedNoise, ComfortNoiseSamples)
  /\ fade_progress' = NextFadeProgress
  /\ Abandon
  /\ UNCHANGED noise_samples

\* What a client is told about the audio it gets.
is_comfort_noise == fade_progress = FadeDuration

Iterate ==
  \/ DecodeChunk
  \/ GenerativeModelFails
  \/ ComfortNoiseFails
  \/ NoiseEstimatorFails

Next ==
  \/ SetEncodedPacket
  \/ SetUnsupportedPacket
  \/ SetUndecodablePacket
  \/ \E n \in Requests : DecodeSamples(n)
  \/ Iterate

Spec == Init /\ [][Next]_vars

\* A call that runs keeps running.
LoopFairness == WF_vars(Iterate)

\* The application keeps asking for audio, as a player that has to fill its
\* output buffer does, and its packets may or may not come.
PlayerFairness == WF_vars(\E n \in Requests : DecodeSamples(n))

FairSpec == Spec /\ LoopFairness /\ PlayerFairness

-----------------------------------------------------------------------------
(***************************************************************************)
(* Properties.                                                             *)
(***************************************************************************)

\* Samples of received packets that wait to be played.  Estimated features are
\* only ever at the front of the queue.
ReceivedBacklog ==
  IF generative_model.features_queue = <<>> THEN 0
  ELSE IF Head(generative_model.features_queue) = Received
       THEN NumSamplesAvailable(generative_model)
       ELSE (Len(generative_model.features_queue) - 1) * NumSamplesPerHop

\* Samples of concealment to play before the next hop of it begins.
ConcealedHopRest ==
  IF lost % NumSamplesPerHop = 0 THEN 0
  ELSE NumSamplesPerHop - (lost % NumSamplesPerHop)

\* Every variable has its type, with the ranges the header documents for
\* concealment_progress_ and fade_progress_ (lyra_decoder.h).
TypeOK ==
  /\ generative_model \in GenerativeModels({Received, Estimated})
  /\ comfort_noise_generator \in GenerativeModels({Noise})
  /\ noise_samples \in 0 .. NumSamplesPerHop - 1
  /\ concealment_progress \in 1 - NumSamplesPerHop .. ConcealmentDuration
  /\ fade_progress \in 0 .. FadeDuration
  /\ fade_direction \in {FadeToCNG, FadeFromCNG}
  /\ remaining \in Nat
  /\ reply \in {"none", "true", "false", "samples", "nullopt"}
  /\ output \in [ features : {NoFeatures, Received, Estimated, Noise},
                  heard    : BOOLEAN ]
  /\ lost \in 0 .. ConcealmentDuration + FadeDuration + NumSamplesPerHop - 1

\* concealment_progress_ means what its comment says: below zero, how many
\* concealment samples are left before received audio begins; otherwise the
\* samples since received audio was last played, up to the concealment length.
ProgressTracksLoss ==
  concealment_progress =
    IF ReceivedBacklog = 0 THEN Least(lost, ConcealmentDuration)
                           ELSE - ConcealedHopRest

\* DecodeSamples never returns nullopt: no request straddles a hop of either
\* generator, the two halves of a crossfade are as long, and the noise
\* estimator's hop never overflows, whatever was requested and received.
DecodingNeverFails == reply # "nullopt"

\* The noise estimator is given the audio of received packets, all of it and
\* no other, and its hops are those of the packets.
EstimatorHearsReceivedAudio ==
  /\ output.heard <=> output.features = Received
  /\ noise_samples > 0 =>
       /\ generative_model.hop = Received
       /\ generative_model.next_sample_in_hop = noise_samples

\* Comfort noise is faded in by the loss beyond the concealment duration and
\* by nothing else, so is_comfort_noise() after ConcealmentDuration +
\* FadeDuration lost samples, not before, and until a packet is played.
FadeTracksLoss ==
  /\ fade_direction = FadeToCNG =>
       fade_progress = Least(lost - ConcealmentDuration, FadeDuration)
  /\ lost > ConcealmentDuration => fade_direction = FadeToCNG

\* The comfort noise generator holds features exactly in the middle of a hop
\* it takes part in: a fade never starts on the remainder of an old hop.
ComfortNoiseIsFresh ==
  NumSamplesAvailable(comfort_noise_generator) =
    IF fade_direction = FadeFromCNG /\ fade_progress = 0 THEN 0
    ELSE IF lost = 0
         THEN NumSamplesAvailable(generative_model) % NumSamplesPerHop
         ELSE ConcealedHopRest

Promise == INSTANCE LossConcealment
  WITH backlog <- ReceivedBacklog, fade <- fade_progress

\* The decoder implements its promise (LossConcealment): which audio is played
\* when, whatever the order and the sizes of the calls.
ConcealsLoss == Promise!Spec

\* Features that were made up never pile up: a generator is given estimated
\* features or a noise estimate only when it has run dry, so what waits in the
\* queues beyond one hop of each is received packets, also after failures.
EstimatesNeverPileUp ==
  /\ \A i \in 2 .. Len(generative_model.features_queue) :
       generative_model.features_queue[i] = Received
  /\ Len(comfort_noise_generator.features_queue) <= 1

\* The three sources of audio are at the beginning of a hop, and so is a packet
\* that waits for the end of the concealment.
InStep ==
  /\ generative_model.next_sample_in_hop = 0
  /\ comfort_noise_generator.next_sample_in_hop = 0
  /\ noise_samples = 0
  /\ concealment_progress % NumSamplesPerHop = 0

\* While a client asks for whole hops, as the Android client does, the sources
\* keep in step and no call fails, whether packets come, are lost or cannot be
\* decoded, at the code's proportions of hop, fade and concealment
\* (GetNumSamplesToGenerate, SetEncodedPacket, ReceiveSamples).
WholeHopsKeepInStep ==
  [][ /\ InStep
      /\ remaining % NumSamplesPerHop = 0
      /\ remaining = 0 => remaining' % NumSamplesPerHop = 0
      => /\ InStep'
         /\ remaining' % NumSamplesPerHop = 0
         /\ reply' = "nullopt" => reply = "nullopt" ]_vars

\* A call of DecodeSamples returns: every iteration of the loop makes progress.
DecodeSamplesReturns == remaining > 0 ~> remaining = 0

\* Why it does, without any fairness: whatever has failed before, an iteration
\* leaves less to be made than there was, never less than nothing, and what it
\* makes is at most a hop (GetNumSamplesToGenerate).
IterationsMakeProgress ==
  [][ remaining > 0 =>
        /\ remaining' \in 0 .. remaining - 1
        /\ reply' # "nullopt" => remaining - remaining' <= NumSamplesPerHop ]_vars

\* A packet that was accepted is played: received audio does not wait behind
\* concealment or comfort noise for ever.
PacketsArePlayed == ReceivedBacklog > 0 ~> output.features = Received

\* Without further packets the decoder ends up in comfort noise and stays there.
SilenceBecomesComfortNoise ==
  <>[][~SetEncodedPacket]_vars => <>[]is_comfort_noise

\* Once the packets are decodable again, calls that keep being made keep
\* returning audio: whenever the payloads do not suffice, DecodeSamples "will
\* generate samples in packet loss mode" (lyra_decoder.h).
AudioAfterUndecodablePackets ==
  ( /\ <>[][~SetUndecodablePacket]_vars
    /\ []<><<\E n \in Requests : DecodeSamples(n)>>_vars )
  => []<>(reply = "samples")

-----------------------------------------------------------------------------
(***************************************************************************)
(* Why the properties hold: an inductive invariant, for decodable packets. *)
(***************************************************************************)

\* Position in the hop being played.
Phase ==
  IF lost = 0 THEN generative_model.next_sample_in_hop
              ELSE lost % NumSamplesPerHop

\* Only comfort noise is played, and no comfort noise is played.
PureNoise == fade_direction = FadeToCNG /\ fade_progress = FadeDuration
NoNoise   == fade_direction = FadeFromCNG /\ fade_progress = 0

\* A hop of estimated features has been played in part.
ConcealingInHop == lost % NumSamplesPerHop # 0 /\ ~PureNoise

\* The queue of the generative model: received packets, behind the estimated
\* features of the hop being concealed, if one is.
QueueInvariant ==
  /\ \A i \in 2 .. Len(generative_model.features_queue) :
       generative_model.features_queue[i] = Received
  /\ ConcealingInHop => generative_model.features_queue # <<>>
  /\ generative_model.features_queue # <<>> =>
       (Head(generative_model.features_queue) = Estimated <=> ConcealingInHop)

\* All who take part in the hop being played are at the same position in it.
PositionInvariant ==
  /\ generative_model.next_sample_in_hop = IF PureNoise THEN 0 ELSE Phase
  /\ generative_model.next_sample_in_hop > 0 =>
       /\ generative_model.features_queue # <<>>
       /\ generative_model.hop = Head(generative_model.features_queue)
  /\ noise_samples =
       IF lost = 0 THEN generative_model.next_sample_in_hop ELSE 0
  /\ comfort_noise_generator.next_sample_in_hop =
       IF NoNoise THEN 0 ELSE Phase
  /\ Len(comfort_noise_generator.features_queue) =
       IF comfort_noise_generator.next_sample_in_hop = 0 THEN 0 ELSE 1
  /\ comfort_noise_generator.next_sample_in_hop > 0 =>
       comfort_noise_generator.hop = Noise

\* Comfort noise fades out towards the end of a hop, and before it could be
\* needed again.
FadeInvariant ==
  /\ fade_direction = FadeToCNG =>
       /\ lost > ConcealmentDuration
       /\ fade_progress = Least(lost - ConcealmentDuration, FadeDuration)
  /\ fade_direction = FadeFromCNG =>
       /\ lost <= ConcealmentDuration
       /\ fade_progress > 0 =>
            /\ fade_progress + lost <= FadeDuration
            /\ (fade_progress + Phase) % NumSamplesPerHop = 0

\* The last chunk was given to the noise estimator iff it was received audio.
OutputInvariant == output.heard <=> output.features = Received

DecoderInvariant ==
  /\ TypeOK
  /\ ProgressTracksLoss
  /\ DecodingNeverFails
  /\ QueueInvariant
  /\ PositionInvariant
  /\ FadeInvariant
  /\ OutputInvariant
=============================================================================
