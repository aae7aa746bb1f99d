---------------------------- MODULE NoiseEstimator ----------------------------
(***************************************************************************)
(* The noise estimator (noise_estimator.cc): it collects hops of received  *)
(* audio and tracks, in every frequency band, the minimum of the smoothed  *)
(* power, from which comfort noise is made.  A hop near the estimate is    *)
(* taken for noise and changes nothing but the bounds of what is near.     *)
(*                                                                         *)
(* Powers are abstracted to levels of a small ordered scale, no hop being  *)
(* at level 0 (kLogFloor); a smoothed power is any level between the old   *)
(* one and the current one; a new bound is any distance of the scale; the  *)
(* exponential decay of the bounds is a step down the distances.  The      *)
(* powers of a window of audio are any powers: what the samples are is     *)
(* left out, and a sample is known by its age, the number of samples that  *)
(* were received after it.                                                 *)
(***************************************************************************)
EXTENDS LogMelSpectrogramExtractor

CONSTANTS
  Bands,               \* mel bands
  MaxPower,            \* bound of the model: the highest level
  NumHopsPerUpdate,    \* num_hops_per_update_
  Chunks               \* numbers of samples ReceiveSamples may be given

ASSUME EstimatorAssumption ==
  /\ MaxPower \in Nat \ {0}
  /\ NumHopsPerUpdate \in Nat \ {0}
  /\ Chunks \subseteq Nat

Levels == 1 .. MaxPower
Powers == [Bands -> Levels]

VARIABLES
  smoothed_power,        \* smoothed_power_; all 0 while it is empty in the code
  tmp_min,               \* tmp_min_smoothed_power_
  noise_estimate,        \* noise_estimate_
  noise_bound,           \* noise_bound_
  is_noise,              \* is_noise_
  num_hops_received,     \* num_hops_received_
  past_samples,          \* past_samples_hop_ up to next_sample_in_hop_
  extractor,             \* log_mel_spectrogram_extractor_
  reply,                 \* what the last ReceiveSamples returned
  features,              \* history: the window the last hop was looked at in,
                         \* empty if it yielded no features
  power,                 \* history: powers of the last hop
  smoothed_powers        \* history: the smoothed powers of the last updates,
                         \* latest last, as many as the minimum can depend on

estimate == << smoothed_power, tmp_min, noise_estimate, noise_bound,
               num_hops_received, smoothed_powers >>
vars == << smoothed_power, tmp_min, noise_estimate, noise_bound, is_noise,
           num_hops_received, past_samples, extractor, reply, features, power,
           smoothed_powers >>

Zero == [ b \in Bands |-> 0 ]

\* The last n samples, oldest first, and samples after n more were received.
Newest(n) == [ i \in 1 .. n |-> n - i ]
Aged(samples, n) == [ i \in DOMAIN samples |-> samples[i] + n ]

Init ==
  /\ smoothed_power = Zero
  /\ tmp_min = Zero
  /\ noise_estimate = Zero
  /\ noise_bound = Zero
  /\ is_noise = TRUE
  /\ num_hops_received = 0
  /\ past_samples = <<>>
  /\ extractor = Create(Newest(NumSamplesPerWindow))
  /\ features = Newest(NumSamplesPerWindow)
  /\ reply = TRUE
  /\ power = Zero
  /\ smoothed_powers = <<>>

-----------------------------------------------------------------------------
(***************************************************************************)
(* One hop of audio.                                                       *)
(***************************************************************************)

Distance(a, b) == IF a <= b THEN b - a ELSE a - b

ElementWiseMin(p, q) == [ b \in Bands |-> IF p[b] <= q[b] THEN p[b] ELSE q[b] ]

ComputeIsNoise(current) ==
  \A b \in Bands : Distance(current[b], noise_estimate[b]) <= noise_bound[b]

\* Faulty variant: bounds stay as they are.
KeepBounds == noise_bound

DecayBounds == [ b \in Bands |-> IF noise_bound[b] = 0 THEN 0 ELSE noise_bound[b] - 1 ]

\* Nothing has been learnt yet.
IsEmpty == smoothed_power = Zero

\* The smoothing factor of a band is at least 0 and less than 1, so the smoothed
\* power moves from where it was towards the current power.
SmoothedPowers(current) ==
  LET old == IF IsEmpty THEN current ELSE smoothed_power
  IN  { s \in Powers : \A b \in Bands :
          \/ old[b] <= s[b] /\ s[b] <= current[b]
          \/ current[b] <= s[b] /\ s[b] <= old[b] }

\* Faulty variant: the window starts again without what has been collected.
MinOfWindowOnly(smoothed, tmp) ==
  IF num_hops_received = 0 THEN smoothed ELSE ElementWiseMin(noise_estimate, smoothed)

\* UpdateMinAndTemp: the minimum over this window and the one before it.
NextMin(smoothed, tmp) ==
  IF num_hops_received = 0 THEN ElementWiseMin(tmp, smoothed)
                           ELSE ElementWiseMin(noise_estimate, smoothed)

\* Faulty variant: the minimum of this window is never started afresh.
NeverRestart(smoothed, tmp) == ElementWiseMin(tmp, smoothed)

\* UpdateMinAndTemp: the minimum over this window alone.
NextTmpMin(smoothed, tmp) ==
  IF num_hops_received = 0 THEN smoothed ELSE ElementWiseMin(tmp, smoothed)

\* The updates the minimum is taken over, once this one is among them.
WindowLength ==
  IF Len(smoothed_powers) < NumHopsPerUpdate + num_hops_received
  THEN Len(smoothed_powers) + 1 ELSE NumHopsPerUpdate + num_hops_received + 1

UpdateNoiseEstimate(current) ==
  \E smoothed \in SmoothedPowers(current) :
    LET tmp     == IF IsEmpty THEN current ELSE tmp_min
        updates == Append(smoothed_powers, smoothed)
    IN  /\ smoothed_power' = smoothed
        /\ noise_estimate' = NextMin(smoothed, tmp)
        /\ tmp_min' = NextTmpMin(smoothed, tmp)
        /\ noise_bound' \in [Bands -> 0 .. MaxPower]
        /\ num_hops_received' = (num_hops_received + 1) % NumHopsPerUpdate
        /\ smoothed_powers' =
             SubSeq(updates, Len(updates) - WindowLength + 1, Len(updates))

-----------------------------------------------------------------------------
(***************************************************************************)
(* ReceiveSamples.                                                         *)
(***************************************************************************)

\* More samples than fit in the hop.
RefuseSamples(num_samples) ==
  /\ Len(past_samples) + num_samples > NumSamplesPerHop
  /\ reply' = FALSE
  /\ UNCHANGED << estimate, is_noise, past_samples, extractor, features, power >>

\* The hop once the samples have been copied behind those already there.
HopAfter(num_samples) == Aged(past_samples, num_samples) \o Newest(num_samples)

ExtractorAfter(num_samples) ==
  [extractor EXCEPT !.input_queue = Aged(@, num_samples)]

\* Samples that do not fill the hop.
BufferSamples(num_samples) ==
  /\ Len(past_samples) + num_samples < NumSamplesPerHop
  /\ past_samples' = HopAfter(num_samples)
  /\ extractor' = ExtractorAfter(num_samples)
  /\ features' = Aged(features, num_samples)
  /\ reply' = TRUE
  /\ UNCHANGED << estimate, is_noise, power >>

\* Samples that fill the hop, whose powers are then looked at.  A hop without
\* features is dropped, and nothing is learnt from it.
CompleteHop(num_samples, current) ==
  LET hop == HopAfter(num_samples)
      ext == ExtractorAfter(num_samples)
  IN  /\ Len(past_samples) + num_samples = NumSamplesPerHop
      /\ past_samples' = <<>>
      /\ extractor' = AfterExtract(ext, hop)
      /\ reply' = HasFeatures(ext, hop)
      /\ IF ~HasFeatures(ext, hop)
         THEN /\ features' = <<>>
              /\ UNCHANGED << estimate, is_noise, power >>
         ELSE /\ features' = Features(ext, hop)
              /\ power' = current
              /\ is_noise' = ComputeIsNoise(current)
              /\ \/ /\ ComputeIsNoise(current)
                    /\ noise_bound' = DecayBounds
                    /\ UNCHANGED << smoothed_power, tmp_min, noise_estimate,
                                    num_hops_received, smoothed_powers >>
                 \/ ~ComputeIsNoise(current) /\ UpdateNoiseEstimate(current)

ReceiveSamples ==
  \E n \in Chunks :
    \/ RefuseSamples(n)
    \/ BufferSamples(n)
    \/ \E current \in Powers : CompleteHop(n, current)

Next == ReceiveSamples

Spec == Init /\ [][Next]_vars

\* Audio keeps coming: hops get complete and yield features again and again.
FairSpec == Spec /\ WF_vars(\E n \in Chunks, current \in Powers : CompleteHop(n, current))

-----------------------------------------------------------------------------
(***************************************************************************)
(* Properties.                                                             *)
(***************************************************************************)

\* The features of every hop are there and are those of the last window of
\* audio that was received, whatever pieces it came in and whichever pieces were
\* refused: no hop is dropped, and none is skipped or looked at twice (Extract,
\* the window of silence in Create, past_samples_hop_).
FeaturesAreOfTheLastWindow ==
  features = Aged(Newest(NumSamplesPerWindow), Len(past_samples))

MinOver(ps, b) ==
  CHOOSE m \in { ps[i][b] : i \in DOMAIN ps } : \A i \in DOMAIN ps : m <= ps[i][b]

\* The estimate is the minimum statistic it is documented to be: in every band
\* the least smoothed power of the updates of the current window and the one
\* before it, no older update and no hop that was taken for noise among them
\* (UpdateMinAndTemp, noise_estimate()).
EstimateIsWindowMinimum ==
  smoothed_powers # <<>> =>
    \A b \in Bands : noise_estimate[b] = MinOver(smoothed_powers, b)

\* "The decay eventually forces Update() to recalculate the bound": sound that
\* differs from the estimate is not taken for noise for ever, however wide the
\* bound had become (DecayBounds).
BoundsGiveWay == []<>(~is_noise \/ power = noise_estimate)
=============================================================================
