------------------------ MODULE ComfortNoiseGenerator ------------------------
(***************************************************************************)
(* The comfort noise generator (comfort_noise_generator.cc) with an        *)
(* arbitrary client.  A feature vector is turned into a frame of noise by  *)
(* an inverse FFT of random phase.  Frames are longer than hops, so an     *)
(* InverseSpectrogram adds them up where they overlap: it keeps what is    *)
(* not complete yet in working_output_ and hands out one hop per frame.    *)
(* Nothing empties working_output_ when comfort noise ends, so a period of *)
(* comfort noise begins on the remains of the one before it.               *)
(*                                                                         *)
(* A sample of noise is the set of what was added up in it, and what was   *)
(* added is << age, index >>: the index-th sample of the frame that was    *)
(* made age frames before the newest.                                      *)
(***************************************************************************)
EXTENDS GenerativeModel, FiniteSets

CONSTANTS
  NumSamplesPerWindow,   \* window_length_samples
  Features,              \* feature vectors the client may add
  MaxQueue               \* bound of the model: feature vectors waiting at a time

ASSUME NoiseAssumption ==
  /\ NumSamplesPerWindow \in Nat
  /\ NumSamplesPerWindow >= NumSamplesPerHop
  /\ NumSamplesPerWindow >= 2
  /\ MaxQueue \in Nat \ {0}

\* NextPowerOfTwo(window_length_samples), which is also the size of a frame.
FftSize ==
  CHOOSE p \in { 2^k : k \in 0 .. NumSamplesPerWindow } :
    p >= NumSamplesPerWindow /\ p < 2 * NumSamplesPerWindow

\* What exponentiation is, as far as it is used.
ASSUME PowersOfTwo == \A k \in 0 .. NumSamplesPerWindow - 1 : 2^(k + 1) = 2 * 2^k

\* Faulty variant: only the window overlaps, not the whole frame.
WindowOverlap == NumSamplesPerWindow - NumSamplesPerHop

Overlap == FftSize - NumSamplesPerHop

\* The frames that can sound at a time.
MaxFrames == (FftSize + NumSamplesPerHop - 1) \div NumSamplesPerHop

VARIABLES
  model,                   \* the generator as a GenerativeModel
  working_output,          \* working_output_ of inverse_spectrogram_
  reconstructed_samples,   \* reconstructed_samples_
  reply,                   \* what the last call returned to the client
  frames,                  \* history: the frames made, newest first, with the
                           \* features of each and whether anyone heard it begin
  played                   \* history: the features of the hops begun, newest first

noise == << working_output, reconstructed_samples, frames >>
vars  == << model, working_output, reconstructed_samples, reply, frames, played >>

Succeeds(samples) == [ok |-> TRUE, samples |-> samples]
Refused == [ok |-> FALSE, samples |-> <<>>]

Silence(n) == [ i \in 1 .. n |-> {} ]

Init ==
  /\ model = EmptyModel
  /\ working_output = Silence(Overlap)
  /\ reconstructed_samples = Silence(NumSamplesPerHop)
  /\ reply = Succeeds(<<>>)
  /\ frames = <<>>
  /\ played = <<>>

-----------------------------------------------------------------------------
(***************************************************************************)
(* RunConditioning: FftFromFeatures and InvertFft, which cannot fail: the  *)
(* InverseSpectrogram was initialized when the generator was created.      *)
(***************************************************************************)

\* The same sample once another frame has been made.
Older(sample) == { << c[1] + 1, c[2] >> : c \in sample }

\* Faulty variant: the frame is put in the place of what was there.
Overwritten ==
  [ i \in 1 .. FftSize |-> {<< 0, i >>} ]

\* The frame is added to what overlaps it, and its rest appended.
Added ==
  [ i \in 1 .. FftSize |->
      (IF i <= Overlap THEN Older(working_output[i]) ELSE {}) \union {<< 0, i >>} ]

LatestOf(seq, n) == SubSeq(seq, 1, IF Len(seq) < n THEN Len(seq) ELSE n)

MakeFrame(heard) ==
  /\ reconstructed_samples' = SubSeq(Added, 1, FftSize - Overlap)
  /\ working_output' = SubSeq(Added, FftSize - Overlap + 1, FftSize)
  /\ frames' =
       LatestOf(<< [features |-> Head(model.features_queue), heard |-> heard] >>
                  \o frames, MaxFrames)

\* Faulty variant: the noise is made anew for every request.
ConditionsAlways(num_samples) ==
  num_samples > 0 /\ NumSamplesAvailable(model) > 0

\* GenerateSamples runs the conditioning, whether or not samples come of it.
Conditions(num_samples) ==
  /\ num_samples > 0
  /\ NumSamplesAvailable(model) > 0
  /\ model.next_sample_in_hop = 0

-----------------------------------------------------------------------------
(***************************************************************************)
(* Calls of the client.                                                    *)
(***************************************************************************)

AddWellFormedFeatures(features) ==
  /\ Len(model.features_queue) < MaxQueue
  /\ model' = AddFeatures(model, features)
  /\ reply' = Succeeds(<<>>)
  /\ UNCHANGED << noise, played >>

\* features.size() != num_features_
AddMalformedFeatures ==
  /\ reply' = Refused
  /\ UNCHANGED << model, noise, played >>

\* Faulty variant: every request is read from the beginning of the hop.
RunModelFromStart(samples, num_samples) == SubSeq(samples, 1, num_samples)

\* RunModel reads on in the hop.
RunModel(samples, num_samples) ==
  SubSeq(samples, model.next_sample_in_hop + 1, model.next_sample_in_hop + num_samples)

GenerateSamples(num_samples) ==
  /\ CanGenerate(model, num_samples)
  /\ IF Conditions(num_samples) THEN MakeFrame(TRUE) ELSE UNCHANGED noise
  /\ reply' = Succeeds(RunModel(reconstructed_samples', num_samples))
  /\ model' = Generate(model, num_samples)
  /\ played' = IF num_samples > 0 /\ model.next_sample_in_hop = 0
               THEN LatestOf(<< Head(model.features_queue) >> \o played, MaxFrames)
               ELSE played

\* A request that straddles the hop is found out after the conditioning, and
\* the frame has been added to the noise for good.
RefuseSamples(num_samples) ==
  /\ ~CanGenerate(model, num_samples)
  /\ IF Conditions(num_samples) THEN MakeFrame(FALSE) ELSE UNCHANGED noise
  /\ reply' = Refused
  /\ model' = Refuse(model, num_samples)
  /\ UNCHANGED played

Next ==
  \/ \E f \in Features : AddWellFormedFeatures(f)
  \/ AddMalformedFeatures
  \/ \E n \in -1 .. NumSamplesPerHop + 1 : GenerateSamples(n) \/ RefuseSamples(n)

Spec == Init /\ [][Next]_vars

-----------------------------------------------------------------------------
(***************************************************************************)
(* Properties.                                                             *)
(***************************************************************************)

\* The i-th sample after the beginning of the current hop, by the definition of
\* overlap-add: every frame there is, at its own distance, and no other.
OverlapAdd(i) ==
  { << age, age * NumSamplesPerHop + i >> : age \in
      { a \in 0 .. Len(frames) - 1 : a * NumSamplesPerHop + i <= FftSize } }

\* The two buffers hold the sum of all frames made since the decoder was
\* created: no frame is cut off, shifted or counted twice, also where a frame
\* is no whole number of hops, and the hop handed out is complete, for nothing
\* made later reaches back into it (InvertFft, InverseSpectrogram::Process).
NoiseIsOverlapAdd ==
  /\ reconstructed_samples = [ i \in 1 .. NumSamplesPerHop |-> OverlapAdd(i) ]
  /\ working_output =
       [ i \in 1 .. FftSize - NumSamplesPerHop |-> OverlapAdd(NumSamplesPerHop + i) ]

\* The frames anyone heard begin among the newest k.
NumHeard(made, k) == Cardinality({ j \in 1 .. k : made[j].heard })

\* One frame is made for every hop that is played, in the order they are played,
\* except for the frames of refused requests: apart from those, the noise that
\* sounds together is that of consecutive estimates (GenerateSamples, which
\* conditions before it finds that a request straddles the hop).
EveryHopHasItsFrame ==
  \A k \in DOMAIN frames : frames[k].heard =>
    LET hop == NumHeard(frames, k)
    IN  hop <= Len(played) /\ frames[k].features = played[hop]

\* A sample of noise as a sample of the newest frame.
NewestFrame(samples) ==
  [ k \in DOMAIN samples |->
      << frames[1].features, CHOOSE i \in 1 .. FftSize : << 0, i >> \in samples[k] >> ]

\* The samples still owed: the queue's hops without what was handed out.
SamplesOwed ==
  [ k \in 1 .. NumSamplesAvailable(model) |->
      LET position == k - 1 + model.next_sample_in_hop
      IN  << model.features_queue[(position \div NumSamplesPerHop) + 1],
             (position % NumSamplesPerHop) + 1 >> ]

Stream == INSTANCE SampleStream
  WITH owed <- SamplesOwed,
       reply <- [reply EXCEPT !.samples = NewestFrame(@)]

\* The generator keeps the promise every generator makes: in the noise handed
\* out, the frame of each estimate sounds once, from its first sample to the
\* last of its hop, however the hop is cut into requests and whatever is refused
\* in between (GenerateSamples, RunModel, reconstructed_samples_).
NoiseStreamsInOrder == Stream!Spec
=============================================================================
