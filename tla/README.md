# LyraAndroid: a verification project

TLA+ models of the Lyra speech decoder in this repository, the TLC
configurations that check them on small instances, and theorems about them
that TLAPS checks for every value of their constants. All definitions are
translated from the C++ under `src/lyra/` and, for two classes of windows and
overlaps, from the audio library it is built with; source paths below are
relative to `src/`.

1. [The system](#1-the-system): parts, state, operations, interactions, hazards
2. [Modules](#2-modules): what models what, and how state and actions correspond
3. [Runs](#3-runs): what is checked, the bounds, fairness
4. [Proofs](#4-proofs): what is proved, from what, by which argument
5. [Findings](#5-findings): where code and comments disagree
6. [What is not modelled](#6-what-is-not-modelled)
7. [Plan](#7-plan)

To run a check: `tlc -config MCLyraDecoder.cfg LyraDecoder.tla`; to check the
proofs of a module: `tlapm LyraDecoderProofs.tla`. The community modules are
not needed; the proof modules need `TLAPS.tla`.

## 1. The system

LyraAndroid packages the decoder half of Lyra, a generative speech codec, as an
Android library. A Java client hands encoded packets, one per 20 ms of speech,
to native code and plays the audio it gets back. Packets come over a network,
so some do not come; the decoder then makes up audio: for a while it conceals
the loss with estimated features, then it fades over to comfort noise.

```
   Java client                           C++ client
       | init, decodeToBuffer, release       |  SetEncodedPacket, DecodeSamples
       v                                     v
  jni_lyra_decoder ------------------> LyraDecoder --- concealment and fade progress
                                         |    |  \
              packet -> Packet ----------+    |   BufferedResampler -> Resampler
              (unpack)  ResidualVector-       |   (external <-> internal rate)
                        Quantizer             |
                        (decode)              v  per chunk of audio:
       ZeroFeatureEstimator -----> GenerativeModel: LyraGanModel -> TfLiteModelWrapper
       (features of a lost packet)                |  audio of received packets only
                                                  v
                                            NoiseEstimator -> LogMelSpectrogramExtractor
                                                  |  noise estimate
                                                  v
                                   GenerativeModel: ComfortNoiseGenerator
```

### Components

| component | state | operations that change it | what makes it correct |
|---|---|---|---|
| `LyraDecoder` (`lyra/lyra_decoder.{h,cc}`) | `concealment_progress_`, `fade_progress_`, `fade_direction_`, and the components it owns | `SetEncodedPacket`, `DecodeSamples` | every request is filled; received audio starts at the first hop boundary of the concealment and all of it is played; noise fades in exactly after the concealment; the counters mean what the header says |
| `GenerativeModel` (`lyra/generative_model_interface.h`), base of both generators | `features_queue_`, `next_sample_in_hop_` | `AddFeatures`, `GenerateSamples` | every sample of every feature vector once, in order, never across a hop |
| `LyraGanModel` (`lyra/lyra_gan_model.{h,cc}`) | the output tensor of its interpreter | `RunConditioning`, `RunModel` | samples are read of features that were conditioned |
| `ComfortNoiseGenerator` (`lyra/comfort_noise_generator.{h,cc}`) | `reconstructed_samples_`, the overlap of its inverse spectrogram | `RunConditioning`, `RunModel` | as above; the noise is the overlap-add of one frame per hop; a fade never starts on an old hop |
| `NoiseEstimator` (`lyra/noise_estimator.{h,cc}`) | hop buffer, `smoothed_power_`, `tmp_min_smoothed_power_`, `noise_estimate_`, `noise_bound_`, `num_hops_received_`, `is_noise_` | `ReceiveSamples` | every hop is looked at once, in the window that ends with it; the estimate is the minimum over two windows of updates; the bounds do not lock learning out |
| `LogMelSpectrogramExtractor` (`lyra/log_mel_spectrogram_extractor_impl.{h,cc}`) | the window its spectrogram slides over the audio | `Extract` | each hop completes one window |
| `ZeroFeatureEstimator` (`lyra/zero_feature_estimator.h`) | none | `Update`, `Estimate` | – |
| `BufferedResampler` (`lyra/buffered_resampler.{h,cc}`) | `leftover_samples_` | `FilterAndBuffer` | requests of any size are filled from a gapless stream; less than one internal sample is left over |
| `Resampler` (`lyra/resampler.{h,cc}`) | the filter of the audio library | `Resample`, `Reset` | returns the samples its input is worth |
| creation (`LyraDecoder::Create`, `lyra/lyra_components.{h,cc}`) | which part is next | `Create` | the parts of a decoder fit together; what a client passes makes no CHECK fail |
| JNI entry points (`lyra/jni_lyra_decoder.cc`) | the decoder a Java object points to | `init`, `decodeToBuffer`, `release` | a client hears the packets it hands over, at once and nothing else |
| `Packet` (`lyra/packet.h`) | none | `PackQuantized`, `UnpackPacket` | unpacking undoes packing, at every bitrate |
| configuration (`lyra/lyra_config.{h,cc}`) | none | – | sizes, bitrates and numbers of bits agree; what it lets through, the rest can do |
| `ResidualVectorQuantizer` (`lyra/residual_vector_quantizer.{h,cc}`) | the tensors of its interpreter | `Quantize`, `DecodeToLossyFeatures` | the indices decoded are those encoded, and none of an earlier packet |
| `SoundStreamEncoder` (`lyra/soundstream_encoder.{h,cc}`), the sender's | the tensors of its interpreter | `Extract` | the features are those of the audio it was given |
| `TfLiteModelWrapper` (`lyra/tflite_model_wrapper.{h,cc}`) | the interpreter | `Create`, `Invoke` | a failure is told, but for a delegate that is null (section 6) |
| embedded models, `dsp_utils`, vendored libraries | – | – | see section 6 |

### Interactions and what is hard

Nothing in the decoder runs concurrently: there is no lock and no thread, and
callers make one call at a time. What makes the decoder hard is that *three*
sources of audio with positions of their own in their hops (generative model,
comfort noise generator, noise estimator) are kept in step by two counters, that
packets arrive at any position of a hop, that requests begin and end at any
position, and that each of the three sources refuses, and so fails the whole
call, when a request straddles its hop. In particular:

* **Order of calls.** A packet may come in the middle of a concealed hop, of a
  fade in or out, or of comfort noise; several may come, or none.
* **Partial failure.** A packet may be refused after the progress has moved; a
  generator may refuse after another has moved on; the generator of a
  resampler may fail after leftover samples were taken.
* **Buffers that outlive their call.** Interpreters keep the tensors of the hop or
  the packet before, the comfort noise generator the overlap of earlier frames,
  the feature extractor the end of the audio before. Each is right only if the call
  before it ended as the next one assumes.
* **Equality at boundaries.** `concealment_progress_ == duration`,
  `fade_progress_ == 0` and `remaining % hop == 0` are tested for equality while
  the counters move by chunks of any size.
* **Progress.** The loop of `DecodeSamplesInternal` ends only if every iteration
  makes a sample; concealment must end, and so must comfort noise.
* **Rounding.** Requests at the external rate are divided by the ratio of the
  rates, in floats; durations are products of floats cut off to integers; a packet's bits
  do not fill its last byte.
* **The network.** Packets are lost, repeated and cut short, and their size is all
  that tells their bitrate.

`PROJECT.json` lists each of these hazards at its line with the properties that
are for it.

## 2. Modules

| module | models | used by |
|---|---|---|
| `GenerativeModel` | the FIFO of feature vectors, as operators on a record | `LyraDecoder` (twice), `LyraGanModel`, `ComfortNoiseGenerator` |
| `LyraDecoder` | the packet loss machine at the internal rate | `JniLyraDecoder` |
| `LossConcealment` | abstract: what the decoder promises | refined by `LyraDecoder` |
| `LyraGanModel` | one generator with an arbitrary client and a failing interpreter | |
| `SampleStream` | abstract: what a generator promises | refined by `LyraGanModel` (twice) and `ComfortNoiseGenerator` |
| `ComfortNoiseGenerator` | the other generator: frames of noise and their overlap | |
| `BufferedResampler` | the numbers of samples of one `FilterAndBuffer` | `ResampledStream`, `JniLyraDecoder` |
| `ResampledStream` | a resampler with an arbitrary client and generator | |
| `JniLyraDecoder` | composition: decoder behind resampler, C++ and Android clients | |
| `PacketFormat` | bits of indices and packets, sizes and bitrates, as operators | `PacketChannel` |
| `PacketChannel` | packets from the sender's encoder over a network to the decoder's quantizer | |
| `MCPacketChannel` | the audio of the sender for TLC | |
| `LogMelSpectrogramExtractor` | the window over the audio, as operators on a record | `NoiseEstimator` |
| `NoiseEstimator` | hops of audio, minimum statistics, bounds | |
| `FloatArithmetic` | products, quotients and roundings of floats, as operators | `LyraDecoderCreation` |
| `LyraDecoderCreation` | the life of a decoder: parameters, parts, libraries that fail, release | |
| `MCLyraDecoderCreation` | the model files and requests of a client for TLC | |
| `HopArithmetic` | lemmas about hops and positions, about what a queue owes its client, and about what the methods of a `GenerativeModel` do to it | the proofs of the decoder and of both generators |
| `LyraDecoderProofs` | theorems about `LyraDecoder`, alone and behind its resampler (`JniLyraDecoder`) | |
| `LyraDecoderCreationProofs`, `ResampledStreamProofs`, `LyraGanModelProofs`, `ComfortNoiseGeneratorProofs`, `PacketChannelProofs`, `NoiseEstimatorProofs` | theorems about the module of the same name | |

Each run uses the module that owns its specification, or an `MC` module that extends
it where a constant needs a definition; the configurations
`MC*.cfg` give the constants their values. Definitions commented "Faulty variant" are not part of a
specification: each is a plausible bug in the definition that follows it, with
which some property is shown to fail (`"mutants"` in `PROJECT.json`), so that no
property holds merely by the shape of the model.

### LyraDecoder

| variable | code |
|---|---|
| `generative_model`, `comfort_noise_generator` | the two `GenerativeModel`s: `features_queue_`, `next_sample_in_hop_`, and whose samples are in the buffer |
| `noise_samples` | `next_sample_in_hop_` of `noise_estimator_` |
| `concealment_progress`, `fade_progress`, `fade_direction` | the members of these names |
| `remaining` | `num_samples - result.size()` of the running `DecodeSamplesInternal` |
| `reply` | what the last call returned |
| `output` | the last chunk: its features, and whether the noise estimator heard it |
| `lost` (history) | samples played since the last one of a received packet |

Features are abstracted to where they come from (`Received`, `Estimated`,
`Noise`), samples to their number. Actions:

| action | code |
|---|---|
| `SetEncodedPacket` | the call up to `AddFeatures`, returning true |
| `SetUnsupportedPacket` | refused because of its size, before anything changed |
| `SetUndecodablePacket` | refused by the quantizer, after the progress moved |
| `DecodeSamples(n)` | the beginning of the call: `n` samples are to be made |
| `DecodeChunk` | one iteration of the loop, all of it: number of samples, directions, both generators, crossfade, noise estimator |
| `GenerativeModelFails`, `ComfortNoiseFails`, `NoiseEstimatorFails` | an iteration that ends the call with `nullopt`, with the state changes made up to there |

An iteration is atomic because nothing can happen between its steps. That the
loop is split at all lets a property talk about every chunk.

`LossConcealment` says what a client may rely on without generators and
counters: a backlog, the loss so far, the share of comfort noise. The
refinement mapping is `backlog <- ReceivedBacklog`, `fade <- fade_progress`;
`lost` and `remaining` keep their names.

### LyraGanModel

`model` is the record of `GenerativeModel`, whose field `hop` names the features
whose samples the output tensor holds. The client adds features and asks for
-1 to `NumSamplesPerHop + 1` samples in any order. `GenerateFromStaleTensor` is
the call in which `Invoke` fails at the beginning of a hop; the history `spoilt`
remembers it until a hop is conditioned again. The mapping to `SampleStream`
computes what is owed from queue and position. There are two: with the
features, a step is one of `SampleStream` unless the hop is spoilt; with the
features forgotten, every step is.

### ComfortNoiseGenerator

The same client with the other generator. `model` is its queue and position,
`working_output` and `reconstructed_samples` are the two buffers. A sample of noise is
the set of pairs *(age of a frame, index in it)* that were added up in it, so
that a frame that is cut off, shifted, missing or counted twice shows, and ages, unlike
numbers of frames, stay finite. `MakeFrame` is `RunConditioning`: it
happens in every call that begins a hop, those that are then refused included, as
in the code. The histories `frames` and `played` name the features of the frames made
and of the hops begun. A frame is `FftSize` samples, the power of two not below the
window, and overlaps the next by `FftSize - NumSamplesPerHop`: 1024 and 704 in
the code, with a hop of 320.

### BufferedResampler, ResampledStream, JniLyraDecoder

`FilterAndBuffer` is one action: the generator runs inside it and does not call
back. In `ResampledStream` a sample is its index in the resampled stream modulo
`Period`, so that lost, repeated and reordered samples show. In
`JniLyraDecoder` the buffer is its length only, and the generator is the
decoder: `RequestSamples` computes the internal request and begins
`DecodeSamplesInternal`, `Decode` is one iteration, `ReturnSamples` and
`ReturnNothing` end the call. `decodeToBuffer` is an accepted packet followed by
a request for `NumSamplesPerPacket`; the variable `android` says whether the
calls since `init` have been of that form. The same decoder serves clients of
all kinds, so the Android client is checked against whatever the code does, not
against a decoder of its own. `Recreate` is `release` followed by `init`.

### PacketFormat, PacketChannel

A bitset is a function from positions to bits, a string of bits a sequence with
the most significant first, and each shift is done by position, its sign
included. In `PacketChannel` one packet at a time is on its way:

| action | code |
|---|---|
| `Send` | `SoundStreamEncoder::Extract`, `Quantize` at a bitrate of the sender's choice, `PackQuantized` |
| `SendNothing` | one of them fails; the output tensor may have been written |
| `Lose`, `CutShort` | the network |
| `Refuse`, `Decode`, `DecodingFails` | `SetEncodedPacket` and `DecodeToLossyFeatures`, with the input tensor `encoding_indices` written or not; the packet may stay, to be delivered again |

The encoder's output tensor and the quantizer's input tensor are variables: what goes
wrong from one packet to the next goes through them. Audio is the indices
that a quantizer with all its stages gives it. `Send` composes the sender's half of
the classes here as the headers describe it; the program that calls them is
not in this repository.

### LogMelSpectrogramExtractor, NoiseEstimator

The extractor is a record of what its `Spectrogram` keeps: the end of the audio
so far and the number of samples missing from the next window. Samples are known by
their age. `Create` runs the window of silence through it, as the code does, and
`HasFeatures` is the condition under which `Extract` returns anything.

In `NoiseEstimator` the powers of a window are any powers: levels 1 to
`MaxPower` of an ordered scale. The smoothing factor of a
band lies between 0 and 1, so the smoothed power is any level between the old
and the current one; a new bound, which is a function of the spread of the
powers, is any distance; the decay, a factor below 1, is a step down. `features`,
`power` and `smoothed_powers` are histories: they let the window be compared with the
audio received, and the incremental minimum with the minimum it stands for.

### FloatArithmetic, LyraDecoderCreation

`LyraDecoderCreation` is the life of a decoder. `StartCreate` checks the parameters;
`CreatePart` and `FailPart` are the creation of the part whose turn it is, in the
order of `LyraDecoder::Create`, with any answers the libraries below may give
(`Libraries`); `DecodeSamples` and `ReturnSamples` are a request, of which only its
counting is modelled; `Release` deletes the decoder. `ended` tells what ended the
process, a CHECK that fails or a null delegate that is used (`UseNullDelegate`), and
nothing follows either. A set of model files is a record of what the
code reads of it; any record is possible. `NumSamplesPerHop` and `NumFeatures` are the
sizes the parts are made with, the arguments in `Create` or the sizes of tensors.
`FilesOfThisVersionFit` is what the comment at `kVersionMinor`
(`lyra/lyra_config.cc:29-31`) asks of whoever makes the files. It is a premise inside
`PartsFitTogether`, for the conjuncts about files only, and no assumption of the module:
the code compares one identifier, and no size. `FloatArithmetic` computes with numbers *m 2^e* whose mantissas
are rounded, half to even, after each operation; `MaxPower` bounds the powers of two it takes.

## 3. Runs

| run | configuration | question and answer |
|---|---|---|
| `decoder` | `MCLyraDecoder` | With decodable packets the decoder implements `LossConcealment`, its counters mean what the header says, no call fails, the noise estimator hears received audio only, a fade never starts on old noise; calls return, accepted packets are played, silence ends in comfort noise. It also checks the inductive invariant of the proofs. |
| `decoder_faulty` | `MCLyraDecoderFaulty` | With undecodable packets calls may fail, but no made-up features pile up, every iteration of the loop makes progress and no call hangs; and while whole hops are asked for, the sources keep in step and no call fails. |
| `decoder_faulty_progress` | `MCLyraDecoderFaultyProgress` | *Violated*: the progress keeps its documented meaning (finding 1). |
| `decoder_faulty_audio` | `MCLyraDecoderFaultyAudio` | *Violated*: once packets are decodable again, audio comes again (finding 2). |
| `gan_model` | `MCLyraGanModel` | Whatever a client adds and asks for, all samples come once and in order; refused calls lose nothing. A failing interpreter spoils the sound of its hop only: the samples are still as many, at the right places, and the next hop is its own again. |
| `gan_model_stale` | `MCLyraGanModelStale` | *Violated*: samples are only read of conditioned features (finding 3). |
| `resampler` | `MCResampledStream` | Requests of any size are filled from a gapless stream, also after failures, which cost what was taken from the buffer and nothing else. |
| `jni` | `MCJniLyraDecoder` | The whole decoder: with undecodable packets among them, an Android client hears exactly the packets that were accepted, failures below do not disturb the resampler, calls return. |
| `packet` | `MCPacketChannel` | What is decoded is what was sent, at three bitrates, although packets are lost, repeated and cut and interpreters fail; a packet cut to the size of a lower bitrate decodes to the first quantizers of its audio. |
| `noise` | `MCNoiseEstimator` | Each hop is looked at once, in the window that ends with it, whatever pieces it comes in; the incremental minimum is the minimum of the last two windows; the decay of the bounds ends every "all is noise". |
| `comfort_noise` | `MCComfortNoiseGenerator` | The noise is the overlap-add of all frames; one frame is made for each hop played, in order, and a refused request that straddles a hop adds one of its own; what is handed out keeps a generator's promise. |
| `creation` | `MCLyraDecoderCreation` | No sample rate, file, failure or request makes a CHECK on the hop, the ratio of the rates or the durations fail; a packet takes exactly one hop at every supported rate, and the parts agree on hops and features, those from files if files of this version keep their promise; floats count samples exactly. |

### Bounds and why they are enough

*decoder.* A hop is 4 samples, concealment 16, the fade 8: the code's
proportions at 16 kHz (320, 1280, 640). All comparisons in the code are
between multiples of the hop or inside one hop, so a longer hop adds positions
and no case. Requests of 1, 2, 3 and 6 samples begin and end at every position
and straddle hops. `MaxBacklog` = 3 allows a concealed hop and two packets behind
it. `lost` is counted up to one hop beyond pure comfort noise and then
wraps by a hop, which neither changes the position in the hop nor any comparison.
`MaxProgress` does not bind here, for the progress stays within the
concealment duration (`TypeOK`). About 1400 states.

*decoder_faulty_progress, decoder_faulty_audio.* A hop of 2, concealment 4, fade 2 and requests of 1 and 3 are
the least in which all phases and odd positions exist. The progresses can leave
their ranges after a failure and grow; `MaxProgress` stops calls of
`DecodeSamples` beyond it, a bound that only removes behaviours. Hence the
violations are real behaviours, and the safety properties are checked up to the
bound. *decoder_faulty* has the code's proportions
again (hop 2, concealment 8, fade 4) and requests of 1, 3 and 4 samples: odd
positions, and two whole hops at a time; about 11200 states.

*gan_model…* Two kinds of features and a queue of three suffice to tell order,
repetition and loss apart; the hop of 4 has a beginning, an inside and an end.

*resampler.* Three times the rate is the ratio with the largest rounding
(16 kHz to 48 kHz); `Requests` has 0, multiples of 3 and both remainders.
`Period` = 24 exceeds every reply and buffer together. The other ratios are
covered by the proofs.

*jni.* A hop of 2 at three times the rate; `ExternalRequests` {1, 4, 5} leave
every remainder in the buffer; undecodable packets are allowed. About 11000
states.

*packet.* Bytes of 3 bits, a header of 4 bits, which is more than a byte, and 2, 4
and 6 quantized bits in quantizers of 2: packets of 2, 3 and 4 bytes with 0, 1 and 2 bits of
padding. Each bit is moved on its own, so the audio of `MCPacketChannel` is all
indices that differ in at most one bit from all zeros or from all ones: a bit that is moved
to a wrong place, lost or made up shows in one of them, and any two consecutive ones tell
whether anything is left of an earlier packet. In the code a byte has 8
bits, there is no header (`kNumHeaderBits` is 0) and 64, 120, 184 quantized bits fill
their bytes; the smaller format exercises the shifts that the code has for all
other formats. About 12900 states.

*noise.* Two bands, two levels besides 0, hops of 2 samples, windows of 4 samples and of 2
updates. Two windows of two updates are the shortest in which an update leaves
the estimate at the right time rather than at once; two bands let a hop be noise
in one and not in the other; chunks of 1 and 2 fill a hop, split it and
overflow it. A window of two hops is the code's. About 32000 states.

*comfort_noise.* A hop of 3 and a window of 6, which make a frame of 8: like the
code's 320, 640 and 1024, a window of two hops and a frame that is longer than the
window and no whole number of hops. `MaxFrames` is how many frames can sound at a time, so
nothing older is needed of the histories. About 3100 states.

*creation.* The four supported sample rates and three others that are common, published
files, files of other versions with another hop or other features, files that do not parse and a
quantizer without a signature, each answer of each library. Requests up to 1023 with
mantissas of 10 bits stand for requests below 2^24 samples (17 minutes
at 16 kHz, 6 at 48 kHz) with the 24 bits of a float: requests are whole numbers in their
floats (`RequestAssumption`). Beyond it the property is false, as it is for real
floats: with 10 bits, at 48 kHz, 78 of the requests 1024 to 1500 are counted wrong. The
durations are computed with the 24 bits they have. `MaxPower` = 30 is what the mantissas
of the durations need, and what TLC's integers hold. `FloatsAlwaysCountExactly` (section 4) says the same of
24 bits, with `MaxPower` = 48, and of any other precision from 10 bits, in which the samples of a packet are whole
numbers at every rate. All files of this version keep `FilesOfThisVersionFit`, so the run looks at all
of `PartsFitTogether`: it shows that the identifier is compared before a decoder is handed out.
`NoCheckFails` is about the CHECKs this module has: those of `buffered_resampler.cc:80` and `lyra_decoder.cc:315` ask
that a call makes as many samples as it was to, which every iteration of the loop does
(`IterationsMakeProgress`), and the one of `CopyNewSamples` is `RequestsAreFilled`. Deadlock is not
checked, because the process may end (`UseNullDelegate`). About
4200 states.

### Fairness

* `LoopFairness`, and its like in `JniFairSpec`: weak fairness of an iteration.
  A thread that runs in the loop goes on running; nothing in it waits.
* `PlayerFairness`: the application keeps asking for audio. A player has to fill
  its output buffer whether packets come or not. No fairness is assumed of
  packets: they need not come. `PacketsArePlayed` and
  `SilenceBecomesComfortNoise` need it, `DecodeSamplesReturns` does not.
* `FairSpec` of `NoiseEstimator`: hops get complete again and again. Nothing is
  assumed about what they contain, nor about chunks that are refused in between.

## 4. Proofs

TLAPS checks the following for *all* values of the constants that satisfy the
named assumptions of the modules. Every invariant and every action property that holds in a
run is proved, and so are the four refinements; what is left to TLC is liveness.

**Decoder** (`LyraDecoderProofs`), under `HopAssumption`, `DurationAssumption`,
`CallAssumption`. The first group has `~QuantizerMayFail` as an explicit hypothesis, because
findings 1 and 2 show these theorems to be false without it; the second has not.

| theorem | statement |
|---|---|
| `InvariantHolds` | `Spec => []DecoderInvariant` |
| `TypeCorrect`, `NeverFails`, `ProgressIsLoss`, `FadeIsLoss`, `EstimatorHears`, `NoiseIsFresh` | the safety properties of run `decoder` |
| `KeepsPromise` | `Spec => ConcealsLoss`: the decoder implements `LossConcealment` |
| `EstimatesStayShort` | `Spec => []EstimatesNeverPileUp`, undecodable packets or not |
| `LoopShortens` | `Spec => IterationsMakeProgress`: the loop's variant, undecodable packets or not |
| `WholeHopsStayInStep` | `Spec => WholeHopsKeepInStep`, undecodable packets or not |

The argument. That no call fails is not inductive: it needs to be known that all
sources are at the same position of the hop, which needs the shape of the queue,
which needs what the progress means. `DecoderInvariant` has these parts:

* `QueueInvariant`: the queue of the generative model is received packets,
  behind at most one vector of estimated features, which is there exactly while
  a concealed hop has been played in part;
* `PositionInvariant`: generative model, comfort noise generator and noise
  estimator are at the position `Phase` if they take part in the hop and at its
  beginning if not, and hold the features of the hop they are in;
* `FadeInvariant`: fading in, the share of noise is the loss beyond the
  concealment; fading out, noise ends at a hop boundary
  (`(fade_progress + Phase) % NumSamplesPerHop = 0`) and before the next could begin
  (`fade_progress + lost <= FadeDuration`), which is where
  `FadeDuration <= ConcealmentDuration` is needed;
* `ProgressTracksLoss`, `DecodingNeverFails`, `OutputInvariant`, `TypeOK`.

One lemma per part shows that an iteration preserves it; the cases are the
three kinds of audio (received, concealed, noise) and whether the chunk ends its
hop. `HopArithmetic` proves the facts about remainders and boundaries on
which they rest. `KeepsPromise` shows every iteration to be a
`PlayReceived` or `Conceal` step, from the same invariant.

Once packets may be undecodable, the positions of the three sources are no longer
tied to each other nor to the progress. What survives is `FailureInvariant`,
weaker and about fewer things: the queue has estimated features at its front only, because
an iteration adds some only to an empty queue, and each iteration that is refused
half-way leaves at most what it added. It also bounds what is left in a hop, wherever the
sources are, from which `LoopShortens` follows. `WholeHopsKeepInStep` is proved from
`InStep`: as long as only whole hops have been requested, every source is at the
beginning of a hop before and after each iteration, and so is the progress, whatever failed
in between, because each of the three numbers whose minimum a chunk is, is then a whole number of
hops; and a source that is at the beginning of a hop refuses nothing.

**The whole decoder** (`LyraDecoderProofs`, second half), under the assumptions of the decoder and of the
resampler, for every pair of sample rates:

| theorem | statement |
|---|---|
| `LeftoverStaysShort` | `JniSpec => []LeftoverIsPartOfASample` |
| `AndroidHears` | `JniSpec => []AndroidHearsItsPackets` |
| `ComposedInvariantHolds` | `~QuantizerMayFail` implies `JniSpec => []DecoderInvariant`: nothing the resampler asks for, and no `release` and `init`, breaks the decoder's invariant |
| `ClientsGetAudio` | `~QuantizerMayFail` implies `JniSpec => [][~ReturnNothing]_jniVars`: no request of any client is answered by nullopt |

`AndroidHears` holds with undecodable packets too. Its invariant says that between the calls of an
Android client the queue is empty, all sources are at the beginning of a hop and the
buffer is empty, for a packet at the client's rate is exactly a hop; within
`decodeToBuffer`, that what remains to be made is the hop of the packet. A rejected
packet leaves the queue empty, and the call ends before anything is requested.

**Resampler** (`ResampledStreamProofs`), under `RatioAssumption` and
`StreamAssumption` only, failures of the generator included, for every ratio
up or down:

| theorem | statement |
|---|---|
| `InvariantHolds` | `Spec => []StreamInvariant` |
| `BufferFits`, `BufferIsDue`, `RequestsFilled` | the invariants of run `resampler`; the third is the `CHECK_GE` of `CopyNewSamples` |
| `Continues` | `Spec => StreamContinues`: replies carry on where the last one ended |

The argument. `StreamInvariant` says that the buffer is the piece of the stream
from what the client is due up to where the resampler goes on, shorter than an
internal sample's worth. The quotient rounded up is at least what is needed and
less than one internal sample more (`RoundedUp`), so the buffer stays short; and
taking pieces off a stream and putting pieces onto it are lemmas about
`StreamFrom` and `SubSeq`, modulo `Period`.

**Generators** (`LyraGanModelProofs`, `ComfortNoiseGeneratorProofs`), under `HopAssumption` and,
for the noise, `NoiseAssumption` and `PowersOfTwo`, with a client that asks for anything:

| theorem | statement |
|---|---|
| `InvariantHolds`, `TypeCorrect` | `Spec => []StreamInvariant`, `Spec => []TypeOK` of `LyraGanModel` |
| `StreamsInOrder`, `StreamsInTime` | the two refinements of `SampleStream`, with the features, up to hops the interpreter spoilt, and with the features forgotten, always |
| `NoiseInvariantHolds` | `Spec => []NoiseInvariant` of `ComfortNoiseGenerator` |
| `NoiseAddsUp`, `NoiseIsAStream`, `HopsHaveFrames` | `[]NoiseIsOverlapAdd`, the refinement `NoiseStreamsInOrder`, `[]EveryHopHasItsFrame` |

The argument. The samples owed are a function of queue and position (`Owed` in
`HopArithmetic`), and three lemmas say what happens to them: features append a hop
(`OwedAppend`), the next samples are those of the features in front
(`OwedFront`), and moving through the hop, its end included, is cutting them off
(`OwedRest`); `Queued`, `Played` and `Conditioned` say the same of the methods of a
`GenerativeModel`. Every call is then one of three kinds of steps, which are those of
`SampleStream`. What a generator adds is why the samples that come out of the *buffer*
are those the *queue* owes: in the middle of a hop its features are still in front,
and the buffer is theirs. For `LyraGanModel` this holds unless the interpreter failed for
this hop. For the noise it is that the newest frame is theirs (`NewestFrameIsOfTheHop`), and
it holds although refused calls make frames of their own, because they do so
only at the beginning of a hop.

That the buffers hold the overlap-add is one step of induction over frames:
`NextSum` shows that the sum as it was a hop further on, each frame one older, is what the
next frame is added to, and that nothing the histories have forgotten could still reach into it
(`FramesReach`). It is stated for any hop and window, so that a frame needs to be no whole
number of hops. `HopsHaveFrames` counts the heard frames: a frame put before the
others moves each of them by one (`HeardBefore`), as the hop that was begun does
with the others, and one for a refused call does not count.

**Packets** (`PacketChannelProofs`), under `FormatAssumption`, for any number of bits in a byte, in a
header and in a quantizer, any set of bitrates and any audio:

| theorem | statement |
|---|---|
| `ChannelInvariantHolds` | `Spec => []ChannelInvariant` |
| `OnlyWhatWasSent`, `WholePacketsAreDecoded` | `Spec => []ReceivedIsSent`, `Spec => WholePacketsArrive` |

The argument follows the data: a bit of an index is put at a place in the quantized bits
(most significant quantizer first), that at a place in a byte, and taking both apart again finds
it there; the shift of the last byte, whose direction depends on the sizes, is the same on both
sides. `ChannelInvariant` says that the encoder's tensor holds the latest audio, and that a
packet on its way is the front of the one made of it; one that was cut to the size of a lower
bitrate is then the packet of that bitrate, because the first quantizers come first.

The proof found a gap in `FormatAssumption`, which used to allow quantizers of one bit.
The receiver refuses the -1 that `PacketSizeToNumQuantizedBits` answers to a size no bitrate has, but a
sender that hands the -1 of `BitrateToNumQuantizedBits` to `Quantize` is stopped by nothing but the test
for a multiple of `bits_per_quantizer_` (`lyra/residual_vector_quantizer.cc:86`), and every number is a
multiple of one. The assumption now asks for two bits.

**Noise estimator** (`NoiseEstimatorProofs`), under the assumptions of `LogMelSpectrogramExtractor` and
`NoiseEstimator`, for any hop, window, number of bands and of updates:

| theorem | statement |
|---|---|
| `WindowInvariantHolds`, `FeaturesAreOfTheAudio` | `Spec => []WindowInvariant`, `Spec => []FeaturesAreOfTheLastWindow` |
| `MinimumInvariantHolds`, `EstimateIsMinimum` | `Spec => []MinimumInvariant`, `Spec => []EstimateIsWindowMinimum` |

`WindowInvariant` ties the position of the window to the samples that wait for a hop: the next window is
due exactly when the hop is complete, which the window of silence run through the extractor by
`Create` starts off. `MinimumInvariant` says of which updates each of the two
minima is the minimum; that the two windows change roles when the counter wraps is
where the estimate alone would not be inductive.

**Creation** (`LyraDecoderCreationProofs`), under `RequestAssumption` and the
assumptions of `FloatArithmetic`, for every set of sample rates, numbers of channels, model files and answers
of the libraries, and for mantissas of any number of bits from 10, with requests that are whole
numbers in them:

| theorem | statement |
|---|---|
| `CreationIsInvariant` | `Spec => []CreationInvariant` |
| `NoCheckEverFails`, `PartsAlwaysFitTogether`, `FloatsAlwaysCountExactly` | the three invariants of run `creation` |

The argument. `CreationInvariant` adds to the first and the third of them that the parameters of a decoder that
exists or is being created passed `AreParamsSupported`, and that only a decoder in use has a request: so nothing changes the
rate while a request divides by it. `PartsFitTogether` follows from it: that a packet is a hop is shown rate by rate (`PacketIsHop`), with
the floats counted by `NumbersAreCounted`; of the parts made from files it is said under
`FilesOfThisVersionFit`, and follows because the identifier was compared
(`SupportedPartsFit`). The premise is in the property, so the theorem makes no
claim about files that break the promise. Most of the module is arithmetic:

* *Durations* (`Hundredths`, `Durations`). The constants 0.08 and 0.04 are no binary fractions; rounded
  to 24 bits, multiplied by the internal rate and cut off, they are the whole hops the CHECKs ask for.
* *Ratios* (`RatesAreExact`, `RatioOfRate`). A supported rate is 125 times a power of two, or 375 times
  one, and the internal rate is of the first kind, so their ratio is a half, 1, 2 or 3, and exact
  in the floats: 375 has 9 bits.
* *Requests* (`RoundedUpQuotient`, `QuotientWithFraction`, `QuotientWithoutFraction`, `CeilingOfRequest`).
  A request is an odd number times a power of two, and fits. Its quotient by the ratio is scaled by the one
  power that gives it its number of bits (`HighestPower`, `QuotientOfFloats`) and rounded. If the scaled
  quotient still reaches below the point, whole numbers lie on its grid, and rounding moves a
  number to the nearest point of the grid and so never past a whole one (`NearestIsNear`, `RatioBounds`); if it
  does not, nothing is rounded off, because the ratio is a power of two. Either way
  the ceiling is that of the exact quotient.

What the searches for powers find has to be shown to exist. The library's induction theorems
cannot be instantiated, so `InductionUpTo` is proved as a lemma about *sets* of numbers: a set that has 0 and with a number
its successor has all, because the least number outside it (`LeastNumber`, from the
well-foundedness of the numbers) could not be 0 nor a successor.

**Assumptions that are facts.** `PowersOfTwo`, in `FloatArithmetic` and in `ComfortNoiseGenerator`, says
what exponentiation is, `2^(k+1) = 2 * 2^k`, for as many powers as are used; the prover has no definition
of it. TLC evaluates it for the constants of the runs. All else about powers is proved from it: that they are
numbers and grow, that there is a highest one in every number, and that one lies between the window of the
comfort noise generator and twice the window (`PowerOfTheWindow`).

**Only model-checked**: liveness, that is, `DecodeSamplesReturns`, `PacketsArePlayed`,
`SilenceBecomesComfortNoise`, `CallsReturn` and `BoundsGiveWay`, because the prover knows neither
fairness nor `ENABLED`. What can be said without them is proved: `LoopShortens` is the variant
behind the first of these.

No module declares a `RECURSIVE` operator.

## 5. Findings

1. `lyra/lyra_decoder.cc:193`. `SetEncodedPacket` moves `concealment_progress_` to
   minus the rest of the concealment and only then finds out that the quantizer
   cannot decode the packet. It returns false and the progress stays moved,
   although by its comment (`lyra/lyra_decoder.h:151-153`) a negative value
   announces a received packet. The loss so far is forgotten and
   concealment begins anew. Run `decoder_faulty_progress`.
2. `lyra/lyra_decoder.cc:191`. If that happens in comfort noise in the
   middle of a hop, generative model and comfort noise generator go on at
   different positions. With requests that do not end on hops they may never meet
   again, and every call returns nullopt for good, although the
   header (`lyra/lyra_decoder.h:69-71`) promises samples in packet loss mode. Run
   `decoder_faulty_audio`; `WholeHopsKeepInStep`, checked in run `decoder_faulty` and
   proved for all durations (`WholeHopsStayInStep`), says that a client which asks for
   whole hops, like the Android client, is not affected.
3. `lyra/lyra_gan_model.cc:56`. `RunConditioning` does not look at the result of
   `Invoke`, so `RunModel` may read samples of older features, against its
   comment in `lyra/generative_model_interface.h:120-121`. Run `gan_model_stale`;
   `gan_model` shows that the damage is a hop of wrong sound, never a wrong number of
   samples and nothing of the hops that follow.

## 6. What is not modelled

* *A comfort noise generator whose conditioning fails and, in `LyraDecoder`, a noise
  estimator whose feature extraction fails.* `InverseSpectrogram::Process` refuses only
  if it was never initialized, which `Create` excludes; that `Extract` never refuses a
  hop is `FeaturesAreOfTheLastWindow` of `NoiseEstimator`. Nor features of a
  wrong size inside the decoder; the generators' own models have them.
* *What is left of a decoder that could not be created.* The parts made so far are owned
  by `unique_ptr`s of `LyraDecoder::Create`, so an early return deletes them: a
  guarantee of the language, which a model could only assume.
* *What follows a null XNNPack delegate* (`lyra/tflite_model_wrapper.cc:69-75`). The flags of
  the delegate are set before anything looks at the pointer; `UseNullDelegate` ends
  the process there. Nothing in the repository says what should happen.
* *Overlapping calls and released pointers* at the JNI boundary: the interface
  rules them out and the code has no defence to model.
* *Requests of no or negative numbers of samples* to `LyraDecoder`; the
  resampler's models have requests of 0, the generators' models both.
* *Values of samples*: networks, spectra, random phases, clipping, the window of
  the crossfade, `dsp_utils`. They are functions of one sample or one vector, and no control
  flow depends on them but the noise decision, which is over levels.
* *Requests of 2^24 samples and more*, for which the float quotient of
  `BufferedResampler` is wrong (section 3); below it, it is proved right.
* *Down-sampling* in `JniLyraDecoder`; the proofs about the resampler cover it.
* *`Packet::Create`*, whose refusal of too many bits is an assumption of
  `PacketFormat`, and *the creation of a `SoundStreamEncoder`*, which nothing here calls.
* *The program of the sender*, which is not in this repository: `PacketChannel` has the
  calls it can make, not the order it makes them in.
* `src/third_party` is vendored; of it only the window of `Spectrogram` and
  the overlap of `InverseSpectrogram` are modelled, because state of the decoder is in them.
* The queue of packets has no limit in the code; the models bound it by name. What
  an Android client relies on, that it holds no packet but the one just handed
  over, is part of `AndroidHearsItsPackets`.
* *A caller who retries* a packet after a buffer that was too small (-6): nothing
  says what it should do, and the decoder takes the repeated packet for a new one.

## 7. Plan

Done, in this order: the FIFO (`GenerativeModel`), the decoder with its promise
and its proofs, the generator with an arbitrary client, the resampler with its
proofs, the composition, packets, the noise estimator; then the sender and the network
around the packets, the feature extractor under the noise estimator, the comfort
noise generator, the creation of a decoder and its floats.

Then the proofs: the decoder with undecodable packets, the decoder behind its resampler, both
generators as streams, packets, the noise estimator, creation and its floats, the variant of the loop.

Next, extending the models:

* the spread of the powers from which `NoiseEstimator` makes its bounds, and
  the estimator composed with the decoder in place of its position;
* down-sampling in `JniLyraDecoder`.
