------------------------- MODULE LyraDecoderCreation -------------------------
(***************************************************************************)
(* The life of a decoder as its client sees it: init of                    *)
(* jni_lyra_decoder.cc creates one with LyraDecoder::Create, which checks  *)
(* the parameters and creates the parts one after the other; the client    *)
(* then asks for audio, and release deletes the decoder.  The client may   *)
(* pass any sample rate, any number of channels and any set of model files,*)
(* and the libraries below may fail at every step.                         *)
(*                                                                         *)
(* A set of model files is abstracted to what the code reads of it.  A     *)
(* CHECK that does not hold ends the process, and so does a null pointer   *)
(* that is used: nothing follows either.                                   *)
(***************************************************************************)
EXTENDS FloatArithmetic, Sequences

CONSTANTS
  SampleRates,     \* sample rates a client may ask for
  Channels,        \* numbers of channels a client may ask for
  ModelFiles,      \* sets of model files a client may have
  Requests,        \* numbers of samples a client may ask for
  MantissaBits     \* of the floats in which requests are divided

kSupportedSampleRates == {8000, 16000, 32000, 48000}
kInternalSampleRateHz == 16000
kFrameRate == 50
kOverlapFactor == 2
kNumChannels == 1
kVersionMinor == 3
kNumFeatures == 64
kNumMelBins == 160
SupportedQuantizedBits == {64, 120, 184}

GetNumSamplesPerHop(sample_rate_hz) == sample_rate_hz \div kFrameRate

GetNumSamplesPerWindow(sample_rate_hz) ==
  kOverlapFactor * GetNumSamplesPerHop(sample_rate_hz)

\* parsed                does lyra_config.binarypb parse?
\* identifier            its identifier
\* num_outputs           size of the output tensor of lyragan.tflite
\* num_features          size of the output tensor of quantizer.tflite's decode runner
\* bits_per_quantizer    what its encode runner says
\* signatures            those it has
ASSUME ModelAssumption ==
  ModelFiles \subseteq
    [ parsed : BOOLEAN, identifier : Nat,
      num_outputs : Nat \ {0}, num_features : Nat \ {0},
      bits_per_quantizer : Nat \ {0}, signatures : SUBSET {"encode", "decode"} ]

\* Requests and the supported sample rates are whole numbers in the floats they
\* are divided in: 48000 = 375 * 2^7, and a packet has up to 960 samples.
ASSUME RequestAssumption ==
  /\ MantissaBits \in Nat /\ MantissaBits >= 10 /\ 2 * MantissaBits <= MaxPower
  /\ Requests \subseteq 1 .. 2^MantissaBits - 1
  /\ SampleRates \subseteq Nat \ {0}

Parts == << "resampler", "generative_model", "comfort_noise_generator",
            "noise_estimator", "vector_quantizer", "feature_estimator" >>

VARIABLES
  params,      \* arguments of the last Create
  stage,       \* index of the part to create next, 0 if no Create is running
  handle,      \* what init returned: does the client have a decoder?
  ended,       \* what ended the process, "no" if nothing did
  requested,   \* the running request of the client, 0 if there is none
  generated    \* the internal samples it takes

vars == << params, stage, handle, ended, requested, generated >>

NoParams == [ sample_rate_hz |-> 0, num_channels |-> 0, models |-> {} ]

Init ==
  /\ params = NoParams
  /\ stage = 0
  /\ handle = FALSE
  /\ ended = "no"
  /\ requested = 0
  /\ generated = 0

-----------------------------------------------------------------------------
(***************************************************************************)
(* LyraDecoder::Create.                                                    *)
(***************************************************************************)

\* Faulty variants: a check of the parameters is missing.
AnySampleRate(sample_rate_hz, num_channels, models) ==
  num_channels = kNumChannels /\ models.parsed /\ models.identifier = kVersionMinor

AnyIdentifier(sample_rate_hz, num_channels, models) ==
  /\ sample_rate_hz \in kSupportedSampleRates
  /\ num_channels = kNumChannels
  /\ models.parsed

AreParamsSupported(sample_rate_hz, num_channels, models) ==
  /\ sample_rate_hz \in kSupportedSampleRates
  /\ num_channels = kNumChannels
  /\ models.parsed
  /\ models.identifier = kVersionMinor

\* init is called, and the parameters are refused or the hop is computed.
StartCreate(sample_rate_hz, num_channels, models) ==
  /\ ended = "no" /\ stage = 0 /\ ~handle
  /\ params' = [ sample_rate_hz |-> sample_rate_hz,
                 num_channels   |-> num_channels,
                 models         |-> models ]
  /\ stage' = IF AreParamsSupported(sample_rate_hz, num_channels, models) THEN 1 ELSE 0
  /\ ended' = IF stage' = 1 /\ kInternalSampleRateHz % kFrameRate # 0 THEN "CHECK" ELSE "no"
  /\ UNCHANGED << handle, requested, generated >>

\* The CHECK_EQs of the constructor of BufferedResampler.
RatioIsWhole ==
  IF params.sample_rate_hz > kInternalSampleRateHz
  THEN params.sample_rate_hz % kInternalSampleRateHz = 0
  ELSE kInternalSampleRateHz % params.sample_rate_hz = 0

\* What the libraries may answer: QResampler whether it is valid, and TensorFlow
\* Lite whether its calls in TfLiteModelWrapper::Create succeed, and those that
\* allocate the tensors of the two runners of the quantizer.
Libraries ==
  [ resampler   : BOOLEAN,
    model       : BOOLEAN,
    num_threads : BOOLEAN,
    interpreter : BOOLEAN,
    delegate    : {"ok", "delegate error", "error", "null"},
    tensors     : BOOLEAN,
    runners     : BOOLEAN ]

\* TfLiteXNNPackDelegateCreate returns null, and its flags are set all the same.
UsesNullDelegate(part, library) ==
  /\ part = "generative_model"
  /\ library.model /\ library.num_threads /\ library.interpreter
  /\ library.delegate = "null"

\* A delegate that cannot be set is done without, other failures are final.
WrapperIsCreated(library, use_xnn) ==
  /\ library.model
  /\ library.num_threads
  /\ library.interpreter
  /\ use_xnn => library.delegate # "error"
  /\ library.tensors

\* NextPowerOfTwo of the window.
FftSize ==
  LET window == GetNumSamplesPerWindow(kInternalSampleRateHz)
  IN  IF 2^Log2(window) = window THEN window ELSE 2 * 2^Log2(window)

\* Whether the parts of the signal processing can be initialized is a matter of
\* constants: MelFilterbank, InverseSpectrogram and Spectrogram.
SignalProcessingFits ==
  /\ kNumMelBins >= 1
  /\ FftSize \div 2 + 1 >= 2
  /\ GetNumSamplesPerHop(kInternalSampleRateHz) >= 1
  /\ GetNumSamplesPerWindow(kInternalSampleRateHz)
       >= GetNumSamplesPerHop(kInternalSampleRateHz)
  /\ GetNumSamplesPerWindow(kInternalSampleRateHz) >= 2

\* The factories of lyra_components.cc and the Create of the other parts.  The
\* quantizer needs its two signatures and tensors for the runner of each.
PartIsCreated(part, library) ==
  CASE part = "resampler"               -> library.resampler
    [] part = "generative_model"        -> WrapperIsCreated(library, TRUE)
    [] part = "comfort_noise_generator" -> SignalProcessingFits
    [] part = "noise_estimator"         -> SignalProcessingFits
    [] part = "vector_quantizer"        -> /\ WrapperIsCreated(library, FALSE)
                                           /\ params.models.signatures = {"encode", "decode"}
                                           /\ library.runners
    [] part = "feature_estimator"       -> TRUE

\* A part is created.  The last one makes the decoder, which init hands out.
CreatePart(library) ==
  /\ ended = "no" /\ stage > 0
  /\ ~UsesNullDelegate(Parts[stage], library)
  /\ PartIsCreated(Parts[stage], library)
  /\ ended' = IF Parts[stage] = "resampler" /\ ~RatioIsWhole THEN "CHECK" ELSE "no"
  /\ stage' = IF stage = Len(Parts) THEN 0 ELSE stage + 1
  /\ handle' = (stage = Len(Parts))
  /\ UNCHANGED << params, requested, generated >>

\* A part cannot be created: Create returns nullptr and init returns 0.
FailPart(library) ==
  /\ ended = "no" /\ stage > 0
  /\ ~UsesNullDelegate(Parts[stage], library)
  /\ ~PartIsCreated(Parts[stage], library)
  /\ stage' = 0
  /\ UNCHANGED << params, handle, ended, requested, generated >>

\* The process ends where the null delegate is used.
UseNullDelegate(library) ==
  /\ ended = "no" /\ stage > 0
  /\ UsesNullDelegate(Parts[stage], library)
  /\ ended' = "null_pointer"
  /\ UNCHANGED << params, stage, handle, requested, generated >>

-----------------------------------------------------------------------------
(***************************************************************************)
(* What the parts of the decoder are made with.                            *)
(***************************************************************************)

\* The samples the generators make, and the estimator takes, as one hop.  The
\* model's is not an argument: its constructor takes the size of the tensor.
NumSamplesPerHop(part) ==
  IF part = "generative_model" THEN params.models.num_outputs
  ELSE GetNumSamplesPerHop(kInternalSampleRateHz)

\* Faulty variant: the estimator is given the features of the comfort noise.
NumFeaturesOfNoise(part) ==
  CASE part = "vector_quantizer"  -> params.models.num_features
    [] part = "generative_model"  -> kNumFeatures
    [] OTHER                      -> kNumMelBins

\* The features each part takes or makes; the quantizer's are those of the tensor.
NumFeatures(part) ==
  CASE part \in {"generative_model", "feature_estimator"}       -> kNumFeatures
    [] part \in {"comfort_noise_generator", "noise_estimator"} -> kNumMelBins
    [] part = "vector_quantizer"                               -> params.models.num_features

-----------------------------------------------------------------------------
(***************************************************************************)
(* The decoder in use.                                                     *)
(***************************************************************************)

\* constexpr int kDurationSamples = kDurationSeconds * kInternalSampleRateHz, with
\* seconds in hundredths and in 24 bits of mantissa.
DurationSamples(hundredths) ==
  Truncated(Product(Quotient(Exactly(hundredths), Exactly(100), 24),
                    Exactly(kInternalSampleRateHz), 24))

ConcealmentDurationSamples == DurationSamples(8)
FadeDurationSamples == DurationSamples(4)

\* The CHECKs of the duration functions.
DurationsAreWholeHops ==
  /\ ConcealmentDurationSamples % GetNumSamplesPerHop(kInternalSampleRateHz) = 0
  /\ FadeDurationSamples % GetNumSamplesPerHop(kInternalSampleRateHz) = 0

\* Faulty variant: the quotient is not rounded up.
NumSamplesTruncated(num_external) ==
  LET ratio == Quotient(Float(params.sample_rate_hz, MantissaBits),
                        Float(kInternalSampleRateHz, MantissaBits), MantissaBits)
  IN  Truncated(Quotient(Float(num_external, MantissaBits), ratio, MantissaBits))

\* GetInternalNumSamplesToGenerate, for samples that are not left over.
InternalNumSamplesToGenerate(num_external) ==
  LET ratio == Quotient(Float(params.sample_rate_hz, MantissaBits),
                        Float(kInternalSampleRateHz, MantissaBits), MantissaBits)
  IN  Ceiling(Quotient(Float(num_external, MantissaBits), ratio, MantissaBits))

\* What decodeToBuffer asks for.
NumSamplesPerPacket == params.sample_rate_hz \div 50

\* DecodeSamples, which looks at the durations whenever samples are needed.
DecodeSamples(num_samples) ==
  /\ ended = "no" /\ handle /\ requested = 0
  /\ requested' = num_samples
  /\ generated' = InternalNumSamplesToGenerate(num_samples)
  /\ ended' = IF DurationsAreWholeHops THEN "no" ELSE "CHECK"
  /\ UNCHANGED << params, stage, handle >>

\* The call returns.
ReturnSamples ==
  /\ ended = "no" /\ requested > 0
  /\ requested' = 0
  /\ generated' = 0
  /\ UNCHANGED << params, stage, handle, ended >>

\* release deletes the decoder with its parts.
Release ==
  /\ ended = "no" /\ handle /\ requested = 0
  /\ handle' = FALSE
  /\ params' = NoParams
  /\ UNCHANGED << stage, ended, requested, generated >>

Next ==
  \/ \E rate \in SampleRates, channels \in Channels, models \in ModelFiles :
       StartCreate(rate, channels, models)
  \/ \E library \in Libraries :
       CreatePart(library) \/ FailPart(library) \/ UseNullDelegate(library)
  \/ \E n \in Requests : DecodeSamples(n)
  \/ ReturnSamples
  \/ Release

Spec == Init /\ [][Next]_vars

-----------------------------------------------------------------------------
(***************************************************************************)
(* Properties.                                                             *)
(***************************************************************************)

\* Whatever a client passes to init and asks for, no CHECK on what it passes ends
\* the process: the sample rates that are let through have whole ratios, the hop
\* is a whole number of samples, and the durations come out of their float
\* products as whole hops (GetNumSamplesPerHop, BufferedResampler,
\* GetConcealmentDurationSamples, GetFadeDurationSamples).
NoCheckFails == ended # "CHECK"

Least(a, b) == IF a <= b THEN a ELSE b

Up   == params.sample_rate_hz \div Least(params.sample_rate_hz, kInternalSampleRateHz)
Down == kInternalSampleRateHz \div Least(params.sample_rate_hz, kInternalSampleRateHz)

Resampling(up, down) == INSTANCE BufferedResampler WITH Up <- up, Down <- down

\* What lyra_config.cc asks of whoever makes the files: "The minor version needs to
\* be increased every time a new version requires a simultaneous change in code and
\* weights", so those with the identifier of this code have the sizes it expects.
FilesOfThisVersionFit ==
  \A models \in ModelFiles :
    models.parsed /\ models.identifier = kVersionMinor =>
      /\ models.num_outputs = GetNumSamplesPerHop(kInternalSampleRateHz)
      /\ models.num_features = kNumFeatures
      /\ \A bits \in SupportedQuantizedBits : bits % models.bits_per_quantizer = 0

\* The parts of a decoder were made for each other, though none of them looks at
\* another.  Those made without files agree on the hop, and whoever makes features
\* makes as many as the generator that takes them.  A packet is a whole number of
\* samples at the client's rate, as many as the resampler makes of a hop, and in
\* floats they take exactly one hop (decodeToBuffer): else every packet would leave
\* a sample over or lack one.  If the files of this version keep their promise,
\* those that were let through fit as well: Create compares the identifier, and
\* looks at no size.  The other modules assume all this of their constants.
PartsFitTogether ==
  handle =>
    LET hop == GetNumSamplesPerHop(kInternalSampleRateHz)
    IN  /\ \A part \in {"comfort_noise_generator", "noise_estimator"} :
             NumSamplesPerHop(part) = hop
        /\ NumFeatures("feature_estimator") = NumFeatures("generative_model")
        /\ NumFeatures("noise_estimator") = NumFeatures("comfort_noise_generator")
        /\ params.sample_rate_hz % kFrameRate = 0
        /\ Resampling(Up, Down)!RatioAssumption
        /\ Resampling(Up, Down)!NumResampled(hop) = NumSamplesPerPacket
        /\ InternalNumSamplesToGenerate(NumSamplesPerPacket) = hop
        /\ ConcealmentDurationSamples = 4 * hop /\ FadeDurationSamples = 2 * hop
        /\ FilesOfThisVersionFit =>
             /\ NumSamplesPerHop("generative_model") = hop
             /\ NumFeatures("vector_quantizer") = NumFeatures("generative_model")
             /\ \A bits \in SupportedQuantizedBits :
                  bits % params.models.bits_per_quantizer = 0

\* A quotient of floats, rounded up, is the quotient rounded up: for requests
\* below 2^MantissaBits no rounding of the floats moves it across a whole number,
\* so the decoder makes neither a sample too few nor one too many
\* (GetInternalNumSamplesToGenerate).
FloatsCountExactly ==
  requested > 0 =>
    generated = Resampling(Up, Down)!InternalSamplesToGenerate(0, requested)
=============================================================================
