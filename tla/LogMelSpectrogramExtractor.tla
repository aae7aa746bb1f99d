---------------------- MODULE LogMelSpectrogramExtractor ----------------------
(***************************************************************************)
(* The feature extractor of the noise estimator                            *)
(* (log_mel_spectrogram_extractor_impl.cc) on top of a Spectrogram, which  *)
(* slides a window over everything it has ever been given, call after call.*)
(* The module has no variables: an extractor is a record, and the operators*)
(* say what its methods return and what they leave behind.                 *)
(*                                                                         *)
(*   input_queue           samples kept for windows to come                *)
(*   samples_to_next_step  samples missing from the next window            *)
(*                                                                         *)
(* The features of a window are abstracted to the samples in the window.   *)
(***************************************************************************)
EXTENDS Integers, Sequences

CONSTANTS
  NumSamplesPerHop,       \* hop_length_samples_, the step of the Spectrogram
  NumSamplesPerWindow     \* window_length_

\* Create refuses a window that is shorter than a hop, and Spectrogram a window
\* of fewer than two samples.
ASSUME WindowAssumption ==
  /\ NumSamplesPerHop \in Nat \ {0}
  /\ NumSamplesPerWindow \in Nat
  /\ NumSamplesPerWindow >= NumSamplesPerHop
  /\ NumSamplesPerWindow >= 2

Spectrogram == [input_queue |-> <<>>, samples_to_next_step |-> NumSamplesPerWindow]

-----------------------------------------------------------------------------
(***************************************************************************)
(* ComputeSpectrogram.                                                     *)
(***************************************************************************)

NumSlices(spectrogram, input) ==
  IF Len(input) < spectrogram.samples_to_next_step THEN 0
  ELSE 1 + (Len(input) - spectrogram.samples_to_next_step) \div NumSamplesPerHop

\* Where in input_queue \o input the k-th window ends.
EndOfWindow(spectrogram, k) ==
  Len(spectrogram.input_queue) + spectrogram.samples_to_next_step
    + (k - 1) * NumSamplesPerHop

ComputeSpectrogram(spectrogram, input) ==
  LET samples == spectrogram.input_queue \o input
  IN  [ k \in 1 .. NumSlices(spectrogram, input) |->
          LET end == EndOfWindow(spectrogram, k)
          IN  SubSeq(samples, end - NumSamplesPerWindow + 1, end) ]

\* What a call leaves for the next one: the last window and what follows it.
AfterSpectrogram(spectrogram, input) ==
  LET samples == spectrogram.input_queue \o input
      n       == NumSlices(spectrogram, input)
      end     == EndOfWindow(spectrogram, n)
  IN  IF n = 0
      THEN [ input_queue          |-> samples,
             samples_to_next_step |-> spectrogram.samples_to_next_step - Len(input) ]
      ELSE [ input_queue          |->
               SubSeq(samples, end - NumSamplesPerWindow + 1, Len(samples)),
             samples_to_next_step |-> NumSamplesPerHop - (Len(samples) - end) ]

-----------------------------------------------------------------------------
(***************************************************************************)
(* The extractor.                                                          *)
(***************************************************************************)

\* Faulty variant: the internal queue is not filled in advance.
CreateUnprimed(silence) == Spectrogram

\* "To get a spectrogram for the first audio of hop length samples we first
\* calculate the spectrogram of an empty window to fill the internal queue."
Create(silence) == AfterSpectrogram(Spectrogram, silence)

\* Extract returns features if the hop completes one window exactly.
HasFeatures(extractor, hop) ==
  Len(hop) = NumSamplesPerHop /\ NumSlices(extractor, hop) = 1

Features(extractor, hop) == ComputeSpectrogram(extractor, hop)[1]

\* The hop stays in the queue whether or not there were features; a hop of the
\* wrong size never gets there.
AfterExtract(extractor, hop) ==
  IF Len(hop) = NumSamplesPerHop THEN AfterSpectrogram(extractor, hop) ELSE extractor
=============================================================================
