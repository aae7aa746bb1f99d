-------------------------- MODULE BufferedResampler --------------------------
(***************************************************************************)
(* How BufferedResampler (buffered_resampler.cc) splits a request between  *)
(* the samples left over from the last one and new ones it has generated   *)
(* and resampled.  Operators on numbers of samples only: ResampledStream   *)
(* uses them for a stream of samples, JniLyraDecoder for the decoder.      *)
(***************************************************************************)
EXTENDS Integers

\* target_sample_rate_hz() is Up / Down times input_sample_rate_hz().
CONSTANTS Up, Down

\* The CHECK_EQs of the constructor: one rate is a multiple of the other.
ASSUME RatioAssumption ==
  /\ Up \in Nat \ {0}
  /\ Down \in Nat \ {0}
  /\ Up = 1 \/ Down = 1

\* Faulty variant: the quotient is rounded down.
RoundedDown(num_leftover, num_requested) ==
  IF num_requested <= num_leftover THEN 0
  ELSE ((num_requested - num_leftover) * Down) \div Up

\* Faulty variant: the samples that are left over are not deducted.
LeftoverIgnored(num_leftover, num_requested) ==
  (num_requested * Down + Up - 1) \div Up

\* GetInternalNumSamplesToGenerate: the division by the ratio, rounded up.
InternalSamplesToGenerate(num_leftover, num_requested) ==
  IF num_requested <= num_leftover THEN 0
  ELSE ((num_requested - num_leftover) * Down + Up - 1) \div Up

\* UseLeftoverSamples
NumLeftoverUsed(num_leftover, num_requested) ==
  IF num_leftover <= num_requested THEN num_leftover ELSE num_requested

\* Resample.  The resampler is primed, so it returns the samples its input is
\* worth, and the buffer only ever asks it for whole ones.
NumResampled(num_internal) == (num_internal * Up) \div Down

\* CopyNewSamples: what is left over after a call that succeeds.
NumLeftoverAfter(num_leftover, num_requested) ==
  LET used     == NumLeftoverUsed(num_leftover, num_requested)
      external == NumResampled(InternalSamplesToGenerate(num_leftover, num_requested))
  IN  num_leftover - used + external - (num_requested - used)
=============================================================================
