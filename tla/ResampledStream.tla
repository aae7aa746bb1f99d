---------------------------- MODULE ResampledStream ----------------------------
(***************************************************************************)
(* A BufferedResampler with an arbitrary client and an arbitrary sample    *)
(* generator, which may fail.  One call of FilterAndBuffer is one action:  *)
(* the generator runs inside the call and does not call back.              *)
(*                                                                         *)
(* A sample at the external rate is its index in the resampled stream,     *)
(* counted modulo Period (bound of the model, longer than what can be in   *)
(* the buffer and in a reply together).                                    *)
(***************************************************************************)
EXTENDS BufferedResampler, Sequences

CONSTANTS Requests, Period

ASSUME StreamAssumption ==
  /\ Requests \subseteq Nat
  /\ Period \in Nat \ {0}
  /\ \A n \in Requests : Period > n + 2 * Up

VARIABLES
  leftover_samples,    \* leftover_samples_
  produced,            \* index of the next sample the resampler will produce
  due,                 \* history: index of the next sample the client is due
  reply                \* the last reply: its samples, or Nullopt

vars == << leftover_samples, produced, due, reply >>

Nullopt == << -1 >>

\* n samples of the stream from index i on.
StreamFrom(i, n) == [ k \in 1 .. n |-> (i + k - 1) % Period ]

Init ==
  /\ leftover_samples = <<>>
  /\ produced = 0
  /\ due = 0
  /\ reply = <<>>

Needed(num_requested) ==
  InternalSamplesToGenerate(Len(leftover_samples), num_requested)

Used(num_requested) == NumLeftoverUsed(Len(leftover_samples), num_requested)

LeftoverUsed(num_requested) == SubSeq(leftover_samples, 1, Used(num_requested))

LeftoverKept(num_requested) ==
  SubSeq(leftover_samples, Used(num_requested) + 1, Len(leftover_samples))

\* Faulty variant: what was used stays in the buffer.
KeepsLeftover(num_requested) ==
  LET external == StreamFrom(produced, NumResampled(Needed(num_requested)))
      missing  == num_requested - Used(num_requested)
  IN  /\ missing <= Len(external)
      /\ reply' = LeftoverUsed(num_requested) \o SubSeq(external, 1, missing)
      /\ leftover_samples' =
           leftover_samples \o SubSeq(external, missing + 1, Len(external))
      /\ produced' = (produced + Len(external)) % Period
      /\ due' = (due + num_requested) % Period

\* The generator delivers, and the CHECK in CopyNewSamples passes.
FilterAndBuffer(num_requested) ==
  LET external == StreamFrom(produced, NumResampled(Needed(num_requested)))
      missing  == num_requested - Used(num_requested)
  IN  /\ missing <= Len(external)
      /\ reply' = LeftoverUsed(num_requested) \o SubSeq(external, 1, missing)
      /\ leftover_samples' =
           LeftoverKept(num_requested) \o SubSeq(external, missing + 1, Len(external))
      /\ produced' = (produced + Len(external)) % Period
      /\ due' = (due + num_requested) % Period

\* The generator fails.  The leftover samples the call had taken are gone with
\* it, and the client is due what comes after them.
FilterAndBufferFails(num_requested) ==
  /\ leftover_samples' = LeftoverKept(num_requested)
  /\ due' = (due + Used(num_requested)) % Period
  /\ reply' = Nullopt
  /\ UNCHANGED produced

Next ==
  \E n \in Requests : FilterAndBuffer(n) \/ FilterAndBufferFails(n)

Spec == Init /\ [][Next]_vars

-----------------------------------------------------------------------------
(***************************************************************************)
(* Properties.                                                             *)
(***************************************************************************)

\* The buffer holds less than the samples of one internal sample, and none when
\* the external rate is not the higher one (comment of leftover_samples_).
LeftoverFits == Len(leftover_samples) <= Up - 1

\* The CHECK_GE of CopyNewSamples never aborts the program: the rounding of the
\* internal request never leaves the external one short.
RequestsAreFilled ==
  \A n \in Requests : n - Used(n) <= NumResampled(Needed(n))

\* What waits in the buffer is what the client is due next, up to what the
\* resampler is about to produce: nothing in between was lost.
LeftoverIsDue ==
  /\ leftover_samples = StreamFrom(due, Len(leftover_samples))
  /\ produced = (due + Len(leftover_samples)) % Period

\* Replies carry on where the last one ended: no sample is lost, repeated or
\* out of order between two calls, and a failure costs the leftover samples it
\* had taken and nothing else.
StreamContinues ==
  [][reply' # Nullopt => reply' = StreamFrom(due, Len(reply'))]_vars
=============================================================================
