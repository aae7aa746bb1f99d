---------------------------- MODULE JniLyraDecoder ----------------------------
(***************************************************************************)
(* A whole decoder: the packet loss machine (LyraDecoder) behind the       *)
(* resampler (BufferedResampler) at the external sample rate, and the two  *)
(* kinds of client it has.  A client of the C++ interface calls            *)
(* SetEncodedPacket and DecodeSamples as it likes.  The Android client of  *)
(* jni_lyra_decoder.cc has decodeToBuffer only, which hands over one packet *)
(* and asks for one hop of audio.  Both call one at a time; a decoder can  *)
(* be deleted and another one created between calls.                       *)
(***************************************************************************)
EXTENDS LyraDecoder, BufferedResampler

CONSTANT ExternalRequests    \* numbers of samples a C++ client may ask for

\* Faulty variant: a packet is taken to be a hop at the internal rate.
RateIgnored == NumSamplesPerHop

\* decodeToBuffer: sample_rate_hz() / 50, a hop at the external rate.
NumSamplesPerPacket == NumResampled(NumSamplesPerHop)

\* A resampled hop is a whole number of samples (the sample rates supported),
\* and every internal request that can result is a request the decoder takes.
ASSUME ExternalAssumption ==
  /\ NumSamplesPerHop % Down = 0
  /\ ExternalRequests \subseteq Nat \ {0}
  /\ \A n \in ExternalRequests \union {NumSamplesPerPacket}, k \in 0 .. Up - 1 :
       InternalSamplesToGenerate(k, n) \in Requests \union {0}

VARIABLES
  leftover,     \* number of leftover_samples_ of the resampler
  requested,    \* external samples of the running DecodeSamples, 0 if none runs
  android       \* history: how far the Android client is, see below

\* android is "idle", "packet" or "decoding" as long as all calls since the
\* decoder was created are those of decodeToBuffer, and "other" from then on.
jni     == << leftover, requested, android >>
jniVars == << vars, jni >>

JniInit == Init /\ leftover = 0 /\ requested = 0 /\ android = "idle"

-----------------------------------------------------------------------------
(***************************************************************************)
(* Calls of either client.                                                 *)
(***************************************************************************)

\* The decoder is deleted (release) and a new one created (init).
Recreate ==
  /\ requested = 0
  /\ generative_model' = EmptyModel
  /\ comfort_noise_generator' = EmptyModel
  /\ noise_samples' = 0
  /\ concealment_progress' = 0
  /\ fade_progress' = 0
  /\ fade_direction' = FadeFromCNG
  /\ remaining' = 0
  /\ reply' = "none"
  /\ output' = [features |-> NoFeatures, heard |-> FALSE]
  /\ lost' = 0
  /\ leftover' = 0
  /\ requested' = 0
  /\ android' = "idle"

\* decodeToBuffer goes on to decode, so it never hands over a second packet.
AcceptPacket ==
  /\ requested = 0
  /\ SetEncodedPacket
  /\ android' = IF android = "idle" THEN "packet" ELSE "other"
  /\ UNCHANGED << leftover, requested >>

\* decodeToBuffer returns -4, and no audio is decoded.
RejectPacket ==
  /\ requested = 0
  /\ SetUnsupportedPacket \/ SetUndecodablePacket
  /\ android' = IF android = "idle" THEN "idle" ELSE "other"
  /\ UNCHANGED << leftover, requested >>

\* DecodeSamples at the external rate, up to the call of DecodeSamplesInternal,
\* which has nothing to do if the leftover samples suffice.
RequestSamples(num_samples) ==
  LET num_internal == InternalSamplesToGenerate(leftover, num_samples)
  IN  /\ requested = 0
      /\ requested' = num_samples
      /\ android' = IF android = "packet" /\ num_samples = NumSamplesPerPacket
                    THEN "decoding" ELSE "other"
      /\ UNCHANGED leftover
      /\ \/ num_internal > 0 /\ DecodeSamples(num_internal)
         \/ /\ num_internal = 0
            /\ reply' = "samples"
            /\ UNCHANGED << models, loss, remaining, output, lost >>

\* An iteration of the loop of DecodeSamplesInternal.
Decode == Iterate /\ UNCHANGED jni

\* DecodeSamples returns what FilterAndBuffer makes of the decoded samples.
\* decodeToBuffer returns their number, or -6 when the client's buffer turns
\* out to be too small for them: the decoder is the same in either case.
ReturnSamples ==
  /\ requested > 0 /\ remaining = 0 /\ reply = "samples"
  /\ leftover' = NumLeftoverAfter(leftover, requested)
  /\ requested' = 0
  /\ android' = IF android = "decoding" THEN "idle" ELSE "other"
  /\ UNCHANGED vars

\* DecodeSamples returns nullopt (decodeToBuffer: -5), having used up leftover
\* samples.
ReturnNothing ==
  /\ requested > 0 /\ remaining = 0 /\ reply = "nullopt"
  /\ leftover' = leftover - NumLeftoverUsed(leftover, requested)
  /\ requested' = 0
  /\ android' = IF android = "decoding" THEN "idle" ELSE "other"
  /\ UNCHANGED vars

JniNext ==
  \/ Recreate
  \/ AcceptPacket
  \/ RejectPacket
  \/ \E n \in ExternalRequests \union {NumSamplesPerPacket} : RequestSamples(n)
  \/ Decode
  \/ ReturnSamples
  \/ ReturnNothing

JniSpec == JniInit /\ [][JniNext]_jniVars

\* A call that runs keeps running.
JniFairSpec == JniSpec /\ WF_jniVars(Decode) /\ WF_jniVars(ReturnSamples \/ ReturnNothing)

-----------------------------------------------------------------------------
(***************************************************************************)
(* Properties.                                                             *)
(***************************************************************************)

\* What an Android client hears is its packets and nothing else: every packet
\* decodeToBuffer accepted has been played to its last sample when it returns,
\* also when packets before it were not decodable, so the client never gets -5
\* and never gets concealment or comfort noise, however long the gaps are.
AndroidHearsItsPackets ==
  /\ android = "idle" =>
       /\ ReceivedBacklog = 0 /\ leftover = 0
       /\ generative_model = [EmptyModel EXCEPT !.hop = output.features]
  /\ android # "other" =>
       /\ lost = 0 /\ concealment_progress = 0 /\ fade_progress = 0
       /\ output.features \in {NoFeatures, Received}
       /\ reply # "nullopt"

\* The resampler never has a whole internal sample's worth left over, however
\* the calls above it end (comment of leftover_samples_).
LeftoverIsPartOfASample == leftover \in 0 .. Up - 1

\* A call returns to its client, with samples or without.
CallsReturn == requested > 0 ~> requested = 0
=============================================================================
