----------------------------- MODULE PacketChannel -----------------------------
(***************************************************************************)
(* Packets on their way, one at a time.  A sender, which is not part of    *)
(* this repository but whose half of the classes is, extracts the features *)
(* of a hop of audio (SoundStreamEncoder), quantizes them at a bitrate of  *)
(* its choice and packs them.  The network may lose the packet, deliver it *)
(* twice or cut it short.  The decoder finds the bitrate from the size     *)
(* (SetEncodedPacket), unpacks and decodes.  What goes from one packet to  *)
(* the next is in the tensors of two interpreters, which may fail.         *)
(*                                                                         *)
(* Audio and its features are abstracted to the indices a quantizer with   *)
(* all its stages gives them.  The quantizer is residual: at a lower       *)
(* bitrate it gives the first of them.                                     *)
(***************************************************************************)
EXTENDS PacketFormat

CONSTANT Audio    \* the hops of audio the sender may have

ASSUME AudioAssumption == Audio \subseteq [ 1 .. MaxNumQuantizers -> Indices ]

VARIABLES
  encoder_output,    \* output tensor of the encoder: its latest features
  bitrate,           \* the bitrate of the packet on its way
  packet,            \* the bytes of that packet
  encoding_indices,  \* input tensor "encoding_indices" of the quantizer
  outcome,           \* what became of the packet
  audio              \* history: the audio the sender last had features of

encoder == << encoder_output, bitrate, audio >>
vars    == << encoder_output, bitrate, packet, encoding_indices, outcome, audio >>

Silence == [ i \in 1 .. MaxNumQuantizers |-> [ b \in 0 .. BitsPerQuantizer - 1 |-> 0 ] ]

\* A bitrate no packet has.
UnknownBitrate == 0

Bitrates == { GetBitrate(q) : q \in SupportedQuantizedBits } \union {UnknownBitrate}

Init ==
  /\ encoder_output = Silence
  /\ bitrate = UnknownBitrate
  /\ packet = <<>>
  /\ encoding_indices = [ i \in 1 .. MaxNumQuantizers |-> Unused ]
  /\ outcome = "none"
  /\ audio = Silence

-----------------------------------------------------------------------------
(***************************************************************************)
(* The sender.                                                             *)
(***************************************************************************)

\* Faulty variant: nobody looks whether the interpreter has run.
ExtractAnyway(samples, invoked) ==
  [ok |-> TRUE, features |-> IF invoked THEN samples ELSE encoder_output]

\* SoundStreamEncoder::Extract copies the output tensor if Invoke succeeds.
Extract(samples, invoked) ==
  [ok |-> invoked, features |-> IF invoked THEN samples ELSE encoder_output]

\* Extract, Quantize and PackQuantized make a packet.
Send(samples, invoked, wanted_bitrate) ==
  LET extracted == Extract(samples, invoked)
      num_bits  == BitrateToNumQuantizedBits(wanted_bitrate)
  IN  /\ packet = <<>>
      /\ extracted.ok
      /\ IsQuantizable(num_bits)
      /\ encoder_output' = extracted.features
      /\ bitrate' = wanted_bitrate
      /\ packet' = PackQuantized(Quantize(extracted.features, num_bits))
      /\ outcome' = "none"
      /\ audio' = samples
      /\ UNCHANGED encoding_indices

\* One of them returns nullopt: the features cannot be extracted, which leaves
\* all as it is, or they were extracted but the bitrate is worth no number of
\* bits, or the quantizer's interpreter fails.
SendNothing(samples, invoked) ==
  /\ packet = <<>>
  /\ encoder_output' = Extract(samples, invoked).features
  /\ audio' = IF invoked THEN samples ELSE audio
  /\ bitrate' = IF invoked THEN UnknownBitrate ELSE bitrate
  /\ outcome' = IF invoked THEN "none" ELSE outcome
  /\ UNCHANGED << packet, encoding_indices >>

-----------------------------------------------------------------------------
(***************************************************************************)
(* The network.                                                            *)
(***************************************************************************)

Lose ==
  /\ packet # <<>>
  /\ packet' = <<>>
  /\ UNCHANGED << encoder, encoding_indices, outcome >>

CutShort ==
  /\ Len(packet) > 1
  /\ packet' = SubSeq(packet, 1, Len(packet) - 1)
  /\ UNCHANGED << encoder, encoding_indices, outcome >>

-----------------------------------------------------------------------------
(***************************************************************************)
(* The receiver: SetEncodedPacket up to the features.  The network may     *)
(* deliver the same packet again.                                          *)
(***************************************************************************)

Deliver == packet # <<>> /\ packet' \in {packet, <<>>} /\ UNCHANGED encoder

NumQuantizedBits == PacketSizeToNumQuantizedBits(Len(packet))

IndicesOfPacket ==
  EncodingIndices(UnpackPacket(packet, NumQuantizedBits), encoding_indices)

Refuse ==
  /\ Deliver
  /\ NumQuantizedBits < 0
  /\ outcome' = "refused"
  /\ UNCHANGED encoding_indices

Decode ==
  /\ Deliver
  /\ NumQuantizedBits >= 0
  /\ IsQuantizable(NumQuantizedBits)
  /\ encoding_indices' = IndicesOfPacket
  /\ outcome' = "decoded"

\* The input tensor cannot be resized or allocated, or Invoke fails after the
\* indices have been written.
DecodingFails ==
  /\ Deliver
  /\ NumQuantizedBits >= 0
  /\ encoding_indices' \in {encoding_indices, IndicesOfPacket}
  /\ outcome' = "failed"

Receive == Refuse \/ Decode \/ DecodingFails

Next ==
  \/ \E samples \in Audio, invoked \in BOOLEAN :
       \/ \E b \in Bitrates : Send(samples, invoked, b)
       \/ SendNothing(samples, invoked)
  \/ Lose
  \/ CutShort
  \/ Receive

Spec == Init /\ [][Next]_vars

-----------------------------------------------------------------------------
(***************************************************************************)
(* Properties.                                                             *)
(***************************************************************************)

\* The first q bits' worth of the indices of the audio, and no others.
IndicesSent(q) ==
  [ i \in 1 .. MaxNumQuantizers |->
      IF i <= q \div BitsPerQuantizer THEN audio[i] ELSE Unused ]

\* What is decoded is the audio the packet was made for, from the first
\* quantizer on: at the packet's own bitrate, or after a cut at the bitrate of
\* that size, with no index of an earlier packet, of another bitrate or of a
\* failed call left in a tensor (Extract, Quantize, PackQuantized, UnpackPacket,
\* DecodeToLossyFeatures).
ReceivedIsSent ==
  outcome = "decoded" =>
    \E q \in SupportedQuantizedBits :
      GetBitrate(q) <= bitrate /\ encoding_indices = IndicesSent(q)

\* A packet that arrives with all the bytes its bitrate is worth is taken for a
\* packet of that bitrate: it is never refused, and what is decoded are all the
\* quantizers it was sent with (BitrateToPacketSize, PacketSizeToNumQuantizedBits).
WholePacketsArrive ==
  [][ Receive /\ Len(packet) = BitrateToPacketSize(bitrate) =>
        \/ outcome' = "failed"
        \/ /\ outcome' = "decoded"
           /\ encoding_indices' = IndicesSent(BitrateToNumQuantizedBits(bitrate)) ]_vars
=============================================================================
