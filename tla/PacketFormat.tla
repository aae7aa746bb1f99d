----------------------------- MODULE PacketFormat -----------------------------
(***************************************************************************)
(* The bits of a packet: how the indices of the residual vector quantizer  *)
(* are laid out in a bit string (ResidualVectorQuantizer), how the string  *)
(* is put behind a header into bytes and taken out again (class Packet),   *)
(* and how the size of a packet stands for its bitrate (lyra_config.h).    *)
(*                                                                         *)
(* A bitset is a function on positions 0 .. MaxNumPacketBits - 1, position *)
(* 0 being the least significant one.  A byte and a quantizer index, which *)
(* are small non-negative integers in the code, are their bits in the same *)
(* way.  A bit string is a sequence, the most significant bit first.       *)
(***************************************************************************)
EXTENDS Integers, Sequences

CONSTANTS
  ByteBits,               \* CHAR_BIT
  FrameRate,              \* kFrameRate
  NumHeaderBits,          \* kNumHeaderBits
  SupportedQuantizedBits, \* GetSupportedQuantizedBits()
  MaxNumPacketBits,       \* kMaxNumPacketBits
  MaxNumQuantizedBits,    \* kMaxNumQuantizedBits
  BitsPerQuantizer        \* bits_per_quantizer_

Bit == {0, 1}

CeilDiv(a, b) == (a + b - 1) \div b

\* GetPacketSize, and PacketSize of a Packet made for num_quantized_bits.
PacketSize(num_quantized_bits) ==
  CeilDiv(num_quantized_bits + NumHeaderBits, ByteBits)

\* What the three lists that must be changed together have to agree on, and
\* the bitrates being told apart by the sizes of their packets.  A quantizer has
\* more than one bit: -1, which is no number of bits, would else be a multiple of
\* its bits, and not be refused.
ASSUME FormatAssumption ==
  /\ ByteBits \in Nat \ {0}
  /\ FrameRate \in Nat \ {0}
  /\ NumHeaderBits \in Nat
  /\ BitsPerQuantizer \in Nat \ {0, 1}
  /\ MaxNumPacketBits \in Nat /\ MaxNumPacketBits >= ByteBits
  /\ MaxNumQuantizedBits \in 1 .. MaxNumPacketBits
  /\ SupportedQuantizedBits \subseteq Nat \ {0}
  /\ \A q \in SupportedQuantizedBits :
       /\ q + NumHeaderBits <= MaxNumPacketBits
       /\ q <= MaxNumQuantizedBits
       /\ q % BitsPerQuantizer = 0
       /\ \A r \in SupportedQuantizedBits : PacketSize(q) = PacketSize(r) => q = r

-----------------------------------------------------------------------------
(***************************************************************************)
(* Bitrates.                                                               *)
(***************************************************************************)

GetBitrate(num_quantized_bits) ==
  PacketSize(num_quantized_bits) * ByteBits * FrameRate

BitrateToPacketSize(bitrate) == CeilDiv(bitrate, FrameRate * ByteBits)

\* -1 if no bitrate has packets of this size.
PacketSizeToNumQuantizedBits(size) ==
  IF \E q \in SupportedQuantizedBits : PacketSize(q) = size
  THEN CHOOSE q \in SupportedQuantizedBits : PacketSize(q) = size
  ELSE -1

BitrateToNumQuantizedBits(bitrate) ==
  IF \E q \in SupportedQuantizedBits : GetBitrate(q) = bitrate
  THEN CHOOSE q \in SupportedQuantizedBits : GetBitrate(q) = bitrate
  ELSE -1

-----------------------------------------------------------------------------
(***************************************************************************)
(* Packets.                                                                *)
(***************************************************************************)

Positions == 0 .. MaxNumPacketBits - 1

\* The bitset shifted right by n, or left by -n.
ShiftRight(bits, n) ==
  [ k \in Positions |-> IF k + n \in Positions THEN bits[k + n] ELSE 0 ]

\* std::bitset(string) and to_string().substr(MaxNumPacketBits - n).
FromString(string) ==
  [ k \in Positions |-> IF k < Len(string) THEN string[Len(string) - k] ELSE 0 ]

ToString(bits, n) == [ i \in 1 .. n |-> bits[n - i] ]

\* Faulty variant: the bits of an incomplete last byte stay at its lower end.
PackLow(string) ==
  LET total == Len(string) + NumHeaderBits
  IN  [ i \in 1 .. PacketSize(Len(string)) |->
          LET shift == total - i * ByteBits
          IN  [ j \in 0 .. ByteBits - 1 |->
                  ShiftRight(FromString(string), IF shift >= 0 THEN shift ELSE 0)[j] ] ]

\* PackQuantized.  The header is all zeros; an incomplete last byte holds its
\* bits at the upper end.
PackQuantized(string) ==
  LET total == Len(string) + NumHeaderBits
  IN  [ i \in 1 .. PacketSize(Len(string)) |->
          [ j \in 0 .. ByteBits - 1 |->
              ShiftRight(FromString(string), total - i * ByteBits)[j] ] ]

\* Faulty variant: the header is not allowed for.
UnpackHeaderless(packet, num_quantized_bits) ==
  [ k \in Positions |->
      IF \E i \in DOMAIN packet : \E j \in 0 .. ByteBits - 1 :
           packet[i][j] = 1 /\ k = j + num_quantized_bits - i * ByteBits
      THEN 1 ELSE 0 ]

\* UnpackFeatures: every byte is shifted to its place and or'ed in.
UnpackFeatures(packet, num_quantized_bits) ==
  [ k \in Positions |->
      IF \E i \in DOMAIN packet : \E j \in 0 .. ByteBits - 1 :
           /\ packet[i][j] = 1
           /\ k = j + num_quantized_bits + NumHeaderBits - i * ByteBits
      THEN 1 ELSE 0 ]

\* UnpackPacket for a packet of the right length.
UnpackPacket(packet, num_quantized_bits) ==
  ToString(UnpackFeatures(packet, num_quantized_bits), num_quantized_bits)

-----------------------------------------------------------------------------
(***************************************************************************)
(* Quantizer indices.                                                      *)
(***************************************************************************)

Indices == [ 0 .. BitsPerQuantizer - 1 -> Bit ]

\* -1, the index that tells the decoder not to use a quantizer.
Unused == <<>>

\* max_num_quantizers
MaxNumQuantizers == MaxNumQuantizedBits \div BitsPerQuantizer

\* Both directions refuse other numbers of bits.
IsQuantizable(num_bits) ==
  num_bits <= MaxNumQuantizedBits /\ num_bits % BitsPerQuantizer = 0

\* Quantize: the first quantizer is in the most significant bits.
Quantize(indices, num_bits) ==
  [ p \in 1 .. num_bits |->
      indices[((p - 1) \div BitsPerQuantizer) + 1]
             [BitsPerQuantizer - 1 - ((p - 1) % BitsPerQuantizer)] ]

\* The bits of one quantizer, the j-th from the end of the string, masked out.
QuantizerBits(string, j) ==
  [ b \in 0 .. BitsPerQuantizer - 1 |->
      ShiftRight(FromString(string), j * BitsPerQuantizer)[b] ]

\* Faulty variants: the first quantizer is looked for in the last bits, and the
\* quantizers that are not used keep the indices of an earlier packet.
IndicesBackwards(string, tensor) ==
  LET required_quantizers == Len(string) \div BitsPerQuantizer
  IN  [ i \in 1 .. MaxNumQuantizers |->
          IF i <= required_quantizers THEN QuantizerBits(string, i - 1) ELSE Unused ]

IndicesLeftOver(string, tensor) ==
  LET required_quantizers == Len(string) \div BitsPerQuantizer
  IN  [ i \in 1 .. MaxNumQuantizers |->
          IF i <= required_quantizers
          THEN QuantizerBits(string, required_quantizers - i) ELSE tensor[i] ]

\* DecodeToLossyFeatures: what it makes of the input tensor of the decoder,
\* whatever that held before.
EncodingIndices(string, tensor) ==
  LET required_quantizers == Len(string) \div BitsPerQuantizer
  IN  [ i \in 1 .. MaxNumQuantizers |->
          IF i <= required_quantizers
          THEN QuantizerBits(string, required_quantizers - i) ELSE Unused ]
=============================================================================
