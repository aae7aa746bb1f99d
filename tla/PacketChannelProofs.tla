------------------------- MODULE PacketChannelProofs -------------------------
(***************************************************************************)
(* Proofs about PacketChannel: what is decoded is what was sent, for every *)
(* size of a byte and of a header, every list of bitrates the code may     *)
(* support and every hop of audio.  A bit of the string is followed into   *)
(* its byte and out again; the bytes that a cut leaves hold the bits at    *)
(* the front of the string, which are the first quantizers'.               *)
(***************************************************************************)
EXTENDS PacketChannel, SequenceTheorems, TLAPS

-----------------------------------------------------------------------------
(***************************************************************************)
(* Quotients.                                                              *)
(***************************************************************************)

\* A quotient rounded up covers the dividend, by less than the divisor.
LEMMA RoundedUp ==
  ASSUME NEW a \in Nat, NEW b \in Nat \ {0}
  PROVE  /\ CeilDiv(a, b) \in Nat
         /\ CeilDiv(a, b) * b >= a
         /\ CeilDiv(a, b) * b <= a + b - 1
<1> DEFINE x == a + b - 1
           d == x \div b
           r == x % b
<1>1. x \in Nat
  OBVIOUS
<1> HIDE DEF x
<1>2. d \in Nat /\ r \in 0 .. b - 1 /\ x = d * b + r
  BY <1>1
<1> HIDE DEF d, r
<1>3. d * b \in Nat
  BY <1>2
<1>4. d * b >= a /\ d * b <= a + b - 1
  BY <1>2, <1>3 DEF x
<1> QED BY <1>2, <1>4 DEF CeilDiv, d, x

\* A multiple is what rounding up gives if it covers the dividend by less than
\* the divisor.
LEMMA RoundedUpIs ==
  ASSUME NEW a \in Nat, NEW b \in Nat \ {0}, NEW c \in Nat,
         c * b >= a, c * b <= a + b - 1
  PROVE  CeilDiv(a, b) = c
<1> DEFINE d == CeilDiv(a, b)
<1>1. d \in Nat /\ d * b >= a /\ d * b <= a + b - 1
  BY RoundedUp
<1> HIDE DEF d
<1>2. ASSUME NEW x \in Nat, NEW y \in Nat, x * b >= a, y * b <= a + b - 1 PROVE y <= x
  <2> SUFFICES ASSUME y > x PROVE FALSE
    OBVIOUS
  <2>1. (y - x - 1) * b >= 0
    OBVIOUS
  <2>2. y * b = (y - x - 1) * b + x * b + b
    OBVIOUS
  <2>3. (y - x - 1) * b \in Int /\ x * b \in Int /\ y * b \in Int
    OBVIOUS
  <2> HIDE DEF d
  <2> QED BY <1>2, <2>1, <2>2, <2>3
<1>3. d <= c /\ c <= d
  BY <1>1, <1>2
<1> QED BY <1>1, <1>3 DEF d

\* Rounding up keeps the order.
LEMMA RoundedUpOrder ==
  ASSUME NEW a \in Nat, NEW b \in Nat \ {0}, NEW c \in Nat, a <= c
  PROVE  CeilDiv(a, b) <= CeilDiv(c, b)
<1> DEFINE x == CeilDiv(c, b)
           y == CeilDiv(a, b)
<1>1. x \in Nat /\ x * b >= c /\ y \in Nat /\ y * b <= a + b - 1
  BY RoundedUp
<1> HIDE DEF x, y
<1>2. CASE y > x
  <2>1. (y - x - 1) * b >= 0
    BY <1>1, <1>2
  <2>2. y * b = (y - x - 1) * b + x * b + b
    BY <1>1
  <2>3. (y - x - 1) * b \in Int /\ x * b \in Int /\ y * b \in Int
    BY <1>1
  <2> QED BY <1>1, <2>1, <2>2, <2>3
<1> QED BY <1>1, <1>2 DEF x, y

\* Rounding up a multiple is dividing it.
LEMMA ExactQuotient ==
  ASSUME NEW a \in Nat, NEW b \in Nat \ {0}
  PROVE  CeilDiv(a * b, b) = a
<1>1. a * b \in Nat
  OBVIOUS
<1>2. a * b >= a * b /\ a * b <= a * b + b - 1
  BY <1>1
<1> QED BY <1>1, <1>2, RoundedUpIs

-----------------------------------------------------------------------------
(***************************************************************************)
(* Sizes and bitrates.                                                     *)
(***************************************************************************)

\* The size of a packet is enough for its bits and the header.
LEMMA SizeOfPacket ==
  ASSUME NEW q \in SupportedQuantizedBits
  PROVE  /\ q \in Nat \ {0} /\ q + NumHeaderBits \in Nat
         /\ q + NumHeaderBits <= MaxNumPacketBits
         /\ q % BitsPerQuantizer = 0 /\ IsQuantizable(q)
         /\ PacketSize(q) \in Nat \ {0}
         /\ PacketSize(q) * ByteBits >= q + NumHeaderBits
<1>1. /\ q \in Nat \ {0} /\ NumHeaderBits \in Nat /\ ByteBits \in Nat \ {0}
      /\ q + NumHeaderBits <= MaxNumPacketBits /\ q <= MaxNumQuantizedBits
      /\ q % BitsPerQuantizer = 0
  BY FormatAssumption
<1>2. /\ PacketSize(q) \in Nat
      /\ PacketSize(q) * ByteBits >= q + NumHeaderBits
  <2> DEFINE a == q + NumHeaderBits
  <2>1. a \in Nat
    BY <1>1
  <2> HIDE DEF a
  <2>2. CeilDiv(a, ByteBits) \in Nat /\ CeilDiv(a, ByteBits) * ByteBits >= a
    BY <1>1, <2>1, RoundedUp
  <2> QED BY <2>2 DEF PacketSize, a
<1>3. PacketSize(q) # 0
  <2> SUFFICES ASSUME PacketSize(q) = 0 PROVE FALSE
    OBVIOUS
  <2>1. 0 * ByteBits = 0
    BY <1>1
  <2> QED BY <1>1, <1>2, <2>1
<1> QED BY <1>1, <1>2, <1>3 DEF IsQuantizable

\* Larger packets have more bits.
LEMMA SizesAreOrdered ==
  ASSUME NEW q \in SupportedQuantizedBits, NEW r \in SupportedQuantizedBits,
         PacketSize(r) <= PacketSize(q)
  PROVE  r <= q
<1>1. /\ q \in Nat /\ r \in Nat /\ NumHeaderBits \in Nat /\ ByteBits \in Nat \ {0}
      /\ PacketSize(q) \in Nat /\ PacketSize(r) \in Nat
      /\ PacketSize(q) = PacketSize(r) => q = r
  BY FormatAssumption, SizeOfPacket
<1>2. CASE q <= r
  <2>1. PacketSize(q) <= PacketSize(r)
    <3>1. q + NumHeaderBits \in Nat /\ r + NumHeaderBits \in Nat
          /\ q + NumHeaderBits <= r + NumHeaderBits
      BY <1>1, <1>2
    <3> QED BY <1>1, <3>1, RoundedUpOrder DEF PacketSize
  <2>2. PacketSize(q) = PacketSize(r)
    BY <1>1, <2>1
  <2> QED BY <1>1, <2>2
<1> QED BY <1>1, <1>2

\* The size of a packet tells its number of bits, or that it has none.
LEMMA SizeTellsBits ==
  /\ \A size : PacketSizeToNumQuantizedBits(size) >= 0 =>
       /\ PacketSizeToNumQuantizedBits(size) \in SupportedQuantizedBits
       /\ PacketSize(PacketSizeToNumQuantizedBits(size)) = size
  /\ \A q \in SupportedQuantizedBits : PacketSizeToNumQuantizedBits(PacketSize(q)) = q
<1>1. ASSUME NEW size, PacketSizeToNumQuantizedBits(size) >= 0
      PROVE  /\ PacketSizeToNumQuantizedBits(size) \in SupportedQuantizedBits
             /\ PacketSize(PacketSizeToNumQuantizedBits(size)) = size
  <2>1. \E q \in SupportedQuantizedBits : PacketSize(q) = size
    BY <1>1 DEF PacketSizeToNumQuantizedBits
  <2> QED BY <2>1 DEF PacketSizeToNumQuantizedBits
<1>2. ASSUME NEW q \in SupportedQuantizedBits
      PROVE  PacketSizeToNumQuantizedBits(PacketSize(q)) = q
  <2>1. \A r \in SupportedQuantizedBits : PacketSize(r) = PacketSize(q) => r = q
    BY FormatAssumption
  <2> QED BY <2>1 DEF PacketSizeToNumQuantizedBits
<1> QED BY <1>1, <1>2

\* Bitrates are ordered as the sizes of their packets, and told apart by them.
LEMMA BitratesOfSizes ==
  ASSUME NEW q \in SupportedQuantizedBits
  PROVE  /\ GetBitrate(q) \in Nat
         /\ BitrateToPacketSize(GetBitrate(q)) = PacketSize(q)
         /\ BitrateToNumQuantizedBits(GetBitrate(q)) = q
         /\ \A r \in SupportedQuantizedBits :
              PacketSize(r) <= PacketSize(q) => GetBitrate(r) <= GetBitrate(q)
<1> DEFINE byterate == ByteBits * FrameRate
           size(r) == PacketSize(r)
<1>1. /\ ByteBits \in Nat \ {0} /\ FrameRate \in Nat \ {0}
      /\ FrameRate * ByteBits = byterate /\ byterate \in Nat \ {0}
  BY FormatAssumption
<1>2. \A r \in SupportedQuantizedBits : size(r) \in Nat
  BY SizeOfPacket
<1>3. \A r \in SupportedQuantizedBits : GetBitrate(r) = size(r) * byterate
  <2> SUFFICES ASSUME NEW r \in SupportedQuantizedBits
               PROVE  GetBitrate(r) = size(r) * byterate
    OBVIOUS
  <2>1. GetBitrate(r) = size(r) * ByteBits * FrameRate
    BY DEF GetBitrate
  <2> HIDE DEF size
  <2>2. size(r) * ByteBits * FrameRate = size(r) * (ByteBits * FrameRate)
    BY <1>1, <1>2
  <2> QED BY <2>1, <2>2
<1> HIDE DEF byterate, size
<1>4. /\ GetBitrate(q) \in Nat
      /\ BitrateToPacketSize(GetBitrate(q)) = size(q)
  <2>1. CeilDiv(size(q) * byterate, byterate) = size(q)
    BY <1>1, <1>2, ExactQuotient
  <2> QED BY <1>1, <1>2, <1>3, <2>1 DEF BitrateToPacketSize
<1>5. ASSUME NEW r \in SupportedQuantizedBits, GetBitrate(r) = GetBitrate(q)
      PROVE  r = q
  <2>1. CeilDiv(size(q) * byterate, byterate) = size(q)
    BY <1>1, <1>2, ExactQuotient
  <2>2. CeilDiv(size(r) * byterate, byterate) = size(r)
    BY <1>1, <1>2, ExactQuotient
  <2>3. size(r) = size(q)
    BY <1>3, <1>5, <2>1, <2>2
  <2> QED BY <2>3, FormatAssumption DEF size
<1>6. BitrateToNumQuantizedBits(GetBitrate(q)) = q
  BY <1>5 DEF BitrateToNumQuantizedBits
<1>7. ASSUME NEW r \in SupportedQuantizedBits, size(r) <= size(q)
      PROVE  GetBitrate(r) <= GetBitrate(q)
  <2> DEFINE x == size(q)
             y == size(r)
  <2>1. x \in Nat /\ y \in Nat /\ y <= x
    BY <1>2, <1>7
  <2> HIDE DEF x, y
  <2>2. (x - y) * byterate >= 0 /\ x * byterate = (x - y) * byterate + y * byterate
    BY <1>1, <2>1
  <2>3. (x - y) * byterate \in Int /\ y * byterate \in Int
    BY <1>1, <2>1
  <2>4. y * byterate <= x * byterate
    BY <2>2, <2>3
  <2> QED BY <1>3, <2>4 DEF x, y
<1> QED BY <1>4, <1>6, <1>7 DEF size

-----------------------------------------------------------------------------
(***************************************************************************)
(* Packing and unpacking.                                                  *)
(***************************************************************************)

\* The place in the string of bit j of byte i.
Source(i, j) == i * ByteBits - NumHeaderBits - j

\* Every bit of a packet is the bit of the string at its place, or zero.
LEMMA PackedBit ==
  ASSUME NEW q \in SupportedQuantizedBits, NEW string \in Seq(Bit), Len(string) = q,
         NEW i \in 1 .. PacketSize(q), NEW j \in 0 .. ByteBits - 1
  PROVE  PackQuantized(string)[i][j] =
           IF Source(i, j) \in 1 .. q THEN string[Source(i, j)] ELSE 0
<1> DEFINE x == i * ByteBits
           shift == q + NumHeaderBits - x
           s == Source(i, j)
<1>1. /\ q \in Nat \ {0} /\ NumHeaderBits \in Nat /\ ByteBits \in Nat \ {0}
      /\ q + NumHeaderBits <= MaxNumPacketBits /\ MaxNumPacketBits \in Nat
      /\ MaxNumPacketBits >= ByteBits /\ PacketSize(q) \in Nat
  BY SizeOfPacket, FormatAssumption
<1>2. x \in Nat
  BY <1>1
<1>3. PackQuantized(string)[i][j] = ShiftRight(FromString(string), shift)[j]
  <2> DEFINE row(m) == [ k \in 0 .. ByteBits - 1 |->
                           ShiftRight(FromString(string),
                                      (Len(string) + NumHeaderBits) - m * ByteBits)[k] ]
  <2>1. PackQuantized(string) = [ m \in 1 .. PacketSize(Len(string)) |-> row(m) ]
    BY Zenon DEF PackQuantized
  <2>2. (Len(string) + NumHeaderBits) - i * ByteBits = shift
    BY <1>1, <1>2
  <2>3. row(i)[j] = ShiftRight(FromString(string), shift)[j]
    BY <2>2
  <2> HIDE DEF row
  <2>4. PackQuantized(string)[i] = row(i)
    BY <2>1
  <2> QED BY <2>3, <2>4
<1> HIDE DEF x
<1>4. s = x - NumHeaderBits - j
  BY DEF Source, x
<1> HIDE DEF s
<1>5. j \in Positions /\ j + shift = q - s /\ s \in Int
  BY <1>1, <1>2, <1>4 DEF Positions
<1>6. ShiftRight(FromString(string), shift)[j] =
        IF j + shift \in Positions THEN FromString(string)[j + shift] ELSE 0
  BY <1>5 DEF ShiftRight
<1> HIDE DEF shift
<1>7. CASE s \in 1 .. q
  <2>1. q - s \in Positions /\ q - s < Len(string) /\ Len(string) - (q - s) = s
    BY <1>1, <1>5, <1>7 DEF Positions
  <2>2. FromString(string)[q - s] = string[s]
    BY <2>1 DEF FromString
  <2> QED BY <1>3, <1>5, <1>6, <1>7, <2>1, <2>2 DEF s
<1>8. CASE s \notin 1 .. q
  <2>1. q - s \in Positions => ~(q - s < Len(string))
    BY <1>1, <1>5, <1>8 DEF Positions
  <2>2. q - s \in Positions => FromString(string)[q - s] = 0
    BY <2>1 DEF FromString
  <2> QED BY <1>3, <1>5, <1>6, <1>8, <2>2 DEF s
<1> QED BY <1>7, <1>8

\* The first n bytes of a packet.
Cut(string, n) == SubSeq(PackQuantized(string), 1, n)

\* A cut leaves the bytes in front as they are.
LEMMA CutBytes ==
  ASSUME NEW q \in SupportedQuantizedBits, NEW string \in Seq(Bit), Len(string) = q,
         NEW n \in 0 .. PacketSize(q)
  PROVE  /\ Len(Cut(string, n)) = n /\ DOMAIN Cut(string, n) = 1 .. n
         /\ \A i \in 1 .. n : Cut(string, n)[i] = PackQuantized(string)[i]
         /\ Cut(string, PacketSize(q)) = PackQuantized(string)
         /\ \A m \in 0 .. n : SubSeq(Cut(string, n), 1, m) = Cut(string, m)
<1> DEFINE bytes == PackQuantized(string)
           size == PacketSize(q)
           S == { bytes[i] : i \in 1 .. size }
<1>1. size \in Nat /\ n \in Nat /\ n <= size
  BY SizeOfPacket
<1>2. bytes = [ i \in 1 .. size |-> bytes[i] ]
  BY DEF PackQuantized
<1> HIDE DEF bytes, size
<1>3. \A i \in 1 .. size : bytes[i] \in S
  OBVIOUS
<1> HIDE DEF S
<1>4. bytes \in Seq(S) /\ Len(bytes) = size
  BY <1>1, <1>2, <1>3
<1>5. ASSUME NEW m \in 0 .. size
      PROVE  /\ SubSeq(bytes, 1, m) \in Seq(S) /\ Len(SubSeq(bytes, 1, m)) = m
             /\ \A i \in 1 .. m : SubSeq(bytes, 1, m)[i] = bytes[i]
  BY <1>1, <1>4
<1>6. n \in 0 .. size
  BY <1>1
<1>7. SubSeq(bytes, 1, size) = bytes
  BY <1>4, SubSeqFull
<1>8. ASSUME NEW m \in 0 .. n
      PROVE  SubSeq(SubSeq(bytes, 1, n), 1, m) = SubSeq(bytes, 1, m)
  <2> DEFINE t == SubSeq(bytes, 1, n)
             u == SubSeq(bytes, 1, m)
             v == SubSeq(t, 1, m)
  <2>1. /\ m \in 0 .. size /\ m \in Nat /\ m <= n
        /\ t \in Seq(S) /\ Len(t) = n /\ (\A i \in 1 .. n : t[i] = bytes[i])
    BY <1>1, <1>5, <1>6
  <2>2. u \in Seq(S) /\ Len(u) = m /\ \A i \in 1 .. m : u[i] = bytes[i]
    BY <1>5, <2>1
  <2> HIDE DEF t, u
  <2>3. v \in Seq(S) /\ Len(v) = m /\ \A i \in 1 .. m : v[i] = t[i]
    BY <1>1, <2>1
  <2>4. \A i \in 1 .. m : v[i] = u[i]
    BY <1>1, <2>1, <2>2, <2>3
  <2> HIDE DEF v
  <2>5. v = u
    BY <2>2, <2>3, <2>4, SeqEqual
  <2> QED BY <2>5 DEF t, u, v
<1>9. /\ Len(SubSeq(bytes, 1, n)) = n
      /\ DOMAIN SubSeq(bytes, 1, n) = 1 .. n
      /\ \A i \in 1 .. n : SubSeq(bytes, 1, n)[i] = bytes[i]
  BY <1>5, <1>6
<1> QED BY <1>7, <1>8, <1>9 DEF Cut, bytes, size

\* The bits of a bitrate are in the bytes it needs, and each in one of them.
LEMMA PlaceOfBit ==
  ASSUME NEW r \in SupportedQuantizedBits, NEW p \in 1 .. r
  PROVE  \E i \in 1 .. PacketSize(r), j \in 0 .. ByteBits - 1 : Source(i, j) = p
<1> DEFINE a == p + NumHeaderBits
           i == CeilDiv(a, ByteBits)
           x == i * ByteBits
           c == r + NumHeaderBits
<1>1. /\ r \in Nat /\ NumHeaderBits \in Nat /\ ByteBits \in Nat \ {0}
      /\ a \in Nat /\ a >= 1 /\ c \in Nat /\ a <= c
  BY FormatAssumption
<1>2. PacketSize(r) = CeilDiv(c, ByteBits) /\ p = a - NumHeaderBits /\ a \in Nat
  BY <1>1 DEF PacketSize
<1> HIDE DEF a, c
<1>3. i \in Nat /\ x >= a /\ x <= a + ByteBits - 1
  BY <1>1, RoundedUp
<1>4. i <= PacketSize(r)
  BY <1>1, <1>2, RoundedUpOrder
<1>5. PacketSize(r) \in Nat
  BY SizeOfPacket
<1> HIDE DEF i
<1>6. x \in Nat
  BY <1>1, <1>3
<1>7. i # 0
  BY <1>1, <1>3
<1>8. i \in 1 .. PacketSize(r)
  BY <1>3, <1>4, <1>5, <1>7
<1>9. x - a \in 0 .. ByteBits - 1
  BY <1>1, <1>3, <1>6
<1>10. Source(i, x - a) = p
  BY <1>1, <1>2, <1>6 DEF Source
<1> QED BY <1>8, <1>9, <1>10

\* Unpacking the bytes that a bitrate needs gives the bits in front of the
\* string, of which there are as many as the bitrate has.
LEMMA UnpackedBits ==
  ASSUME NEW q \in SupportedQuantizedBits, NEW string \in Seq(Bit), Len(string) = q,
         NEW r \in SupportedQuantizedBits, PacketSize(r) <= PacketSize(q)
  PROVE  UnpackPacket(Cut(string, PacketSize(r)), r) = [ p \in 1 .. r |-> string[p] ]
<1> DEFINE n == PacketSize(r)
           bytes == Cut(string, n)
<1>1. /\ r \in Nat \ {0} /\ q \in Nat /\ r <= q /\ NumHeaderBits \in Nat
      /\ ByteBits \in Nat \ {0} /\ MaxNumPacketBits \in Nat
      /\ r + NumHeaderBits <= MaxNumPacketBits
      /\ n \in Nat /\ n <= PacketSize(q) /\ PacketSize(q) \in Nat
  BY FormatAssumption, SizeOfPacket, SizesAreOrdered
<1>2. n \in 0 .. PacketSize(q)
  BY <1>1
<1> HIDE DEF n
<1>3. DOMAIN bytes = 1 .. n /\ \A i \in 1 .. n : bytes[i] = PackQuantized(string)[i]
  BY <1>2, CutBytes
<1> HIDE DEF bytes
<1>4. ASSUME NEW i \in 1 .. n, NEW j \in 0 .. ByteBits - 1
      PROVE  /\ Source(i, j) \in Int
             /\ bytes[i][j] = IF Source(i, j) \in 1 .. q THEN string[Source(i, j)] ELSE 0
  <2>1. i \in 1 .. PacketSize(q)
    BY <1>1
  <2>2. i * ByteBits \in Int
    BY <1>1
  <2> QED BY <1>1, <1>3, <2>1, <2>2, PackedBit DEF Source
<1>5. ASSUME NEW p \in 1 .. r
      PROVE  UnpackPacket(bytes, r)[p] = string[p]
  <2>1. r - p \in Positions
    BY <1>1 DEF Positions
  <2>2. UnpackPacket(bytes, r)[p] =
          IF \E i \in 1 .. n : \E j \in 0 .. ByteBits - 1 :
               bytes[i][j] = 1 /\ r - p = j + r + NumHeaderBits - i * ByteBits
          THEN 1 ELSE 0
    BY <1>3, <2>1 DEF UnpackPacket, ToString, UnpackFeatures
  <2>3. \A i \in 1 .. n, j \in 0 .. ByteBits - 1 :
          r - p = j + r + NumHeaderBits - i * ByteBits <=> Source(i, j) = p
    <3> SUFFICES ASSUME NEW i \in 1 .. n, NEW j \in 0 .. ByteBits - 1
                 PROVE  r - p = j + r + NumHeaderBits - i * ByteBits <=> Source(i, j) = p
      OBVIOUS
    <3> DEFINE x == i * ByteBits
    <3>1. x \in Int /\ i \in Nat
      BY <1>1
    <3> HIDE DEF x
    <3>2. r - p = j + r + NumHeaderBits - x <=> x - NumHeaderBits - j = p
      BY <1>1, <3>1
    <3> QED BY <3>2 DEF Source, x
  <2>4. p \in 1 .. q /\ string[p] \in {0, 1}
    BY <1>1, ElementOfSeq DEF Bit
  <2>5. CASE string[p] = 1
    <3>1. PICK i \in 1 .. n, j \in 0 .. ByteBits - 1 : Source(i, j) = p
      BY PlaceOfBit DEF n
    <3>2. bytes[i][j] = 1
      BY <1>4, <2>4, <2>5, <3>1
    <3> QED BY <2>2, <2>3, <2>5, <3>1, <3>2
  <2>6. CASE string[p] = 0
    <3>1. \A i \in 1 .. n, j \in 0 .. ByteBits - 1 : Source(i, j) = p => bytes[i][j] = 0
      BY <1>4, <2>4, <2>6
    <3> QED BY <2>2, <2>3, <2>6, <3>1
  <2> QED BY <2>4, <2>5, <2>6
<1>6. UnpackPacket(bytes, r) = [ p \in 1 .. r |-> UnpackPacket(bytes, r)[p] ]
  BY DEF UnpackPacket, ToString
<1> QED BY <1>5, <1>6 DEF bytes, n
-----------------------------------------------------------------------------
(***************************************************************************)
(* Quantizing and looking up.                                              *)
(***************************************************************************)

\* Bits that are whole quantizers are as many times the bits of one.
LEMMA WholeQuantizers ==
  ASSUME NEW q \in SupportedQuantizedBits
  PROVE  /\ q \div BitsPerQuantizer \in 0 .. MaxNumQuantizers
         /\ (q \div BitsPerQuantizer) * BitsPerQuantizer = q
<1> DEFINE b == BitsPerQuantizer
           m == MaxNumQuantizedBits
<1>1. /\ b \in Nat \ {0} /\ m \in Nat /\ q \in Nat /\ q <= m /\ q % b = 0
  BY FormatAssumption
<1> HIDE DEF b, m
<1> DEFINE d == q \div b
           e == m \div b
<1>2. /\ d \in Nat /\ e \in Nat /\ q = d * b + (q % b) /\ m = e * b + (m % b)
      /\ m % b \in 0 .. b - 1
  BY <1>1
<1> HIDE DEF d, e
<1>3. d * b = q
  <2>1. d * b \in Nat
    BY <1>1, <1>2
  <2> QED BY <1>1, <1>2, <2>1
<1>4. d <= e
  <2> SUFFICES ASSUME d > e PROVE FALSE
    BY <1>2
  <2>1. (d - e - 1) * b >= 0 /\ (d - e - 1) * b \in Int
    BY <1>1, <1>2
  <2>2. d * b = (d - e - 1) * b + e * b + b
    BY <1>1, <1>2
  <2>3. d * b \in Int /\ e * b \in Int
    BY <1>1, <1>2
  <2> HIDE DEF d, e
  <2> QED BY <1>1, <1>2, <1>3, <2>1, <2>2, <2>3
<1> QED BY <1>2, <1>3, <1>4 DEF d, e, b, m, MaxNumQuantizers

\* A bit of a quantizer is where it is looked for: bit b of quantizer i, counted
\* from the front of the string.
LEMMA QuantizedBit ==
  ASSUME NEW hop \in [ 1 .. MaxNumQuantizers -> Indices ],
         NEW q \in SupportedQuantizedBits,
         NEW i \in 1 .. q \div BitsPerQuantizer, NEW b \in 0 .. BitsPerQuantizer - 1
  PROVE  /\ i * BitsPerQuantizer - b \in 1 .. q
         /\ Quantize(hop, q)[i * BitsPerQuantizer - b] = hop[i][b]
<1> DEFINE w == BitsPerQuantizer
           n == q \div BitsPerQuantizer
           p == i * w - b
           c == w - 1 - b
<1>1. w \in Nat \ {0} /\ n \in Nat /\ n * w = q /\ q \in Nat
  BY FormatAssumption, WholeQuantizers
<1> HIDE DEF w, n
<1>2. i \in 1 .. n /\ b \in 0 .. w - 1 /\ i \in Nat
  BY <1>1 DEF n, w
<1>3. /\ i * w = (i - 1) * w + w /\ n * w = (n - i) * w + i * w
      /\ (i - 1) * w \in Nat /\ (n - i) * w \in Nat /\ i * w \in Nat
  <2>1. i - 1 \in Nat /\ n - i \in Nat
    BY <1>1, <1>2
  <2> QED BY <1>1, <1>2, <2>1
<1>4. p \in 1 .. q /\ p - 1 = (i - 1) * w + c /\ c \in 0 .. w - 1
  BY <1>1, <1>2, <1>3
<1>5. /\ (p - 1) \div w = i - 1
      /\ (p - 1) % w = c
  <2> HIDE DEF c, p
  <2>1. ((i - 1) * w + c) \div w = i - 1 /\ ((i - 1) * w + c) % w = c
    BY <1>1, <1>2, <1>4
  <2> QED BY <1>4, <2>1
<1>6. ((p - 1) \div w) + 1 = i /\ w - 1 - ((p - 1) % w) = b
  <2>1. (i - 1) + 1 = i /\ w - 1 - c = b
    BY <1>1, <1>2
  <2> HIDE DEF c, p
  <2> QED BY <1>5, <2>1
<1>7. Quantize(hop, q)[p] = hop[((p - 1) \div w) + 1][w - 1 - ((p - 1) % w)]
  <2> HIDE DEF p
  <2> QED BY <1>4 DEF Quantize, w
<1> QED BY <1>4, <1>6, <1>7 DEF w

\* The first bits' worth of the indices of a hop.
IndicesOf(hop, q) ==
  [ i \in 1 .. MaxNumQuantizers |->
      IF i <= q \div BitsPerQuantizer THEN hop[i] ELSE Unused ]

\* The bits in front of a string are looked up to the indices they were made of.
LEMMA IndicesOfBits ==
  ASSUME NEW hop \in [ 1 .. MaxNumQuantizers -> Indices ],
         NEW q \in SupportedQuantizedBits,
         NEW r \in SupportedQuantizedBits, r <= q, NEW tensor,
         NEW bits, Len(bits) = r, \A p \in 1 .. r : bits[p] = Quantize(hop, q)[p]
  PROVE  EncodingIndices(bits, tensor) = IndicesOf(hop, r)
<1> DEFINE w == BitsPerQuantizer
           n == r \div BitsPerQuantizer
           string == Quantize(hop, q)
<1>1. /\ w \in Nat \ {0} /\ n \in 0 .. MaxNumQuantizers /\ n * w = r /\ r \in Nat
      /\ MaxNumPacketBits \in Nat /\ r <= MaxNumPacketBits /\ n \in Nat
      /\ MaxNumQuantizers \in Nat
  <2>1. MaxNumQuantizers \in Nat
    BY FormatAssumption DEF MaxNumQuantizers
  <2>2. /\ n \in 0 .. MaxNumQuantizers /\ n * w = r
    BY WholeQuantizers
  <2> HIDE DEF n
  <2> QED BY <2>1, <2>2, FormatAssumption
<1>3. \A i \in 1 .. n, b \in 0 .. w - 1 :
        i * w - b \in 1 .. r /\ string[i * w - b] = hop[i][b]
  <2> SUFFICES ASSUME NEW i \in 1 .. n, NEW b \in 0 .. w - 1
               PROVE  i * w - b \in 1 .. r /\ string[i * w - b] = hop[i][b]
    OBVIOUS
  <2>1. i * w - b \in 1 .. r
    BY QuantizedBit
  <2>2. i \in 1 .. q \div BitsPerQuantizer
    <3> DEFINE d == q \div BitsPerQuantizer
    <3>1. d \in Nat /\ d * w = q /\ q \in Nat
      BY WholeQuantizers, FormatAssumption
    <3> HIDE DEF d, n, w
    <3>2. CASE d < n
      <4>1. (n - d - 1) * w >= 0 /\ (n - d - 1) * w \in Int
        BY <1>1, <3>1, <3>2
      <4>2. n * w = (n - d - 1) * w + d * w + w
        BY <1>1, <3>1
      <4> QED BY <1>1, <3>1, <4>1, <4>2
    <3> QED BY <1>1, <3>1, <3>2 DEF d
  <2>3. string[i * w - b] = hop[i][b]
    BY <2>2, QuantizedBit
  <2> QED BY <2>1, <2>3
<1>4. \A p \in 1 .. r : bits[p] = string[p]
  OBVIOUS
<1> HIDE DEF string
<1>5. ASSUME NEW i \in 1 .. n
      PROVE  QuantizerBits(bits, n - i) = hop[i]
  <2> SUFFICES ASSUME NEW b \in 0 .. w - 1
               PROVE  ShiftRight(FromString(bits), (n - i) * w)[b] = hop[i][b]
    <3>1. i \in 1 .. MaxNumQuantizers
      BY <1>1
    <3>2. hop[i] \in [ 0 .. w - 1 -> Bit ]
      BY <3>1 DEF Indices
    <3> DEFINE value(b) == ShiftRight(FromString(bits), (n - i) * w)[b]
    <3>3. QuantizerBits(bits, n - i) = [ b \in 0 .. w - 1 |-> value(b) ]
      BY DEF QuantizerBits
    <3>4. \A b \in 0 .. w - 1 : value(b) = hop[i][b]
      OBVIOUS
    <3> HIDE DEF value, w
    <3> QED BY <3>2, <3>3, <3>4
  <2> DEFINE x == i * w
             y == (n - i) * w
             k == b + y
  <2>1. x \in Nat /\ y \in Nat /\ x + y = r
    <3> HIDE DEF w, n
    <3>1. i \in Nat /\ n - i \in Nat
      BY <1>1
    <3>2. i * w + (n - i) * w = n * w
      BY <1>1, <3>1
    <3> QED BY <1>1, <3>1, <3>2
  <2>2. x - b \in 1 .. r /\ string[x - b] = hop[i][b]
    BY <1>3
  <2> HIDE DEF x, y
  <2>3. /\ k \in Nat /\ k < r /\ k \in Positions /\ r - k = x - b
        /\ b \in Nat /\ b <= k
    BY <1>1, <2>1, <2>2 DEF Positions
  <2>4. b \in Positions
    BY <1>1, <2>3 DEF Positions
  <2> HIDE DEF k
  <2>5. ShiftRight(FromString(bits), y)[b] = FromString(bits)[k]
    BY <2>3, <2>4 DEF ShiftRight, k
  <2>6. FromString(bits)[k] = bits[r - k]
    BY <2>3 DEF FromString
  <2> QED BY <1>4, <2>2, <2>3, <2>5, <2>6 DEF y
<1>6. EncodingIndices(bits, tensor) =
        [ i \in 1 .. MaxNumQuantizers |->
            IF i <= n THEN QuantizerBits(bits, n - i) ELSE Unused ]
  BY DEF EncodingIndices
<1> HIDE DEF n
<1>7. \A i \in 1 .. MaxNumQuantizers : i <= n => QuantizerBits(bits, n - i) = hop[i]
  BY <1>1, <1>5
<1> QED BY <1>6, <1>7 DEF n, IndicesOf
\* The bits of a hop of audio are a string of the length that was asked for.
LEMMA QuantizedString ==
  ASSUME NEW hop \in [ 1 .. MaxNumQuantizers -> Indices ],
         NEW q \in SupportedQuantizedBits
  PROVE  Quantize(hop, q) \in Seq(Bit) /\ Len(Quantize(hop, q)) = q
<1> DEFINE w == BitsPerQuantizer
           n == q \div BitsPerQuantizer
           string == Quantize(hop, q)
<1>1. /\ w \in Nat \ {0} /\ n \in 0 .. MaxNumQuantizers /\ n \in Nat /\ n * w = q
      /\ q \in Nat
  <2>1. n \in 0 .. MaxNumQuantizers /\ n * w = q
    BY WholeQuantizers
  <2> HIDE DEF n
  <2> QED BY <2>1, FormatAssumption
<1>2. ASSUME NEW p \in 1 .. q
      PROVE  string[p] \in Bit
  <2> DEFINE d == (p - 1) \div w
             c == (p - 1) % w
  <2>1. string[p] = hop[d + 1][w - 1 - c]
    BY DEF Quantize
  <2> HIDE DEF w, n, string
  <2>2. d \in Nat /\ c \in 0 .. w - 1 /\ p - 1 = d * w + c
    BY <1>1
  <2> HIDE DEF d, c
  <2>3. d < n
    <3> SUFFICES ASSUME d >= n PROVE FALSE
      BY <1>1, <2>2
    <3>1. /\ (d - n) * w >= 0 /\ d * w = (d - n) * w + n * w
          /\ (d - n) * w \in Int /\ d * w \in Int
      BY <1>1, <2>2
    <3> QED BY <1>1, <2>2, <3>1
  <2>4. d + 1 \in 1 .. MaxNumQuantizers /\ w - 1 - c \in 0 .. w - 1
    <3>1. MaxNumQuantizers \in Nat
      BY FormatAssumption DEF MaxNumQuantizers
    <3> QED BY <1>1, <2>2, <2>3, <3>1
  <2>5. hop[d + 1] \in [ 0 .. w - 1 -> Bit ]
    BY <2>4 DEF Indices, w
  <2> QED BY <2>1, <2>4, <2>5
<1>3. string = [ p \in 1 .. q |-> string[p] ]
  BY DEF Quantize
<1> HIDE DEF string, n, w
<1>4. string \in Seq(Bit) /\ Len(string) = q
  <2>1. string \in [ 1 .. q -> Bit ]
    BY <1>2, <1>3
  <2> QED BY <1>1, <2>1
<1> QED BY <1>4 DEF string

-----------------------------------------------------------------------------
(***************************************************************************)
(* The channel.                                                            *)
(***************************************************************************)

\* The features are those of the latest audio, and a packet on its way is what
\* a cut has left of the packet made of them at the bitrate it was sent with.
ChannelInvariant ==
  /\ audio \in [ 1 .. MaxNumQuantizers -> Indices ]
  /\ encoder_output = audio
  /\ packet # <<>> =>
       \E q \in SupportedQuantizedBits : \E n \in 1 .. PacketSize(q) :
         bitrate = GetBitrate(q) /\ packet = Cut(Quantize(audio, q), n)
  /\ ReceivedIsSent

\* A cut packet of the size of some bitrate is decoded to as much of the hop as
\* that bitrate carries.
LEMMA CutPacketDecoded ==
  ASSUME NEW hop \in [ 1 .. MaxNumQuantizers -> Indices ],
         NEW q \in SupportedQuantizedBits, NEW n \in 1 .. PacketSize(q),
         NEW r \in SupportedQuantizedBits, PacketSize(r) = n, NEW tensor
  PROVE  /\ GetBitrate(r) <= GetBitrate(q)
         /\ EncodingIndices(UnpackPacket(Cut(Quantize(hop, q), n), r), tensor)
              = IndicesOf(hop, r)
<1> DEFINE string == Quantize(hop, q)
<1>1. string \in Seq(Bit) /\ Len(string) = q
  BY QuantizedString
<1> DEFINE bytes == Cut(string, n)
<1> HIDE DEF string
<1>2. PacketSize(r) <= PacketSize(q)
  BY SizeOfPacket
<1>3. r <= q
  BY <1>2, SizesAreOrdered
<1>4. GetBitrate(r) <= GetBitrate(q)
  BY <1>2, BitratesOfSizes
<1>5. UnpackPacket(Cut(string, PacketSize(r)), r) = [ p \in 1 .. r |-> string[p] ]
  BY <1>1, <1>2, UnpackedBits
<1> DEFINE bits == UnpackPacket(bytes, r)
<1>6. /\ Len(bits) = r
      /\ \A p \in 1 .. r : bits[p] = Quantize(hop, q)[p]
  <2>1. bits = [ p \in 1 .. r |-> string[p] ]
    BY <1>5
  <2>2. r \in Nat
    BY FormatAssumption
  <2> QED BY <2>1, <2>2 DEF string
<1> HIDE DEF bits
<1>7. EncodingIndices(bits, tensor) = IndicesOf(hop, r)
  BY <1>3, <1>6, IndicesOfBits
<1> QED BY <1>4, <1>7 DEF bits, bytes, string

\* No packet can be sent at a bitrate that is not supported.
LEMMA OnlySupportedIsSent ==
  ASSUME NEW b, IsQuantizable(BitrateToNumQuantizedBits(b))
  PROVE  /\ BitrateToNumQuantizedBits(b) \in SupportedQuantizedBits
         /\ GetBitrate(BitrateToNumQuantizedBits(b)) = b
<1>1. ~IsQuantizable(-1)
  <2>1. (-1) % BitsPerQuantizer = BitsPerQuantizer - 1
    BY FormatAssumption
  <2> QED BY <2>1, FormatAssumption DEF IsQuantizable
<1>2. \E q \in SupportedQuantizedBits : GetBitrate(q) = b
  BY <1>1 DEF BitrateToNumQuantizedBits
<1> QED BY <1>2 DEF BitrateToNumQuantizedBits

\* The invariant holds before anything is sent.
LEMMA ChannelInvariantInitially == Init => ChannelInvariant
<1> SUFFICES ASSUME Init PROVE ChannelInvariant
  OBVIOUS
<1>1. audio \in [ 1 .. MaxNumQuantizers -> Indices ]
  BY DEF Init, Silence, Indices, Bit
<1> QED BY <1>1 DEF Init, ChannelInvariant, ReceivedIsSent

\* A new packet holds the audio it was made of.
LEMMA SendKeeps ==
  ASSUME ChannelInvariant, NEW samples \in Audio, NEW invoked \in BOOLEAN, NEW b,
         Send(samples, invoked, b)
  PROVE  ChannelInvariant'
<1> DEFINE q == BitrateToNumQuantizedBits(b)
<1>1. /\ invoked /\ encoder_output' = samples /\ audio' = samples /\ bitrate' = b
      /\ packet' = PackQuantized(Quantize(samples, q)) /\ outcome' = "none"
      /\ IsQuantizable(q)
  BY DEF Send, Extract
<1>2. samples \in [ 1 .. MaxNumQuantizers -> Indices ]
  BY AudioAssumption
<1>3. q \in SupportedQuantizedBits /\ GetBitrate(q) = b
  BY <1>1, OnlySupportedIsSent
<1> HIDE DEF q
<1>4. Quantize(samples, q) \in Seq(Bit) /\ Len(Quantize(samples, q)) = q
  BY <1>2, <1>3, QuantizedString
<1>5. PacketSize(q) \in 1 .. PacketSize(q) /\ PacketSize(q) \in 0 .. PacketSize(q)
  BY <1>3, SizeOfPacket
<1>6. packet' = Cut(Quantize(samples, q), PacketSize(q))
  BY <1>1, <1>3, <1>4, <1>5, CutBytes
<1> QED BY <1>1, <1>2, <1>3, <1>5, <1>6 DEF ChannelInvariant, ReceivedIsSent

\* A cut packet is a shorter cut of the same packet.
LEMMA CutShortKeeps == ChannelInvariant /\ CutShort => ChannelInvariant'
<1> SUFFICES ASSUME ChannelInvariant, CutShort PROVE ChannelInvariant'
  OBVIOUS
<1>1. /\ Len(packet) > 1 /\ packet' = SubSeq(packet, 1, Len(packet) - 1)
      /\ encoder_output' = encoder_output /\ bitrate' = bitrate /\ audio' = audio
      /\ encoding_indices' = encoding_indices /\ outcome' = outcome
  BY DEF CutShort, encoder
<1>2. packet # <<>>
  BY <1>1
<1>q. PICK q \in SupportedQuantizedBits :
        \E n \in 1 .. PacketSize(q) :
          bitrate = GetBitrate(q) /\ packet = Cut(Quantize(audio, q), n)
  BY <1>2 DEF ChannelInvariant
<1>3. PICK n \in 1 .. PacketSize(q) :
        bitrate = GetBitrate(q) /\ packet = Cut(Quantize(audio, q), n)
  BY <1>q
<1>4. Quantize(audio, q) \in Seq(Bit) /\ Len(Quantize(audio, q)) = q
  BY QuantizedString DEF ChannelInvariant
<1>5. n \in 0 .. PacketSize(q) /\ n \in Nat /\ PacketSize(q) \in Nat
  BY SizeOfPacket
<1>6. Len(packet) = n
  BY <1>3, <1>4, <1>5, CutBytes
<1>7. n - 1 \in 0 .. n /\ n - 1 \in 1 .. PacketSize(q)
  BY <1>1, <1>5, <1>6
<1>8. SubSeq(Cut(Quantize(audio, q), n), 1, n - 1) = Cut(Quantize(audio, q), n - 1)
  BY <1>4, <1>5, <1>7, CutBytes
<1>9. packet' = Cut(Quantize(audio, q), n - 1)
  BY <1>1, <1>3, <1>6, <1>8
<1> QED BY <1>1, <1>3, <1>7, <1>9 DEF ChannelInvariant, ReceivedIsSent, IndicesSent

\* What receiving does to a packet: what is decoded is what was sent, as much of
\* it as arrived.
LEMMA DecodedIsSent ==
  ASSUME ChannelInvariant, Decode
  PROVE  /\ NumQuantizedBits \in SupportedQuantizedBits
         /\ GetBitrate(NumQuantizedBits) <= bitrate
         /\ encoding_indices' = IndicesSent(NumQuantizedBits)
<1>1. /\ packet # <<>> /\ NumQuantizedBits >= 0
      /\ encoding_indices' =
           EncodingIndices(UnpackPacket(packet, NumQuantizedBits), encoding_indices)
  BY DEF Decode, Deliver, IndicesOfPacket
<1>q. PICK q \in SupportedQuantizedBits :
        \E n \in 1 .. PacketSize(q) :
          bitrate = GetBitrate(q) /\ packet = Cut(Quantize(audio, q), n)
  BY <1>1 DEF ChannelInvariant
<1>2. PICK n \in 1 .. PacketSize(q) :
        bitrate = GetBitrate(q) /\ packet = Cut(Quantize(audio, q), n)
  BY <1>q
<1>3. audio \in [ 1 .. MaxNumQuantizers -> Indices ]
  BY DEF ChannelInvariant
<1> DEFINE r == NumQuantizedBits
<1>4. Len(packet) = n
  <2>1. Quantize(audio, q) \in Seq(Bit) /\ Len(Quantize(audio, q)) = q
    BY <1>3, QuantizedString
  <2>2. n \in 0 .. PacketSize(q)
    BY SizeOfPacket
  <2>3. Len(Cut(Quantize(audio, q), n)) = n
    BY <2>1, <2>2, CutBytes
  <2> QED BY <1>2, <2>3
<1>5. r \in SupportedQuantizedBits /\ PacketSize(r) = n
  BY <1>1, <1>4, SizeTellsBits DEF NumQuantizedBits
<1> HIDE DEF r
<1>6. /\ GetBitrate(r) <= GetBitrate(q)
      /\ EncodingIndices(UnpackPacket(Cut(Quantize(audio, q), n), r), encoding_indices)
           = IndicesOf(audio, r)
  BY <1>3, <1>5, CutPacketDecoded
<1> QED BY <1>1, <1>2, <1>5, <1>6 DEF IndicesSent, IndicesOf, r

\* Receiving, which may go wrong, leaves nothing else decoded.
LEMMA ReceiveKeeps == ChannelInvariant /\ Receive => ChannelInvariant'
<1> SUFFICES ASSUME ChannelInvariant, Receive PROVE ChannelInvariant'
  OBVIOUS
<1>1. /\ packet' = packet \/ packet' = <<>>
      /\ encoder_output' = encoder_output /\ bitrate' = bitrate /\ audio' = audio
  BY DEF Receive, Refuse, Decode, DecodingFails, Deliver, encoder
<1>2. CASE Refuse \/ DecodingFails
  <2>1. outcome' # "decoded"
    BY <1>2 DEF Refuse, DecodingFails
  <2> QED BY <1>1, <2>1 DEF ChannelInvariant, ReceivedIsSent
<1>3. CASE Decode
  <2>1. ReceivedIsSent'
    BY <1>1, <1>3, DecodedIsSent DEF ReceivedIsSent, IndicesSent
  <2> QED BY <1>1, <2>1 DEF ChannelInvariant
<1> QED BY <1>2, <1>3 DEF Receive

\* No step disturbs the invariant.
LEMMA ChannelInvariantKept == ChannelInvariant /\ [Next]_vars => ChannelInvariant'
<1> SUFFICES ASSUME ChannelInvariant, [Next]_vars PROVE ChannelInvariant'
  OBVIOUS
<1>1. CASE UNCHANGED vars
  BY <1>1 DEF vars, ChannelInvariant, ReceivedIsSent, IndicesSent
<1>2. ASSUME NEW samples \in Audio, NEW invoked \in BOOLEAN, NEW b \in Bitrates,
             Send(samples, invoked, b)
      PROVE  ChannelInvariant'
  BY <1>2, SendKeeps
<1>3. ASSUME NEW samples \in Audio, NEW invoked \in BOOLEAN,
             SendNothing(samples, invoked)
      PROVE  ChannelInvariant'
  <2>1. samples \in [ 1 .. MaxNumQuantizers -> Indices ]
    BY AudioAssumption
  <2>2. packet' = <<>> /\ encoding_indices' = encoding_indices
    BY <1>3 DEF SendNothing
  <2>3. CASE invoked
    <3>1. encoder_output' = samples /\ audio' = samples /\ outcome' = "none"
      BY <1>3, <2>3 DEF SendNothing, Extract
    <3> QED BY <2>1, <2>2, <3>1 DEF ChannelInvariant, ReceivedIsSent
  <2>4. CASE ~invoked
    <3>1. /\ encoder_output' = encoder_output /\ audio' = audio
          /\ outcome' = outcome /\ bitrate' = bitrate
      BY <1>3, <2>4 DEF SendNothing, Extract
    <3> QED BY <2>2, <3>1 DEF ChannelInvariant, ReceivedIsSent, IndicesSent
  <2> QED BY <2>3, <2>4
<1>4. CASE Lose
  BY <1>4 DEF Lose, encoder, ChannelInvariant, ReceivedIsSent, IndicesSent
<1>5. CASE CutShort
  BY <1>5, CutShortKeeps
<1>6. CASE Receive
  BY <1>6, ReceiveKeeps
<1> QED BY <1>1, <1>2, <1>3, <1>4, <1>5, <1>6 DEF Next

\* The features are always those of the latest audio, and a packet the front of
\* the one made of them.
THEOREM ChannelInvariantHolds == Spec => []ChannelInvariant
BY ChannelInvariantInitially, ChannelInvariantKept, PTL DEF Spec

\* Whatever is decoded is the audio the packet was made for, as much of it as
\* arrived: for all bitrates the lists may support, all headers and all audio.
THEOREM OnlyWhatWasSent == Spec => []ReceivedIsSent
<1>1. ChannelInvariant => ReceivedIsSent
  BY DEF ChannelInvariant
<1> QED BY <1>1, ChannelInvariantHolds, PTL

\* A packet that arrives whole is decoded to all that was sent, unless the
\* interpreter fails.
LEMMA WholePacket ==
  ASSUME ChannelInvariant, Receive, Len(packet) = BitrateToPacketSize(bitrate)
  PROVE  \/ outcome' = "failed"
         \/ /\ outcome' = "decoded"
            /\ encoding_indices' = IndicesSent(BitrateToNumQuantizedBits(bitrate))
<1>1. packet # <<>>
  BY DEF Receive, Refuse, Decode, DecodingFails, Deliver
<1>2. PICK q \in SupportedQuantizedBits :
        \E n \in 1 .. PacketSize(q) :
          bitrate = GetBitrate(q) /\ packet = Cut(Quantize(audio, q), n)
  BY <1>1 DEF ChannelInvariant
<1>3. NumQuantizedBits = q /\ BitrateToNumQuantizedBits(bitrate) = q
  <2>1. BitrateToPacketSize(bitrate) = PacketSize(q)
    BY <1>2, BitratesOfSizes
  <2>2. PacketSizeToNumQuantizedBits(PacketSize(q)) = q
    BY SizeTellsBits
  <2>3. BitrateToNumQuantizedBits(bitrate) = q
    BY <1>2, BitratesOfSizes
  <2> QED BY <2>1, <2>2, <2>3 DEF NumQuantizedBits
<1>4. ~Refuse
  BY <1>3, FormatAssumption DEF Refuse
<1>5. CASE Decode
  <2>1. outcome' = "decoded"
    BY <1>5 DEF Decode
  <2> QED BY <1>3, <1>5, <2>1, DecodedIsSent
<1>6. CASE DecodingFails
  BY <1>6 DEF DecodingFails
<1> QED BY <1>4, <1>5, <1>6 DEF Receive

\* No whole packet is refused or decoded in part.
THEOREM WholePacketsAreDecoded == Spec => WholePacketsArrive
<1>1. ChannelInvariant /\ [Next]_vars =>
        [ Receive /\ Len(packet) = BitrateToPacketSize(bitrate) =>
            \/ outcome' = "failed"
            \/ /\ outcome' = "decoded"
               /\ encoding_indices' =
                    IndicesSent(BitrateToNumQuantizedBits(bitrate)) ]_vars
  BY WholePacket
<1> QED BY <1>1, ChannelInvariantHolds, PTL DEF Spec, WholePacketsArrive
=============================================================================
