SPECIFICATION Spec
CONSTANTS
  ByteBits = 3
  FrameRate = 5
  NumHeaderBits = 4
  SupportedQuantizedBits = {2, 4, 6}
  MaxNumPacketBits = 10
  MaxNumQuantizedBits = 6
  BitsPerQuantizer = 2
  Audio <- MCAudio
INVARIANTS
  ReceivedIsSent
PROPERTIES
  WholePacketsArrive
