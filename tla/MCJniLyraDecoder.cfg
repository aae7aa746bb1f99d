SPECIFICATION JniFairSpec
CONSTANTS
  NumSamplesPerHop = 2
  ConcealmentDuration = 4
  FadeDuration = 2
  Requests = {1, 2}
  MaxBacklog = 2
  MaxProgress = 5
  QuantizerMayFail = TRUE
  Up = 3
  Down = 1
  ExternalRequests = {1, 4, 5}
INVARIANTS
  AndroidHearsItsPackets
  LeftoverIsPartOfASample
PROPERTIES
  CallsReturn
