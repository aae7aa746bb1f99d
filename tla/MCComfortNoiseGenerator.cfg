SPECIFICATION Spec
CONSTANTS
  NumSamplesPerHop = 3
  NumSamplesPerWindow = 6
  Features = {soft, loud}
  MaxQueue = 2
INVARIANTS
  NoiseIsOverlapAdd
  EveryHopHasItsFrame
PROPERTIES
  NoiseStreamsInOrder
