SPECIFICATION FairSpec
CONSTANTS
  Bands = {low, high}
  MaxPower = 2
  NumSamplesPerHop = 2
  NumSamplesPerWindow = 4
  NumHopsPerUpdate = 2
  Chunks = {1, 2}
INVARIANTS
  FeaturesAreOfTheLastWindow
  EstimateIsWindowMinimum
PROPERTIES
  BoundsGiveWay
