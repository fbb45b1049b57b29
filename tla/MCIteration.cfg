CONSTANTS
  MaxFid = 3
  MaxDepth = 2
  MaxDrivers = 3
SPECIFICATION FairSpec
INVARIANTS
  EveryFeatureOnce
  EveryElementOnce
  OpensIfOneDoes
PROPERTIES
  EndsUnlessMoved
