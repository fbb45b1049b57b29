CONSTANTS
  DsPtr = {d1}
  LayerPtr = {l1}
  BandPtr = {b1}
  MaxUid = 4
SPECIFICATION FairSpec
PROPERTIES ItemsFreed
CHECK_DEADLOCK FALSE
