CONSTANTS
  DsPtr = {d1, d2}
  LayerPtr = {l1}
  BandPtr = {}
  MaxUid = 4
SPECIFICATION Spec
INVARIANTS CacheWrapsNative
CHECK_DEADLOCK FALSE
