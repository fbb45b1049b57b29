CONSTANTS
  DsPtr = {d1, d2}
  LayerPtr = {l1}
  BandPtr = {b1, b2}
  MaxUid = 4
SPECIFICATION Spec
SYMMETRY AddressSymmetry
INVARIANTS TypeOK OneWrapper ParentCached NativeBacked ResultSetsReleased ItemsOutliveUsers
PROPERTIES OnlyCloseKills KeepsPromise
CHECK_DEADLOCK FALSE
