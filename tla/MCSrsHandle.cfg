CONSTANTS
  Addr = {a1, a2, a3}
  Holder = {layer, geom}
  Def = {wgs84, nad83}
  MaxWrapper = 3
  NULL = NULL
SPECIFICATION Spec
INVARIANTS HasMeansHandle
CHECK_DEADLOCK FALSE
