SPECIFICATION Spec
CONSTANTS
  DefnPtr = {d1, d2, d3}
  Layer = {l1}
  FeatureDefn = {w1, w2}
  Feature = {f1, f2}
  Field = {x, y}
  MaxFields = 2
SYMMETRY Symmetry
INVARIANT LayoutCurrent
CHECK_DEADLOCK FALSE
