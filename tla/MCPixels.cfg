CONSTANTS
  Half = 512
  Bytes <- PixelBytes
  Plain = {"Byte", "Int16", "Float32"}
  Sizes <- BufferSizes
  Spaces <- PixelSpaces
  Blocks <- BlockSizes
  Counts <- ArrayCounts
SPECIFICATION Spec
INVARIANTS
  InBounds
  MadeFits
  NoNeedlessRefusal
  OnlyUnnamedCrashes
