SPECIFICATION Spec
CONSTANTS
  MaxOffset = 2147483647
  IntMax = 2147483647
  BufferSize = 64
  Inputs <- Singles
  Options <- Depth24
INVARIANTS
  SixteenMillionColorsReadBack
