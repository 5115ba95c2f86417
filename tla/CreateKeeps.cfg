SPECIFICATION Spec
CONSTANTS
  MaxOffset = 2147483647
  IntMax = 2147483647
  BufferSize = 64
  Inputs <- SoundOrMixed
  Options <- EveryDepthAndOutput
INVARIANTS
  TypeOK
  NothingLeaksOrDangles
  UntouchedIfUnreadable
  HeadersBalanced
  LayoutExact
  PixelsReadBack
  ReadsBack
  ColorsKept
  SuccessKeepsLargeImages
PROPERTIES
  Termination
