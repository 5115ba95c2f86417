SPECIFICATION MainSpec
CONSTANTS
  MaxOffset = 500000
  IntMax = 2000
  Arguments <- ClaimLines
  Files <- ClaimFiles
  Options <- IndexOptions
  Garbage <- AnyHeader
INVARIANTS
  NthImageOnly
