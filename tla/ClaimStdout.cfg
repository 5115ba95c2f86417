SPECIFICATION MainSpec
CONSTANTS
  MaxOffset = 500000
  IntMax = 2000
  Arguments <- ClaimLines
  Files <- ClaimFiles
  Options <- StdoutOptions
  Garbage <- AnyHeader
INVARIANTS
  AllToStdout
