SPECIFICATION MainSpec
CONSTANTS
  MaxOffset = 500000
  IntMax = 2000
  Arguments <- CommandLines
  Files <- AllFiles
  Options <- AllOptions
  Garbage <- AnyHeader
INVARIANTS
  TypeOK
  Synced
  TakenInFileOrder
  OutputsClosed
  IncompleteIsReported
  HeadersBalanced
  ExtractsExactly
  SuccessMeansExtracted
PROPERTIES
  OffsetNeverFallsBack
  OutputsKept
  ImplementsStream
  Termination
