SPECIFICATION UsersSpec
CONSTANTS
  c0 = c0
  c1 = c1
  c2 = c2
  c3 = c3
  c4 = c4
  NULL = NULL
  DEFAULT_CAPACITY = 2
  MaxColors = 4
  Keys <- FiveColors
  Values <- FiveColors
  Hash <- FiveHashes
  Images <- SomeImages
  SomeEntries <- FourEntries
INVARIANTS
  TypeOK
  FoundWhereLookedUp
  SizeCounts
  PixelsKeepColor
  TableIfItSuffices
PROPERTIES
  ImplementsMap
