SPECIFICATION GroupSpec
CONSTANTS
  Libraries <- AllLibraries
  HeaderSize <- MCHeaderSize
  Contents <- AllContents
INVARIANTS
  TypeOK
  Relocated
  WellFormedIsLoaded
  InBounds
  ExtractsWhole
CHECK_DEADLOCK FALSE
