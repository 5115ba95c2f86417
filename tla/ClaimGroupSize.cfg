SPECIFICATION GroupSpec
CONSTANTS
  Libraries <- AllLibraries
  HeaderSize <- MCHeaderSize
  Contents <- AllContents
INVARIANTS
  EnoughAllocated
CHECK_DEADLOCK FALSE
