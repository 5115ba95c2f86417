SPECIFICATION LibrarySpec
CONSTANTS
  Keys <- MCKeys
  Values <- MCValues
  Class <- MCClass
  Data <- MCData
  MaxListSize = 4
  Strings <- MCStrings
  Repetitions <- MCRepetitions
  Positions <- MCPositions
  Lengths <- MCLengths
  Greatest <- MCGreatest
INVARIANTS
  Linked
  Balanced
  WithinCapacity
  EditsAsText
  ParsesWhatFits
PROPERTIES
  ImplementsOrderedMap
  KeepsSequence
CHECK_DEADLOCK FALSE
