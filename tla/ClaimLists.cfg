SPECIFICATION Spec
CONSTANTS
  Arguments <- MCArguments
  Filters <- MCFilters
INVARIANTS
  ListsTheResources
CHECK_DEADLOCK FALSE
