SPECIFICATION Spec
CONSTANTS
  a = a
  b = b
  NONE = NONE
  MaxInt = 7
  Columns <- Fields
  Threads = {a, b}
  Tables = {1, 2}
  Docs <- People
  Filters <- AgeFilters
  Jsons <- Samples
  Nesting <- Depth
  MaxNesting = 2
  MaxRows = 3
SYMMETRY ThreadSymmetry
INVARIANTS
  TypeOK
  CountedOnce
  NoneLeft
  FindMeansFilter
PROPERTIES
  OnlyMatchingDeleted
