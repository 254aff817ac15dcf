SPECIFICATION Spec
CONSTANTS
  Schema <- Table
  MaxInt = 7
  Inserts <- Typed
  Queries <- TypedQueries
  Conditions <- Asked
  Depth <- Heights
  MaxDepth = 2
  ChunkSize = 2
  MaxRows = 3
INVARIANTS
  TypeOK
  SelectsMatch
  AggregatesMatch
  GroupsMatch
  CopiesExact
  WhereMatches
  BatchesMatch
PROPERTIES
  InsertsMatch
