SPECIFICATION Spec
CONSTANTS
  Schema <- Table
  MaxInt = 7
  Inserts <- Typed
  Queries <- AggregateWhere
  Conditions <- Asked
  Depth <- Heights
  MaxDepth = 2
  ChunkSize = 2
  MaxRows = 2
INVARIANTS
  AggregatesMatch
