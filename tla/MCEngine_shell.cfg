SPECIFICATION Spec
CONSTANTS
  a = a
  b = b
  public = public
  t1 = t1
  t2 = t2
  with_id = with_id
  without_id = without_id
  NULL = NULL
  MISSING = MISSING
  Namespaces = {public}
  IdSchemas = {with_id}
  Threads = {a}
  Names = {t1, t2}
  Schemas = {with_id, without_id}
  Keys = {1, 2}
  Batches <- Mixed
  ChunkSize = 2
  StartCatalogs <- AnySession
  MaxTables = 2
  MaxRows = 3
INVARIANTS
  TypeOK
  IndexComplete
  ReadsSeeCommitted
  ReadsSound
  DropLeavesNothing
PROPERTIES
  DropsItsOwnTable
  Atomic
