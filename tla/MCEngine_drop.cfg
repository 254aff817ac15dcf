SPECIFICATION Spec
CONSTANTS
  a = a
  b = b
  public = public
  t1 = t1
  t2 = t2
  with_id = with_id
  without_id = without_id
  NULL = NULL
  MISSING = MISSING
  Namespaces = {public}
  IdSchemas = {with_id}
  Threads = {a, b}
  Names = {t1}
  Schemas = {with_id}
  Keys = {1}
  Batches <- OneRow
  ChunkSize = 2
  StartCatalogs <- NewSession
  MaxTables = 2
  MaxRows = 2
SYMMETRY ThreadSymmetry
INVARIANTS
  CommittedRowsKept
  NoPhantomRows
  IndexSound
