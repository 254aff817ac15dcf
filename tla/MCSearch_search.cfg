SPECIFICATION SearchSpec
CONSTANTS
  a = a
  b = b
  r1 = r1
  r2 = r2
  r3 = r3
  lion = lion
  zebra = zebra
  NONE = NONE
  RowIds = {r1, r2, r3}
  Terms = {lion, zebra}
  Threads = {a, b}
  Texts <- ShortTexts
  Exclusive = TRUE
  Rows = {r1, r2, r3}
  Dimension = 2
  Vectors <- PlaneVectors
  MaxEntries = 2
SYMMETRY Symmetric
INVARIANTS
  TypeOK
  CountInvariant
  NothingStale
  NothingLost
  SearchRanks
  NearestFound
