SPECIFICATION Spec
CONSTANTS
  p = p
  q = q
  public = public
  t1 = t1
  t2 = t2
  s1 = s1
  Processes = {p, q}
  Namespaces = {public}
  Names = {t1, t2}
  Schemas = {s1}
  MaxTables = 2
  MaxMixtures = 1
  MixedLength = 2
  MaxMixedId = 0
INVARIANTS
  TypeOK
  ReloadKeepsCatalog
SYMMETRY ProcessSymmetry
