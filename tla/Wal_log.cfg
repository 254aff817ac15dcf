SPECIFICATION FairSpec
CONSTANTS
  Sizes = {1, 3, 4}
  Capacity = 3
  LengthSpace = 4
  MaxRecords = 3
INVARIANTS
  TypeOK
  AckedStays
  IntactIsRecoverable

PROPERTY AppendReturns
