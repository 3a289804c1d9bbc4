CONSTANTS
  Trade = {t1, t2}
  Pass = {p1, p2}
  Limit = 1
  Noon = 1
  MaxRows = 2
  MaxFlips = 0
  MaxWipes = 1
  MaxRestarts = 0
SPECIFICATION Spec
SYMMETRY Symmetric
INVARIANTS
  TypeOK
  LedgerCopiedToCursor
  OnlySlippedTradesAreStale
PROPERTIES
  RestoresABeginning
