CONSTANTS
  Trade = {t1}
  Pass = {p1}
  Limit = 1
  Noon = 1
  MaxRows = 0
  MaxFlips = 0
  MaxWipes = 0
  MaxRestarts = 0
SPECIFICATION Spec
INVARIANTS
  CatchesInsertsAndUpdates
