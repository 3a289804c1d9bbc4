CONSTANTS
  Trade = {}
  Pass = {p1, p2}
  Limit = 1
  Noon = 2
  MaxRows = 2
  MaxFlips = 1
  MaxWipes = 1
  MaxRestarts = 1
SPECIFICATION FairSpec
PROPERTIES
  LedgerGetsThere
  StateConverges
