CONSTANTS
  Order = {o1, o2, o3}
  DedupLimit = 2
  MaxForgets = 3
SPECIFICATION FairSpec
INVARIANTS
  TypeOK
  OneLine
  ReportedOncePerMemory
PROPERTIES
  DeadLineIsReplaced
