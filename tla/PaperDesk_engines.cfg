CONSTANTS
  StartingCapital = 40
  MinTrade = 2
  MaxPositionPct = 5
  DrawdownPausePct = 5
  Spot = {s1}
  Scalp = {}
  Binary = {b1}
  Monitor = monitor
  Managers = {}
  Learners = {learner1, learner2}
  Reconciler = reconciler
  NoTrade = NoTrade
  Aged = {s1, b1}
  MaxSize = 3
  Pnls <- GainOrLoss
  MaxOpenTrades = 2
  RealTrading = FALSE
  MaxCrashes = 1
SPECIFICATION FairSpec
INVARIANTS
  TypeOK
  LedgerBalances
  OpenTradesAreCovered
  InTradesIsOwed
  SettledOnce
PROPERTIES
  DegradedOpensNothing
  KeepsPromise
  SpotTradesEnd
