CONSTANTS
  StartingCapital = 40
  MinTrade = 2
  MaxPositionPct = 5
  DrawdownPausePct = 5
  Spot = {}
  Scalp = {c1}
  Binary = {b1}
  Monitor = monitor
  Managers = {manager}
  Learners = {learner1}
  Reconciler = reconciler
  NoTrade = NoTrade
  Aged = {b1}
  MaxSize = 3
  Pnls <- GainOrLoss
  MaxOpenTrades = 1
  RealTrading = TRUE
  MaxCrashes = 1
SPECIFICATION Spec
INVARIANTS
  InTradesIsOwed
PROPERTIES
  KeepsPromise
  CapHoldsInTurn
