CONSTANTS
  StartingCapital = 40
  MinTrade = 2
  MaxPositionPct = 5
  DrawdownPausePct = 5
  Spot = {}
  Scalp = {c1}
  Binary = {}
  Monitor = monitor
  Managers = {manager1, manager2}
  Learners = {}
  Reconciler = reconciler
  NoTrade = NoTrade
  Aged = {}
  MaxSize = 3
  Pnls <- GainOrLoss
  MaxOpenTrades = 2
  RealTrading = FALSE
  MaxCrashes = 0
SPECIFICATION Spec
INVARIANTS
  SettledOnce
