CONSTANTS
  Agent = agent
  Server = server
  PredictionTicks = TRUE
  MaxTrades = 2
  MaxRestarts = 2
SPECIFICATION Spec
INVARIANTS
  TypeOK
  TroubleOpensNothing
PROPERTIES
  LiftedByLowScore
  NothingAtCriticalRisk
