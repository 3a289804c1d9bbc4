CONSTANTS
  Runner = {"agent", "web1"}
  Process = {"agent", "server"}
  Home <- MCHome
  MonitorHome = "agent"
  Scan <- MCScan
  MaxMargin = 1
  Start = 2
  Pnls <- MCPnls
  MaxDailyLoss = 2
  MaxStreak = 1
  MaxBar = 2
  MaxTrades = 3
  MaxRestarts = 1
SPECIFICATION Spec
INVARIANTS
  TypeOK
  OnePerRunner
PROPERTIES
  MarginIsCovered
  CooldownStopsNewCycles
  OneEntryPerBar
