CONSTANT MaxStops = 2
SPECIFICATION FairSpec
INVARIANTS
  TypeOK
  OneMonitor
  OneCallPerLoop
  FlagsAreHeld
PROPERTIES
  PositionsAreWatched
  LoopsGoRound
