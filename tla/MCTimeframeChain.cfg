SPECIFICATION Spec
CONSTANTS
  PlayerConfigs <- MCPlayerConfigs
  RdhSize = 2
  Period = 2
  OrbitMod = 64
  MaxPages = 6
  EmulatorConfigs <- MCEmulatorConfigs
  LHCBunches = 4
  TimeframePeriod = 2
  MaxClock = 3
  MaxGiven = 4
  ZmqModes <- MCZmqModes
  MaxBlocks = 4
  MaxAllowed = 3
  Setups <- MCSetups
INVARIANT SourcesAreFaithful
INVARIANT TicksIncrease
INVARIANT BlocksAreMessages
INVARIANT OneBlockPerTimeframe
PROPERTY TimeframesServed
CHECK_DEADLOCK FALSE
