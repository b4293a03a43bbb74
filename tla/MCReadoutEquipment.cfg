\* Two equipments, two runs, three superpages in all, orbits of three bits.
CONSTANTS
  Links = {1, 2}
  OrbitMod = 8
  Period = 4
  Bits = {0, 1}
  CtpWidth = 1
  Setups <- MCSetups
  NPages = 2
  QueueSize = 1
  FifoSize = 1
  MaxFilled = 3
  MaxRuns = 2
SPECIFICATION FairSpec
INVARIANTS
  PagesAccounted
  BlocksInSequence
  TimeframeNumbering
  FatalErrorJustified
PROPERTIES
  DataInCtpRun
  EquipmentIsEmptied
CHECK_DEADLOCK FALSE
