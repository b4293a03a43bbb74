\* Up to 4 packets in up to 3 pages; see the module for the configurations.
CONSTANTS
  Packets <- MCPackets
  MaxPackets = 4
  MaxBlocks = 3
  OrbitMax = 3
  Configurations <- MCConfigurations
  NumberOfPages = 3
  ChildHeader = 1
SPECIFICATION RxSpec
INVARIANTS
  FramesAreExact
  PoolIsWellUsed
CHECK_DEADLOCK FALSE
