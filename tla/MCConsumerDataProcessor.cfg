\* Two threads; the second block may fail, with either library and either order; the index
\* of the collector overflows after three pages.
CONSTANTS
  NumberOfThreads = 2
  FifoSize = 1
  PageOrders = {TRUE, FALSE}
  CopyHeaders = {TRUE, FALSE}
  FailingBlocks = {2}
  IntMax = 3
  MaxBlocks = 5
SPECIFICATION FairSpec
INVARIANTS
  BlocksTracked
PROPERTIES
  KeepsOrder
  BlocksGoOut
CHECK_DEADLOCK FALSE
