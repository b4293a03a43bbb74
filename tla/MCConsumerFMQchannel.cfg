\* Without threads and with two, and FIFOs of one timeframe; the second dataset fails in the
\* formatting.  Four datasets in one run, or three over two runs.
CONSTANTS
  ThreadCounts = {0, 2}
  FifoSize = 1
  FailingData = {2}
  MaxData = 4
  MaxRuns = 2
  MaxCalls = 5
SPECIFICATION FairSpec
INVARIANTS
  TimeframesAccounted
PROPERTIES
  OrderedOutput
  PendingGoesOut
CHECK_DEADLOCK FALSE
