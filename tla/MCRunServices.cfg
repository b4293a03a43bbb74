SPECIFICATION Spec
CONSTANTS
  p1 = p1
  p2 = p2
  Procs = {p1, p2}
  Flp = p1
  Runs = {1, 2}
  UndefinedRun = 0
  SyncIds = {0}
  MaxRuns = 2
  Services <- MCServices
  Quiet = 1
  ClientTimeout = 1
  MaxStarts <- MCMaxStarts
  MaxCrashes = 1
  MaxSuccessiveFailures = 3
  MaxCount = 1
INVARIANT FinalIsPublished
INVARIANT BatchIsQuiet
PROPERTY RecordsOnlyGrow
PROPERTY EveryoneAnswered
PROPERTY CommandsEnd
CHECK_DEADLOCK FALSE
