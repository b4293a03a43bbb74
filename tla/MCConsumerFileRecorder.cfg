\* Files with limits, headers and dropped frames; failures to open and to write.
CONSTANTS
  Configurations <- MCConfigurations
  HeaderSize = 1
  MayFail = {TRUE, FALSE}
  MaxPages = 3
  MaxRuns = 2
SPECIFICATION Spec
INVARIANTS
  RecordedIsPrefix
  FilesWellFormed
CHECK_DEADLOCK FALSE
