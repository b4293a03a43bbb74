\* A reset while the monitor waits for the mutex.
CONSTANTS
  Banks = {"a", "b"}
  BankBase <- MCBankBase
  BankSize <- MCBankSize
  Requests <- MCRequests
  SystemPageSize = 2
  SizeMod = 128
  IntMod = 32
  Monitored = TRUE
  MaxPools = 1
  MaxResets = 2
SPECIFICATION FairSpec
PROPERTIES
  ResetReturns
CHECK_DEADLOCK FALSE
