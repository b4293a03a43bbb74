\* The monitor runs; two cycles of CONFIGURE and RESET with up to four pools.
CONSTANTS
  Banks = {"a", "b"}
  BankBase <- MCBankBase
  BankSize <- MCBankSize
  Requests <- MCRequests
  SystemPageSize = 2
  SizeMod = 128
  IntMod = 32
  Monitored = TRUE
  MaxPools = 4
  MaxResets = 2
SPECIFICATION Spec
INVARIANTS
  PoolsDisjoint
  PoolsAligned
CHECK_DEADLOCK FALSE
