\* Two equipments, a consumer and the consumer that feeds it, both state machines.
CONSTANTS
  Drivers = {"standalone", "interactive"}
  NEquipments = 2
  NConsumers = 2
  OutputOf <- MCOutputOf
  StopOnErrorDev = {1}
  StopOnErrorCons = {2}
  NumberOfRuns = 2
  TimeStart = TRUE
  NAddresses = 2
  MaxConfigure = 2
SPECIFICATION FairSpec
INVARIANTS
  CleanBetweenCommands
  ResetOrder
PROPERTIES
  PushedWhileStarted
  DataReleasedFirst
  RunIsStopped
CHECK_DEADLOCK FALSE
