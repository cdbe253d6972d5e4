SPECIFICATION FairSpec
CONSTANTS
  MaxWorkers = 2
  MaxInterrupts = 0
  MaxKills = 0
PROPERTIES SignalEndsServer
CHECK_DEADLOCK FALSE
