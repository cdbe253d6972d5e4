SPECIFICATION RetrySpec
CONSTANTS
  MaxWorkers = 3
  MaxInterrupts = 2
  MaxKills = 1
INVARIANTS SegmentOutlivesWorkers NothingLeftBehind IInv
PROPERTIES TimelyShutdownEnds SignalEndsServer
CHECK_DEADLOCK FALSE
