SPECIFICATION FairSpec
CONSTANTS
  BadAddresses = TRUE
  MaxClients = 2
CHECK_DEADLOCK FALSE
INVARIANTS
  LockOrder
  NoThreadLeft
  StatisticsBeforeStop
PROPERTIES
  MutexReturned
  ProcessEnds
  ResultReported
