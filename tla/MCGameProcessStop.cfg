SPECIFICATION FairSpec
CONSTANTS
  BadAddresses = TRUE
  MaxClients = 1
CHECK_DEADLOCK FALSE
PROPERTIES
  StopReturns
