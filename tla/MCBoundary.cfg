SPECIFICATION Spec
CONSTANTS
  Text <- MCText
  Stoi <- MCStoi
  Stod <- MCStod
  UINT16_MODULUS = 256
  UINT32_MODULUS = 1024
  INT32_MODULUS = 1024
  LENGTH_MODULUS = 65536
  Tables <- MCTables
  Serialize <- MCSerialize
  PlayerList <- MCPlayerList
  Before <- MCBefore
  After <- MCAfter
  ReadSize = {9, 64}
  DamagedBit = {0, 7}
  MaxBytes = 56
  Message <- MCMessage
  UdpClient <- MCClient
  points_to_win = 200
CHECK_DEADLOCK FALSE
INVARIANTS
  CheckValueReached
  TableAgrees
  LastReadableValueCounts
  PacketsUnderstood
PROPERTIES
  ListsLoaded
