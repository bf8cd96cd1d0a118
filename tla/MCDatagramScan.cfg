SPECIFICATION Spec
CONSTANTS
  Byte <- MCByte
  LOWER = 1
  UPPER = 2
  HEADER_SHORT = 4
  HEADER_LONG = 6
  IsLong <- MCIsLongScan
  PayloadLength <- MCPayloadLengthScan
  ChecksumOk <- MCChecksumOk
  MaxChunk = 2
  Chunk <- MCChunk
  MaxBytes = 9
CHECK_DEADLOCK FALSE
INVARIANTS
  CompleteIsLoaded
