SPECIFICATION FairSpec
CONSTANTS
  Byte <- MCByte
  LOWER = 1
  UPPER = 2
  HEADER_SHORT = 4
  HEADER_LONG = 5
  IsLong <- MCIsLong
  PayloadLength <- MCPayloadLength
  ChecksumOk <- MCChecksumOk
  MaxChunk = 2
  Chunk <- MCChunk
  MaxBytes = 10
CHECK_DEADLOCK FALSE
INVARIANTS
  TypeOK
  HeaderStillCurrent
  BufferBounded
  FragmentationIndependent
  BytesConserved
PROPERTIES
  HandlerReturns
  ReadsStream
