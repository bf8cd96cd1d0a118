--------------------------- MODULE DatagramHeader ---------------------------
(***************************************************************************)
(* The header of a datagram as a receiver sees it (datagram/datagram.h and *)
(* HeaderCorrect of datagram_stream.cpp).  What a header says is left to   *)
(* three parameters that see only the bytes the code looks at, so that the *)
(* lengths 12 and 16 can be small in a run.                                *)
(***************************************************************************)
EXTENDS Integers, Sequences

CONSTANTS
  Byte,
  LOWER, UPPER,       \* the two bytes of BEGIN_SEQUENCE as they are sent
  HEADER_SHORT,       \* 12: header without payload checksum
  HEADER_LONG,        \* 16: header with payload checksum
  IsLong(_),          \* the flag in the top bit of byte 3
  PayloadLength(_),   \* the uint32_t at byte 4
  ChecksumOk(_)       \* the last two bytes are the CRC of the others

ASSUME HeaderAssumption ==
  /\ LOWER \in Byte /\ UPPER \in Byte
  /\ HEADER_SHORT \in Nat /\ HEADER_LONG \in Nat
  /\ 2 <= HEADER_SHORT /\ HEADER_SHORT <= HEADER_LONG

ASSUME FieldAssumption ==
  \A h \in [1 .. HEADER_SHORT -> Byte] :
    /\ IsLong(h) \in BOOLEAN
    /\ PayloadLength(h) \in Nat

-----------------------------------------------------------------------------
(* Each operator looks at a sequence of bytes from its start.              *)

BeginsDatagram(bytes) == bytes[1] = LOWER /\ bytes[2] = UPPER

Flagged(bytes) == IsLong(SubSeq(bytes, 1, HEADER_SHORT))

HeaderLength(bytes) == IF Flagged(bytes) THEN HEADER_LONG ELSE HEADER_SHORT

HeaderPayloadLength(bytes) == PayloadLength(SubSeq(bytes, 1, HEADER_SHORT))

\* HeaderCorrect of the code, for a buffer that holds n bytes at least.
HeaderCorrect(bytes, n) ==
  /\ BeginsDatagram(bytes)
  /\ ChecksumOk(SubSeq(bytes, 1, n))

From(bytes, n) == SubSeq(bytes, n, Len(bytes))
=============================================================================
