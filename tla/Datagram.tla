------------------------------ MODULE Datagram ------------------------------
(***************************************************************************)
(* The datagram of datagram/datagram.cpp byte by byte: begin sequence,     *)
(* version and checksum flag, length of the payload, checksum of the       *)
(* payload if flagged, checksum of the header, payload.  Numbers are sent  *)
(* with the least significant byte first.                                  *)
(***************************************************************************)
EXTENDS Crc, FiniteSetsExt

CONSTANT LENGTH_MODULUS      \* 2^32: payload_length_ + header_lenght wraps

ASSUME LengthAssumption == LENGTH_MODULUS \in Nat \ {0}

\* The word of a number below 2^31, and the number of a byte.
WordOf(n) == {k \in 0 .. 30 : (n \div 2 ^ k) % 2 = 1}
ByteNumber(byte) ==
  LET bit(k) == IF k \in byte THEN 2 ^ k ELSE 0
  IN  bit(0) + bit(1) + bit(2) + bit(3) + bit(4) + bit(5) + bit(6) + bit(7)

\* A word as n bytes in memory, and back.
BytesOf(word, n) ==
  [i \in 1 .. n |-> Low(ShiftRight(word, CHAR_BIT * (i - 1)), CHAR_BIT)]
FromBytes(bytes) ==
  UNION {ShiftLeft(bytes[i], CHAR_BIT * (i - 1)) : i \in DOMAIN bytes}

-----------------------------------------------------------------------------

BEGIN_SEQUENCE == BytesOf(Word(<<\hABDA>>), 2)
MINIMAL_LENGTH == 12
FLAG == 7                    \* 0x80: the payload has a checksum

HeaderLengthOf(checksum_included) ==
  MINIMAL_LENGTH + IF checksum_included THEN 4 ELSE 0

\* The setters: what is left of a version, and of everything else.
SetVersion(version) == Low(WordOf(version), 15)

NewDatagram(version, checksum_included, payload) ==
  [version |-> SetVersion(version), payload |-> payload,
   payload_checksum_included |-> checksum_included]

\* The bytes between length and header checksum stay zero without a payload
\* checksum, and two of them also with one.
Get(d) ==
  LET flag == IF d.payload_checksum_included THEN {FLAG} ELSE {}
      sum == IF d.payload_checksum_included
             THEN BytesOf(Calculate(CRC_32, d.payload), 4) ELSE << >>
      header == BEGIN_SEQUENCE
                  \o [BytesOf(d.version, 2) EXCEPT ![2] = @ \cup flag]
                  \o BytesOf(WordOf(Len(d.payload)), 4)
                  \o sum \o <<{}, {}>>
  IN  header \o BytesOf(Calculate(CRC_16_ARC, header), 2) \o d.payload

-----------------------------------------------------------------------------
(* What a receiver reads from the bytes.                                   *)

ChecksumIncluded(bytes) == FLAG \in bytes[4]
LengthField(bytes) ==
  ByteNumber(bytes[5]) + 256 * ByteNumber(bytes[6])
    + 65536 * ByteNumber(bytes[7]) + 16777216 * ByteNumber(bytes[8])

HeaderChecksumCorrect(header) ==
  LET n == Len(header)
  IN  SubSeq(header, n - 1, n)
        = BytesOf(Calculate(CRC_16_ARC, SubSeq(header, 1, n - 2)), 2)

\* Load throws an exception unless this holds.  The last conjunct is the check
\* that the payload does not overflow the datagram, in 32 bits.
Loads(bytes) ==
  /\ Len(bytes) >= MINIMAL_LENGTH
  /\ SubSeq(bytes, 1, 2) = BEGIN_SEQUENCE
  /\ LET n == HeaderLengthOf(ChecksumIncluded(bytes))
     IN  /\ Len(bytes) >= n
         /\ HeaderChecksumCorrect(SubSeq(bytes, 1, n))
         /\ (LengthField(bytes) + n) % LENGTH_MODULUS <= Len(bytes)

\* Only the low byte of the version is kept.
Load(bytes) ==
  LET n == HeaderLengthOf(ChecksumIncluded(bytes))
  IN  [version |-> bytes[3],
       payload_checksum_included |-> ChecksumIncluded(bytes),
       payload_checksum |-> FromBytes(SubSeq(bytes, 9, 12)),
       payload |-> SubSeq(bytes, n + 1, n + LengthField(bytes))]

Version(d) == ByteNumber(d.version)

\* Load takes exactly payload_length_ bytes, so the lengths always agree.
PayloadCorrectness(d) ==
  d.payload_checksum_included =>
    Calculate(CRC_32, d.payload) = d.payload_checksum
=============================================================================
