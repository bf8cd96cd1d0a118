-------------------------- MODULE MCDatagramStream --------------------------
(***************************************************************************)
(* Small headers for DatagramStream: begin sequence 1 2, one byte that is  *)
(* flag and payload length at once (0: short, one byte of payload; 1: long,*)
(* one byte; 2: short, two bytes), in a long header one byte of payload    *)
(* checksum, and a checksum of the byte before it.  Every stream over the  *)
(* three bytes is tried, so begin sequences and whole headers also occur   *)
(* in payloads and in garbage.                                             *)
(***************************************************************************)
EXTENDS DatagramStream

CONSTANT MaxChunk

MCByte == 0 .. 2
MCIsLong(h) == h[3] = 1
MCPayloadLength(h) == IF h[3] = 2 THEN 2 ELSE 1
MCChecksumOk(h) == h[Len(h)] = (h[Len(h) - 1] + 1) % 3
MCChunk == UNION {[1 .. n -> MCByte] : n \in 1 .. MaxChunk}

\* Headers for datagrams without a payload, as a bare Datagram may be: the byte
\* after the begin sequence is 0 for none, 1 for a payload of one byte, 2 for a
\* header with a payload checksum.  As in the real begin sequence, whose bytes
\* both have the top bit set, a begin sequence in the flag's place reads as
\* such a header.
MCIsLongScan(h) == h[3] = 2
MCPayloadLengthScan(h) == IF h[3] = 1 THEN 1 ELSE 0
=============================================================================
