--------------------------- MODULE DatagramReader ---------------------------
(***************************************************************************)
(* What DatagramStream promises: bytes arrive in chunks, and the datagrams *)
(* they contain are delivered one after the other, as if the whole stream  *)
(* had been there from the start.                                          *)
(***************************************************************************)
EXTENDS DatagramHeader

CONSTANTS Chunk, MaxBytes

VARIABLES received, delivered

readerVars == <<received, delivered>>

-----------------------------------------------------------------------------

\* What a reader of the whole stream at once finds in it: at each position
\* either no datagram begins and the reader moves on by one byte, or one does
\* and the reader takes all of it, or waits for the rest.
DatagramsIn(bytes) ==
  LET parse[p \in 1 .. Len(bytes) + 1] ==
        LET rest == From(bytes, p)
        IN  IF Len(rest) < 2 THEN << >>
            ELSE IF ~BeginsDatagram(rest) THEN parse[p + 1]
            ELSE IF Len(rest) < HEADER_SHORT \/ Len(rest) < HeaderLength(rest)
              THEN << >>
            ELSE IF ~HeaderCorrect(rest, HeaderLength(rest)) THEN parse[p + 1]
            ELSE LET total == HeaderLength(rest) + HeaderPayloadLength(rest)
                 IN  IF Len(rest) < total THEN << >>
                     ELSE <<SubSeq(rest, 1, total)>> \o parse[p + total]
  IN  parse[1]

Init ==
  /\ received = << >>
  /\ delivered = << >>

Read(chunk) ==
  /\ Len(received) + Len(chunk) <= MaxBytes
  /\ received' = received \o chunk
  /\ UNCHANGED delivered

Deliver ==
  LET datagrams == DatagramsIn(received)
  IN  /\ Len(delivered) < Len(datagrams)
      /\ delivered' = SubSeq(datagrams, 1, Len(delivered) + 1)
      /\ UNCHANGED received

Next == Deliver \/ \E chunk \in Chunk : Read(chunk)

Spec == Init /\ [][Next]_readerVars /\ WF_readerVars(Deliver)
=============================================================================
