--------------------------- MODULE DatagramStream ---------------------------
(***************************************************************************)
(* DatagramStream (datagram/datagram_stream.cpp) as MainProcessComm drives *)
(* it: each read from the TCP socket appends a chunk of bytes, and the     *)
(* handler then flushes datagrams out of the buffer until none is complete *)
(* (main_process_comm.cpp, StartReceive).  One step is one block of        *)
(* FlushData.                                                              *)
(***************************************************************************)
EXTENDS DatagramHeader

CONSTANTS
  Chunk,              \* what one read may return
  MaxBytes            \* bound: length of the stream

ASSUME ReadAssumption ==
  /\ Chunk \subseteq Seq(Byte) \ {<< >>}
  /\ MaxBytes \in Nat

VARIABLES
  state,            \* state_
  buffer,           \* buffer_
  header_length,    \* header_length_
  payload_length,   \* payload_length_
  handler,          \* is the receive handler waiting or flushing?
  received,         \* history: every byte read from the socket
  skipped,          \* history: number of bytes erased as no datagram
  delivered         \* history: every datagram loaded, as its bytes

vars == <<state, buffer, header_length, payload_length, handler, received,
          skipped, delivered>>

-----------------------------------------------------------------------------

Init ==
  /\ state = "BEGIN_SEQ"
  /\ buffer = << >>
  /\ header_length = HEADER_SHORT
  /\ payload_length = 0
  /\ handler = "waiting"
  /\ received = << >>
  /\ skipped = 0
  /\ delivered = << >>

\* The read handler: AddData appends what was read and calls FlushData.
AddData(chunk) ==
  /\ handler = "waiting"
  /\ Len(received) + Len(chunk) <= MaxBytes
  /\ buffer' = buffer \o chunk
  /\ received' = received \o chunk
  /\ handler' = "flushing"
  /\ UNCHANGED <<state, header_length, payload_length, skipped, delivered>>

\* Positions of the begin sequence in the buffer.
Begins == {n \in 1 .. Len(buffer) - 1 :
             buffer[n] = LOWER /\ buffer[n + 1] = UPPER}

ScanFound ==
  /\ handler = "flushing"
  /\ state = "BEGIN_SEQ"
  /\ \E n \in Begins :
       /\ \A m \in Begins : n <= m
       /\ buffer' = From(buffer, n)
       /\ skipped' = skipped + n - 1
  /\ state' = "HEADER_1"
  /\ UNCHANGED <<header_length, payload_length, handler, received, delivered>>

\* Seeded fault: everything is erased.
ScanErasesAll ==
  /\ handler = "flushing"
  /\ state = "BEGIN_SEQ"
  /\ buffer # << >>
  /\ Begins = {}
  /\ buffer' = << >>
  /\ skipped' = skipped + Len(buffer)
  /\ handler' = "waiting"
  /\ UNCHANGED <<state, header_length, payload_length, received, delivered>>

\* Seeded fault: nothing is erased.
ScanErasesNothing ==
  /\ handler = "flushing"
  /\ state = "BEGIN_SEQ"
  /\ buffer # << >>
  /\ Begins = {}
  /\ handler' = "waiting"
  /\ UNCHANGED <<state, buffer, header_length, payload_length, received,
                 skipped, delivered>>

\* The last byte is kept, FlushData returns false.
ScanNotFound ==
  /\ handler = "flushing"
  /\ state = "BEGIN_SEQ"
  /\ buffer # << >>
  /\ Begins = {}
  /\ buffer' = From(buffer, Len(buffer))
  /\ skipped' = skipped + Len(buffer) - 1
  /\ handler' = "waiting"
  /\ UNCHANGED <<state, header_length, payload_length, received, delivered>>

\* On an empty buffer buffer_.size() - 1 wraps to the largest size_t and the
\* scan reads the storage behind the end.  The buffer is only ever empty here
\* right after a datagram that filled it was erased; erasing all elements
\* moves nothing, so the two bytes found are the begin sequence of that
\* datagram and the scan returns 0.
ScanEmpty ==
  /\ handler = "flushing"
  /\ state = "BEGIN_SEQ"
  /\ buffer = << >>
  /\ state' = "HEADER_1"
  /\ UNCHANGED <<buffer, header_length, payload_length, handler, received,
                 skipped, delivered>>

\* Seeded fault: the checksum is taken to be as long as a header.
ReadFlagDouble ==
  /\ handler = "flushing"
  /\ state = "HEADER_1"
  /\ Len(buffer) >= HEADER_SHORT
  /\ header_length' = IF Flagged(buffer) THEN 2 * HEADER_SHORT
                                        ELSE HEADER_SHORT
  /\ state' = "HEADER_2"
  /\ UNCHANGED <<buffer, payload_length, handler, received, skipped, delivered>>

ReadFlag ==
  /\ handler = "flushing"
  /\ state = "HEADER_1"
  /\ Len(buffer) >= HEADER_SHORT
  /\ header_length' = HeaderLength(buffer)
  /\ state' = "HEADER_2"
  /\ UNCHANGED <<buffer, payload_length, handler, received, skipped, delivered>>

\* Seeded fault: the header is not checked.
AcceptAnyHeader ==
  /\ handler = "flushing"
  /\ state = "HEADER_2"
  /\ Len(buffer) >= header_length
  /\ payload_length' = HeaderPayloadLength(buffer)
  /\ state' = "PAYLOAD"
  /\ UNCHANGED <<buffer, header_length, handler, received, skipped, delivered>>

AcceptHeader ==
  /\ handler = "flushing"
  /\ state = "HEADER_2"
  /\ Len(buffer) >= header_length
  /\ HeaderCorrect(buffer, header_length)
  /\ payload_length' = HeaderPayloadLength(buffer)
  /\ state' = "PAYLOAD"
  /\ UNCHANGED <<buffer, header_length, handler, received, skipped, delivered>>

\* Seeded fault: the wrong header stays in the buffer.
RejectWithoutErase ==
  /\ handler = "flushing"
  /\ state = "HEADER_2"
  /\ Len(buffer) >= header_length
  /\ ~HeaderCorrect(buffer, header_length)
  /\ state' = "BEGIN_SEQ"
  /\ UNCHANGED <<buffer, header_length, payload_length, handler, received,
                 skipped, delivered>>

\* Erase one byte, look for the next begin sequence, repeat.
RejectHeader ==
  /\ handler = "flushing"
  /\ state = "HEADER_2"
  /\ Len(buffer) >= header_length
  /\ ~HeaderCorrect(buffer, header_length)
  /\ buffer' = From(buffer, 2)
  /\ skipped' = skipped + 1
  /\ state' = "BEGIN_SEQ"
  /\ UNCHANGED <<header_length, payload_length, handler, received, delivered>>

\* Seeded fault: only the payload's length is erased.
LoadErasesLess ==
  /\ handler = "flushing"
  /\ state = "PAYLOAD"
  /\ Len(buffer) >= header_length + payload_length
  /\ delivered' = Append(delivered,
                         SubSeq(buffer, 1, header_length + payload_length))
  /\ buffer' = From(buffer, payload_length + 1)
  /\ state' = "BEGIN_SEQ"
  /\ UNCHANGED <<header_length, payload_length, handler, received, skipped>>

\* Seeded fault: the state is not reset.
LoadKeepsState ==
  /\ handler = "flushing"
  /\ state = "PAYLOAD"
  /\ Len(buffer) >= header_length + payload_length
  /\ delivered' = Append(delivered,
                         SubSeq(buffer, 1, header_length + payload_length))
  /\ buffer' = From(buffer, header_length + payload_length + 1)
  /\ UNCHANGED <<state, header_length, payload_length, handler, received,
                 skipped>>

\* Load and erase; FlushData returns true and the handler calls it again.
LoadDatagram ==
  /\ handler = "flushing"
  /\ state = "PAYLOAD"
  /\ Len(buffer) >= header_length + payload_length
  /\ delivered' = Append(delivered,
                         SubSeq(buffer, 1, header_length + payload_length))
  /\ buffer' = From(buffer, header_length + payload_length + 1)
  /\ state' = "BEGIN_SEQ"
  /\ UNCHANGED <<header_length, payload_length, handler, received, skipped>>

\* FlushData returns false: the handler starts the next read.
Incomplete ==
  /\ handler = "flushing"
  /\ \/ state = "HEADER_1" /\ Len(buffer) < HEADER_SHORT
     \/ state = "HEADER_2" /\ Len(buffer) < header_length
     \/ state = "PAYLOAD" /\ Len(buffer) < header_length + payload_length
  /\ handler' = "waiting"
  /\ UNCHANGED <<state, buffer, header_length, payload_length, received,
                 skipped, delivered>>

FlushData ==
  \/ ScanFound
  \/ ScanNotFound
  \/ ScanEmpty
  \/ ReadFlag
  \/ AcceptHeader
  \/ RejectHeader
  \/ LoadDatagram
  \/ Incomplete

Next == FlushData \/ \E chunk \in Chunk : AddData(chunk)

Spec == Init /\ [][Next]_vars

\* The handler runs to its end once it was called.
FairSpec == Spec /\ WF_vars(FlushData)

-----------------------------------------------------------------------------
(* Properties.                                                             *)

TypeOK ==
  /\ state \in {"BEGIN_SEQ", "HEADER_1", "HEADER_2", "PAYLOAD"}
  /\ buffer \in Seq(Byte)
  /\ header_length \in {HEADER_SHORT, HEADER_LONG}
  /\ payload_length \in Nat
  /\ handler \in {"waiting", "flushing"}
  /\ received \in Seq(Byte)
  /\ skipped \in Nat
  /\ delivered \in Seq(Seq(Byte))

\* header_length_ and payload_length_ are read from the buffer in one call
\* and used in a later one, after more bytes have arrived.  They still agree
\* with the header at the start of the buffer, which is the header that was
\* checked; so Load cannot throw in FlushData and its catch is never reached.
HeaderStillCurrent ==
  /\ state \in {"HEADER_2", "PAYLOAD"} =>
       Len(buffer) >= HEADER_SHORT /\ header_length = HeaderLength(buffer)
  /\ state = "PAYLOAD" =>
       /\ Len(buffer) >= header_length
       /\ HeaderCorrect(buffer, header_length)
       /\ payload_length = HeaderPayloadLength(buffer)

\* Between two reads the buffer never holds more than one incomplete
\* datagram: a long run of garbage or of datagrams does not pile up.
BufferBounded ==
  handler = "waiting" =>
    Len(buffer) < CASE state = "BEGIN_SEQ" -> 2
                    [] state = "HEADER_1"  -> HEADER_SHORT
                    [] state = "HEADER_2"  -> HEADER_LONG
                    [] state = "PAYLOAD"   -> header_length + payload_length

Reader == INSTANCE DatagramReader WITH received <- received,
                                       delivered <- delivered

\* TCP may cut the stream anywhere.  However it is cut, after each read the
\* stream has delivered exactly the datagrams that are in what was received,
\* in order, with garbage before and between them skipped.
FragmentationIndependent ==
  handler = "waiting" => delivered = Reader!DatagramsIn(received)

\* The stream implements the reader of DatagramReader.tla: each datagram it
\* delivers is the next one of those in the bytes received so far, more bytes
\* never change what was delivered, and no complete datagram is held back.
ReadsStream == Reader!Spec

\* Bytes are neither lost nor duplicated: what is not in the buffer was
\* delivered or skipped, and the buffer is the tail of what was received.
BytesConserved ==
  LET sum[n \in 0 .. Len(delivered)] ==
        IF n = 0 THEN 0 ELSE sum[n - 1] + Len(delivered[n])
      gone == skipped + sum[Len(delivered)]
  IN  /\ gone + Len(buffer) = Len(received)
      /\ buffer = From(received, gone + 1)

\* The loop in the handler ends although it repeats after each datagram and
\* after each header that turns out to be wrong.
HandlerReturns == handler = "flushing" ~> handler = "waiting"

\* "It stream will complete full datagram, it will be decoded."
\* (datagram_stream.cpp:8-9): no datagram that is complete waits in the
\* buffer.  After ScanEmpty the header is read where no begin sequence is; if
\* garbage follows, its flag may promise a longer header than the datagram
\* behind it is, and that datagram is held back until more bytes come.
CompleteIsLoaded ==
  handler = "waiting" => Len(delivered) >= Len(Reader!DatagramsIn(received))
=============================================================================
