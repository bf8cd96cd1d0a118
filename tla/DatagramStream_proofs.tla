------------------------- MODULE DatagramStream_proofs -------------------------
(***************************************************************************)
(* Theorems about DatagramStream for any header format and any stream.     *)
(***************************************************************************)
EXTENDS DatagramStream, LeastNumber, SequenceTheorems, TLAPS

-----------------------------------------------------------------------------
(* Parts of sequences.                                                     *)

LEMMA FromProperties ==
  ASSUME NEW S, NEW s \in Seq(S), NEW n \in 1 .. Len(s) + 1
  PROVE  /\ From(s, n) \in Seq(S)
         /\ Len(From(s, n)) = Len(s) - n + 1
         /\ \A i \in 1 .. Len(s) - n + 1 : From(s, n)[i] = s[n + i - 1]
<1>1. Len(s) \in Nat /\ n \in Int
  BY LenProperties
<1>2. \A i \in n .. Len(s) : s[i] \in S
  BY <1>1, ElementOfSeq
<1>3. /\ SubSeq(s, n, Len(s)) \in Seq(S)
      /\ Len(SubSeq(s, n, Len(s))) = IF n <= Len(s) THEN Len(s) - n + 1 ELSE 0
      /\ \A i \in 1 .. Len(s) - n + 1 :
           SubSeq(s, n, Len(s))[i] = s[n + i - 1]
  BY <1>1, <1>2, SubSeqProperties
<1>. QED BY <1>1, <1>3 DEF From

LEMMA FromFrom ==
  ASSUME NEW S, NEW s \in Seq(S), NEW a \in 1 .. Len(s) + 1,
         NEW n \in 1 .. Len(s) - a + 2
  PROVE  From(From(s, a), n) = From(s, a + n - 1)
<1> DEFINE t == From(s, a)
           u == From(t, n)
           v == From(s, a + n - 1)
<1>1. Len(s) \in Nat
  BY LenProperties
<1>2. /\ t \in Seq(S) /\ Len(t) = Len(s) - a + 1
      /\ \A i \in 1 .. Len(s) - a + 1 : t[i] = s[a + i - 1]
  BY FromProperties
<1>3. n \in 1 .. Len(t) + 1
  BY <1>1, <1>2
<1> HIDE DEF t
<1>4. /\ u \in Seq(S) /\ Len(u) = Len(t) - n + 1
      /\ \A i \in 1 .. Len(t) - n + 1 : u[i] = t[n + i - 1]
  BY <1>2, <1>3, FromProperties, ZenonT(60)
<1>5. a + n - 1 \in 1 .. Len(s) + 1
  BY <1>1
<1>6. /\ v \in Seq(S) /\ Len(v) = Len(s) - (a + n - 1) + 1
      /\ \A i \in 1 .. Len(s) - (a + n - 1) + 1 : v[i] = s[a + n - 1 + i - 1]
  BY <1>5, FromProperties
<1> HIDE DEF u, v
<1>7. Len(u) = Len(v)
  BY <1>1, <1>2, <1>4, <1>6
<1>8. \A i \in 1 .. Len(u) : u[i] = v[i]
  <2> TAKE i \in 1 .. Len(u)
  <2>1. u[i] = t[n + i - 1] BY <1>4
  <2>2. n + i - 1 \in 1 .. Len(s) - a + 1 BY <1>1, <1>2, <1>4
  <2>3. t[n + i - 1] = s[a + (n + i - 1) - 1] BY <1>2, <2>2
  <2>4. v[i] = s[a + n - 1 + i - 1]
    BY <1>1, <1>2, <1>4, <1>6
  <2>5. a + (n + i - 1) - 1 = a + n - 1 + i - 1 BY <1>1, <1>4
  <2>. QED BY <2>1, <2>3, <2>4, <2>5
<1>9. u = v
  BY <1>4, <1>6, <1>7, <1>8, SeqEqual
<1>. QED BY <1>9 DEF u, v, t

LEMMA FromConcat ==
  ASSUME NEW S, NEW s \in Seq(S), NEW t \in Seq(S), NEW n \in 1 .. Len(s) + 1
  PROVE  From(s \o t, n) = From(s, n) \o t
<1> DEFINE u == From(s \o t, n)
           f == From(s, n)
           v == f \o t
<1>1. Len(s) \in Nat /\ Len(t) \in Nat
  BY LenProperties
<1>2. /\ s \o t \in Seq(S) /\ Len(s \o t) = Len(s) + Len(t)
      /\ \A i \in 1 .. Len(s) + Len(t) :
           (s \o t)[i] = IF i <= Len(s) THEN s[i] ELSE t[i - Len(s)]
  BY ConcatProperties
<1>3. /\ f \in Seq(S) /\ Len(f) = Len(s) - n + 1
      /\ \A i \in 1 .. Len(s) - n + 1 : f[i] = s[n + i - 1]
  BY FromProperties
<1>4. n \in 1 .. Len(s \o t) + 1
  BY <1>1, <1>2
<1>5. /\ u \in Seq(S) /\ Len(u) = Len(s \o t) - n + 1
      /\ \A i \in 1 .. Len(s \o t) - n + 1 : u[i] = (s \o t)[n + i - 1]
  BY <1>2, <1>4, FromProperties
<1> HIDE DEF f
<1>6. /\ v \in Seq(S) /\ Len(v) = Len(f) + Len(t)
      /\ \A i \in 1 .. Len(f) + Len(t) :
           v[i] = IF i <= Len(f) THEN f[i] ELSE t[i - Len(f)]
  BY <1>3, ConcatProperties
<1> HIDE DEF u, v
<1>7. Len(u) = Len(v)
  BY <1>1, <1>2, <1>3, <1>5, <1>6
<1>8. \A i \in 1 .. Len(u) : u[i] = v[i]
  <2> TAKE i \in 1 .. Len(u)
  <2>1. i \in Nat /\ i <= Len(s) + Len(t) - n + 1
    BY <1>1, <1>2, <1>5
  <2>2. /\ u[i] = (s \o t)[n + i - 1]
        /\ (s \o t)[n + i - 1] = IF n + i - 1 <= Len(s) THEN s[n + i - 1]
                                 ELSE t[n + i - 1 - Len(s)]
    <3>1. n + i - 1 \in 1 .. Len(s) + Len(t) BY <1>1, <2>1
    <3>. QED BY <1>2, <1>5, <3>1
  <2>3. v[i] = IF i <= Len(f) THEN f[i] ELSE t[i - Len(f)]
    BY <1>6, <1>7
  <2>4. CASE n + i - 1 <= Len(s)
    <3>1. i \in 1 .. Len(s) - n + 1 /\ i <= Len(f) BY <1>1, <1>3, <2>1, <2>4
    <3>. QED BY <1>3, <2>2, <2>3, <2>4, <3>1
  <2>5. CASE ~(n + i - 1 <= Len(s))
    <3>1. ~(i <= Len(f)) /\ i - Len(f) = n + i - 1 - Len(s)
      BY <1>1, <1>3, <2>1, <2>5
    <3>. QED BY <2>2, <2>3, <2>5, <3>1
  <2>. QED BY <2>4, <2>5
<1>9. u = v
  BY <1>5, <1>6, <1>7, <1>8, SeqEqual
<1>. QED BY <1>9 DEF u, v, f

LEMMA PrefixProperties ==
  ASSUME NEW S, NEW s \in Seq(S), NEW n \in 0 .. Len(s)
  PROVE  /\ SubSeq(s, 1, n) \in Seq(S)
         /\ Len(SubSeq(s, 1, n)) = n
         /\ \A i \in 1 .. n : SubSeq(s, 1, n)[i] = s[i]
<1>1. Len(s) \in Nat /\ n \in Int /\ 1 \in Int
  BY LenProperties
<1>2. \A i \in 1 .. n : s[i] \in S
  BY <1>1, ElementOfSeq
<1>3. /\ SubSeq(s, 1, n) \in Seq(S)
      /\ Len(SubSeq(s, 1, n)) = IF 1 <= n THEN n - 1 + 1 ELSE 0
      /\ \A i \in 1 .. n - 1 + 1 : SubSeq(s, 1, n)[i] = s[1 + i - 1]
  BY <1>1, <1>2, SubSeqProperties
<1>. QED BY <1>1, <1>3

LEMMA PrefixOfConcat ==
  ASSUME NEW S, NEW s \in Seq(S), NEW t \in Seq(S), NEW n \in 1 .. Len(s)
  PROVE  SubSeq(s \o t, 1, n) = SubSeq(s, 1, n)
<1>1. Len(s) \in Nat /\ 1 \in 1 .. Len(s)
  BY LenProperties
<1>. QED BY <1>1, SubSeqOfConcat1

-----------------------------------------------------------------------------
(* Headers do not change when more bytes arrive.                           *)

LEMMA HeaderType ==
  ASSUME NEW bytes \in Seq(Byte), Len(bytes) >= HEADER_SHORT
  PROVE  /\ HeaderLength(bytes) \in {HEADER_SHORT, HEADER_LONG}
         /\ HeaderLength(bytes) \in Nat
         /\ 2 <= HeaderLength(bytes)
         /\ HeaderPayloadLength(bytes) \in Nat
<1>1. HEADER_SHORT \in 0 .. Len(bytes)
  BY LenProperties, HeaderAssumption
<1>2. /\ SubSeq(bytes, 1, HEADER_SHORT) \in Seq(Byte)
      /\ Len(SubSeq(bytes, 1, HEADER_SHORT)) = HEADER_SHORT
  BY <1>1, PrefixProperties
<1>3. SubSeq(bytes, 1, HEADER_SHORT) \in [1 .. HEADER_SHORT -> Byte]
  BY <1>2, LenProperties
<1>4. HeaderPayloadLength(bytes) \in Nat
  BY <1>3, FieldAssumption DEF HeaderPayloadLength
<1>5. HeaderLength(bytes) \in {HEADER_SHORT, HEADER_LONG}
  BY DEF HeaderLength
<1>6. /\ HEADER_SHORT \in Nat /\ HEADER_LONG \in Nat
      /\ 2 <= HEADER_SHORT /\ 2 <= HEADER_LONG
  BY HeaderAssumption
<1>. QED BY <1>4, <1>5, <1>6

LEMMA HeaderKept ==
  ASSUME NEW bytes \in Seq(Byte), NEW more \in Seq(Byte)
  PROVE  /\ Len(bytes \o more) = Len(bytes) + Len(more)
         /\ Len(bytes) \in Nat /\ Len(more) \in Nat
         /\ Len(bytes) >= 2 =>
              (BeginsDatagram(bytes \o more) <=> BeginsDatagram(bytes))
         /\ Len(bytes) >= HEADER_SHORT =>
              /\ HeaderLength(bytes \o more) = HeaderLength(bytes)
              /\ HeaderPayloadLength(bytes \o more)
                   = HeaderPayloadLength(bytes)
         /\ \A n \in Nat : (2 <= n /\ n <= Len(bytes)) =>
              (HeaderCorrect(bytes \o more, n) <=> HeaderCorrect(bytes, n))
<1>1. Len(bytes) \in Nat /\ Len(more) \in Nat
  BY LenProperties
<1>2. /\ Len(bytes \o more) = Len(bytes) + Len(more)
      /\ \A i \in 1 .. Len(bytes) + Len(more) :
           (bytes \o more)[i] = IF i <= Len(bytes) THEN bytes[i]
                                ELSE more[i - Len(bytes)]
  BY ConcatProperties
<1>3. ASSUME Len(bytes) >= 2
      PROVE  BeginsDatagram(bytes \o more) <=> BeginsDatagram(bytes)
  BY <1>1, <1>2, <1>3 DEF BeginsDatagram
<1>4. ASSUME Len(bytes) >= HEADER_SHORT
      PROVE  /\ HeaderLength(bytes \o more) = HeaderLength(bytes)
             /\ HeaderPayloadLength(bytes \o more) = HeaderPayloadLength(bytes)
  <2>1. HEADER_SHORT \in 1 .. Len(bytes)
    BY <1>1, <1>4, HeaderAssumption
  <2>2. SubSeq(bytes \o more, 1, HEADER_SHORT) = SubSeq(bytes, 1, HEADER_SHORT)
    BY <2>1, PrefixOfConcat
  <2>. QED BY <2>2 DEF HeaderLength, HeaderPayloadLength, Flagged
<1>5. ASSUME NEW n \in Nat, 2 <= n, n <= Len(bytes)
      PROVE  HeaderCorrect(bytes \o more, n) <=> HeaderCorrect(bytes, n)
  <2>1. n \in 1 .. Len(bytes) /\ Len(bytes) >= 2
    BY <1>1, <1>5
  <2>2. SubSeq(bytes \o more, 1, n) = SubSeq(bytes, 1, n)
    BY <2>1, PrefixOfConcat
  <2>. QED BY <1>3, <2>1, <2>2 DEF HeaderCorrect
<1>. QED BY <1>1, <1>2, <1>3, <1>4, <1>5

-----------------------------------------------------------------------------
(* Types, the header that was checked, and what is left between two reads. *)

\* The parts of the state have the types of TypeOK.
LEMMA BufferType ==
  ASSUME TypeOK
  PROVE  /\ buffer \in Seq(Byte) /\ Len(buffer) \in Nat
         /\ received \in Seq(Byte) /\ Len(received) \in Nat
         /\ header_length \in Nat /\ 2 <= header_length
         /\ payload_length \in Nat
BY LenProperties, HeaderAssumption DEF TypeOK

\* What makes FlushData return, per state.
Incompleteness ==
  handler = "waiting" =>
    /\ state = "BEGIN_SEQ" => Len(buffer) < 2
    /\ state = "HEADER_1" => Len(buffer) < HEADER_SHORT
    /\ state = "HEADER_2" => Len(buffer) < header_length
    /\ state = "PAYLOAD" => Len(buffer) < header_length + payload_length

HeaderInv == TypeOK /\ HeaderStillCurrent /\ Incompleteness

LEMMA HeaderInvInit == Init => HeaderInv
<1> SUFFICES ASSUME Init PROVE HeaderInv
  OBVIOUS
<1>1. << >> \in Seq(Byte) /\ << >> \in Seq(Seq(Byte)) /\ Len(<< >>) = 0
  BY EmptySeq
<1>2. TypeOK
  BY <1>1 DEF Init, TypeOK
<1>3. HeaderStillCurrent /\ Incompleteness
  BY <1>1 DEF Init, HeaderStillCurrent, Incompleteness
<1>. QED BY <1>2, <1>3 DEF HeaderInv

LEMMA HeaderInvStep ==
  ASSUME HeaderInv, [Next]_vars
  PROVE  HeaderInv'
<1>1. /\ TypeOK /\ HeaderStillCurrent /\ Incompleteness
      /\ buffer \in Seq(Byte) /\ Len(buffer) \in Nat
      /\ header_length \in Nat /\ 2 <= header_length
      /\ payload_length \in Nat
  BY BufferType DEF HeaderInv
<1>2. ASSUME NEW chunk \in Chunk, AddData(chunk) PROVE HeaderInv'
  <2>1. chunk \in Seq(Byte)
    BY ReadAssumption
  <2>2. /\ buffer' = buffer \o chunk /\ received' = received \o chunk
        /\ handler' = "flushing"
        /\ UNCHANGED <<state, header_length, payload_length, skipped, delivered>>
    BY <1>2 DEF AddData
  <2>3. buffer' \in Seq(Byte) /\ received' \in Seq(Byte)
    BY <1>1, <2>1, <2>2, ConcatProperties DEF TypeOK
  <2>4. TypeOK'
    BY <1>1, <2>2, <2>3 DEF TypeOK
  <2>5. HeaderStillCurrent'
    <3>1. Len(buffer') >= Len(buffer)
      BY <2>1, <2>2, <1>1, HeaderKept
    <3>2. Len(buffer) >= HEADER_SHORT =>
            /\ HeaderLength(buffer') = HeaderLength(buffer)
            /\ HeaderPayloadLength(buffer') = HeaderPayloadLength(buffer)
      BY <2>1, <2>2, <1>1, HeaderKept
    <3>3. Len(buffer) >= header_length =>
            (HeaderCorrect(buffer', header_length)
               <=> HeaderCorrect(buffer, header_length))
      BY <2>1, <2>2, <1>1, HeaderKept
    <3>4. Len(buffer') \in Nat
      BY <2>3, LenProperties
    <3>5. CASE state = "HEADER_2"
      BY <1>1, <2>2, <3>1, <3>2, <3>4, <3>5, HeaderAssumption
         DEF HeaderStillCurrent
    <3>6. CASE state = "PAYLOAD"
      BY <1>1, <2>2, <3>1, <3>2, <3>3, <3>4, <3>6, HeaderAssumption
         DEF HeaderStillCurrent
    <3>. QED BY <2>2, <3>5, <3>6 DEF HeaderStillCurrent
  <2>6. Incompleteness'
    BY <2>2 DEF Incompleteness
  <2>. QED BY <2>4, <2>5, <2>6 DEF HeaderInv
<1>3. CASE ScanFound
  <2>1. PICK n \in Begins : buffer' = From(buffer, n) /\ skipped' = skipped + n - 1
    BY <1>3 DEF ScanFound
  <2>2. n \in 1 .. Len(buffer) + 1
    BY <1>1, <2>1 DEF Begins
  <2>3. buffer' \in Seq(Byte)
    BY <1>1, <2>1, <2>2, FromProperties
  <2>4. /\ state' = "HEADER_1" /\ handler' = "flushing"
        /\ UNCHANGED <<header_length, payload_length, received, delivered>>
    BY <1>3 DEF ScanFound
  <2>5. skipped' \in Nat
    BY <1>1, <2>1, <2>2 DEF TypeOK
  <2>6. TypeOK'
    BY <1>1, <2>3, <2>4, <2>5 DEF TypeOK
  <2>. QED BY <2>4, <2>6 DEF HeaderInv, HeaderStillCurrent, Incompleteness
<1>4. CASE ScanNotFound
  <2>1. /\ buffer # << >> /\ buffer' = From(buffer, Len(buffer))
        /\ skipped' = skipped + Len(buffer) - 1
        /\ state' = "BEGIN_SEQ" /\ handler' = "waiting"
        /\ UNCHANGED <<header_length, payload_length, received, delivered>>
    BY <1>4 DEF ScanNotFound
  <2>2. Len(buffer) \in 1 .. Len(buffer) + 1
    BY <1>1, <2>1, EmptySeq
  <2>3. buffer' \in Seq(Byte) /\ Len(buffer') = 1
    <3>1. /\ From(buffer, Len(buffer)) \in Seq(Byte)
          /\ Len(From(buffer, Len(buffer))) = Len(buffer) - Len(buffer) + 1
      BY <1>1, <2>2, FromProperties
    <3>. QED BY <1>1, <2>1, <3>1
  <2>4. skipped' \in Nat
    BY <1>1, <2>1, <2>2 DEF TypeOK
  <2>5. TypeOK'
    BY <1>1, <2>1, <2>3, <2>4 DEF TypeOK
  <2>. QED BY <2>1, <2>3, <2>5 DEF HeaderInv, HeaderStillCurrent, Incompleteness
<1>5. CASE ScanEmpty
  <2>1. /\ state' = "HEADER_1" /\ handler' = "flushing"
        /\ UNCHANGED <<buffer, header_length, payload_length, received,
                       skipped, delivered>>
    BY <1>5 DEF ScanEmpty
  <2>2. TypeOK'
    BY <1>1, <2>1 DEF TypeOK
  <2>. QED BY <2>1, <2>2 DEF HeaderInv, HeaderStillCurrent, Incompleteness
<1>6. CASE ReadFlag
  <2>1. /\ Len(buffer) >= HEADER_SHORT /\ header_length' = HeaderLength(buffer)
        /\ state' = "HEADER_2" /\ handler' = "flushing"
        /\ UNCHANGED <<buffer, payload_length, received, skipped, delivered>>
    BY <1>6 DEF ReadFlag
  <2>2. HeaderLength(buffer) \in {HEADER_SHORT, HEADER_LONG}
    BY <1>1, <2>1, HeaderType
  <2>3. TypeOK'
    BY <1>1, <2>1, <2>2 DEF TypeOK
  <2>4. HeaderStillCurrent'
    <3>1. HeaderLength(buffer') = HeaderLength(buffer) BY <2>1
    <3>. QED BY <2>1, <3>1 DEF HeaderStillCurrent
  <2>. QED BY <2>1, <2>3, <2>4 DEF HeaderInv, Incompleteness
<1>7. CASE AcceptHeader
  <2>1. /\ state = "HEADER_2" /\ Len(buffer) >= header_length
        /\ HeaderCorrect(buffer, header_length)
        /\ payload_length' = HeaderPayloadLength(buffer)
        /\ state' = "PAYLOAD" /\ handler' = "flushing"
        /\ UNCHANGED <<buffer, header_length, received, skipped, delivered>>
    BY <1>7 DEF AcceptHeader
  <2>2. Len(buffer) >= HEADER_SHORT /\ header_length = HeaderLength(buffer)
    BY <1>1, <2>1 DEF HeaderStillCurrent
  <2>3. HeaderPayloadLength(buffer) \in Nat
    BY <1>1, <2>2, HeaderType
  <2>4. TypeOK'
    BY <1>1, <2>1, <2>3 DEF TypeOK
  <2>5. HeaderStillCurrent'
    <3>1. /\ HeaderLength(buffer') = HeaderLength(buffer)
          /\ HeaderPayloadLength(buffer') = HeaderPayloadLength(buffer)
          /\ HeaderCorrect(buffer', header_length')
      BY <2>1
    <3>. QED BY <2>1, <2>2, <3>1 DEF HeaderStillCurrent
  <2>. QED BY <2>1, <2>4, <2>5 DEF HeaderInv, Incompleteness
<1>8. CASE RejectHeader
  <2>1. /\ Len(buffer) >= header_length
        /\ buffer' = From(buffer, 2) /\ skipped' = skipped + 1
        /\ state' = "BEGIN_SEQ" /\ handler' = "flushing"
        /\ UNCHANGED <<header_length, payload_length, received, delivered>>
    BY <1>8 DEF RejectHeader
  <2>2. 2 \in 1 .. Len(buffer) + 1
    BY <1>1, <2>1
  <2>3. buffer' \in Seq(Byte)
    BY <1>1, <2>1, <2>2, FromProperties
  <2>4. TypeOK'
    BY <1>1, <2>1, <2>3 DEF TypeOK
  <2>. QED BY <2>1, <2>4 DEF HeaderInv, HeaderStillCurrent, Incompleteness
<1>9. CASE LoadDatagram
  <2> DEFINE total == header_length + payload_length
  <2>1. /\ Len(buffer) >= total
        /\ delivered' = Append(delivered, SubSeq(buffer, 1, total))
        /\ buffer' = From(buffer, total + 1)
        /\ state' = "BEGIN_SEQ" /\ handler' = "flushing"
        /\ UNCHANGED <<header_length, payload_length, received, skipped>>
    BY <1>9 DEF LoadDatagram
  <2>2. total \in 0 .. Len(buffer) /\ total + 1 \in 1 .. Len(buffer) + 1
    BY <1>1, <2>1
  <2> HIDE DEF total
  <2>3. buffer' \in Seq(Byte)
    BY <1>1, <2>1, <2>2, FromProperties
  <2>4. SubSeq(buffer, 1, total) \in Seq(Byte)
    BY <1>1, <2>2, PrefixProperties
  <2>5. delivered' \in Seq(Seq(Byte))
    BY <1>1, <2>1, <2>4, AppendProperties DEF TypeOK
  <2>6. TypeOK'
    BY <1>1, <2>1, <2>3, <2>5 DEF TypeOK
  <2>. QED BY <2>1, <2>6 DEF HeaderInv, HeaderStillCurrent, Incompleteness
<1>10. CASE Incomplete
  <2>1. /\ handler' = "waiting"
        /\ UNCHANGED <<state, buffer, header_length, payload_length, received,
                       skipped, delivered>>
        /\ \/ state = "HEADER_1" /\ Len(buffer) < HEADER_SHORT
           \/ state = "HEADER_2" /\ Len(buffer) < header_length
           \/ state = "PAYLOAD" /\ Len(buffer) < header_length + payload_length
    BY <1>10 DEF Incomplete
  <2>2. TypeOK'
    BY <1>1, <2>1 DEF TypeOK
  <2>3. HeaderStillCurrent' = HeaderStillCurrent
    BY <2>1 DEF HeaderStillCurrent
  <2>4. Incompleteness'
    BY <2>1 DEF Incompleteness
  <2>. QED BY <1>1, <2>2, <2>3, <2>4 DEF HeaderInv
<1>11. CASE UNCHANGED vars
  <2>1. UNCHANGED <<state, buffer, header_length, payload_length, handler,
                    received, skipped, delivered>>
    BY <1>11 DEF vars
  <2>2. TypeOK'
    BY <1>1, <2>1 DEF TypeOK
  <2>3. HeaderStillCurrent' = HeaderStillCurrent
    BY <2>1 DEF HeaderStillCurrent
  <2>4. Incompleteness' = Incompleteness
    BY <2>1 DEF Incompleteness
  <2>. QED BY <1>1, <2>2, <2>3, <2>4 DEF HeaderInv
<1>. QED BY <1>2, <1>3, <1>4, <1>5, <1>6, <1>7, <1>8, <1>9, <1>10, <1>11
         DEF Next, FlushData

LEMMA HeaderInvHolds == Spec => []HeaderInv
BY HeaderInvInit, HeaderInvStep, PTL DEF Spec

\* Types, for any stream and any header format.
THEOREM TypeOKHolds == Spec => []TypeOK
<1>1. HeaderInv => TypeOK BY DEF HeaderInv
<1>. QED BY <1>1, HeaderInvHolds, PTL

\* The lengths kept from one call to the next are those of the header that
\* was checked, whatever arrived in between: Load does not throw.
THEOREM HeaderStillCurrentHolds == Spec => []HeaderStillCurrent
<1>1. HeaderInv => HeaderStillCurrent BY DEF HeaderInv
<1>. QED BY <1>1, HeaderInvHolds, PTL

\* Between two reads the buffer holds less than one datagram.
THEOREM BufferBoundedHolds == Spec => []BufferBounded
<1>1. ASSUME HeaderInv, handler = "waiting"
      PROVE  Len(buffer) < CASE state = "BEGIN_SEQ" -> 2
                             [] state = "HEADER_1"  -> HEADER_SHORT
                             [] state = "HEADER_2"  -> HEADER_LONG
                             [] state = "PAYLOAD"   -> header_length + payload_length
  <2>1. TypeOK /\ Incompleteness
    BY <1>1 DEF HeaderInv
  <2>2. /\ state \in {"BEGIN_SEQ", "HEADER_1", "HEADER_2", "PAYLOAD"}
        /\ header_length \in {HEADER_SHORT, HEADER_LONG}
        /\ HEADER_SHORT \in Nat /\ HEADER_LONG \in Nat
        /\ HEADER_SHORT <= HEADER_LONG
        /\ Len(buffer) \in Nat
    BY <2>1, BufferType, HeaderAssumption DEF TypeOK
  <2>3. CASE state = "BEGIN_SEQ" BY <1>1, <2>1, <2>3 DEF Incompleteness
  <2>4. CASE state = "HEADER_1" BY <1>1, <2>1, <2>4 DEF Incompleteness
  <2>5. CASE state = "HEADER_2"
    <3>1. Len(buffer) < HEADER_LONG
      BY <1>1, <2>1, <2>2, <2>5 DEF Incompleteness
    <3>. QED BY <2>5, <3>1
  <2>6. CASE state = "PAYLOAD" BY <1>1, <2>1, <2>6 DEF Incompleteness
  <2>. QED BY <2>2, <2>3, <2>4, <2>5, <2>6
<1>2. HeaderInv => BufferBounded
  BY <1>1 DEF BufferBounded
<1>. QED BY <1>2, HeaderInvHolds, PTL

-----------------------------------------------------------------------------
(* What a reader of the whole stream finds from each position on.  The     *)
(* recursion of DatagramsIn goes towards the end of the stream; that it    *)
(* has a solution is shown by going down from the end.                     *)

FoundAt(f, bytes, p) ==
  LET rest == From(bytes, p)
  IN  IF Len(rest) < 2 THEN << >>
      ELSE IF ~BeginsDatagram(rest) THEN f[p + 1]
      ELSE IF Len(rest) < HEADER_SHORT \/ Len(rest) < HeaderLength(rest)
        THEN << >>
      ELSE IF ~HeaderCorrect(rest, HeaderLength(rest)) THEN f[p + 1]
      ELSE LET total == HeaderLength(rest) + HeaderPayloadLength(rest)
           IN  IF Len(rest) < total THEN << >>
               ELSE <<SubSeq(rest, 1, total)>> \o f[p + total]

Parse(bytes) ==
  CHOOSE f : f = [p \in 1 .. Len(bytes) + 1 |-> FoundAt(f, bytes, p)]

LEMMA ReaderIsParse ==
  ASSUME NEW bytes
  PROVE  Reader!DatagramsIn(bytes) = Parse(bytes)[1]
BY DEF Reader!DatagramsIn, Parse, FoundAt, Reader!From, Reader!BeginsDatagram,
   Reader!HeaderLength, Reader!HeaderPayloadLength, Reader!HeaderCorrect,
   Reader!Flagged, From, BeginsDatagram, HeaderLength, HeaderPayloadLength,
   HeaderCorrect, Flagged

\* What is found at a position depends on later positions alone.
LEMMA FoundAtSame ==
  ASSUME NEW bytes \in Seq(Byte), NEW p \in 1 .. Len(bytes) + 1, NEW f, NEW g,
         \A j \in p + 1 .. Len(bytes) + 1 : f[j] = g[j]
  PROVE  FoundAt(f, bytes, p) = FoundAt(g, bytes, p)
<1> DEFINE rest == From(bytes, p)
           total == HeaderLength(rest) + HeaderPayloadLength(rest)
<1>1. Len(bytes) \in Nat /\ rest \in Seq(Byte) /\ Len(rest) = Len(bytes) - p + 1
  BY LenProperties, FromProperties
<1> HIDE DEF rest
<1>2. Len(rest) >= 2 => f[p + 1] = g[p + 1]
  BY <1>1
<1>3. ASSUME Len(rest) >= HEADER_SHORT, Len(rest) >= total
      PROVE  f[p + total] = g[p + total]
  <2>1. /\ HeaderLength(rest) \in Nat /\ 2 <= HeaderLength(rest)
        /\ HeaderPayloadLength(rest) \in Nat
    BY <1>1, <1>3, HeaderType
  <2>2. p + total \in p + 1 .. Len(bytes) + 1
    BY <1>1, <1>3, <2>1
  <2>. QED BY <2>2
<1>4. Len(rest) \in Nat
  BY <1>1
<1>5. CASE Len(rest) < 2
  BY <1>5 DEF FoundAt, rest
<1>6. CASE Len(rest) >= 2 /\ ~BeginsDatagram(rest)
  BY <1>2, <1>4, <1>6 DEF FoundAt, rest
<1>7. CASE /\ Len(rest) >= 2 /\ BeginsDatagram(rest)
           /\ Len(rest) < HEADER_SHORT \/ Len(rest) < HeaderLength(rest)
  BY <1>4, <1>7 DEF FoundAt, rest
<1>8. CASE /\ Len(rest) >= 2 /\ BeginsDatagram(rest)
           /\ ~(Len(rest) < HEADER_SHORT \/ Len(rest) < HeaderLength(rest))
  <2>1. HEADER_SHORT \in Nat /\ Len(rest) >= HEADER_SHORT
    BY <1>4, <1>8, HeaderAssumption
  <2>2. total \in Nat
    BY <1>1, <2>1, HeaderType
  <2>3. CASE ~HeaderCorrect(rest, HeaderLength(rest))
    BY <1>2, <1>4, <1>8, <2>3 DEF FoundAt, rest
  <2>4. CASE HeaderCorrect(rest, HeaderLength(rest)) /\ Len(rest) < total
    BY <1>4, <1>8, <2>4 DEF FoundAt, rest
  <2>5. CASE HeaderCorrect(rest, HeaderLength(rest)) /\ ~(Len(rest) < total)
    <3>1. f[p + total] = g[p + total]
      BY <1>3, <1>4, <2>1, <2>2, <2>5
    <3>. QED BY <1>4, <1>8, <2>5, <3>1 DEF FoundAt, rest
  <2>. QED BY <2>3, <2>4, <2>5
<1>. QED BY <1>4, <1>5, <1>6, <1>7, <1>8

LEMMA ParseExists ==
  ASSUME NEW bytes \in Seq(Byte)
  PROVE  \E f : f = [p \in 1 .. Len(bytes) + 1 |-> FoundAt(f, bytes, p)]
<1> DEFINE last == Len(bytes) + 1
           Solved(k) == \E f : f = [p \in last - k .. last |-> FoundAt(f, bytes, p)]
           Bad == {k \in 0 .. Len(bytes) : ~Solved(k)}
<1>1. Len(bytes) \in Nat
  BY LenProperties
<1>2. Bad = {}
  <2>1. SUFFICES ASSUME Bad # {} PROVE FALSE
    OBVIOUS
  <2>2. PICK k \in Bad : \A j \in Bad : k <= j
    <3>. Bad \in SUBSET Nat BY <1>1
    <3>. QED BY <2>1, LeastNumberExists
  <2>3. k \in 0 .. Len(bytes) /\ last - k \in 1 .. last
    BY <1>1, <2>2
  <2> DEFINE q == last - k
  <2>4. CASE k = 0
    <3>1. q = last BY <1>1, <2>4
    <3> DEFINE e == [p \in q .. last |-> << >>]
               f == [p \in q .. last |-> FoundAt(e, bytes, p)]
    <3>2. \A p \in q .. last : FoundAt(f, bytes, p) = FoundAt(e, bytes, p)
      <4> TAKE p \in q .. last
      <4>1. p \in 1 .. Len(bytes) + 1
            /\ \A j \in p + 1 .. Len(bytes) + 1 : f[j] = e[j]
        BY <1>1, <3>1
      <4> HIDE DEF e, f
      <4>. QED BY <4>1, FoundAtSame
    <3>3. f = [p \in q .. last |-> FoundAt(f, bytes, p)]
      BY <3>2
    <3>. QED BY <2>2, <3>3
  <2>5. CASE k # 0
    <3>1. k - 1 \in 0 .. Len(bytes) /\ last - (k - 1) = q + 1
      BY <1>1, <2>3, <2>5
    <3>2. Solved(k - 1)
      <4>1. k - 1 \notin Bad
        <5> HIDE DEF Bad
        <5>. QED BY <1>1, <2>2, <2>3
      <4> HIDE DEF Solved
      <4>. QED BY <3>1, <4>1
    <3>3. PICK e : e = [p \in q + 1 .. last |-> FoundAt(e, bytes, p)]
      BY <3>1, <3>2
    <3> DEFINE f == [p \in q .. last |-> IF p = q THEN FoundAt(e, bytes, q) ELSE e[p]]
    <3>4. \A j \in q + 1 .. last : f[j] = e[j]
      BY <1>1, <2>3
    <3>5. \A p \in q .. last : f[p] = FoundAt(f, bytes, p)
      <4> TAKE p \in q .. last
      <4>1. /\ p \in 1 .. Len(bytes) + 1
            /\ \A j \in p + 1 .. Len(bytes) + 1 : e[j] = f[j]
        BY <1>1, <2>3, <3>4
      <4>2. f[p] = FoundAt(e, bytes, p)
        <5>1. CASE p = q BY <5>1
        <5>2. CASE p # q
          <6>1. p \in q + 1 .. last BY <1>1, <2>3, <5>2
          <6>. QED BY <3>3, <3>4, <6>1
        <5>. QED BY <5>1, <5>2
      <4> HIDE DEF f
      <4>. QED BY <4>1, <4>2, FoundAtSame
    <3>6. f = [p \in q .. last |-> FoundAt(f, bytes, p)]
      BY <3>5
    <3>. QED BY <2>2, <3>6
  <2>. QED BY <2>4, <2>5
<1>3. Solved(Len(bytes))
  <2>1. Len(bytes) \in 0 .. Len(bytes) BY <1>1
  <2>. QED BY <1>2, <2>1
<1>4. last - Len(bytes) = 1
  BY <1>1
<1>. QED BY <1>3, <1>4

LEMMA ParseStep ==
  ASSUME NEW bytes \in Seq(Byte), NEW p \in 1 .. Len(bytes) + 1
  PROVE  Parse(bytes)[p] = FoundAt(Parse(bytes), bytes, p)
<1>1. Parse(bytes) = [q \in 1 .. Len(bytes) + 1 |-> FoundAt(Parse(bytes), bytes, q)]
  BY ParseExists DEF Parse
<1>. QED BY <1>1

\* The three ways to go on from a position at which all is known.
LEMMA ParseSkip ==
  ASSUME NEW bytes \in Seq(Byte), NEW p \in 1 .. Len(bytes),
         NEW rest, rest = From(bytes, p), Len(rest) >= 2,
         \/ ~BeginsDatagram(rest)
         \/ /\ Len(rest) >= HEADER_SHORT /\ Len(rest) >= HeaderLength(rest)
            /\ ~HeaderCorrect(rest, HeaderLength(rest))
  PROVE  Parse(bytes)[p] = Parse(bytes)[p + 1]
<1>1. /\ Len(bytes) \in Nat /\ p \in 1 .. Len(bytes) + 1
      /\ rest \in Seq(Byte) /\ Len(rest) \in Nat
  BY LenProperties, FromProperties
<1>2. Parse(bytes)[p] = FoundAt(Parse(bytes), bytes, p)
  BY <1>1, ParseStep
<1>3. CASE ~BeginsDatagram(rest)
  BY <1>1, <1>2, <1>3 DEF FoundAt
<1>4. CASE /\ BeginsDatagram(rest)
           /\ Len(rest) >= HEADER_SHORT /\ Len(rest) >= HeaderLength(rest)
           /\ ~HeaderCorrect(rest, HeaderLength(rest))
  <2>1. /\ HeaderLength(rest) \in Nat /\ HEADER_SHORT \in Nat
    BY <1>1, <1>4, HeaderType, HeaderAssumption
  <2>2. ~(Len(rest) < 2) /\ ~(Len(rest) < HEADER_SHORT)
        /\ ~(Len(rest) < HeaderLength(rest))
    BY <1>1, <1>4, <2>1
  <2>. QED BY <1>2, <1>4, <2>2 DEF FoundAt
<1>. QED BY <1>3, <1>4

LEMMA ParseDatagram ==
  ASSUME NEW bytes \in Seq(Byte), NEW p \in 1 .. Len(bytes),
         NEW rest, rest = From(bytes, p),
         Len(rest) >= HEADER_SHORT, Len(rest) >= HeaderLength(rest),
         HeaderCorrect(rest, HeaderLength(rest)),
         NEW total, total = HeaderLength(rest) + HeaderPayloadLength(rest)
  PROVE  /\ Len(rest) < total => Parse(bytes)[p] = << >>
         /\ Len(rest) >= total =>
              Parse(bytes)[p] = <<SubSeq(rest, 1, total)>> \o Parse(bytes)[p + total]
<1>1. /\ Len(bytes) \in Nat /\ p \in 1 .. Len(bytes) + 1
      /\ rest \in Seq(Byte) /\ Len(rest) \in Nat
  BY LenProperties, FromProperties
<1>2. Parse(bytes)[p] = FoundAt(Parse(bytes), bytes, p)
  BY <1>1, ParseStep
<1>3. /\ HeaderLength(rest) \in Nat /\ 2 <= HeaderLength(rest)
      /\ HeaderPayloadLength(rest) \in Nat /\ HEADER_SHORT \in Nat
  BY <1>1, HeaderType, HeaderAssumption
<1>4. /\ ~(Len(rest) < 2) /\ ~(Len(rest) < HEADER_SHORT)
      /\ ~(Len(rest) < HeaderLength(rest))
  BY <1>1, <1>3
<1>5. BeginsDatagram(rest)
  BY DEF HeaderCorrect
<1>6. Parse(bytes)[p] = IF Len(rest) < total THEN << >>
                        ELSE <<SubSeq(rest, 1, total)>> \o Parse(bytes)[p + total]
  BY <1>2, <1>4, <1>5 DEF FoundAt
<1>7. total \in Nat
  BY <1>3
<1>. QED BY <1>1, <1>6, <1>7

\* A whole datagram at p of bytes.
DatagramAt(bytes, p, rest, total) ==
  /\ bytes \in Seq(Byte) /\ p \in 1 .. Len(bytes) /\ rest = From(bytes, p)
  /\ Len(rest) >= HEADER_SHORT /\ Len(rest) >= HeaderLength(rest)
  /\ HeaderCorrect(rest, HeaderLength(rest))
  /\ total = HeaderLength(rest) + HeaderPayloadLength(rest)
  /\ Len(rest) >= total

LEMMA ParseWhole ==
  ASSUME NEW bytes, NEW p, NEW rest, NEW total, DatagramAt(bytes, p, rest, total)
  PROVE  Parse(bytes)[p] = <<SubSeq(rest, 1, total)>> \o Parse(bytes)[p + total]
<1>1. DatagramAt(bytes, p, rest, total) OBVIOUS
<1>2. /\ bytes \in Seq(Byte) /\ p \in 1 .. Len(bytes) /\ rest = From(bytes, p)
      /\ Len(rest) >= HEADER_SHORT /\ Len(rest) >= HeaderLength(rest)
      /\ HeaderCorrect(rest, HeaderLength(rest))
      /\ total = HeaderLength(rest) + HeaderPayloadLength(rest)
      /\ Len(rest) >= total
  BY <1>1 DEF DatagramAt
<1>3. Len(rest) >= total =>
        Parse(bytes)[p] = <<SubSeq(rest, 1, total)>> \o Parse(bytes)[p + total]
  BY <1>2, ParseDatagram, ZenonT(200)
<1>. QED BY <1>2, <1>3

\* No datagram is shorter than a long header.  So it is for those of this
\* system: a FlatBuffers payload begins with a four-byte offset.
PayloadsFillHeader ==
  \A h \in [1 .. HEADER_SHORT -> Byte] :
    IsLong(h) \/ HEADER_SHORT + PayloadLength(h) >= HEADER_LONG

\* Then nothing is found in fewer bytes than a long header has.
LEMMA ParseShort ==
  ASSUME PayloadsFillHeader, NEW bytes \in Seq(Byte),
         NEW p \in 1 .. Len(bytes) + 1, Len(bytes) + 1 - p < HEADER_LONG
  PROVE  Parse(bytes)[p] = << >>
<1> DEFINE Bad == {k \in 0 .. Len(bytes) :
                     /\ k < HEADER_LONG
                     /\ Parse(bytes)[Len(bytes) + 1 - k] # << >>}
<1>1. /\ Len(bytes) \in Nat /\ HEADER_SHORT \in Nat /\ HEADER_LONG \in Nat
      /\ 2 <= HEADER_SHORT
  BY LenProperties, HeaderAssumption
<1>2. Bad = {}
  <2>1. SUFFICES ASSUME Bad # {} PROVE FALSE
    OBVIOUS
  <2>2. PICK k \in Bad : \A j \in Bad : k <= j
    <3>. Bad \in SUBSET Nat BY <1>1
    <3>. QED BY <2>1, LeastNumberExists
  <2> DEFINE q == Len(bytes) + 1 - k
             rest == From(bytes, q)
             n == HeaderLength(rest)
  <2>3. /\ k \in 0 .. Len(bytes) /\ k < HEADER_LONG /\ q \in 1 .. Len(bytes) + 1
        /\ Parse(bytes)[q] # << >>
    BY <1>1, <2>2
  <2>4. /\ rest \in Seq(Byte) /\ Len(rest) = k /\ k \in Nat
    BY <1>1, <2>3, FromProperties
  <2>5. Parse(bytes)[q] = FoundAt(Parse(bytes), bytes, q)
    BY <2>3, ParseStep
  <2>6. k >= 2 => Parse(bytes)[q + 1] = << >>
    <3> SUFFICES ASSUME k >= 2 PROVE Parse(bytes)[q + 1] = << >>
      OBVIOUS
    <3>1. k - 1 \notin Bad
      <4> HIDE DEF Bad
      <4>. QED BY <2>2, <2>4
    <3>2. k - 1 \in 0 .. Len(bytes) /\ k - 1 < HEADER_LONG
          /\ Len(bytes) + 1 - (k - 1) = q + 1
      BY <1>1, <2>3, <2>4
    <3>. QED BY <3>1, <3>2
  <2> HIDE DEF Bad, q, rest
  <2>7. k >= 2
    BY <2>3, <2>4, <2>5 DEF FoundAt, rest
  <2>8. /\ BeginsDatagram(rest) /\ ~(k < HEADER_SHORT) /\ ~(k < n)
        /\ HeaderCorrect(rest, n)
        /\ ~(k < n + HeaderPayloadLength(rest))
    BY <2>3, <2>4, <2>5, <2>6, <2>7 DEF FoundAt, rest
  <2>9. /\ n \in {HEADER_SHORT, HEADER_LONG}
        /\ HeaderPayloadLength(rest) \in Nat
    BY <1>1, <2>4, <2>8, HeaderType
  <2>10. n = HEADER_SHORT
    BY <1>1, <2>3, <2>4, <2>8, <2>9
  <2>11. n + HeaderPayloadLength(rest) >= HEADER_LONG
    <3>1. HEADER_SHORT \in 0 .. Len(rest) BY <1>1, <2>4, <2>8
    <3>2. /\ SubSeq(rest, 1, HEADER_SHORT) \in Seq(Byte)
          /\ Len(SubSeq(rest, 1, HEADER_SHORT)) = HEADER_SHORT
      BY <2>4, <3>1, PrefixProperties
    <3>3. SubSeq(rest, 1, HEADER_SHORT) \in [1 .. HEADER_SHORT -> Byte]
      BY <3>2, LenProperties
    <3>4. IsLong(SubSeq(rest, 1, HEADER_SHORT)) => n = HEADER_LONG
      BY DEF HeaderLength, Flagged
    <3>5. HEADER_SHORT + HeaderPayloadLength(rest) >= HEADER_LONG
          \/ n = HEADER_LONG
      BY <3>3, <3>4 DEF PayloadsFillHeader, HeaderPayloadLength
    <3>. QED BY <1>1, <2>9, <2>10, <3>5
  <2>. QED BY <1>1, <2>3, <2>4, <2>8, <2>9, <2>11
<1>3. /\ Len(bytes) + 1 - p \in 0 .. Len(bytes)
      /\ Len(bytes) + 1 - (Len(bytes) + 1 - p) = p
  BY <1>1
<1>. QED BY <1>2, <1>3

LEMMA ParseType ==
  ASSUME NEW bytes \in Seq(Byte), NEW p \in 1 .. Len(bytes) + 1
  PROVE  Parse(bytes)[p] \in Seq(Seq(Byte))
<1> DEFINE Bad == {k \in 0 .. Len(bytes) :
                     Parse(bytes)[Len(bytes) + 1 - k] \notin Seq(Seq(Byte))}
<1>1. Len(bytes) \in Nat /\ HEADER_SHORT \in Nat /\ 2 <= HEADER_SHORT
  BY LenProperties, HeaderAssumption
<1>2. Bad = {}
  <2>1. SUFFICES ASSUME Bad # {} PROVE FALSE
    OBVIOUS
  <2>2. PICK k \in Bad : \A j \in Bad : k <= j
    <3>. Bad \in SUBSET Nat BY <1>1
    <3>. QED BY <2>1, LeastNumberExists
  <2> DEFINE q == Len(bytes) + 1 - k
             rest == From(bytes, q)
             total == HeaderLength(rest) + HeaderPayloadLength(rest)
  <2>3. /\ k \in 0 .. Len(bytes) /\ q \in 1 .. Len(bytes) + 1
        /\ Parse(bytes)[q] \notin Seq(Seq(Byte))
    BY <1>1, <2>2
  <2>4. /\ rest \in Seq(Byte) /\ Len(rest) = k /\ k \in Nat
    BY <1>1, <2>3, FromProperties
  <2>5. Parse(bytes)[q] = FoundAt(Parse(bytes), bytes, q)
    BY <2>3, ParseStep
  <2>6. \A d \in 1 .. k : Parse(bytes)[q + d] \in Seq(Seq(Byte))
    <3> TAKE d \in 1 .. k
    <3>1. k - d \notin Bad
      <4> HIDE DEF Bad
      <4>. QED BY <2>2, <2>4
    <3>2. k - d \in 0 .. Len(bytes) /\ Len(bytes) + 1 - (k - d) = q + d
      BY <1>1, <2>3, <2>4
    <3>. QED BY <3>1, <3>2
  <2> HIDE DEF Bad, q, rest
  <2>7. << >> \in Seq(Seq(Byte))
    BY EmptySeq
  <2>8. k >= 2 /\ Parse(bytes)[q] # Parse(bytes)[q + 1]
    <3>1. k >= 2 BY <2>3, <2>4, <2>5, <2>7 DEF FoundAt, rest
    <3>2. 1 \in 1 .. k BY <2>4, <3>1
    <3>. QED BY <2>3, <2>6, <3>1, <3>2
  <2>9. /\ ~(k < HEADER_SHORT) /\ ~(k < total)
        /\ Parse(bytes)[q] = <<SubSeq(rest, 1, total)>> \o Parse(bytes)[q + total]
    BY <2>3, <2>4, <2>5, <2>7, <2>8 DEF FoundAt, rest
  <2>10. total \in 1 .. k /\ total \in 0 .. Len(rest)
    BY <1>1, <2>4, <2>9, HeaderType
  <2>11. SubSeq(rest, 1, total) \in Seq(Byte)
    BY <2>4, <2>10, PrefixProperties
  <2> HIDE DEF total
  <2>12. Parse(bytes)[q + total] \in Seq(Seq(Byte))
    BY <2>6, <2>10
  <2>13. <<SubSeq(rest, 1, total)>> \in Seq(Seq(Byte))
    BY <2>11
  <2>. QED BY <2>3, <2>9, <2>12, <2>13, ConcatProperties
<1>3. /\ Len(bytes) + 1 - p \in 0 .. Len(bytes)
      /\ Len(bytes) + 1 - (Len(bytes) + 1 - p) = p
  BY <1>1
<1>. QED BY <1>2, <1>3

\* Positions at which no begin sequence is are passed.
LEMMA ParseScan ==
  ASSUME NEW bytes \in Seq(Byte), NEW p \in 1 .. Len(bytes), NEW n \in Nat,
         p + n <= Len(bytes),
         \A m \in p .. p + n - 1 : ~(bytes[m] = LOWER /\ bytes[m + 1] = UPPER)
  PROVE  Parse(bytes)[p] = Parse(bytes)[p + n]
<1> DEFINE Bad == {d \in 0 .. n : Parse(bytes)[p] # Parse(bytes)[p + d]}
<1>1. Len(bytes) \in Nat
  BY LenProperties
<1>2. Bad = {}
  <2>1. SUFFICES ASSUME Bad # {} PROVE FALSE
    OBVIOUS
  <2>2. PICK d \in Bad : \A j \in Bad : d <= j
    <3>. Bad \in SUBSET Nat OBVIOUS
    <3>. QED BY <2>1, LeastNumberExists
  <2>3. d \in 1 .. n
    <3>1. Parse(bytes)[p] = Parse(bytes)[p + 0] BY <1>1
    <3>. QED BY <2>2, <3>1
  <2>4. Parse(bytes)[p] = Parse(bytes)[p + d - 1]
    <3>1. d - 1 \notin Bad
      <4> HIDE DEF Bad
      <4>. QED BY <2>2, <2>3
    <3>2. d - 1 \in 0 .. n /\ p + (d - 1) = p + d - 1 BY <1>1, <2>3
    <3>. QED BY <3>1, <3>2
  <2> DEFINE q == p + d - 1
             rest == From(bytes, q)
  <2>5. /\ q \in 1 .. Len(bytes) /\ q \in 1 .. Len(bytes) + 1
        /\ q \in p .. p + n - 1 /\ q + 1 <= Len(bytes)
    BY <1>1, <2>3
  <2>6. /\ Len(rest) = Len(bytes) - q + 1
        /\ \A i \in 1 .. Len(bytes) - q + 1 : rest[i] = bytes[q + i - 1]
    BY <2>5, FromProperties
  <2> HIDE DEF q, rest
  <2>7. /\ Len(rest) >= 2
        /\ rest[1] = bytes[q] /\ rest[2] = bytes[q + 1]
    <3>1. 1 \in 1 .. Len(bytes) - q + 1 /\ 2 \in 1 .. Len(bytes) - q + 1
      BY <1>1, <2>5
    <3>2. q + 1 - 1 = q /\ q + 2 - 1 = q + 1 BY <2>5
    <3>. QED BY <1>1, <2>5, <2>6, <3>1, <3>2
  <2>8. ~BeginsDatagram(rest)
    BY <2>5, <2>7 DEF BeginsDatagram
  <2>9. Parse(bytes)[q] = Parse(bytes)[q + 1]
    BY <2>5, <2>7, <2>8, ParseSkip DEF rest
  <2>10. q + 1 = p + d BY <1>1, <2>3 DEF q
  <2>. QED BY <2>2, <2>4, <2>9, <2>10 DEF q
<1>3. n \in 0 .. n
  OBVIOUS
<1>. QED BY <1>2, <1>3

-----------------------------------------------------------------------------
(* How many bytes were delivered.                                          *)

IsSum(f, datagrams, n) ==
  f = [k \in 0 .. n |-> IF k = 0 THEN 0 ELSE f[k - 1] + Len(datagrams[k])]

Total(datagrams) == (CHOOSE f : IsSum(f, datagrams, Len(datagrams)))[Len(datagrams)]

LEMMA SumExists ==
  ASSUME NEW datagrams, NEW n \in Nat
  PROVE  \E f : IsSum(f, datagrams, n)
<1> DEFINE Bad == {k \in Nat : \A f : ~IsSum(f, datagrams, k)}
<1>1. SUFFICES ASSUME Bad # {} PROVE FALSE
  OBVIOUS
<1>2. PICK m \in Bad : \A k \in Bad : m <= k
  <2>. Bad \in SUBSET Nat OBVIOUS
  <2>. QED BY <1>1, LeastNumberExists
<1>3. CASE m = 0
  <2>1. IsSum([k \in 0 .. 0 |-> 0], datagrams, 0) BY DEF IsSum
  <2>. QED BY <1>2, <1>3, <2>1
<1>4. CASE m # 0
  <2>1. m - 1 \in Nat /\ m - 1 \notin Bad BY <1>2, <1>4
  <2>2. PICK f : IsSum(f, datagrams, m - 1) BY <2>1
  <2> DEFINE g == [k \in 0 .. m |->
                     IF k = m THEN f[m - 1] + Len(datagrams[m]) ELSE f[k]]
  <2>3. ASSUME NEW k \in 0 .. m
        PROVE  g[k] = IF k = 0 THEN 0 ELSE g[k - 1] + Len(datagrams[k])
    <3>1. CASE k = m
      <4>1. g[m - 1] = f[m - 1] BY <1>4, <2>1
      <4>. QED BY <3>1, <4>1, <1>4
    <3>2. CASE k # m
      <4>1. k \in 0 .. m - 1 BY <3>2
      <4>2. f[k] = IF k = 0 THEN 0 ELSE f[k - 1] + Len(datagrams[k])
        BY <4>1, <2>2 DEF IsSum
      <4>3. k # 0 => g[k - 1] = f[k - 1] BY <4>1
      <4>. QED BY <4>1, <4>2, <4>3
    <3>. QED BY <3>1, <3>2
  <2>4. IsSum(g, datagrams, m) BY <2>3 DEF IsSum
  <2>. QED BY <1>2, <2>4
<1>. QED BY <1>3, <1>4

SameUpTo(p, q, n) == \A k \in 1 .. n : p[k] = q[k] /\ Len(p[k]) \in Nat

\* Sums over the same first datagrams are the same.
LEMMA SumsAgree ==
  ASSUME NEW p, NEW q, NEW n \in Nat, NEW m1 \in Nat, NEW m2 \in Nat,
         n <= m1, n <= m2,
         NEW f, IsSum(f, p, m1), NEW g, IsSum(g, q, m2),
         SameUpTo(p, q, n)
  PROVE  f[n] = g[n] /\ f[n] \in Nat
<1> DEFINE Bad == {k \in 0 .. n : ~(f[k] = g[k] /\ f[k] \in Nat)}
<1>1. SUFFICES ASSUME Bad # {} PROVE FALSE
  OBVIOUS
<1>2. PICK k \in Bad : \A j \in Bad : k <= j
  <2>. Bad \in SUBSET Nat OBVIOUS
  <2>. QED BY <1>1, LeastNumberExists
<1>3. /\ f[k] = IF k = 0 THEN 0 ELSE f[k - 1] + Len(p[k])
      /\ g[k] = IF k = 0 THEN 0 ELSE g[k - 1] + Len(q[k])
  BY <1>2 DEF IsSum
<1>4. CASE k = 0
  BY <1>2, <1>3, <1>4
<1>5. CASE k # 0
  <2>1. k - 1 \in 0 .. n /\ k - 1 \notin Bad BY <1>2, <1>5
  <2>2. f[k - 1] = g[k - 1] /\ f[k - 1] \in Nat BY <2>1
  <2>3. Len(p[k]) = Len(q[k]) /\ Len(p[k]) \in Nat
    BY <1>2, <1>5 DEF SameUpTo
  <2>. QED BY <1>2, <1>3, <1>5, <2>2, <2>3
<1>. QED BY <1>4, <1>5

LEMMA TotalOfSeq ==
  ASSUME NEW d \in Seq(Seq(Byte))
  PROVE  /\ Len(d) \in Nat
         /\ \A k \in 1 .. Len(d) : Len(d[k]) \in Nat
         /\ \E f : IsSum(f, d, Len(d)) /\ Total(d) = f[Len(d)]
         /\ Total(d) \in Nat
<1>1. Len(d) \in Nat
  BY LenProperties
<1>2. \A k \in 1 .. Len(d) : Len(d[k]) \in Nat
  <2> TAKE k \in 1 .. Len(d)
  <2>1. d[k] \in Seq(Byte) BY ElementOfSeq
  <2>. QED BY <2>1, LenProperties
<1> DEFINE f == CHOOSE f : IsSum(f, d, Len(d))
<1>3. IsSum(f, d, Len(d)) /\ Total(d) = f[Len(d)]
  BY <1>1, SumExists DEF Total
<1> HIDE DEF f
<1>4. f[Len(d)] \in Nat
  <2>1. Len(d) <= Len(d) BY <1>1
  <2>2. SameUpTo(d, d, Len(d)) BY <1>2 DEF SameUpTo
  <2>. QED BY <1>1, <1>3, <2>1, <2>2, SumsAgree
<1>. QED BY <1>1, <1>2, <1>3, <1>4

LEMMA TotalOfAppend ==
  ASSUME NEW d \in Seq(Seq(Byte)), NEW x \in Seq(Byte)
  PROVE  Total(Append(d, x)) = Total(d) + Len(x)
<1> DEFINE e == Append(d, x)
           n == Len(d)
<1>1. /\ n \in Nat /\ e \in Seq(Seq(Byte)) /\ Len(e) = n + 1
      /\ \A k \in 1 .. n : e[k] = d[k]
      /\ e[n + 1] = x
  BY LenProperties, AppendProperties
<1>2. \A k \in 1 .. n : Len(d[k]) \in Nat
  BY TotalOfSeq
<1>3. PICK f : IsSum(f, d, n) /\ Total(d) = f[n]
  BY TotalOfSeq
<1>4. PICK g : IsSum(g, e, n + 1) /\ Total(e) = g[n + 1]
  BY <1>1, TotalOfSeq
<1> HIDE DEF e, n
<1>5. f[n] = g[n]
  <2>1. n <= n + 1 /\ n + 1 \in Nat /\ n <= n BY <1>1
  <2>2. SameUpTo(d, e, n)
    BY <1>1, <1>2 DEF SameUpTo
  <2> DEFINE m == n + 1
  <2>3. n \in Nat /\ m \in Nat /\ n <= n /\ n <= m
    BY <1>1, <2>1
  <2>4. IsSum(f, d, n) /\ IsSum(g, e, m)
    BY <1>3, <1>4
  <2> HIDE DEF m
  <2>. QED BY <2>2, <2>3, <2>4, SumsAgree
<1>6. g[n + 1] = g[n] + Len(e[n + 1])
  BY <1>1, <1>4 DEF IsSum
<1>. QED BY <1>1, <1>3, <1>4, <1>5, <1>6 DEF e, n

LEMMA TotalOfEmpty == Total(<< >>) = 0
<1>1. << >> \in Seq(Seq(Byte)) /\ Len(<< >>) = 0
  BY EmptySeq
<1>2. PICK f : IsSum(f, << >>, 0) /\ Total(<< >>) = f[0]
  BY <1>1, TotalOfSeq
<1>. QED BY <1>2 DEF IsSum

\* BytesConserved in these terms.
LEMMA ConservedIs ==
  BytesConserved <=>
    /\ skipped + Total(delivered) + Len(buffer) = Len(received)
    /\ buffer = From(received, skipped + Total(delivered) + 1)
BY DEF BytesConserved, Total, IsSum

-----------------------------------------------------------------------------
(* What was delivered, and what a reader of the whole stream finds from    *)
(* the start of the buffer on, is what it finds from the start: whatever   *)
(* still arrives.                                                          *)

Gone == skipped + Total(delivered)

ReadAlike ==
  \A more \in Seq(Byte) :
    Parse(received \o more)[1]
      = delivered \o Parse(received \o more)[Gone + 1]

StreamInv == HeaderInv /\ BytesConserved /\ ReadAlike

\* Whatever arrives, the rest of the stream starts with the buffer.
LEMMA RestOfStream ==
  ASSUME HeaderInv, BytesConserved, NEW more \in Seq(Byte)
  PROVE  /\ Gone \in Nat /\ Len(more) \in Nat
         /\ received \o more \in Seq(Byte)
         /\ Len(received \o more) = Gone + Len(buffer) + Len(more)
         /\ From(received \o more, Gone + 1) = buffer \o more
         /\ buffer \o more \in Seq(Byte)
         /\ Len(buffer \o more) = Len(buffer) + Len(more)
<1>1. /\ buffer \in Seq(Byte) /\ Len(buffer) \in Nat
      /\ received \in Seq(Byte) /\ Len(received) \in Nat
      /\ skipped \in Nat /\ delivered \in Seq(Seq(Byte))
  BY BufferType DEF HeaderInv, TypeOK
<1>2. Total(delivered) \in Nat
  BY <1>1, TotalOfSeq
<1>3. /\ Gone \in Nat /\ Gone + Len(buffer) = Len(received)
      /\ buffer = From(received, Gone + 1)
  BY <1>1, <1>2, ConservedIs DEF Gone
<1>4. Gone + 1 \in 1 .. Len(received) + 1
  BY <1>1, <1>3
<1>5. From(received \o more, Gone + 1) = From(received, Gone + 1) \o more
  BY <1>1, <1>4, FromConcat
<1>6. Len(more) \in Nat
  BY LenProperties
<1>7. /\ received \o more \in Seq(Byte)
      /\ Len(received \o more) = Len(received) + Len(more)
      /\ buffer \o more \in Seq(Byte)
      /\ Len(buffer \o more) = Len(buffer) + Len(more)
  BY <1>1, ConcatProperties
<1>. QED BY <1>3, <1>5, <1>6, <1>7

\* Bytes that leave the buffer are counted.
LEMMA BytesLeave ==
  ASSUME HeaderInv, BytesConserved, NEW n \in 1 .. Len(buffer) + 1,
         buffer' = From(buffer, n), received' = received,
         Gone' = Gone + n - 1
  PROVE  BytesConserved'
<1>1. /\ buffer \in Seq(Byte) /\ Len(buffer) \in Nat
      /\ received \in Seq(Byte) /\ Len(received) \in Nat
      /\ skipped \in Nat /\ delivered \in Seq(Seq(Byte))
  BY BufferType DEF HeaderInv, TypeOK
<1>2. Gone \in Nat
  BY <1>1, TotalOfSeq DEF Gone
<1>3. /\ Gone + Len(buffer) = Len(received) /\ buffer = From(received, Gone + 1)
  BY ConservedIs DEF Gone
<1>4. Gone + 1 \in 1 .. Len(received) + 1
      /\ n \in 1 .. Len(received) - (Gone + 1) + 2
  BY <1>1, <1>2, <1>3
<1>5. From(From(received, Gone + 1), n) = From(received, Gone + 1 + n - 1)
  BY <1>1, <1>4, FromFrom
<1>6. Gone + 1 + n - 1 = Gone' + 1
  BY <1>2
<1>7. Len(buffer') = Len(buffer) - n + 1
  BY <1>1, FromProperties
<1>8. Gone' + Len(buffer') = Len(received')
  BY <1>1, <1>2, <1>3, <1>7
<1>9. buffer' = From(received', Gone' + 1)
  BY <1>3, <1>5, <1>6
<1>. QED BY <1>8, <1>9 DEF Gone, BytesConserved, Total, IsSum

LEMMA StreamInvInit == Init => StreamInv
<1> SUFFICES ASSUME Init PROVE StreamInv
  OBVIOUS
<1>1. /\ buffer = << >> /\ received = << >> /\ skipped = 0
      /\ delivered = << >>
  BY DEF Init
<1>2. << >> \in Seq(Byte) /\ << >> \in Seq(Seq(Byte)) /\ Len(<< >>) = 0
  BY EmptySeq
<1>3. Gone = 0
  BY <1>1, TotalOfEmpty DEF Gone
<1>4. BytesConserved
  <2>1. From(received, 0 + 1) = << >>
    BY <1>1, <1>2, SubSeqEmpty DEF From
  <2>. QED BY <1>1, <1>2, <1>3, <2>1, ConservedIs DEF Gone
<1>5. ReadAlike
  <2> SUFFICES ASSUME NEW more \in Seq(Byte)
      PROVE  Parse(received \o more)[1]
               = delivered \o Parse(received \o more)[Gone + 1]
    BY DEF ReadAlike
  <2>1. received \o more = more
    BY <1>1, ConcatEmptySeq
  <2>2. 1 \in 1 .. Len(more) + 1
    BY LenProperties
  <2>3. Parse(more)[1] \in Seq(Seq(Byte))
    BY <2>2, ParseType
  <2>4. << >> \o Parse(more)[1] = Parse(more)[1]
    BY <2>3, ConcatEmptySeq
  <2>. QED BY <1>1, <1>3, <2>1, <2>4
<1>. QED BY <1>4, <1>5, HeaderInvInit DEF StreamInv

\* A step that takes bytes out of the buffer without delivering any: the
\* reader passes them as well.
LEMMA SkipStep ==
  ASSUME StreamInv, HeaderInv', NEW n \in 1 .. Len(buffer) + 1,
         buffer' = From(buffer, n), skipped' = skipped + n - 1,
         received' = received, delivered' = delivered,
         \A more \in Seq(Byte) :
           Parse(received \o more)[Gone + 1] = Parse(received \o more)[Gone + n]
  PROVE  StreamInv'
<1>1. HeaderInv /\ BytesConserved /\ ReadAlike
  BY DEF StreamInv
<1>2. Gone' = Gone + n - 1 /\ Gone' + 1 = Gone + n
  <2>1. Total(delivered) \in Nat /\ skipped \in Nat /\ n \in Nat
    BY <1>1, TotalOfSeq DEF HeaderInv, TypeOK
  <2>. QED BY <2>1 DEF Gone
<1>3. BytesConserved'
  BY <1>1, <1>2, BytesLeave
<1>4. ReadAlike'
  <2> SUFFICES ASSUME NEW more \in Seq(Byte)
      PROVE  Parse(received' \o more)[1]
               = delivered' \o Parse(received' \o more)[Gone' + 1]
    BY DEF ReadAlike
  <2>1. Parse(received \o more)[1]
          = delivered \o Parse(received \o more)[Gone + 1]
    BY <1>1 DEF ReadAlike
  <2>. QED BY <1>2, <2>1
<1>. QED BY <1>3, <1>4 DEF StreamInv

\* A step that only changes how far FlushData has come.
LEMMA SameStreamStep ==
  ASSUME StreamInv, HeaderInv',
         UNCHANGED <<buffer, skipped, received, delivered>>
  PROVE  StreamInv'
<1>1. BytesConserved' = BytesConserved /\ ReadAlike' = ReadAlike
  BY DEF BytesConserved, ReadAlike, Gone
<1>. QED BY <1>1 DEF StreamInv

LEMMA AddDataStep ==
  ASSUME StreamInv, HeaderInv', NEW chunk \in Chunk, AddData(chunk)
  PROVE  StreamInv'
<1>1. HeaderInv /\ BytesConserved /\ ReadAlike
  BY DEF StreamInv
<1>2. /\ chunk \in Seq(Byte)
      /\ buffer' = buffer \o chunk /\ received' = received \o chunk
      /\ skipped' = skipped /\ delivered' = delivered
  BY ReadAssumption DEF AddData
<1>3. Gone' = Gone
  BY <1>2 DEF Gone
<1>4. received \in Seq(Byte)
  BY <1>1, BufferType DEF HeaderInv
<1>5. BytesConserved'
  <2>1. /\ Gone \in Nat /\ Len(buffer) \in Nat /\ Len(chunk) \in Nat
        /\ Len(received \o chunk) = Gone + Len(buffer) + Len(chunk)
        /\ From(received \o chunk, Gone + 1) = buffer \o chunk
        /\ Len(buffer \o chunk) = Len(buffer) + Len(chunk)
    BY <1>1, <1>2, RestOfStream, BufferType DEF HeaderInv
  <2>2. /\ Gone' + Len(buffer') = Len(received')
        /\ buffer' = From(received', Gone' + 1)
    BY <1>2, <1>3, <2>1
  <2>. QED BY <2>2 DEF Gone, BytesConserved, Total, IsSum
<1>6. ReadAlike'
  <2> SUFFICES ASSUME NEW more \in Seq(Byte)
      PROVE  Parse(received' \o more)[1]
               = delivered' \o Parse(received' \o more)[Gone' + 1]
    BY DEF ReadAlike
  <2>1. chunk \o more \in Seq(Byte)
    BY <1>2, ConcatProperties
  <2>2. (received \o chunk) \o more = received \o (chunk \o more)
    BY <1>2, <1>4, ConcatAssociative
  <2>3. Parse(received \o (chunk \o more))[1]
          = delivered \o Parse(received \o (chunk \o more))[Gone + 1]
    BY <1>1, <2>1 DEF ReadAlike
  <2>. QED BY <1>2, <1>3, <2>2, <2>3
<1>. QED BY <1>5, <1>6 DEF StreamInv

\* Erasing the bytes before the first begin sequence, or all but the last.
LEMMA ScanStep ==
  ASSUME StreamInv, HeaderInv', NEW n \in 1 .. Len(buffer),
         \A m \in Begins : n <= m,
         buffer' = From(buffer, n), skipped' = skipped + n - 1,
         received' = received, delivered' = delivered
  PROVE  StreamInv'
<1>1. HeaderInv /\ BytesConserved
  BY DEF StreamInv
<1>2. Len(buffer) \in Nat /\ n \in 1 .. Len(buffer) + 1
  BY <1>1, BufferType DEF HeaderInv
<1>3. ASSUME NEW more \in Seq(Byte)
      PROVE  Parse(received \o more)[Gone + 1] = Parse(received \o more)[Gone + n]
  <2> DEFINE bytes == received \o more
             rest == buffer \o more
  <2>1. /\ Gone \in Nat /\ Len(more) \in Nat /\ bytes \in Seq(Byte)
        /\ Len(bytes) = Gone + Len(buffer) + Len(more)
        /\ From(bytes, Gone + 1) = rest
        /\ buffer \in Seq(Byte)
    BY <1>1, RestOfStream, BufferType DEF HeaderInv
  <2> HIDE DEF bytes
  <2>2. \A m \in Gone + 1 .. Gone + n - 1 :
          ~(bytes[m] = LOWER /\ bytes[m + 1] = UPPER)
    <3> TAKE m \in Gone + 1 .. Gone + n - 1
    <3> DEFINE i == m - Gone
    <3>1. /\ i \in 1 .. Len(buffer) - 1 /\ i < n
          /\ i + 1 \in 1 .. Len(buffer) + Len(more)
          /\ i \in 1 .. Len(buffer) + Len(more)
      BY <1>2, <2>1
    <3>2. i \notin Begins
      <4>1. i \in Nat /\ n \in Nat BY <1>2, <3>1
      <4> HIDE DEF i
      <4>. QED BY <3>1, <4>1
    <3>3. ~(buffer[i] = LOWER /\ buffer[i + 1] = UPPER)
      BY <3>1, <3>2 DEF Begins
    <3>4. rest[i] = buffer[i] /\ rest[i + 1] = buffer[i + 1]
      <4>1. i <= Len(buffer) /\ i + 1 <= Len(buffer) BY <1>2, <3>1
      <4>. QED BY <2>1, <3>1, <4>1, ConcatProperties
    <3>5. rest[i] = bytes[m] /\ rest[i + 1] = bytes[m + 1]
      <4>1. Gone + 1 \in 1 .. Len(bytes) + 1
        BY <1>2, <2>1
      <4>2. \A j \in 1 .. Len(bytes) - (Gone + 1) + 1 :
              From(bytes, Gone + 1)[j] = bytes[Gone + 1 + j - 1]
        BY <2>1, <4>1, FromProperties
      <4>3. /\ i \in 1 .. Len(bytes) - (Gone + 1) + 1
            /\ i + 1 \in 1 .. Len(bytes) - (Gone + 1) + 1
            /\ Gone + 1 + i - 1 = m /\ Gone + 1 + (i + 1) - 1 = m + 1
        BY <1>2, <2>1, <3>1
      <4> HIDE DEF i, rest
      <4>. QED BY <2>1, <4>2, <4>3
    <3>. QED BY <3>3, <3>4, <3>5
  <2>3. CASE n = 1
    BY <2>3 DEF bytes
  <2>4. CASE n # 1
    <3> DEFINE p == Gone + 1
               d == n - 1
    <3>1. /\ p \in 1 .. Len(bytes) /\ d \in Nat /\ p + d <= Len(bytes)
          /\ p + d = Gone + n /\ p + d - 1 = Gone + n - 1
      BY <1>2, <2>1
    <3>2. \A m \in p .. p + d - 1 : ~(bytes[m] = LOWER /\ bytes[m + 1] = UPPER)
      BY <2>2, <3>1
    <3>3. Parse(bytes)[p] = Parse(bytes)[p + d]
      <4> HIDE DEF p, d
      <4>. QED BY <2>1, <3>1, <3>2, ParseScan
    <3>. QED BY <3>1, <3>3 DEF bytes
  <2>. QED BY <2>3, <2>4
<1>. QED BY <1>2, <1>3, SkipStep

LEMMA RejectStep ==
  ASSUME StreamInv, HeaderInv', RejectHeader
  PROVE  StreamInv'
<1>1. HeaderInv /\ BytesConserved /\ TypeOK /\ HeaderStillCurrent
  BY DEF StreamInv, HeaderInv
<1>2. /\ state = "HEADER_2" /\ Len(buffer) >= header_length
      /\ ~HeaderCorrect(buffer, header_length)
      /\ buffer' = From(buffer, 2) /\ skipped' = skipped + 1
      /\ received' = received /\ delivered' = delivered
  BY DEF RejectHeader
<1>3. /\ buffer \in Seq(Byte) /\ Len(buffer) \in Nat
      /\ header_length \in Nat /\ 2 <= header_length
      /\ HEADER_SHORT \in Nat /\ skipped \in Nat
  BY <1>1, BufferType, HeaderAssumption DEF TypeOK
<1>4. Len(buffer) >= HEADER_SHORT /\ header_length = HeaderLength(buffer)
  BY <1>1, <1>2 DEF HeaderStillCurrent
<1>5. ASSUME NEW more \in Seq(Byte)
      PROVE  Parse(received \o more)[Gone + 1] = Parse(received \o more)[Gone + 2]
  <2> DEFINE bytes == received \o more
             rest == buffer \o more
             p == Gone + 1
  <2>1. /\ Gone \in Nat /\ Len(more) \in Nat /\ bytes \in Seq(Byte)
        /\ Len(bytes) = Gone + Len(buffer) + Len(more)
        /\ From(bytes, p) = rest
        /\ Len(rest) = Len(buffer) + Len(more)
    BY <1>1, RestOfStream
  <2>2. /\ HeaderLength(rest) = header_length
        /\ ~HeaderCorrect(rest, header_length)
    BY <1>2, <1>3, <1>4, HeaderKept
  <2> HIDE DEF bytes, rest
  <2>3. /\ p \in 1 .. Len(bytes) /\ p + 1 = Gone + 2
        /\ Len(rest) >= 2 /\ Len(rest) >= HEADER_SHORT
        /\ Len(rest) >= header_length
    BY <1>2, <1>3, <1>4, <2>1
  <2> HIDE DEF p
  <2>4. Parse(bytes)[p] = Parse(bytes)[p + 1]
    BY <2>1, <2>2, <2>3, ParseSkip
  <2>. QED BY <2>3, <2>4 DEF bytes, p
<1>6. 2 \in 1 .. Len(buffer) + 1 /\ skipped + 2 - 1 = skipped + 1
  BY <1>2, <1>3
<1>. QED BY <1>2, <1>5, <1>6, SkipStep

\* Loading a datagram: the reader finds the same one next.
LEMMA LoadStep ==
  ASSUME StreamInv, LoadDatagram, NEW datagram,
         datagram = SubSeq(buffer, 1, header_length + payload_length),
         NEW more \in Seq(Byte)
  PROVE  /\ datagram \in Seq(Byte)
         /\ header_length + payload_length \in 1 .. Len(buffer)
         /\ Len(datagram) = header_length + payload_length
         /\ Parse(received \o more)[Gone + header_length + payload_length + 1]
              \in Seq(Seq(Byte))
         /\ Parse(received \o more)[Gone + 1]
              = <<datagram>> \o
                Parse(received \o more)[Gone + header_length + payload_length + 1]
<1> DEFINE total == header_length + payload_length
           bytes == received \o more
           rest == buffer \o more
           p == Gone + 1
<1>1. HeaderInv /\ BytesConserved /\ TypeOK /\ HeaderStillCurrent
  BY DEF StreamInv, HeaderInv
<1>2. state = "PAYLOAD" /\ Len(buffer) >= total
  BY DEF LoadDatagram
<1>3. /\ buffer \in Seq(Byte) /\ Len(buffer) \in Nat
      /\ header_length \in Nat /\ 2 <= header_length
      /\ payload_length \in Nat /\ HEADER_SHORT \in Nat
  BY <1>1, BufferType, HeaderAssumption DEF TypeOK
<1>4. /\ Len(buffer) >= HEADER_SHORT /\ header_length = HeaderLength(buffer)
      /\ Len(buffer) >= header_length /\ HeaderCorrect(buffer, header_length)
      /\ payload_length = HeaderPayloadLength(buffer)
  BY <1>1, <1>2 DEF HeaderStillCurrent
<1>5. /\ Gone \in Nat /\ Len(more) \in Nat /\ bytes \in Seq(Byte)
      /\ Len(bytes) = Gone + Len(buffer) + Len(more)
      /\ From(bytes, p) = rest
      /\ Len(rest) = Len(buffer) + Len(more)
  BY <1>1, RestOfStream
<1>6. /\ HeaderLength(rest) = header_length
      /\ HeaderPayloadLength(rest) = payload_length
      /\ HeaderCorrect(rest, header_length)
  BY <1>3, <1>4, HeaderKept
<1>7. /\ total \in 1 .. Len(buffer) /\ total \in 0 .. Len(buffer)
      /\ total = header_length + payload_length
  BY <1>2, <1>3
<1>8. /\ SubSeq(buffer, 1, total) \in Seq(Byte)
      /\ Len(SubSeq(buffer, 1, total)) = total
  <2> HIDE DEF total
  <2>. QED BY <1>3, <1>7, PrefixProperties
<1>9. SubSeq(rest, 1, total) = SubSeq(buffer, 1, total)
  <2> HIDE DEF total
  <2>. QED BY <1>3, <1>7, PrefixOfConcat
<1> HIDE DEF bytes, rest, total
<1>10. /\ p \in 1 .. Len(bytes) /\ Len(rest) >= HEADER_SHORT
       /\ Len(rest) >= header_length /\ Len(rest) >= total
       /\ p + total \in 1 .. Len(bytes) + 1
       /\ p + total = Gone + header_length + payload_length + 1
  <2>1. /\ total \in Nat /\ 1 <= total /\ total <= Len(buffer)
        /\ total = header_length + payload_length
    BY <1>3, <1>7
  <2>2. /\ Len(rest) >= HEADER_SHORT /\ Len(rest) >= header_length
        /\ Len(rest) >= total
    <3>1. Len(rest) = Len(buffer) + Len(more) /\ Len(more) \in Nat
      BY <1>5
    <3>2. Len(buffer) >= HEADER_SHORT /\ Len(buffer) >= header_length
      BY <1>4
    <3>. QED BY <1>3, <2>1, <3>1, <3>2
  <2>3. p \in 1 .. Len(bytes) /\ p + total \in 1 .. Len(bytes) + 1
    BY <1>3, <1>5, <2>1
  <2>4. p + total = Gone + header_length + payload_length + 1
    BY <1>3, <1>5, <2>1
  <2>. QED BY <2>2, <2>3, <2>4
<1> HIDE DEF p
<1>11. Parse(bytes)[p] = <<SubSeq(rest, 1, total)>> \o Parse(bytes)[p + total]
  <2>1. /\ Len(rest) >= HeaderLength(rest)
        /\ HeaderCorrect(rest, HeaderLength(rest))
        /\ total = HeaderLength(rest) + HeaderPayloadLength(rest)
        /\ rest = From(bytes, p)
    BY <1>5, <1>6, <1>7, <1>10
  <2>2. /\ bytes \in Seq(Byte) /\ p \in 1 .. Len(bytes)
        /\ Len(rest) >= HEADER_SHORT
    BY <1>5, <1>10
  <2>3. DatagramAt(bytes, p, rest, total)
    BY <1>10, <2>1, <2>2 DEF DatagramAt
  <2>. QED BY <2>3, ParseWhole
<1>12. Parse(bytes)[p + total] \in Seq(Seq(Byte))
  BY <1>5, <1>10, ParseType
<1>13. datagram = SubSeq(buffer, 1, total)
  BY DEF total
<1>. QED BY <1>7, <1>8, <1>9, <1>10, <1>11, <1>12, <1>13 DEF bytes, p

LEMMA LoadDatagramStep ==
  ASSUME StreamInv, HeaderInv', LoadDatagram
  PROVE  StreamInv'
<1> DEFINE total == header_length + payload_length
           datagram == SubSeq(buffer, 1, total)
           After(more) == Parse(received \o more)[Gone + total + 1]
<1>1. HeaderInv /\ BytesConserved /\ ReadAlike /\ TypeOK
  BY DEF StreamInv, HeaderInv
<1>2. /\ delivered' = Append(delivered, datagram)
      /\ buffer' = From(buffer, total + 1)
      /\ received' = received /\ skipped' = skipped
  BY DEF LoadDatagram
<1>3. /\ delivered \in Seq(Seq(Byte)) /\ skipped \in Nat
      /\ Total(delivered) \in Nat /\ Len(buffer) \in Nat
      /\ header_length \in Nat /\ payload_length \in Nat
  BY <1>1, TotalOfSeq, BufferType DEF TypeOK
<1>4. /\ datagram \in Seq(Byte) /\ total \in 1 .. Len(buffer)
      /\ Len(datagram) = total
  <2>1. << >> \in Seq(Byte) BY EmptySeq
  <2>. QED BY <2>1, LoadStep
<1>5. \A more \in Seq(Byte) :
        /\ After(more) \in Seq(Seq(Byte))
        /\ Parse(received \o more)[Gone + 1] = <<datagram>> \o After(more)
  <2> TAKE more \in Seq(Byte)
  <2>1. /\ Parse(received \o more)[Gone + header_length + payload_length + 1]
             \in Seq(Seq(Byte))
        /\ Parse(received \o more)[Gone + 1]
             = <<datagram>> \o
               Parse(received \o more)[Gone + header_length + payload_length + 1]
    BY LoadStep
  <2>2. Gone + header_length + payload_length + 1 = Gone + total + 1
    BY <1>3 DEF Gone
  <2>. QED BY <2>1, <2>2
<1> HIDE DEF total, datagram, After
<1>6. Gone' = Gone + total
  BY <1>2, <1>3, <1>4, TotalOfAppend DEF Gone
<1>7. BytesConserved'
  <2>1. Gone \in Nat BY <1>3 DEF Gone
  <2> DEFINE n == total + 1
  <2>2. n \in 1 .. Len(buffer) + 1 /\ Gone' = Gone + n - 1
    BY <1>3, <1>4, <1>6, <2>1
  <2>3. buffer' = From(buffer, n) BY <1>2
  <2> HIDE DEF n
  <2>. QED BY <1>1, <1>2, <2>2, <2>3, BytesLeave
<1>8. ReadAlike'
  <2> SUFFICES ASSUME NEW more \in Seq(Byte)
      PROVE  Parse(received' \o more)[1]
               = delivered' \o Parse(received' \o more)[Gone' + 1]
    BY DEF ReadAlike
  <2>1. Parse(received \o more)[1] = delivered \o (<<datagram>> \o After(more))
    BY <1>1, <1>5 DEF ReadAlike
  <2> DEFINE one == <<datagram>>
             after == After(more)
  <2>2. one \in Seq(Seq(Byte)) /\ after \in Seq(Seq(Byte)) BY <1>4, <1>5
  <2>3. (delivered \o one) \o after = delivered \o (one \o after)
    <3>1. delivered \in Seq(Seq(Byte)) BY <1>3
    <3> HIDE DEF one, after
    <3>. QED BY <2>2, <3>1, ConcatAssociative, SMTT(60)
  <2>4. delivered' = delivered \o <<datagram>>
    BY <1>2, <1>3, <1>4, AppendIsConcat
  <2>. QED BY <1>2, <1>6, <2>1, <2>3, <2>4 DEF After
<1>. QED BY <1>7, <1>8 DEF StreamInv

LEMMA StreamInvStep ==
  ASSUME StreamInv, [Next]_vars
  PROVE  StreamInv'
<1>1. HeaderInv'
  BY HeaderInvStep DEF StreamInv
<1>2. /\ TypeOK /\ buffer \in Seq(Byte) /\ Len(buffer) \in Nat /\ skipped \in Nat
  BY BufferType DEF StreamInv, HeaderInv, TypeOK
<1>3. ASSUME NEW chunk \in Chunk, AddData(chunk) PROVE StreamInv'
  BY <1>1, <1>3, AddDataStep
<1>4. CASE ScanFound
  <2>1. PICK n \in Begins : /\ \A m \in Begins : n <= m
                            /\ buffer' = From(buffer, n)
                            /\ skipped' = skipped + n - 1
    BY <1>4 DEF ScanFound
  <2>2. n \in 1 .. Len(buffer) BY <1>2, <2>1 DEF Begins
  <2>3. received' = received /\ delivered' = delivered BY <1>4 DEF ScanFound
  <2>. QED BY <1>1, <2>1, <2>2, <2>3, ScanStep
<1>5. CASE ScanNotFound
  <2>1. /\ Begins = {} /\ buffer # << >> /\ buffer' = From(buffer, Len(buffer))
        /\ skipped' = skipped + Len(buffer) - 1
        /\ received' = received /\ delivered' = delivered
    BY <1>5 DEF ScanNotFound
  <2>2. Len(buffer) \in 1 .. Len(buffer) BY <1>2, <2>1, EmptySeq
  <2>3. \A m \in Begins : Len(buffer) <= m BY <2>1
  <2>. QED BY <1>1, <2>1, <2>2, <2>3, ScanStep
<1>6. CASE ScanEmpty
  BY <1>1, <1>6, SameStreamStep DEF ScanEmpty
<1>7. CASE ReadFlag
  BY <1>1, <1>7, SameStreamStep DEF ReadFlag
<1>8. CASE AcceptHeader
  BY <1>1, <1>8, SameStreamStep DEF AcceptHeader
<1>9. CASE RejectHeader
  BY <1>1, <1>9, RejectStep
<1>10. CASE LoadDatagram
  BY <1>1, <1>10, LoadDatagramStep
<1>11. CASE Incomplete
  BY <1>1, <1>11, SameStreamStep DEF Incomplete
<1>12. CASE UNCHANGED vars
  BY <1>1, <1>12, SameStreamStep DEF vars
<1>. QED BY <1>3, <1>4, <1>5, <1>6, <1>7, <1>8, <1>9, <1>10, <1>11, <1>12
         DEF Next, FlushData

LEMMA StreamInvHolds == Spec => []StreamInv
BY StreamInvInit, StreamInvStep, PTL DEF Spec

\* No byte is lost or seen twice, whatever the stream and its fragments.
THEOREM BytesConservedHolds == Spec => []BytesConserved
<1>1. StreamInv => BytesConserved BY DEF StreamInv
<1>. QED BY <1>1, StreamInvHolds, PTL

LEMMA ReadSoFar ==
  ASSUME StreamInv
  PROVE  /\ Gone \in Nat /\ Len(received) = Gone + Len(buffer)
         /\ received \in Seq(Byte)
         /\ Reader!DatagramsIn(received)
              = delivered \o Parse(received)[Gone + 1]
<1>1. HeaderInv /\ BytesConserved /\ ReadAlike
  BY DEF StreamInv
<1>2. received \in Seq(Byte) /\ << >> \in Seq(Byte) /\ Len(<< >>) = 0
      /\ Len(buffer) \in Nat
  BY <1>1, BufferType, EmptySeq DEF HeaderInv
<1>3. received \o << >> = received
  BY <1>2, ConcatEmptySeq
<1>4. Gone \in Nat /\ Len(received) = Gone + Len(buffer) + 0
  BY <1>1, <1>2, <1>3, RestOfStream
<1>5. Parse(received)[1] = delivered \o Parse(received)[Gone + 1]
  BY <1>1, <1>2, <1>3 DEF ReadAlike
<1>. QED BY <1>2, <1>4, <1>5, ReaderIsParse

\* However TCP cuts the stream: when every datagram fills a long header,
\* exactly the datagrams in what was received are delivered.
THEOREM FragmentationIndependentHolds ==
  PayloadsFillHeader => (Spec => []FragmentationIndependent)
<1>1. ASSUME PayloadsFillHeader, StreamInv, handler = "waiting"
      PROVE  delivered = Reader!DatagramsIn(received)
  <2> DEFINE p == Gone + 1
  <2>1. /\ HeaderInv /\ BytesConserved /\ TypeOK /\ HeaderStillCurrent
        /\ Incompleteness
    BY <1>1 DEF StreamInv, HeaderInv
  <2>2. /\ Gone \in Nat /\ Len(received) = Gone + Len(buffer)
        /\ received \in Seq(Byte)
        /\ Reader!DatagramsIn(received) = delivered \o Parse(received)[p]
    BY <1>1, ReadSoFar
  <2>3. /\ state \in {"BEGIN_SEQ", "HEADER_1", "HEADER_2", "PAYLOAD"}
        /\ header_length \in {HEADER_SHORT, HEADER_LONG}
        /\ HEADER_SHORT \in Nat /\ HEADER_LONG \in Nat
        /\ 2 <= HEADER_SHORT /\ HEADER_SHORT <= HEADER_LONG
        /\ buffer \in Seq(Byte) /\ Len(buffer) \in Nat
        /\ payload_length \in Nat /\ delivered \in Seq(Seq(Byte))
    BY <2>1, BufferType, HeaderAssumption DEF TypeOK
  <2>4. Parse(received)[p] = << >>
    <3>1. CASE state # "PAYLOAD"
      <4>1. Len(buffer) < HEADER_LONG
        <5>1. CASE state = "BEGIN_SEQ"
          BY <1>1, <2>1, <2>3, <5>1 DEF Incompleteness
        <5>2. CASE state = "HEADER_1"
          BY <1>1, <2>1, <2>3, <5>2 DEF Incompleteness
        <5>3. CASE state = "HEADER_2"
          BY <1>1, <2>1, <2>3, <5>3 DEF Incompleteness
        <5>. QED BY <2>3, <3>1, <5>1, <5>2, <5>3
      <4>2. /\ p \in 1 .. Len(received) + 1
            /\ Len(received) + 1 - p < HEADER_LONG
        BY <2>2, <2>3, <4>1
      <4> HIDE DEF p
      <4>. QED BY <1>1, <2>2, <4>2, ParseShort
    <3>2. CASE state = "PAYLOAD"
      <4> DEFINE total == HeaderLength(buffer) + HeaderPayloadLength(buffer)
      <4>1. /\ Len(buffer) >= HEADER_SHORT /\ Len(buffer) >= HeaderLength(buffer)
            /\ HeaderCorrect(buffer, HeaderLength(buffer))
            /\ Len(buffer) < total
        BY <1>1, <2>1, <3>2 DEF HeaderStillCurrent, Incompleteness
      <4>2. p \in 1 .. Len(received)
        BY <2>2, <2>3, <4>1
      <4>3. From(received, p) = buffer
        <5>1. << >> \in Seq(Byte) BY EmptySeq
        <5>2. From(received \o << >>, p) = buffer \o << >>
          BY <2>1, <5>1, RestOfStream
        <5>. QED BY <2>2, <2>3, <5>2, ConcatEmptySeq
      <4> HIDE DEF p
      <4>. QED BY <2>2, <4>1, <4>2, <4>3, ParseDatagram
    <3>. QED BY <3>1, <3>2
  <2>. QED BY <2>2, <2>3, <2>4, ConcatEmptySeq
<1>2. PayloadsFillHeader /\ StreamInv => FragmentationIndependent
  BY <1>1 DEF FragmentationIndependent
<1> SUFFICES ASSUME PayloadsFillHeader PROVE Spec => []FragmentationIndependent
  OBVIOUS
<1>3. StreamInv => FragmentationIndependent
  BY <1>2
<1>. QED BY <1>3, StreamInvHolds, PTL

\* The safety part of ReadsStream: every step of the stream is a step of the
\* reader, whose Deliver is LoadDatagram, or changes nothing it shows.
THEOREM ImplementsReader ==
  Spec => Reader!Init /\ [][Reader!Next]_<<received, delivered>>
<1>1. Init => Reader!Init
  BY DEF Init, Reader!Init
<1>2. ASSUME StreamInv, [Next]_vars
      PROVE  Reader!Next \/ UNCHANGED <<received, delivered>>
  <2>1. ASSUME NEW chunk \in Chunk, AddData(chunk) PROVE Reader!Next
    BY <2>1 DEF AddData, Reader!Read, Reader!Next
  <2>2. CASE LoadDatagram
    <3> DEFINE datagram == SubSeq(buffer, 1, header_length + payload_length)
               after == Parse(received)[Gone + header_length + payload_length + 1]
               all == Reader!DatagramsIn(received)
    <3>1. << >> \in Seq(Byte) /\ received \in Seq(Byte)
          /\ delivered \in Seq(Seq(Byte)) /\ Len(delivered) \in Nat
      BY <1>2, ReadSoFar, EmptySeq, LenProperties DEF StreamInv, HeaderInv, TypeOK
    <3>2. received \o << >> = received
      BY <3>1, ConcatEmptySeq
    <3>3. /\ datagram \in Seq(Byte) /\ after \in Seq(Seq(Byte))
          /\ Parse(received)[Gone + 1] = <<datagram>> \o after
      BY <1>2, <2>2, <3>1, <3>2, LoadStep
    <3>4. all = delivered \o (<<datagram>> \o after)
      BY <1>2, <3>3, ReadSoFar
    <3>5. delivered' = Append(delivered, datagram) /\ received' = received
      BY <2>2 DEF LoadDatagram
    <3> HIDE DEF datagram, after
    <3>6. <<datagram>> \in Seq(Seq(Byte)) /\ Len(<<datagram>>) = 1
      BY <3>3
    <3>7. /\ delivered' = delivered \o <<datagram>>
          /\ delivered' \in Seq(Seq(Byte))
          /\ Len(delivered') = Len(delivered) + 1
      <4>1. Append(delivered, datagram) = delivered \o <<datagram>>
        BY <3>1, <3>3, AppendIsConcat
      <4>2. /\ Append(delivered, datagram) \in Seq(Seq(Byte))
            /\ Len(Append(delivered, datagram)) = Len(delivered) + 1
        BY <3>1, <3>3, AppendProperties
      <4>. QED BY <3>5, <4>1, <4>2
    <3>8. all = delivered' \o after
      <4> DEFINE one == <<datagram>>
      <4>1. one \in Seq(Seq(Byte)) BY <3>6
      <4> HIDE DEF one
      <4>2. (delivered \o one) \o after = delivered \o (one \o after)
        BY <3>1, <3>3, <4>1, ConcatAssociative, SMTT(60)
      <4>. QED BY <3>4, <3>7, <4>2 DEF one
    <3>9. Len(all) = Len(delivered') + Len(after) /\ Len(after) \in Nat
      BY <3>3, <3>7, <3>8, ConcatProperties, LenProperties
    <3>10. SubSeq(all, 1, Len(delivered) + 1) = delivered'
      <4>1. Len(delivered') \in 1 .. Len(delivered')
        BY <3>1, <3>7
      <4>2. SubSeq(delivered' \o after, 1, Len(delivered'))
              = SubSeq(delivered', 1, Len(delivered'))
        BY <3>3, <3>7, <4>1, PrefixOfConcat
      <4>. QED BY <3>7, <3>8, <4>2, SubSeqFull
    <3> HIDE DEF all
    <3>11. Len(delivered) < Len(all)
      BY <3>1, <3>7, <3>9
    <3>12. Reader!Deliver
      BY <3>5, <3>10, <3>11 DEF Reader!Deliver, all
    <3>. QED BY <3>12 DEF Reader!Next
  <2>3. CASE ScanFound BY <2>3 DEF ScanFound
  <2>4. CASE ScanNotFound BY <2>4 DEF ScanNotFound
  <2>5. CASE ScanEmpty BY <2>5 DEF ScanEmpty
  <2>6. CASE ReadFlag BY <2>6 DEF ReadFlag
  <2>7. CASE AcceptHeader BY <2>7 DEF AcceptHeader
  <2>8. CASE RejectHeader BY <2>8 DEF RejectHeader
  <2>9. CASE Incomplete BY <2>9 DEF Incomplete
  <2>10. CASE UNCHANGED vars BY <2>10 DEF vars
  <2>. QED BY <1>2, <2>1, <2>2, <2>3, <2>4, <2>5, <2>6, <2>7, <2>8, <2>9, <2>10
           DEF Next, FlushData
<1>3. StreamInv /\ [Next]_vars => [Reader!Next]_<<received, delivered>>
  BY <1>2
<1>. QED BY <1>1, <1>3, StreamInvHolds, PTL DEF Spec

-----------------------------------------------------------------------------
(* Streams in which datagrams lie amid other bytes.                        *)

LEMMA FromFirst ==
  ASSUME NEW S, NEW s \in Seq(S)
  PROVE  From(s, 1) = s
<1>1. Len(s) \in Nat /\ 1 \in 1 .. Len(s) + 1 BY LenProperties
<1>2. PICK t : t = From(s, 1) OBVIOUS
<1>3. /\ t \in Seq(S) /\ Len(t) = Len(s) - 1 + 1
      /\ \A i \in 1 .. Len(s) - 1 + 1 : t[i] = s[1 + i - 1]
  BY <1>1, <1>2, FromProperties
<1>4. \A i \in 1 .. Len(s) : t[i] = s[i] BY <1>1, <1>3
<1>. QED BY <1>1, <1>2, <1>3, <1>4, SeqEqual

LEMMA FromBehind ==
  ASSUME NEW S, NEW s \in Seq(S), NEW t \in Seq(S)
  PROVE  From(s \o t, Len(s) + 1) = t
<1>1. Len(s) \in Nat /\ Len(s) + 1 \in 1 .. Len(s) + 1 BY LenProperties
<1>2. From(s \o t, Len(s) + 1) = From(s, Len(s) + 1) \o t
  BY <1>1, FromConcat
<1>3. From(s, Len(s) + 1) = << >>
  <2>1. /\ From(s, Len(s) + 1) \in Seq(S)
        /\ Len(From(s, Len(s) + 1)) = Len(s) - (Len(s) + 1) + 1
    BY <1>1, FromProperties
  <2>2. Len(From(s, Len(s) + 1)) = 0 BY <1>1, <2>1
  <2>. QED BY <2>1, <2>2, EmptySeq
<1>. QED BY <1>2, <1>3, ConcatEmptySeq

\* Where two streams go on alike, the same is found.
LEMMA FoundAlike ==
  ASSUME NEW a \in Seq(Byte), NEW p \in 1 .. Len(a) + 1, NEW f,
         NEW b, NEW q, NEW g, From(a, p) = From(b, q),
         \A d \in 1 .. Len(a) - p + 1 : f[p + d] = g[q + d]
  PROVE  FoundAt(f, a, p) = FoundAt(g, b, q)
<1>1. PICK rest : rest = From(a, p) OBVIOUS
<1>2. /\ rest = From(b, q) /\ rest \in Seq(Byte)
      /\ Len(rest) = Len(a) - p + 1 /\ Len(rest) \in Nat
  BY <1>1, LenProperties, FromProperties
<1>3. PICK total : total = HeaderLength(rest) + HeaderPayloadLength(rest)
  OBVIOUS
<1>4. Len(rest) >= 2 => f[p + 1] = g[q + 1] BY <1>2
<1>5. CASE Len(rest) < 2
  BY <1>1, <1>2, <1>5 DEF FoundAt
<1>6. CASE Len(rest) >= 2 /\ ~BeginsDatagram(rest)
  BY <1>1, <1>2, <1>4, <1>6 DEF FoundAt
<1>7. CASE /\ Len(rest) >= 2 /\ BeginsDatagram(rest)
           /\ Len(rest) < HEADER_SHORT \/ Len(rest) < HeaderLength(rest)
  BY <1>1, <1>2, <1>7 DEF FoundAt
<1>8. CASE /\ Len(rest) >= 2 /\ BeginsDatagram(rest)
           /\ ~(Len(rest) < HEADER_SHORT \/ Len(rest) < HeaderLength(rest))
  <2>1. HEADER_SHORT \in Nat /\ Len(rest) >= HEADER_SHORT
    BY <1>2, <1>8, HeaderAssumption
  <2>2. /\ HeaderLength(rest) \in Nat /\ 2 <= HeaderLength(rest)
        /\ HeaderPayloadLength(rest) \in Nat
    BY <1>2, <2>1, HeaderType
  <2>3. CASE ~HeaderCorrect(rest, HeaderLength(rest))
    BY <1>1, <1>2, <1>4, <1>8, <2>3 DEF FoundAt
  <2>4. CASE HeaderCorrect(rest, HeaderLength(rest)) /\ Len(rest) < total
    BY <1>1, <1>2, <1>3, <1>8, <2>4 DEF FoundAt
  <2>5. CASE HeaderCorrect(rest, HeaderLength(rest)) /\ ~(Len(rest) < total)
    <3>1. total \in 1 .. Len(a) - p + 1 BY <1>2, <1>3, <2>2, <2>5
    <3>2. f[p + total] = g[q + total] BY <3>1
    <3>. QED BY <1>1, <1>2, <1>3, <1>8, <2>5, <3>2 DEF FoundAt
  <2>. QED BY <2>3, <2>4, <2>5
<1>. QED BY <1>2, <1>5, <1>6, <1>7, <1>8

\* What is found in the rest of a stream does not depend on what went before.
LEMMA ParseOfRest ==
  ASSUME NEW bytes \in Seq(Byte), NEW a \in 1 .. Len(bytes) + 1,
         NEW rest, rest = From(bytes, a), NEW q \in 1 .. Len(rest) + 1
  PROVE  Parse(rest)[q] = Parse(bytes)[a + q - 1]
<1>1. PICK N : N = Len(rest) OBVIOUS
<1>2. /\ Len(bytes) \in Nat /\ rest \in Seq(Byte) /\ N \in Nat
      /\ N = Len(bytes) - a + 1
  BY <1>1, LenProperties, FromProperties
<1>3. PICK Bad : Bad = {k \in 0 .. N : Parse(rest)[N + 1 - k]
                                         # Parse(bytes)[a + (N + 1 - k) - 1]}
  OBVIOUS
<1>4. ASSUME Bad # {} PROVE FALSE
  <2>1. PICK k \in Bad : \A j \in Bad : k <= j
    <3>1. Bad \in SUBSET Nat BY <1>3
    <3>. QED BY <1>4, <3>1, LeastNumberExists
  <2>2. PICK r, s : r = N + 1 - k /\ s = a + r - 1 OBVIOUS
  <2>3. /\ k \in 0 .. N /\ r \in 1 .. N + 1 /\ s \in 1 .. Len(bytes) + 1
        /\ Parse(rest)[r] # Parse(bytes)[s]
    BY <1>2, <1>3, <2>1, <2>2
  <2>4. \A d \in 1 .. N - r + 1 : Parse(rest)[r + d] = Parse(bytes)[s + d]
    <3> TAKE d \in 1 .. N - r + 1
    <3>1. k - d \in 0 .. N /\ k - d < k BY <1>2, <2>2, <2>3
    <3>2. k - d \notin Bad BY <1>3, <2>1, <3>1
    <3>3. N + 1 - (k - d) = r + d /\ a + (r + d) - 1 = s + d
      BY <1>2, <2>2, <2>3
    <3>. QED BY <1>3, <3>1, <3>2, <3>3
  <2>5. From(rest, r) = From(bytes, s)
    <3>1. r \in 1 .. Len(bytes) - a + 2 BY <1>2, <2>3
    <3>. QED BY <2>2, <3>1, FromFrom
  <2>6. FoundAt(Parse(rest), rest, r) = FoundAt(Parse(bytes), bytes, s)
    <3>1. PICK f, g : f = Parse(rest) /\ g = Parse(bytes) OBVIOUS
    <3>2. \A d \in 1 .. Len(rest) - r + 1 : f[r + d] = g[s + d]
      BY <1>1, <2>4, <3>1
    <3>3. FoundAt(f, rest, r) = FoundAt(g, bytes, s)
      <4>1. r \in 1 .. Len(rest) + 1 BY <1>1, <2>3
      <4>. QED BY <1>2, <2>5, <3>2, <4>1, FoundAlike
    <3>. QED BY <3>1, <3>3
  <2>7. /\ Parse(rest)[r] = FoundAt(Parse(rest), rest, r)
        /\ Parse(bytes)[s] = FoundAt(Parse(bytes), bytes, s)
    BY <1>1, <1>2, <2>3, ParseStep
  <2>. QED BY <2>3, <2>6, <2>7
<1>5. N + 1 - q \in 0 .. N /\ N + 1 - (N + 1 - q) = q BY <1>1, <1>2
<1>. QED BY <1>3, <1>4, <1>5

\* A complete datagram is found, and then what follows it.
LEMMA DatagramTaken ==
  ASSUME NEW m \in Seq(Byte), Len(m) >= HEADER_SHORT,
         Len(m) >= HeaderLength(m), HeaderCorrect(m, HeaderLength(m)),
         Len(m) = HeaderLength(m) + HeaderPayloadLength(m),
         NEW more \in Seq(Byte)
  PROVE  Parse(m \o more)[1] = <<m>> \o Parse(more)[1]
<1>1. PICK bytes : bytes = m \o more OBVIOUS
<1>2. /\ Len(m) \in Nat /\ Len(more) \in Nat /\ HEADER_SHORT \in Nat
      /\ HeaderLength(m) \in Nat /\ 2 <= HeaderLength(m)
      /\ bytes \in Seq(Byte) /\ Len(bytes) = Len(m) + Len(more)
  BY <1>1, LenProperties, HeaderType, HeaderAssumption, ConcatProperties
<1>3. bytes = From(bytes, 1) BY <1>2, FromFirst
<1>4. /\ HeaderLength(bytes) = HeaderLength(m)
      /\ HeaderPayloadLength(bytes) = HeaderPayloadLength(m)
      /\ HeaderCorrect(bytes, HeaderLength(bytes))
  BY <1>1, <1>2, HeaderKept
<1>5. PICK total : total = Len(m) OBVIOUS
<1>6. Parse(bytes)[1] = <<SubSeq(bytes, 1, total)>> \o Parse(bytes)[1 + total]
  <2>1. PICK rest : rest = From(bytes, 1) OBVIOUS
  <2>2. PICK p : p = 1 OBVIOUS
  <2>3. rest = From(bytes, p) /\ p \in 1 .. Len(bytes) BY <1>2, <2>1, <2>2
  <2>4. rest = bytes BY <1>3, <2>1
  <2>5. /\ Len(rest) >= HEADER_SHORT /\ Len(rest) >= HeaderLength(rest)
        /\ HeaderCorrect(rest, HeaderLength(rest)) /\ Len(rest) >= total
        /\ total = HeaderLength(rest) + HeaderPayloadLength(rest)
    <3>1. HeaderCorrect(rest, HeaderLength(rest)) BY <1>4, <2>4
    <3>2. Len(rest) = Len(m) + Len(more) /\ HeaderLength(rest) = HeaderLength(m)
          /\ HeaderPayloadLength(rest) = HeaderPayloadLength(m)
      BY <1>2, <1>4, <2>4
    <3>. QED BY <1>2, <1>5, <3>1, <3>2
  <2>6. DatagramAt(bytes, p, rest, total)
    BY <1>2, <2>3, <2>5 DEF DatagramAt
  <2>7. Parse(bytes)[p] = <<SubSeq(rest, 1, total)>> \o Parse(bytes)[p + total]
    BY <2>6, ParseWhole
  <2>. QED BY <2>2, <2>4, <2>7
<1>7. SubSeq(bytes, 1, total) = m
  <2>1. total \in 1 .. Len(m) BY <1>2, <1>5
  <2>2. SubSeq(bytes, 1, total) = SubSeq(m, 1, total)
    BY <1>1, <2>1, PrefixOfConcat
  <2>. QED BY <1>5, <2>2, SubSeqFull
<1>8. Parse(bytes)[1 + total] = Parse(more)[1]
  <2>1. more = From(bytes, 1 + total)
    <3>1. From(m \o more, Len(m) + 1) = more BY FromBehind
    <3>2. 1 + total = Len(m) + 1 BY <1>2, <1>5
    <3>. QED BY <1>1, <3>1, <3>2
  <2>2. /\ 1 + total \in 1 .. Len(bytes) + 1 /\ 1 \in 1 .. Len(more) + 1
        /\ (1 + total) + 1 - 1 = 1 + total
    BY <1>2, <1>5
  <2>3. Parse(more)[1] = Parse(bytes)[(1 + total) + 1 - 1]
    BY <1>2, <2>1, <2>2, ParseOfRest
  <2>. QED BY <2>2, <2>3
<1>. QED BY <1>1, <1>6, <1>7, <1>8

\* A header that passes, at position m.
HeaderAt(bytes, m) ==
  LET rest == From(bytes, m)
  IN  /\ Len(rest) >= HEADER_SHORT
      /\ BeginsDatagram(rest)
      /\ Len(rest) >= HeaderLength(rest)
      /\ HeaderCorrect(rest, HeaderLength(rest))

\* A header begins with the begin sequence.
LEMMA HeaderBegins ==
  ASSUME NEW bytes \in Seq(Byte), NEW m \in 1 .. Len(bytes), HeaderAt(bytes, m)
  PROVE  m + 1 <= Len(bytes) /\ bytes[m] = LOWER /\ bytes[m + 1] = UPPER
<1>1. /\ Len(From(bytes, m)) = Len(bytes) - m + 1 /\ Len(bytes) \in Nat
      /\ \A i \in 1 .. Len(bytes) - m + 1 : From(bytes, m)[i] = bytes[m + i - 1]
  <2>1. Len(bytes) \in Nat BY LenProperties
  <2>2. m \in 1 .. Len(bytes) + 1 BY <2>1
  <2>. QED BY <2>1, <2>2, FromProperties
<1>2. /\ Len(From(bytes, m)) >= HEADER_SHORT
      /\ From(bytes, m)[1] = LOWER /\ From(bytes, m)[2] = UPPER
  BY DEF HeaderAt, BeginsDatagram
<1>3. Len(bytes) - m + 1 \in Int /\ Len(bytes) - m + 1 >= 2
  BY <1>1, <1>2, HeaderAssumption
<1>4. 1 \in 1 .. Len(bytes) - m + 1 /\ 2 \in 1 .. Len(bytes) - m + 1 BY <1>3
<1>5. /\ From(bytes, m)[1] = bytes[m + 1 - 1]
      /\ From(bytes, m)[2] = bytes[m + 2 - 1]
  BY <1>1, <1>4
<1>6. m + 1 - 1 = m /\ m + 2 - 1 = m + 1 /\ m + 1 <= Len(bytes) BY <1>1, <1>3
<1>. QED BY <1>2, <1>5, <1>6

\* More bytes leave a header where it is, and make none where one fits.
LEMMA HeaderAtKept ==
  ASSUME NEW bytes \in Seq(Byte), NEW more \in Seq(Byte), NEW m \in 1 .. Len(bytes)
  PROVE  /\ HeaderAt(bytes, m) => HeaderAt(bytes \o more, m)
         /\ Len(bytes) - m + 1 >= HEADER_LONG =>
              (HeaderAt(bytes \o more, m) => HeaderAt(bytes, m))
<1>1. Len(bytes) \in Nat /\ m \in 1 .. Len(bytes) + 1
  <2>1. Len(bytes) \in Nat BY LenProperties
  <2>. QED BY <2>1
<1>2. PICK rest : rest = From(bytes, m) OBVIOUS
<1>3. rest \in Seq(Byte) /\ Len(rest) = Len(bytes) - m + 1
  BY <1>1, <1>2, FromProperties
<1>4. PICK longer : longer = rest \o more OBVIOUS
<1>5. From(bytes \o more, m) = longer
  <2>1. From(bytes \o more, m) = From(bytes, m) \o more BY <1>1, FromConcat
  <2>. QED BY <1>2, <1>4, <2>1
<1>6. /\ HEADER_SHORT \in Nat /\ HEADER_LONG \in Nat /\ 2 <= HEADER_SHORT
      /\ HEADER_SHORT <= HEADER_LONG /\ Len(rest) \in Nat
  BY <1>3, HeaderAssumption, LenProperties
<1>7. /\ Len(longer) = Len(rest) + Len(more) /\ Len(more) \in Nat
      /\ Len(rest) >= 2 => (BeginsDatagram(longer) <=> BeginsDatagram(rest))
      /\ Len(rest) >= HEADER_SHORT => HeaderLength(longer) = HeaderLength(rest)
      /\ \A k \in Nat : (2 <= k /\ k <= Len(rest)) =>
           (HeaderCorrect(longer, k) <=> HeaderCorrect(rest, k))
  BY <1>3, <1>4, HeaderKept
<1>8. ASSUME HeaderAt(bytes, m) PROVE HeaderAt(bytes \o more, m)
  <2>1. /\ Len(rest) >= HEADER_SHORT /\ BeginsDatagram(rest)
        /\ Len(rest) >= HeaderLength(rest)
        /\ HeaderCorrect(rest, HeaderLength(rest))
    BY <1>2, <1>8 DEF HeaderAt
  <2>2. HeaderLength(rest) \in Nat /\ 2 <= HeaderLength(rest)
    BY <1>3, <2>1, HeaderType
  <2>3. /\ Len(longer) >= HEADER_SHORT /\ BeginsDatagram(longer)
        /\ HeaderLength(longer) = HeaderLength(rest)
        /\ Len(longer) >= HeaderLength(rest)
        /\ HeaderCorrect(longer, HeaderLength(rest))
    BY <1>6, <1>7, <2>1, <2>2
  <2>. QED BY <1>5, <2>3 DEF HeaderAt
<1>9. ASSUME Len(bytes) - m + 1 >= HEADER_LONG, HeaderAt(bytes \o more, m)
      PROVE  HeaderAt(bytes, m)
  <2>1. BeginsDatagram(longer) /\ HeaderCorrect(longer, HeaderLength(longer))
    BY <1>5, <1>9 DEF HeaderAt
  <2>2. Len(rest) >= HEADER_LONG /\ Len(rest) >= HEADER_SHORT /\ Len(rest) >= 2
    BY <1>3, <1>6, <1>9
  <2>3. /\ HeaderLength(rest) \in {HEADER_SHORT, HEADER_LONG}
        /\ HeaderLength(rest) \in Nat /\ 2 <= HeaderLength(rest)
    BY <1>3, <2>2, HeaderType
  <2>4. /\ BeginsDatagram(rest) /\ Len(rest) >= HeaderLength(rest)
        /\ HeaderCorrect(rest, HeaderLength(rest))
    BY <1>7, <2>1, <2>2, <2>3
  <2>. QED BY <1>2, <2>2, <2>4 DEF HeaderAt
<1>. QED BY <1>8, <1>9

\* Bytes of no header are passed over when the stream goes on behind them.
LEMMA BytesPassed ==
  ASSUME NEW g \in Seq(Byte), NEW more \in Seq(Byte), Len(more) >= HEADER_LONG,
         \A m \in 1 .. Len(g) : ~HeaderAt(g \o more, m)
  PROVE  Parse(g \o more)[1] = Parse(more)[1]
<1>a. PICK bytes : bytes = g \o more OBVIOUS
<1>b. \A m \in 1 .. Len(g) : ~HeaderAt(bytes, m) BY <1>a
<1>1. /\ Len(g) \in Nat /\ Len(more) \in Nat /\ bytes \in Seq(Byte)
      /\ Len(bytes) = Len(g) + Len(more)
      /\ HEADER_SHORT \in Nat /\ HEADER_LONG \in Nat
      /\ 2 <= HEADER_SHORT /\ HEADER_SHORT <= HEADER_LONG
  <2>1. /\ g \o more \in Seq(Byte) /\ Len(g \o more) = Len(g) + Len(more)
        /\ Len(g) \in Nat /\ Len(more) \in Nat
    BY LenProperties, ConcatProperties
  <2>. QED BY <1>a, <2>1, HeaderAssumption
<1>2. ASSUME NEW p \in 1 .. Len(g) PROVE Parse(bytes)[p] = Parse(bytes)[p + 1]
  <2>1. PICK rest : rest = From(bytes, p) OBVIOUS
  <2>2. /\ p \in 1 .. Len(bytes) /\ rest \in Seq(Byte)
        /\ Len(rest) = Len(bytes) - p + 1
    <3>1. p \in 1 .. Len(bytes) + 1 BY <1>1
    <3>2. /\ From(bytes, p) \in Seq(Byte)
          /\ Len(From(bytes, p)) = Len(bytes) - p + 1
      BY <1>1, <3>1, FromProperties
    <3>. QED BY <1>1, <2>1, <3>2
  <2>3. Len(rest) >= HEADER_LONG /\ Len(rest) >= HEADER_SHORT /\ Len(rest) >= 2
    BY <1>1, <2>2
  <2>4. HeaderLength(rest) \in {HEADER_SHORT, HEADER_LONG}
    BY <2>2, <2>3, HeaderType
  <2>5. \/ ~BeginsDatagram(rest)
        \/ /\ Len(rest) >= HEADER_SHORT /\ Len(rest) >= HeaderLength(rest)
           /\ ~HeaderCorrect(rest, HeaderLength(rest))
    BY <1>b, <2>1, <2>3, <2>4 DEF HeaderAt
  <2>6. rest = From(bytes, p) /\ Len(rest) >= 2 BY <2>1, <2>3
  <2>7. CASE ~BeginsDatagram(rest)
    BY <1>1, <2>2, <2>6, <2>7, ParseSkip
  <2>8. CASE /\ Len(rest) >= HEADER_SHORT /\ Len(rest) >= HeaderLength(rest)
             /\ ~HeaderCorrect(rest, HeaderLength(rest))
    BY <1>1, <2>2, <2>6, <2>8, ParseSkip
  <2>. QED BY <2>5, <2>7, <2>8
<1>3. PICK Bad : Bad = {k \in 0 .. Len(g) : Parse(bytes)[k + 1] # Parse(bytes)[1]}
  OBVIOUS
<1>4. ASSUME Bad # {} PROVE FALSE
  <2>1. PICK k \in Bad : \A j \in Bad : k <= j
    <3>1. Bad \in SUBSET Nat BY <1>3
    <3>. QED BY <1>4, <3>1, LeastNumberExists
  <2>2. k \in 1 .. Len(g) BY <1>1, <1>3, <2>1
  <2>3. Parse(bytes)[k] = Parse(bytes)[k + 1] BY <1>2, <2>2
  <2>4. k - 1 \in 0 .. Len(g) /\ k - 1 < k /\ (k - 1) + 1 = k BY <1>1, <2>2
  <2>5. k - 1 \notin Bad
    <3>1. k \in Int /\ ~(k <= k - 1) BY <1>1, <2>2
    <3>. QED BY <2>1, <3>1
  <2>. QED BY <1>3, <2>1, <2>3, <2>4, <2>5
<1>5. Parse(bytes)[Len(g) + 1] = Parse(bytes)[1] BY <1>1, <1>3, <1>4
<1>6. more = From(bytes, Len(g) + 1)
  <2>1. From(g \o more, Len(g) + 1) = more BY FromBehind
  <2>. QED BY <1>a, <2>1
<1>7. PICK a : a = Len(g) + 1 OBVIOUS
<1>8. /\ a \in 1 .. Len(bytes) + 1 /\ more = From(bytes, a)
      /\ 1 \in 1 .. Len(more) + 1 /\ a + 1 - 1 = Len(g) + 1
  BY <1>1, <1>6, <1>7
<1>9. Parse(more)[1] = Parse(bytes)[a + 1 - 1]
  <2>1. PICK q : q = 1 OBVIOUS
  <2>2. Parse(more)[q] = Parse(bytes)[a + q - 1] BY <1>1, <1>8, <2>1, ParseOfRest
  <2>. QED BY <2>1, <2>2
<1>. QED BY <1>a, <1>5, <1>8, <1>9

\* Nothing is found in bytes of no header.
LEMMA NothingFound ==
  ASSUME NEW g \in Seq(Byte), \A m \in 1 .. Len(g) : ~HeaderAt(g, m)
  PROVE  Parse(g)[1] = << >>
<1>1. /\ Len(g) \in Nat /\ HEADER_SHORT \in Nat /\ 2 <= HEADER_SHORT
  BY LenProperties, HeaderAssumption
<1>2. PICK Bad : Bad = {k \in 0 .. Len(g) : Parse(g)[Len(g) + 1 - k] # << >>}
  OBVIOUS
<1>3. ASSUME Bad # {} PROVE FALSE
  <2>1. PICK k \in Bad : \A j \in Bad : k <= j
    <3>1. Bad \in SUBSET Nat BY <1>2
    <3>. QED BY <1>3, <3>1, LeastNumberExists
  <2>2. PICK p : p = Len(g) + 1 - k OBVIOUS
  <2>3. PICK rest : rest = From(g, p) OBVIOUS
  <2>4. k \in 0 .. Len(g) /\ p \in 1 .. Len(g) + 1 /\ Parse(g)[p] # << >>
    BY <1>1, <1>2, <2>1, <2>2
  <2>5. rest \in Seq(Byte) /\ Len(rest) = k
    BY <1>1, <2>2, <2>3, <2>4, FromProperties
  <2>6. Parse(g)[p] = FoundAt(Parse(g), g, p) BY <2>4, ParseStep
  <2>7. k >= 2 /\ Parse(g)[p] = Parse(g)[p + 1]
    <3>1. ~(Len(rest) < 2) BY <2>3, <2>4, <2>6 DEF FoundAt
    <3>2. p \in 1 .. Len(g) BY <1>1, <2>2, <2>4, <2>5, <3>1
    <3>3. ~HeaderAt(g, p) BY <3>2
    <3>4. CASE ~BeginsDatagram(rest)
      BY <2>3, <2>5, <2>6, <3>1, <3>4, <2>4 DEF FoundAt
    <3>5. CASE BeginsDatagram(rest)
      <4>1. ~(Len(rest) < HEADER_SHORT \/ Len(rest) < HeaderLength(rest))
        BY <2>3, <2>4, <2>6, <3>1, <3>5 DEF FoundAt
      <4>2. Len(rest) >= HEADER_SHORT BY <1>1, <2>4, <2>5, <4>1
      <4>3. HeaderLength(rest) \in Nat BY <2>5, <4>2, HeaderType
      <4>4. Len(rest) >= HeaderLength(rest) BY <2>4, <2>5, <4>1, <4>3
      <4>5. ~HeaderCorrect(rest, HeaderLength(rest))
        BY <2>3, <3>3, <3>5, <4>2, <4>4 DEF HeaderAt
      <4>. QED BY <2>3, <2>4, <2>5, <2>6, <3>1, <3>5, <4>1, <4>5 DEF FoundAt
    <3>. QED BY <3>4, <3>5
  <2>8. k - 1 \in 0 .. Len(g) /\ k - 1 < k /\ Len(g) + 1 - (k - 1) = p + 1
    BY <1>1, <2>2, <2>4, <2>7
  <2>9. k - 1 \notin Bad
    <3>1. k \in Int /\ ~(k <= k - 1) BY <1>1, <2>4
    <3>. QED BY <2>1, <3>1
  <2>. QED BY <1>2, <2>4, <2>7, <2>8, <2>9
<1>4. Len(g) \in 0 .. Len(g) /\ Len(g) + 1 - Len(g) = 1 BY <1>1
<1>. QED BY <1>2, <1>3, <1>4

\* Bytes that neither hold nor begin a begin sequence are passed over.
Noise(g) ==
  \A n \in 1 .. Len(g) : g[n] = LOWER => n < Len(g) /\ g[n + 1] # UPPER

LEMMA NoisePassed ==
  ASSUME NEW g \in Seq(Byte), Noise(g), NEW more \in Seq(Byte)
  PROVE  Parse(g \o more)[1] = Parse(more)[1]
<1>1. PICK bytes : bytes = g \o more OBVIOUS
<1>2. /\ Len(g) \in Nat /\ Len(more) \in Nat /\ bytes \in Seq(Byte)
      /\ Len(bytes) = Len(g) + Len(more)
      /\ \A n \in 1 .. Len(g) : bytes[n] = g[n]
  <2>1. /\ g \o more \in Seq(Byte) /\ Len(g \o more) = Len(g) + Len(more)
        /\ \A n \in 1 .. Len(g) + Len(more) :
             (g \o more)[n] = IF n <= Len(g) THEN g[n] ELSE more[n - Len(g)]
    BY ConcatProperties
  <2>2. Len(g) \in Nat /\ Len(more) \in Nat BY LenProperties
  <2>. QED BY <1>1, <2>1, <2>2
<1>3. \A m \in 1 .. Len(g) : ~(bytes[m] = LOWER /\ bytes[m + 1] = UPPER)
  BY <1>2 DEF Noise
<1>4. CASE Len(more) > 0
  <2>1. PICK p : p = 1 OBVIOUS
  <2>2. /\ p \in 1 .. Len(bytes) /\ Len(g) \in Nat /\ p + Len(g) <= Len(bytes)
        /\ \A m \in p .. p + Len(g) - 1 : ~(bytes[m] = LOWER /\ bytes[m + 1] = UPPER)
    BY <1>2, <1>3, <1>4, <2>1
  <2>3. Parse(bytes)[p] = Parse(bytes)[p + Len(g)]
    BY <1>2, <2>2, ParseScan
  <2>4. PICK a : a = p + Len(g) OBVIOUS
  <2>5. more = From(bytes, a)
    <3>1. a = Len(g) + 1 BY <1>2, <2>1, <2>4
    <3>. QED BY <1>1, <3>1, FromBehind
  <2>6. a \in 1 .. Len(bytes) + 1 /\ 1 \in 1 .. Len(more) + 1 /\ a + 1 - 1 = a
    BY <1>2, <2>1, <2>4
  <2>7. Parse(more)[1] = Parse(bytes)[a + 1 - 1] BY <1>2, <2>5, <2>6, ParseOfRest
  <2>. QED BY <1>1, <2>1, <2>3, <2>4, <2>6, <2>7
<1>5. CASE Len(more) = 0
  <2>1. more = << >> BY <1>2, <1>5, EmptySeq
  <2>2. bytes = g BY <1>1, <2>1, ConcatEmptySeq
  <2>3. ASSUME NEW m \in 1 .. Len(g) PROVE ~HeaderAt(g, m)
    <3>1. HeaderAt(g, m) => g[m] = LOWER /\ g[m + 1] = UPPER BY HeaderBegins
    <3>. QED BY <1>3, <2>2, <3>1
  <2>4. \A m \in 1 .. Len(more) : ~HeaderAt(more, m) BY <1>5
  <2>. QED BY <1>1, <2>2, <2>3, <2>4, NothingFound
<1>. QED BY <1>2, <1>4, <1>5

\* The first datagram found from a position on lies behind it.
LEMMA FirstFits ==
  ASSUME NEW bytes \in Seq(Byte), NEW p \in 1 .. Len(bytes) + 1,
         Parse(bytes)[p] # << >>
  PROVE  Len(Parse(bytes)[p][1]) <= Len(bytes) + 1 - p
<1>1. PICK N : N = Len(bytes) OBVIOUS
<1>2. N \in Nat /\ HEADER_SHORT \in Nat /\ 2 <= HEADER_SHORT
  BY <1>1, LenProperties, HeaderAssumption
<1>3. PICK Bad : Bad = {k \in 0 .. N : /\ Parse(bytes)[N + 1 - k] # << >>
                                       /\ ~(Len(Parse(bytes)[N + 1 - k][1]) <= k)}
  OBVIOUS
<1>4. ASSUME Bad # {} PROVE FALSE
  <2>1. PICK k \in Bad : \A j \in Bad : k <= j
    <3>1. Bad \in SUBSET Nat BY <1>3
    <3>. QED BY <1>4, <3>1, LeastNumberExists
  <2>2. PICK q : q = N + 1 - k OBVIOUS
  <2>3. PICK rest : rest = From(bytes, q) OBVIOUS
  <2>4. /\ k \in 0 .. N /\ q \in 1 .. N + 1 /\ Parse(bytes)[q] # << >>
        /\ ~(Len(Parse(bytes)[q][1]) <= k)
    BY <1>2, <1>3, <2>1, <2>2
  <2>5. rest \in Seq(Byte) /\ Len(rest) = k
    <3>1. q \in 1 .. Len(bytes) + 1 /\ Len(bytes) - q + 1 = k
      BY <1>1, <1>2, <2>2, <2>4
    <3>. QED BY <2>3, <3>1, FromProperties
  <2>6. Parse(bytes)[q] = FoundAt(Parse(bytes), bytes, q)
    BY <1>1, <2>4, ParseStep
  <2>7. ~(Len(rest) < 2) BY <2>3, <2>4, <2>6 DEF FoundAt
  <2>8. k >= 2 /\ q \in 1 .. N BY <1>2, <2>2, <2>4, <2>5, <2>7
  <2>9. Parse(bytes)[q] # Parse(bytes)[q + 1]
    <3>1. SUFFICES ASSUME Parse(bytes)[q] = Parse(bytes)[q + 1] PROVE FALSE
      OBVIOUS
    <3>2. k - 1 \in 0 .. N /\ k - 1 < k /\ N + 1 - (k - 1) = q + 1
          /\ ~(k <= k - 1)
      BY <1>2, <2>2, <2>4, <2>8
    <3>3. k - 1 \notin Bad BY <2>1, <3>2
    <3>4. Len(Parse(bytes)[q][1]) <= k - 1 BY <1>3, <2>4, <3>1, <3>2, <3>3
    <3>5. Len(Parse(bytes)[q][1]) \in Nat
      <4>1. PICK t : t = Parse(bytes)[q] OBVIOUS
      <4>2. t \in Seq(Seq(Byte)) BY <1>1, <2>4, <4>1, ParseType
      <4>3. Len(t) \in Nat /\ Len(t) # 0
        BY <2>4, <4>1, <4>2, LenProperties, EmptySeq
      <4>4. 1 \in 1 .. Len(t) BY <4>3
      <4>5. t[1] \in Seq(Byte) BY <4>2, <4>4, ElementOfSeq
      <4>. QED BY <4>1, <4>5, LenProperties
    <3>. QED BY <2>4, <2>8, <3>4, <3>5
  <2>10. PICK n, total : /\ n = HeaderLength(rest)
                         /\ total = n + HeaderPayloadLength(rest)
    OBVIOUS
  <2>11. BeginsDatagram(rest) BY <2>3, <2>6, <2>7, <2>9 DEF FoundAt
  <2>12. ~(Len(rest) < HEADER_SHORT \/ Len(rest) < n)
    BY <2>3, <2>4, <2>6, <2>7, <2>10, <2>11 DEF FoundAt
  <2>13. HeaderCorrect(rest, n)
    BY <2>3, <2>6, <2>7, <2>9, <2>10, <2>11, <2>12 DEF FoundAt
  <2>14. ~(Len(rest) < total)
    BY <2>3, <2>4, <2>6, <2>7, <2>10, <2>11, <2>12, <2>13 DEF FoundAt
  <2>15. /\ total \in Nat /\ total \in 1 .. k /\ total \in 0 .. Len(rest)
         /\ Len(rest) >= HEADER_SHORT
    <3>1. Len(rest) >= HEADER_SHORT BY <1>2, <2>4, <2>5, <2>12
    <3>2. n \in Nat /\ 2 <= n /\ HeaderPayloadLength(rest) \in Nat
      BY <2>5, <2>10, <3>1, HeaderType
    <3>. QED BY <2>4, <2>5, <2>10, <2>14, <3>1, <3>2
  <2>16. Parse(bytes)[q] = <<SubSeq(rest, 1, total)>> \o Parse(bytes)[q + total]
    <3>1. /\ Len(rest) >= HeaderLength(rest) /\ Len(rest) >= total
          /\ HeaderCorrect(rest, HeaderLength(rest))
          /\ total = HeaderLength(rest) + HeaderPayloadLength(rest)
      <4>1. n \in Nat BY <2>5, <2>10, <2>15, HeaderType
      <4>. QED BY <2>4, <2>5, <2>10, <2>12, <2>13, <2>15, <4>1
    <3>2. Len(rest) >= total =>
            Parse(bytes)[q] = <<SubSeq(rest, 1, total)>> \o Parse(bytes)[q + total]
      BY <1>1, <2>3, <2>8, <2>15, <3>1, ParseDatagram, ZenonT(60)
    <3>. QED BY <3>1, <3>2
  <2>17. PICK d, t : d = SubSeq(rest, 1, total) /\ t = Parse(bytes)[q + total]
    OBVIOUS
  <2>18. d \in Seq(Byte) /\ Len(d) = total BY <2>5, <2>15, <2>17, PrefixProperties
  <2>19. t \in Seq(Seq(Byte))
    <3>1. q + total \in 1 .. Len(bytes) + 1 BY <1>1, <1>2, <2>2, <2>4, <2>15
    <3>. QED BY <2>17, <3>1, ParseType
  <2>20. (<<d>> \o t)[1] = d
    <3>1. PICK S, one : S = Seq(Byte) /\ one = <<d>> OBVIOUS
    <3>2. one \in Seq(S) /\ Len(one) = 1 /\ one[1] = d /\ t \in Seq(S)
      BY <2>18, <2>19, <3>1
    <3>3. /\ Len(t) \in Nat
          /\ \A i \in 1 .. Len(one) + Len(t) :
               (one \o t)[i] = IF i <= Len(one) THEN one[i] ELSE t[i - Len(one)]
      BY <3>2, ConcatProperties, LenProperties
    <3>4. 1 \in 1 .. Len(one) + Len(t) BY <3>2, <3>3
    <3>5. (one \o t)[1] = d BY <3>2, <3>3, <3>4
    <3>. QED BY <3>1, <3>5, Zenon
  <2>21. Parse(bytes)[q][1] = d BY <2>16, <2>17, <2>20, Zenon
  <2>. QED BY <2>4, <2>15, <2>18, <2>21
<1>5. N + 1 - p \in 0 .. N /\ N + 1 - (N + 1 - p) = p BY <1>1, <1>2
<1>6. N + 1 - p \notin Bad BY <1>4
<1>. QED BY <1>1, <1>3, <1>5, <1>6

\* Between two reads no datagram that fills a long header is held back.
LEMMA WaitingHasAll ==
  ASSUME StreamInv, handler = "waiting",
         \A k \in 1 .. Len(Parse(received)[1]) :
           Len(Parse(received)[1][k]) >= HEADER_LONG
  PROVE  delivered = Parse(received)[1]
<1>1. PICK p : p = Gone + 1 OBVIOUS
<1>2. /\ HeaderInv /\ BytesConserved /\ TypeOK /\ HeaderStillCurrent
      /\ Incompleteness
  BY DEF StreamInv, HeaderInv
<1>3. /\ Gone \in Nat /\ Len(received) = Gone + Len(buffer)
      /\ received \in Seq(Byte)
      /\ Parse(received)[1] = delivered \o Parse(received)[p]
  BY <1>1, ReadSoFar, ReaderIsParse
<1>4. /\ state \in {"BEGIN_SEQ", "HEADER_1", "HEADER_2", "PAYLOAD"}
      /\ header_length \in {HEADER_SHORT, HEADER_LONG}
      /\ HEADER_SHORT \in Nat /\ HEADER_LONG \in Nat
      /\ 2 <= HEADER_SHORT /\ HEADER_SHORT <= HEADER_LONG
      /\ buffer \in Seq(Byte) /\ Len(buffer) \in Nat
      /\ payload_length \in Nat /\ delivered \in Seq(Seq(Byte))
  BY <1>2, BufferType, HeaderAssumption DEF TypeOK
<1>5. p \in 1 .. Len(received) + 1 /\ Len(received) + 1 - p = Len(buffer)
  BY <1>1, <1>3, <1>4
<1>6. PICK rest : rest = Parse(received)[p] OBVIOUS
<1>7. rest \in Seq(Seq(Byte)) BY <1>3, <1>5, <1>6, ParseType
<1>8. rest = << >>
  <2>1. CASE state # "PAYLOAD"
    <3>1. Len(buffer) < HEADER_LONG
      <4>1. CASE state = "BEGIN_SEQ" BY <1>2, <1>4, <4>1 DEF Incompleteness
      <4>2. CASE state = "HEADER_1" BY <1>2, <1>4, <4>2 DEF Incompleteness
      <4>3. CASE state = "HEADER_2" BY <1>2, <1>4, <4>3 DEF Incompleteness
      <4>. QED BY <1>4, <2>1, <4>1, <4>2, <4>3
    <3>2. SUFFICES ASSUME rest # << >> PROVE FALSE OBVIOUS
    <3>3. Len(rest[1]) <= Len(buffer) BY <1>3, <1>5, <1>6, <3>2, FirstFits
    <3>4. Len(rest) \in Nat /\ Len(rest) # 0 /\ Len(delivered) \in Nat
      BY <1>4, <1>7, <3>2, LenProperties, EmptySeq
    <3>5. PICK S, all : S = Seq(Byte) /\ all = delivered \o rest OBVIOUS
    <3>6. PICK k : k = Len(delivered) + 1 OBVIOUS
    <3>7. /\ Len(delivered \o rest) = Len(delivered) + Len(rest)
          /\ \A j \in 1 .. Len(delivered) + Len(rest) :
               (delivered \o rest)[j] = IF j <= Len(delivered) THEN delivered[j]
                                        ELSE rest[j - Len(delivered)]
      <4>1. delivered \in Seq(S) /\ rest \in Seq(S) BY <1>4, <1>7, <3>5
      <4>. QED BY <4>1, ConcatProperties
    <3>8. /\ k \in 1 .. Len(delivered) + Len(rest) /\ ~(k <= Len(delivered))
          /\ k - Len(delivered) = 1
      BY <3>4, <3>6
    <3>9. k \in 1 .. Len(all) /\ all[k] = rest[1] BY <3>5, <3>7, <3>8
    <3>10. all = Parse(received)[1] BY <1>3, <1>6, <3>5, Zenon
    <3>11. Len(rest[1]) >= HEADER_LONG BY <3>9, <3>10
    <3>12. Len(rest[1]) \in Nat
      <4>1. 1 \in 1 .. Len(rest) BY <3>4
      <4>2. rest[1] \in Seq(Byte) BY <1>7, <4>1, ElementOfSeq
      <4>. QED BY <4>2, LenProperties
    <3>. QED BY <1>4, <3>1, <3>3, <3>11, <3>12
  <2>2. CASE state = "PAYLOAD"
    <3>1. PICK total : total = HeaderLength(buffer) + HeaderPayloadLength(buffer)
      OBVIOUS
    <3>2. /\ Len(buffer) >= HEADER_SHORT /\ Len(buffer) >= HeaderLength(buffer)
          /\ HeaderCorrect(buffer, HeaderLength(buffer))
          /\ Len(buffer) < total
      BY <1>2, <2>2, <3>1 DEF HeaderStillCurrent, Incompleteness
    <3>3. p \in 1 .. Len(received) BY <1>4, <1>5, <3>2
    <3>4. From(received, p) = buffer
      <4>1. << >> \in Seq(Byte) BY EmptySeq
      <4>2. From(received \o << >>, p) = buffer \o << >>
        BY <1>1, <1>2, <4>1, RestOfStream
      <4>. QED BY <1>3, <1>4, <4>2, ConcatEmptySeq
    <3>. QED BY <1>3, <1>6, <3>1, <3>2, <3>3, <3>4, ParseDatagram
  <2>. QED BY <2>1, <2>2
<1>9. delivered \o << >> = delivered BY <1>4, ConcatEmptySeq
<1>. QED BY <1>3, <1>6, <1>8, <1>9

=============================================================================
