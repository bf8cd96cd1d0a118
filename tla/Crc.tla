--------------------------------- MODULE Crc ---------------------------------
(***************************************************************************)
(* The CRC computation of inc/CRC.h: bit by bit or with a lookup table, in *)
(* one piece or in parts.  A word is the set of the positions of its bits  *)
(* that are 1, so words of 64 bits are no larger for TLC than words of 8;  *)
(* a byte is a word of CHAR_BIT bits, data is a sequence of bytes.         *)
(***************************************************************************)
EXTENDS Integers, Sequences

CHAR_BIT == 8
Byte == SUBSET (0 .. CHAR_BIT - 1)

Xor(a, b) == (a \ b) \cup (b \ a)
ShiftLeft(a, n) == {k + n : k \in a}
ShiftRight(a, n) == {k - n : k \in {j \in a : j >= n}}

\* The n low bits of a word: a cast to a type of n bits, or & BIT_MASK.
Low(a, n) == {k \in a : k < n}

\* The word with the 16-bit halves given, the most significant one first.
Word(halves) ==
  {k \in 0 .. 16 * Len(halves) - 1 :
     (halves[Len(halves) - (k \div 16)] \div 2 ^ (k % 16)) % 2 = 1}

-----------------------------------------------------------------------------
(* Parameters: digits is the width of CRCType, width is CRCWidth.          *)

Parameters(digits, width, poly, init, xorOut, reflIn, reflOut, check) ==
  [digits |-> digits, width |-> width, polynomial |-> Word(poly),
   initialValue |-> Word(init), finalXOR |-> Word(xorOut),
   reflectInput |-> reflIn, reflectOutput |-> reflOut,
   checkValue |-> Word(check)]

\* The first numBits bits in reverse order.
Reflect(value, numBits) == {numBits - 1 - k : k \in Low(value, numBits)}

ReflectRemainder(p) == p.reflectInput # p.reflectOutput

Finalize(p, remainder) ==
  LET reflected == IF ReflectRemainder(p) THEN Reflect(remainder, p.width)
                                          ELSE remainder
  IN  Low(Xor(reflected, p.finalXOR), p.width)

UndoFinalize(p, crc) ==
  LET remainder == Xor(Low(crc, p.width), p.finalXOR)
  IN  IF ReflectRemainder(p) THEN Reflect(remainder, p.width) ELSE remainder

-----------------------------------------------------------------------------
(* CalculateRemainder.  A CRC of less than eight bits that is not reflected*)
(* is kept at the top of its byte while the loop runs.                     *)

Shifted(p) == ~p.reflectInput /\ p.width < CHAR_BIT

EnterLoop(p, remainder) ==
  IF Shifted(p) THEN Low(ShiftLeft(remainder, CHAR_BIT - p.width), p.digits)
                ELSE remainder

LeaveLoop(p, remainder) ==
  IF Shifted(p) THEN ShiftRight(remainder, CHAR_BIT - p.width) ELSE remainder

\* One pass of the inner loop over the bits of a byte.  (The word w is r: TLC
\* computes r once.)
BitRight(polynomial, r) ==
  UNION {IF 0 \in w THEN Xor(ShiftRight(w, 1), polynomial)
                    ELSE ShiftRight(w, 1) : w \in {r}}

BitLeft(p, polynomial, highest, r) ==
  UNION {IF highest \in w
         THEN Xor(Low(ShiftLeft(w, 1), p.digits), polynomial)
         ELSE Low(ShiftLeft(w, 1), p.digits) : w \in {r}}

EightTimes(Bit(_), r) == Bit(Bit(Bit(Bit(Bit(Bit(Bit(Bit(r))))))))

\* One pass of the outer loop, bit by bit.
AddByte(p, r, byte) ==
  CASE p.reflectInput ->
         LET polynomial == Reflect(p.polynomial, p.width)
         IN  EightTimes(LAMBDA x : BitRight(polynomial, x), Xor(r, byte))
    [] ~p.reflectInput /\ p.width >= CHAR_BIT ->
         EightTimes(LAMBDA x : BitLeft(p, p.polynomial, p.width - 1, x),
                    Xor(r, ShiftLeft(byte, p.width - CHAR_BIT)))
    [] Shifted(p) ->
         LET polynomial == EnterLoop(p, p.polynomial)
         IN  EightTimes(LAMBDA x : BitLeft(p, polynomial, CHAR_BIT - 1, x),
                        Xor(r, byte))

CalculateRemainder(p, data, remainder) ==
  LET r[n \in 0 .. Len(data)] ==
        IF n = 0 THEN EnterLoop(p, remainder)
        ELSE UNION {AddByte(p, w, data[n]) : w \in {r[n - 1]}}
  IN  LeaveLoop(p, r[Len(data)])

-----------------------------------------------------------------------------
(* The lookup table.                                                       *)

\* Seeded fault: the shift of a narrow CRC is not undone.
InitTableUnshifted(p) ==
  [byte \in Byte |-> Low(CalculateRemainder(p, <<byte>>, {}), p.width)]

InitTable(p) ==
  [byte \in Byte |->
     EnterLoop(p, Low(CalculateRemainder(p, <<byte>>, {}), p.width))]

\* One pass of the outer loop, with the table.
AddByteByTable(p, table, r, byte) ==
  CASE p.reflectInput ->
         Xor(ShiftRight(r, CHAR_BIT), table[Low(Xor(r, byte), CHAR_BIT)])
    [] ~p.reflectInput /\ p.width >= CHAR_BIT ->
         Xor(Low(ShiftLeft(r, CHAR_BIT), p.digits),
             table[Low(Xor(ShiftRight(r, p.width - CHAR_BIT), byte),
                       CHAR_BIT)])
    [] Shifted(p) -> table[Low(Xor(r, byte), CHAR_BIT)]

-----------------------------------------------------------------------------
(* Calculate of a whole, and the two definitions the game process uses.    *)

Calculate(p, data) ==
  Finalize(p, CalculateRemainder(p, data, p.initialValue))

CRC_16_ARC ==
  Parameters(16, 16, <<\h8005>>, <<0>>, <<0>>, TRUE, TRUE, <<\hBB3D>>)

CRC_32 ==
  Parameters(32, 32, <<\h04C1, \h1DB7>>, <<\hFFFF, \hFFFF>>,
             <<\hFFFF, \hFFFF>>, TRUE, TRUE, <<\hCBF4, \h3926>>)
=============================================================================
