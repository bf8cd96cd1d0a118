--------------------------- MODULE CrcCalculation ---------------------------
(***************************************************************************)
(* The computation of one CRC as the loops of CRC.h perform it, a byte at  *)
(* a time, once bit by bit and once with the lookup table.  Between two    *)
(* bytes the caller may finish the CRC and append the rest of the data to  *)
(* it with the Calculate that takes a previous CRC.                        *)
(***************************************************************************)
EXTENDS CrcCatalogue

VARIABLES
  parameters,         \* the parameters of this CRC
  unread,             \* the bytes size counts down
  remainder,          \* of CalculateRemainder, bit by bit
  table_remainder     \* of CalculateRemainder, by table

crcVars == <<parameters, unread, remainder, table_remainder>>

-----------------------------------------------------------------------------

BeginCrc(p, data) ==
  /\ parameters = p
  /\ unread = data
  /\ remainder = EnterLoop(p, p.initialValue)
  /\ table_remainder = EnterLoop(p, p.initialValue)

NextByte ==
  /\ unread # << >>
  /\ unread' = Tail(unread)
  /\ remainder' = AddByte(parameters, remainder, Head(unread))
  /\ table_remainder' = AddByteByTable(parameters, InitTable(parameters),
                                       table_remainder, Head(unread))
  /\ UNCHANGED parameters

Result(r) == Finalize(parameters, LeaveLoop(parameters, r))

\* Seeded fault: the previous CRC is taken for the remainder.
ResumeFinished(crc) == EnterLoop(parameters, crc)

\* What the Calculate that appends starts its loop with.
Resume(crc) == EnterLoop(parameters, UndoFinalize(parameters, crc))

AppendData ==
  /\ unread # << >>
  /\ remainder' = Resume(Result(remainder))
  /\ table_remainder' = Resume(Result(table_remainder))
  /\ UNCHANGED <<parameters, unread>>

CrcNext == NextByte \/ AppendData

\* What the templates of CRC.h can be instantiated with: CRCType is a type of
\* at least a byte that is no smaller than the CRC, and the words have no bits
\* beyond its width.
WellFormed(p) ==
  /\ p.digits \in Nat /\ p.digits >= CHAR_BIT
  /\ p.width \in 1 .. p.digits
  /\ {p.polynomial, p.initialValue, p.finalXOR}
       \subseteq SUBSET (0 .. p.width - 1)
  /\ {p.reflectInput, p.reflectOutput} \subseteq BOOLEAN

ASSUME CatalogueWellFormed == \A p \in Catalogue : WellFormed(p)

\* The computation of any CRC of any data.
CrcInit == \E p, data : WellFormed(p) /\ data \in Seq(Byte) /\ BeginCrc(p, data)
CrcSpec == CrcInit /\ [][CrcNext]_crcVars

-----------------------------------------------------------------------------
(* Properties.                                                             *)

\* The computation arrives at the check value that CRC.h documents for the
\* definition (the comment above each of them), wherever the data was cut.
CheckValueReached ==
  unread = << >> => Result(remainder) = parameters.checkValue

\* At every byte the table gives the CRC that the bit by bit loop gives.
TableAgrees == Result(table_remainder) = Result(remainder)

\* Finishing the CRC of one part and appending the next one to it leaves the
\* CRC what it would have been in one piece.
PartsMakeWhole ==
  [][AppendData => Result(remainder') = Result(remainder)]_crcVars
=============================================================================
