--------------------------- MODULE Boundary_proofs ---------------------------
(***************************************************************************)
(* Theorems about what the game process exchanges with others: the CRC of  *)
(* any data with any parameters, the program arguments, the packets,       *)
(* whatever their contents and their length, and the player lists on their *)
(* way through a stream that is cut and damaged anywhere.                  *)
(***************************************************************************)
EXTENDS CrcCalculation, SubProcessSettings, Packets, MainProcessLink,
        SequenceTheorems, LeastNumber, TLAPS

-----------------------------------------------------------------------------
(* Words.                                                                  *)

W == SUBSET Nat

LEMMA XorType ==
  ASSUME NEW a \in W, NEW b \in W
  PROVE  Xor(a, b) \in W
  BY DEF Xor, W

LEMMA XorMember ==
  ASSUME NEW a, NEW b, NEW k
  PROVE  k \in Xor(a, b) <=> ~(k \in a <=> k \in b)
  BY DEF Xor

LEMMA LowMember ==
  ASSUME NEW a, NEW n, NEW k
  PROVE  k \in Low(a, n) <=> k \in a /\ k < n
  BY DEF Low

LEMMA LowType ==
  ASSUME NEW a \in W, NEW n
  PROVE  Low(a, n) \in W
  BY DEF Low, W

LEMMA ShiftRightMember ==
  ASSUME NEW a \in W, NEW n \in Nat
  PROVE  /\ ShiftRight(a, n) \in W
         /\ \A k \in Nat : k \in ShiftRight(a, n) <=> k + n \in a
<1>1. ShiftRight(a, n) \in W BY DEF ShiftRight, W
<1>2. ASSUME NEW k \in Nat, k \in ShiftRight(a, n) PROVE k + n \in a
  BY <1>2 DEF ShiftRight, W
<1>3. ASSUME NEW k \in Nat, k + n \in a PROVE k \in ShiftRight(a, n)
  <2>1. k + n >= n /\ k = (k + n) - n OBVIOUS
  <2>. QED BY <1>3, <2>1 DEF ShiftRight
<1>. QED BY <1>1, <1>2, <1>3

LEMMA ShiftLeftMember ==
  ASSUME NEW a \in W, NEW n \in Nat
  PROVE  /\ ShiftLeft(a, n) \in W
         /\ \A k \in Nat : k \in ShiftLeft(a, n) <=> k >= n /\ k - n \in a
<1>1. ShiftLeft(a, n) \in W BY DEF ShiftLeft, W
<1>2. ASSUME NEW k \in Nat, k \in ShiftLeft(a, n) PROVE k >= n /\ k - n \in a
  BY <1>2 DEF ShiftLeft, W
<1>3. ASSUME NEW k \in Nat, k >= n, k - n \in a PROVE k \in ShiftLeft(a, n)
  <2>1. k = (k - n) + n OBVIOUS
  <2>. QED BY <1>3, <2>1 DEF ShiftLeft
<1>. QED BY <1>1, <1>2, <1>3

LEMMA ReflectMember ==
  ASSUME NEW a \in W, NEW n \in Nat
  PROVE  /\ Reflect(a, n) \in W
         /\ \A k \in Nat : k \in Reflect(a, n) <=> k < n /\ (n - 1) - k \in a
<1>1. Reflect(a, n) \in W BY DEF Reflect, Low, W
<1>2. ASSUME NEW k \in Nat, k \in Reflect(a, n) PROVE k < n /\ (n - 1) - k \in a
  BY <1>2 DEF Reflect, Low, W
<1>3. ASSUME NEW k \in Nat, k < n, (n - 1) - k \in a PROVE k \in Reflect(a, n)
  <2>1. k = (n - 1) - ((n - 1) - k) OBVIOUS
  <2>. QED BY <1>3, <2>1 DEF Reflect, Low
<1>. QED BY <1>1, <1>2, <1>3

-----------------------------------------------------------------------------

LEMMA BitRightMember ==
  ASSUME NEW q \in W, NEW r \in W
  PROVE  /\ BitRight(q, r) \in W
         /\ \A k \in Nat :
              k \in BitRight(q, r) <=> ~(k + 1 \in r <=> 0 \in r /\ k \in q)
<1>1. BitRight(q, r) = IF 0 \in r THEN Xor(ShiftRight(r, 1), q)
                                  ELSE ShiftRight(r, 1)
  BY DEF BitRight
<1>2. /\ ShiftRight(r, 1) \in W
      /\ \A k \in Nat : k \in ShiftRight(r, 1) <=> k + 1 \in r
  BY ShiftRightMember
<1>. QED BY <1>1, <1>2, XorMember, XorType

LEMMA BitLeftMember ==
  ASSUME NEW p, p.digits \in Nat, NEW q \in W, NEW h, NEW r \in W
  PROVE  /\ BitLeft(p, q, h, r) \in W
         /\ \A k \in Nat :
              k \in BitLeft(p, q, h, r) <=>
                ~(k < p.digits /\ k >= 1 /\ k - 1 \in r <=> h \in r /\ k \in q)
<1> DEFINE s == Low(ShiftLeft(r, 1), p.digits)
<1>1. BitLeft(p, q, h, r) = IF h \in r THEN Xor(s, q) ELSE s
  BY DEF BitLeft
<1>2. /\ ShiftLeft(r, 1) \in W
      /\ \A k \in Nat : k \in ShiftLeft(r, 1) <=> k >= 1 /\ k - 1 \in r
  BY ShiftLeftMember
<1>3. /\ s \in W
      /\ \A k \in Nat : k \in s <=> k < p.digits /\ k >= 1 /\ k - 1 \in r
  BY <1>2, LowMember, LowType
<1> HIDE DEF s
<1>. QED BY <1>1, <1>3, XorMember, XorType

-----------------------------------------------------------------------------

EightRight(q, x) == EightTimes(LAMBDA w : BitRight(q, w), x)
EightLeft(p, q, h, x) == EightTimes(LAMBDA w : BitLeft(p, q, h, w), x)

LEMMA EightRightType ==
  ASSUME NEW q \in W, NEW x \in W
  PROVE  EightRight(q, x) \in W
<1>1. \A a \in W : BitRight(q, a) \in W BY BitRightMember
<1>. QED BY <1>1 DEF EightRight, EightTimes

LEMMA EightLeftType ==
  ASSUME NEW p, p.digits \in Nat, NEW q \in W, NEW h, NEW x \in W
  PROVE  EightLeft(p, q, h, x) \in W
<1>1. \A a \in W : BitLeft(p, q, h, a) \in W BY BitLeftMember
<1>. QED BY <1>1 DEF EightLeft, EightTimes

LEMMA EightRightLinear ==
  ASSUME NEW q \in W, NEW x \in W, NEW y \in W
  PROVE  EightRight(q, Xor(x, y)) = Xor(EightRight(q, x), EightRight(q, y))
<1>1. ASSUME NEW a \in W, NEW b \in W
      PROVE  BitRight(q, Xor(a, b)) = Xor(BitRight(q, a), BitRight(q, b))
  <2> DEFINE l == BitRight(q, Xor(a, b))
             r == Xor(BitRight(q, a), BitRight(q, b))
  <2>1. l \in W /\ r \in W BY BitRightMember, XorType
  <2>2. ASSUME NEW k \in Nat PROVE k \in l <=> k \in r
    <3>1. Xor(a, b) \in W BY XorType
    <3>2. k \in l <=> ~(k + 1 \in Xor(a, b) <=> 0 \in Xor(a, b) /\ k \in q)
      BY <3>1, BitRightMember
    <3>3. k \in r <=> ~(k \in BitRight(q, a) <=> k \in BitRight(q, b))
      BY XorMember
    <3>4. /\ k \in BitRight(q, a) <=> ~(k + 1 \in a <=> 0 \in a /\ k \in q)
          /\ k \in BitRight(q, b) <=> ~(k + 1 \in b <=> 0 \in b /\ k \in q)
      BY BitRightMember
    <3> HIDE DEF l, r
    <3>. QED BY <3>2, <3>3, <3>4, XorMember
  <2> HIDE DEF l, r
  <2>3. l = r BY <2>1, <2>2 DEF W
  <2>. QED BY <2>3 DEF l, r
<1>2. \A a \in W : BitRight(q, a) \in W BY BitRightMember
<1>. QED BY <1>1, <1>2 DEF EightRight, EightTimes

LEMMA EightLeftLinear ==
  ASSUME NEW p, p.digits \in Nat, NEW q \in W, NEW h, NEW x \in W, NEW y \in W
  PROVE  EightLeft(p, q, h, Xor(x, y))
           = Xor(EightLeft(p, q, h, x), EightLeft(p, q, h, y))
<1>1. ASSUME NEW a \in W, NEW b \in W
      PROVE  BitLeft(p, q, h, Xor(a, b))
               = Xor(BitLeft(p, q, h, a), BitLeft(p, q, h, b))
  <2> DEFINE l == BitLeft(p, q, h, Xor(a, b))
             r == Xor(BitLeft(p, q, h, a), BitLeft(p, q, h, b))
             In(k, w) == k < p.digits /\ k >= 1 /\ k - 1 \in w
  <2>1. l \in W /\ r \in W BY BitLeftMember, XorType
  <2>2. ASSUME NEW k \in Nat PROVE k \in l <=> k \in r
    <3>1. Xor(a, b) \in W BY XorType
    <3>2. k \in l <=> ~(In(k, Xor(a, b)) <=> h \in Xor(a, b) /\ k \in q)
      BY <3>1, BitLeftMember
    <3>3. k \in r <=> ~(k \in BitLeft(p, q, h, a) <=> k \in BitLeft(p, q, h, b))
      BY XorMember
    <3>4. /\ k \in BitLeft(p, q, h, a) <=> ~(In(k, a) <=> h \in a /\ k \in q)
          /\ k \in BitLeft(p, q, h, b) <=> ~(In(k, b) <=> h \in b /\ k \in q)
      BY BitLeftMember
    <3> HIDE DEF l, r
    <3>. QED BY <3>2, <3>3, <3>4, XorMember
  <2> HIDE DEF l, r
  <2>3. l = r BY <2>1, <2>2 DEF W
  <2>. QED BY <2>3 DEF l, r
<1>2. \A a \in W : BitLeft(p, q, h, a) \in W BY BitLeftMember
<1>. QED BY <1>1, <1>2 DEF EightLeft, EightTimes

-----------------------------------------------------------------------------

LEMMA EightRightOfHigh ==
  ASSUME NEW q \in W, NEW y \in W, \A k \in 0 .. 7 : k \notin y
  PROVE  EightRight(q, y) = ShiftRight(y, 8)
<1> DEFINE Moved(x, n) == /\ x \in W
                          /\ \A k \in Nat : k \in x <=> k + n \in y
<1>1. ASSUME NEW x, NEW n \in 0 .. 7, Moved(x, n)
      PROVE  Moved(BitRight(q, x), n + 1)
  <2>1. 0 \notin x BY <1>1
  <2>2. ASSUME NEW k \in Nat
        PROVE  k \in BitRight(q, x) <=> k + (n + 1) \in y
    <3>1. k \in BitRight(q, x) <=> k + 1 \in x BY <1>1, <2>1, BitRightMember
    <3>2. k + 1 \in x <=> (k + 1) + n \in y BY <1>1
    <3>3. (k + 1) + n = k + (n + 1) OBVIOUS
    <3>. QED BY <3>1, <3>2, <3>3
  <2>. QED BY <1>1, <2>2, BitRightMember
<1>2. Moved(y, 0) OBVIOUS
<1> HIDE DEF Moved
<1>3. \A x, n : n \in 0 .. 7 /\ Moved(x, n) => Moved(BitRight(q, x), n + 1)
  BY <1>1
<1> DEFINE y4 == BitRight(q, BitRight(q, BitRight(q, BitRight(q, y))))
<1>4. Moved(y4, 4)
  <2>1. Moved(BitRight(q, y), 1) BY <1>2, <1>3
  <2>2. Moved(BitRight(q, BitRight(q, y)), 2) BY <2>1, <1>3
  <2>3. Moved(BitRight(q, BitRight(q, BitRight(q, y))), 3) BY <2>2, <1>3
  <2>. QED BY <2>3, <1>3
<1>5. EightRight(q, y) = BitRight(q, BitRight(q, BitRight(q, BitRight(q, y4))))
  BY DEF EightRight, EightTimes
<1> HIDE DEF y4
<1>6. Moved(EightRight(q, y), 8)
  <2>1. Moved(BitRight(q, y4), 5) BY <1>4, <1>3
  <2>2. Moved(BitRight(q, BitRight(q, y4)), 6) BY <2>1, <1>3
  <2>3. Moved(BitRight(q, BitRight(q, BitRight(q, y4))), 7) BY <2>2, <1>3
  <2>. QED BY <2>3, <1>3, <1>5
<1>7. /\ ShiftRight(y, 8) \in W
      /\ \A k \in Nat : k \in ShiftRight(y, 8) <=> k + 8 \in y
  BY ShiftRightMember
<1>. QED BY <1>6, <1>7 DEF Moved, W

LEMMA EightRightBounded ==
  ASSUME NEW q \in W, NEW w \in Nat, \A k \in q : k < w,
         NEW y \in W, \A k \in y : k < 8
  PROVE  \A k \in EightRight(q, y) : k < w
<1> DEFINE Below(x, n) == x \in W /\ \A k \in x : k < w \/ k + n < 8
<1>1. ASSUME NEW x, NEW n \in 0 .. 7, Below(x, n)
      PROVE  Below(BitRight(q, x), n + 1)
  <2>1. BitRight(q, x) \in W BY <1>1, BitRightMember
  <2>2. ASSUME NEW k \in BitRight(q, x) PROVE k < w \/ k + (n + 1) < 8
    <3>1. k \in Nat BY <2>1, <2>2 DEF W
    <3>2. k + 1 \in x \/ k \in q BY <1>1, <2>2, <3>1, BitRightMember
    <3>. QED BY <1>1, <3>1, <3>2
  <2>. QED BY <2>1, <2>2
<1>2. Below(y, 0) BY DEF W
<1> HIDE DEF Below
<1>3. \A x, n : n \in 0 .. 7 /\ Below(x, n) => Below(BitRight(q, x), n + 1)
  BY <1>1
<1> DEFINE y4 == BitRight(q, BitRight(q, BitRight(q, BitRight(q, y))))
<1>4. Below(y4, 4)
  <2>1. Below(BitRight(q, y), 1) BY <1>2, <1>3
  <2>2. Below(BitRight(q, BitRight(q, y)), 2) BY <2>1, <1>3
  <2>3. Below(BitRight(q, BitRight(q, BitRight(q, y))), 3) BY <2>2, <1>3
  <2>. QED BY <2>3, <1>3
<1>5. EightRight(q, y) = BitRight(q, BitRight(q, BitRight(q, BitRight(q, y4))))
  BY DEF EightRight, EightTimes
<1> HIDE DEF y4
<1>6. Below(EightRight(q, y), 8)
  <2>1. Below(BitRight(q, y4), 5) BY <1>4, <1>3
  <2>2. Below(BitRight(q, BitRight(q, y4)), 6) BY <2>1, <1>3
  <2>3. Below(BitRight(q, BitRight(q, BitRight(q, y4))), 7) BY <2>2, <1>3
  <2>. QED BY <2>3, <1>3, <1>5
<1>. QED BY <1>6 DEF Below, W

-----------------------------------------------------------------------------

\* Two words with the same n low bits.
Alike(x, y, n) == \A k \in Nat : k < n => (k \in x <=> k \in y)

LEMMA EightLeftAlike ==
  ASSUME NEW p, p.digits \in Nat, NEW q \in W, NEW h \in Nat, h >= 1,
         NEW x \in W, NEW y \in W, Alike(x, y, h)
  PROVE  Alike(EightLeft(p, q, h - 1, x), EightLeft(p, q, h - 1, y), h)
<1> DEFINE B(w) == BitLeft(p, q, h - 1, w)
<1>1. ASSUME NEW a \in W, NEW b \in W, Alike(a, b, h)
      PROVE  Alike(B(a), B(b), h)
  <2> SUFFICES ASSUME NEW k \in Nat, k < h PROVE k \in B(a) <=> k \in B(b)
    BY DEF Alike
  <2>1. h - 1 \in a <=> h - 1 \in b BY <1>1 DEF Alike
  <2>2. k >= 1 => (k - 1 \in a <=> k - 1 \in b) BY <1>1 DEF Alike
  <2>3. /\ k \in B(a) <=> ~(k < p.digits /\ k >= 1 /\ k - 1 \in a
                              <=> h - 1 \in a /\ k \in q)
        /\ k \in B(b) <=> ~(k < p.digits /\ k >= 1 /\ k - 1 \in b
                              <=> h - 1 \in b /\ k \in q)
    BY BitLeftMember
  <2> HIDE DEF B
  <2>. QED BY <2>1, <2>2, <2>3
<1>2. \A a \in W : B(a) \in W BY BitLeftMember
<1>3. /\ EightLeft(p, q, h - 1, x) = B(B(B(B(B(B(B(B(x))))))))
      /\ EightLeft(p, q, h - 1, y) = B(B(B(B(B(B(B(B(y))))))))
  BY DEF EightLeft, EightTimes
<1> HIDE DEF B
<1>. QED BY <1>1, <1>2, <1>3

LEMMA EightLeftOfLow ==
  ASSUME NEW p, p.digits \in Nat, NEW q \in W, NEW h \in Nat, h >= 8,
         h <= p.digits,
         NEW y \in W, \A k \in y : k < h - 8
  PROVE  \A k \in Nat : k \in EightLeft(p, q, h - 1, y) <=> k >= 8 /\ k - 8 \in y
<1> DEFINE B(w) == BitLeft(p, q, h - 1, w)
           Moved(x, n) == /\ x \in W
                          /\ \A k \in Nat : k \in x <=> k >= n /\ k - n \in y
<1>1. ASSUME NEW x, NEW n \in 0 .. 7, Moved(x, n)
      PROVE  Moved(B(x), n + 1)
  <2>1. h - 1 \notin x
    <3>1. h - 1 \in x => (h - 1) - n \in y BY <1>1
    <3>. QED BY <3>1
  <2>2. ASSUME NEW k \in Nat
        PROVE  k \in B(x) <=> k >= n + 1 /\ k - (n + 1) \in y
    <3>1. k \in B(x) <=> k < p.digits /\ k >= 1 /\ k - 1 \in x
      BY <1>1, <2>1, BitLeftMember
    <3>2. k >= 1 => (k - 1 \in x <=> k - 1 >= n /\ (k - 1) - n \in y) BY <1>1
    <3>3. (k - 1) - n = k - (n + 1) OBVIOUS
    <3>4. k - (n + 1) \in y => k < p.digits
      <4>1. k - (n + 1) \in y => k - (n + 1) < h - 8 OBVIOUS
      <4>. QED BY <4>1
    <3> HIDE DEF B
    <3>. QED BY <3>1, <3>2, <3>3, <3>4
  <2>. QED BY <1>1, <2>2, BitLeftMember
<1>2. Moved(y, 0) BY DEF W
<1>3. EightLeft(p, q, h - 1, y) = B(B(B(B(B(B(B(B(y))))))))
  BY DEF EightLeft, EightTimes
<1> HIDE DEF B, Moved
<1>4. \A x, n : n \in 0 .. 7 /\ Moved(x, n) => Moved(B(x), n + 1)
  BY <1>1
<1>5. Moved(B(B(B(B(y)))), 4)
  <2>1. Moved(B(y), 1) BY <1>2, <1>4
  <2>2. Moved(B(B(y)), 2) BY <2>1, <1>4
  <2>3. Moved(B(B(B(y))), 3) BY <2>2, <1>4
  <2>. QED BY <2>3, <1>4
<1> DEFINE y4 == B(B(B(B(y))))
<1> HIDE DEF y4
<1>6. Moved(B(B(B(B(y4)))), 8)
  <2>0. Moved(y4, 4) BY <1>5 DEF y4
  <2>1. Moved(B(y4), 5) BY <2>0, <1>4
  <2>2. Moved(B(B(y4)), 6) BY <2>1, <1>4
  <2>3. Moved(B(B(B(y4))), 7) BY <2>2, <1>4
  <2>. QED BY <2>3, <1>4
<1>. QED BY <1>3, <1>6 DEF Moved, y4

\* Bits below those of the polynomial do not survive eight shifts.
LEMMA EightLeftAbove ==
  ASSUME NEW p, p.digits \in Nat, NEW q \in W, NEW h,
         NEW n0 \in Nat, n0 <= 8, \A k \in q : k >= n0, NEW y \in W
  PROVE  \A k \in EightLeft(p, q, h, y) : k >= n0
<1> DEFINE B(w) == BitLeft(p, q, h, w)
           Above(x, n) == x \in W /\ \A k \in x : k >= n0 \/ k >= n
<1>1. ASSUME NEW x, NEW n \in 0 .. 7, Above(x, n)
      PROVE  Above(B(x), n + 1)
  <2>1. B(x) \in W BY <1>1, BitLeftMember
  <2>2. ASSUME NEW k \in B(x) PROVE k >= n0 \/ k >= n + 1
    <3>1. k \in Nat BY <2>1, <2>2 DEF W
    <3>2. k \in q \/ (k >= 1 /\ k - 1 \in x)
      <4>1. k \in B(x) <=> ~(k < p.digits /\ k >= 1 /\ k - 1 \in x
                               <=> h \in x /\ k \in q)
        BY <1>1, <3>1, BitLeftMember
      <4> HIDE DEF B
      <4>. QED BY <2>2, <4>1
    <3>. QED BY <1>1, <3>1, <3>2
  <2>. QED BY <2>1, <2>2
<1>2. Above(y, 0) BY DEF W
<1>3. EightLeft(p, q, h, y) = B(B(B(B(B(B(B(B(y))))))))
  BY DEF EightLeft, EightTimes
<1> HIDE DEF B, Above
<1>4. \A x, n : n \in 0 .. 7 /\ Above(x, n) => Above(B(x), n + 1)
  BY <1>1
<1>5. Above(B(B(B(B(y)))), 4)
  <2>1. Above(B(y), 1) BY <1>2, <1>4
  <2>2. Above(B(B(y)), 2) BY <2>1, <1>4
  <2>3. Above(B(B(B(y))), 3) BY <2>2, <1>4
  <2>. QED BY <2>3, <1>4
<1> DEFINE y4 == B(B(B(B(y))))
<1> HIDE DEF y4
<1>6. Above(B(B(B(B(y4)))), 8)
  <2>0. Above(y4, 4) BY <1>5 DEF y4
  <2>1. Above(B(y4), 5) BY <2>0, <1>4
  <2>2. Above(B(B(y4)), 6) BY <2>1, <1>4
  <2>3. Above(B(B(B(y4))), 7) BY <2>2, <1>4
  <2>. QED BY <2>3, <1>4
<1>. QED BY <1>3, <1>6 DEF Above, y4, W

-----------------------------------------------------------------------------

LEMMA WordFacts ==
  ASSUME NEW p, WellFormed(p)
  PROVE  /\ p.digits \in Nat /\ p.digits >= 8
         /\ p.width \in Nat /\ 1 <= p.width /\ p.width <= p.digits
         /\ p.polynomial \in W /\ \A k \in p.polynomial : k < p.width
         /\ p.initialValue \in W /\ \A k \in p.initialValue : k < p.width
         /\ p.finalXOR \in W /\ \A k \in p.finalXOR : k < p.width
         /\ p.reflectInput \in BOOLEAN /\ p.reflectOutput \in BOOLEAN
  BY DEF WellFormed, W, CHAR_BIT

LEMMA ByteFacts ==
  ASSUME NEW b
  PROVE  b \in Byte <=> b \in W /\ \A k \in b : k < 8
  BY DEF Byte, W, CHAR_BIT

LEMMA XorEmpty ==
  ASSUME NEW a
  PROVE  Xor({}, a) = a
  BY DEF Xor

\* The loop over a single byte.
LEMMA CalculateOne ==
  ASSUME NEW p, NEW b, NEW x
  PROVE  CalculateRemainder(p, <<b>>, x)
           = LeaveLoop(p, AddByte(p, EnterLoop(p, x), b))
<1> DEFINE data == <<b>>
           F(g) == [n \in 0 .. Len(data) |->
                      IF n = 0 THEN EnterLoop(p, x)
                      ELSE UNION {AddByte(p, u, data[n]) : u \in {g[n - 1]}}]
           r == CHOOSE g : g = F(g)
           e == EnterLoop(p, x)
           w == [n \in 0 .. 1 |-> IF n = 0 THEN e ELSE AddByte(p, e, b)]
<1>0. \A y, z : UNION {AddByte(p, u, z) : u \in {y}} = AddByte(p, y, z) OBVIOUS
<1>1. CalculateRemainder(p, data, x) = LeaveLoop(p, r[Len(data)])
  BY DEF CalculateRemainder
<1>2. w = F(w)
  <2>1. Len(data) = 1 /\ data[1] = b OBVIOUS
  <2> HIDE DEF data, e
  <2>2. F(w) = [n \in 0 .. 1 |->
                  IF n = 0 THEN e ELSE AddByte(p, w[n - 1], data[n])]
    BY <1>0, <2>1 DEF e
  <2>3. \A n \in 0 .. 1 : n # 0 => n = 1 /\ w[n - 1] = e /\ data[n] = b
    BY <2>1
  <2>. QED BY <2>2, <2>3
<1>3. r = F(r)
  <2>1. \E g : g = F(g) BY <1>2
  <2> HIDE DEF F
  <2>. QED BY <2>1
<1> HIDE DEF r
<1>4. r[0] = e /\ r[1] = AddByte(p, r[0], b)
  <2>1. Len(data) = 1 /\ data[1] = b OBVIOUS
  <2> HIDE DEF data, e
  <2>2. r = [n \in 0 .. 1 |->
                  IF n = 0 THEN e ELSE AddByte(p, r[n - 1], data[n])]
    BY <1>0, <1>3, <2>1 DEF e
  <2> HIDE <1>3
  <2>3. r[0] = e BY <2>2
  <2>4. r[1] = AddByte(p, r[1 - 1], data[1]) BY <2>2
  <2>. QED BY <2>1, <2>3, <2>4
<1>5. Len(data) = 1 OBVIOUS
<1>. QED BY <1>1, <1>4, <1>5

-----------------------------------------------------------------------------
(* The reflected computation.                                              *)

LEMMA ReflectedPolynomial ==
  ASSUME NEW p, WellFormed(p)
  PROVE  /\ Reflect(p.polynomial, p.width) \in W
         /\ \A k \in Reflect(p.polynomial, p.width) : k < p.width
<1>1. p.polynomial \in W /\ p.width \in Nat BY WordFacts
<1>. QED BY <1>1, ReflectMember DEF W

LEMMA ReflectedByte ==
  ASSUME NEW p, WellFormed(p), p.reflectInput, NEW x, NEW b
  PROVE  AddByte(p, x, b)
           = EightRight(Reflect(p.polynomial, p.width), Xor(x, b))
  BY DEF AddByte, EightRight, EightTimes, Shifted

LEMMA ReflectedEntry ==
  ASSUME NEW p, WellFormed(p), p.reflectInput, NEW b \in Byte
  PROVE  InitTable(p)[b] = EightRight(Reflect(p.polynomial, p.width), b)
<1> DEFINE q == Reflect(p.polynomial, p.width)
           z == EightRight(q, b)
<1>1. \A y : EnterLoop(p, y) = y /\ LeaveLoop(p, y) = y
  BY DEF EnterLoop, LeaveLoop, Shifted
<1>2. InitTable(p)[b] = Low(AddByte(p, {}, b), p.width)
  BY <1>1, CalculateOne DEF InitTable
<1>3. AddByte(p, {}, b) = z
  BY XorEmpty, ReflectedByte
<1>4. z \in W /\ \A k \in z : k < p.width
  BY ReflectedPolynomial, WordFacts, ByteFacts, EightRightType, EightRightBounded
<1> HIDE DEF z
<1>5. Low(z, p.width) = z
  BY <1>4 DEF Low
<1>. QED BY <1>2, <1>3, <1>5 DEF z

\* The table gives exactly what the loop over the bits gives.
LEMMA ReflectedStep ==
  ASSUME NEW p, WellFormed(p), p.reflectInput, NEW x \in W, NEW b \in Byte
  PROVE  AddByteByTable(p, InitTable(p), x, b) = AddByte(p, x, b)
<1> DEFINE q == Reflect(p.polynomial, p.width)
           y == Xor(x, b)
           t == Low(y, 8)
           u == {k \in y : k >= 8}
<1>1. b \in W /\ y \in W /\ t \in W /\ u \in W /\ q \in W
  BY ByteFacts, XorType, LowType, ReflectedPolynomial DEF W
<1>2. y = Xor(t, u)
  <2>1. \A k \in y : k \in Nat BY <1>1 DEF W
  <2>2. t = {k \in y : k < 8} BY DEF Low
  <2> HIDE DEF y, t
  <2>. QED BY <2>1, <2>2 DEF Xor
<1>3. t \in Byte
  <2>1. \A k \in t : k < 8 BY LowMember
  <2>. QED BY <1>1, <2>1, ByteFacts
<1>4. EightRight(q, u) = ShiftRight(u, 8)
  <2>1. \A k \in 0 .. 7 : k \notin u OBVIOUS
  <2>. QED BY <1>1, <2>1, EightRightOfHigh
<1>5. ShiftRight(u, 8) = ShiftRight(x, 8)
  <2>1. /\ ShiftRight(u, 8) \in W /\ ShiftRight(x, 8) \in W
        /\ \A k \in Nat : k \in ShiftRight(u, 8) <=> k + 8 \in u
        /\ \A k \in Nat : k \in ShiftRight(x, 8) <=> k + 8 \in x
    BY <1>1, ShiftRightMember
  <2>2. \A k \in Nat : k + 8 \in u <=> k + 8 \in x
    <3>1. \A k \in Nat : k + 8 \notin b BY ByteFacts
    <3>2. \A k \in Nat : k + 8 \in y <=> k + 8 \in x BY <3>1 DEF Xor
    <3> HIDE DEF y
    <3>. QED BY <3>2
  <2> HIDE DEF u
  <2>. QED BY <2>1, <2>2 DEF W
<1>6. AddByte(p, x, b) = Xor(EightRight(q, t), ShiftRight(x, 8))
  <2>1. AddByte(p, x, b) = EightRight(q, Xor(t, u))
    BY <1>2, ReflectedByte
  <2> HIDE DEF t, u, q, y
  <2>. QED BY <1>1, <1>4, <1>5, <2>1, EightRightLinear
<1>7. AddByteByTable(p, InitTable(p), x, b) = Xor(ShiftRight(x, 8), InitTable(p)[t])
  BY DEF AddByteByTable, CHAR_BIT, Shifted
<1>8. InitTable(p)[t] = EightRight(q, t)
  BY <1>3, ReflectedEntry
<1>9. \A a, c : Xor(a, c) = Xor(c, a) BY DEF Xor
<1>. QED BY <1>6, <1>7, <1>8, <1>9

-----------------------------------------------------------------------------
(* The unreflected computation.                                            *)

\* The position above the one whose bit the loop tests, and the polynomial the
\* loop works with.
Top(p) == IF p.width < 8 THEN 8 ELSE p.width
LoopPolynomial(p) == EnterLoop(p, p.polynomial)
OverByte(p, x) == EightLeft(p, LoopPolynomial(p), Top(p) - 1, x)

LEMMA LoopFacts ==
  ASSUME NEW p, WellFormed(p), NEW x \in W
  PROVE  /\ EnterLoop(p, x) \in W /\ LeaveLoop(p, x) \in W
         /\ Shifted(p) =>
              /\ \A k \in Nat : k \in EnterLoop(p, x)
                                  <=> k < p.digits /\ k >= 8 - p.width
                                        /\ k - (8 - p.width) \in x
              /\ \A k \in Nat : k \in LeaveLoop(p, x) <=> k + (8 - p.width) \in x
         /\ ~Shifted(p) => EnterLoop(p, x) = x /\ LeaveLoop(p, x) = x
<1> DEFINE n == 8 - p.width
<1>1. CASE Shifted(p)
  <2>1. n \in Nat BY <1>1, WordFacts DEF Shifted, CHAR_BIT
  <2>2. EnterLoop(p, x) = Low(ShiftLeft(x, n), p.digits)
        /\ LeaveLoop(p, x) = ShiftRight(x, n)
    BY <1>1 DEF EnterLoop, LeaveLoop, CHAR_BIT
  <2> HIDE DEF n
  <2>3. /\ ShiftLeft(x, n) \in W
        /\ \A k \in Nat : k \in ShiftLeft(x, n) <=> k >= n /\ k - n \in x
    BY <2>1, ShiftLeftMember
  <2>4. /\ ShiftRight(x, n) \in W
        /\ \A k \in Nat : k \in ShiftRight(x, n) <=> k + n \in x
    BY <2>1, ShiftRightMember
  <2>5. Low(ShiftLeft(x, n), p.digits) \in W BY <2>3, LowType
  <2>6. \A k \in Nat : k \in Low(ShiftLeft(x, n), p.digits)
                         <=> k < p.digits /\ k >= n /\ k - n \in x
    BY <2>3, LowMember
  <2>. QED BY <1>1, <2>2, <2>4, <2>5, <2>6 DEF n
<1>2. CASE ~Shifted(p) BY <1>2 DEF EnterLoop, LeaveLoop
<1>. QED BY <1>1, <1>2

LEMMA TopFacts ==
  ASSUME NEW p, WellFormed(p)
  PROVE  /\ Top(p) \in Nat /\ Top(p) >= 8 /\ Top(p) <= p.digits
         /\ Top(p) - 8 \in Nat
         /\ LoopPolynomial(p) \in W
         /\ \A x \in W : OverByte(p, x) \in W
<1>1. Top(p) \in Nat /\ Top(p) >= 8 /\ Top(p) <= p.digits
  BY WordFacts DEF Top
<1>2. LoopPolynomial(p) \in W BY WordFacts, LoopFacts DEF LoopPolynomial
<1>. QED BY <1>1, <1>2, WordFacts, EightLeftType DEF OverByte

LEMMA ShiftByNothing ==
  ASSUME NEW a \in W
  PROVE  ShiftLeft(a, 0) = a /\ ShiftRight(a, 0) = a
<1>1. /\ ShiftLeft(a, 0) \in W
      /\ \A k \in Nat : k \in ShiftLeft(a, 0) <=> k >= 0 /\ k - 0 \in a
  BY ShiftLeftMember
<1>2. /\ ShiftRight(a, 0) \in W
      /\ \A k \in Nat : k \in ShiftRight(a, 0) <=> k + 0 \in a
  BY ShiftRightMember
<1>3. \A k \in Nat : k - 0 = k /\ k + 0 = k /\ k >= 0 OBVIOUS
<1>4. \A k \in Nat : k \in ShiftLeft(a, 0) <=> k \in a BY <1>1, <1>3
<1>5. \A k \in Nat : k \in ShiftRight(a, 0) <=> k \in a BY <1>2, <1>3
<1>. QED BY <1>1, <1>2, <1>4, <1>5 DEF W

\* The two unreflected cases of the loop are one: eight steps to the left of
\* the remainder with the byte at its top.
LEMMA UnreflectedByte ==
  ASSUME NEW p, WellFormed(p), ~p.reflectInput, NEW x, NEW b \in Byte
  PROVE  AddByte(p, x, b) = OverByte(p, Xor(x, ShiftLeft(b, Top(p) - 8)))
<1>1. CASE p.width >= CHAR_BIT
  <2>1. Top(p) = p.width /\ ~Shifted(p)
    BY <1>1, WordFacts DEF Top, Shifted, CHAR_BIT
  <2>2. LoopPolynomial(p) = p.polynomial
    BY <2>1 DEF LoopPolynomial, EnterLoop
  <2>. QED BY <1>1, <2>1, <2>2 DEF AddByte, OverByte, EightLeft, EightTimes, CHAR_BIT
<1>2. CASE ~(p.width >= CHAR_BIT)
  <2>1. Top(p) = 8 /\ Shifted(p)
    BY <1>2, WordFacts DEF Top, Shifted, CHAR_BIT
  <2>2. AddByte(p, x, b)
          = EightTimes(LAMBDA w : BitLeft(p, EnterLoop(p, p.polynomial), 8 - 1, w),
                       Xor(x, b))
    BY <1>2, <2>1 DEF AddByte, EightTimes, CHAR_BIT
  <2>3. ShiftLeft(b, Top(p) - 8) = b BY <2>1, ByteFacts, ShiftByNothing
  <2>. QED BY <2>1, <2>2, <2>3 DEF OverByte, EightLeft, EightTimes, LoopPolynomial
<1>. QED BY <1>1, <1>2

LEMMA UnreflectedEntry ==
  ASSUME NEW p, WellFormed(p), ~p.reflectInput, NEW b \in Byte
  PROVE  /\ InitTable(p)[b] \in W
         /\ Alike(InitTable(p)[b], OverByte(p, ShiftLeft(b, Top(p) - 8)), Top(p))
<1> DEFINE z == OverByte(p, ShiftLeft(b, Top(p) - 8))
           e == Low(LeaveLoop(p, z), p.width)
<1>1. {} \in W BY DEF W
<1>2. EnterLoop(p, {}) = {} BY DEF EnterLoop, Low, ShiftLeft
<1>3. AddByte(p, {}, b) = z
  BY XorEmpty, UnreflectedByte
<1>4. InitTable(p)[b] = EnterLoop(p, e)
  BY <1>2, <1>3, CalculateOne DEF InitTable
<1>5. z \in W BY TopFacts, ByteFacts, ShiftLeftMember
<1>6. p.width < 8 => \A k \in z : k >= 8 - p.width
  <2> SUFFICES ASSUME p.width < 8 PROVE \A k \in z : k >= 8 - p.width
    OBVIOUS
  <2>1. Shifted(p) BY DEF Shifted, CHAR_BIT
  <2>2. \A k \in LoopPolynomial(p) : k >= 8 - p.width
    BY <2>1, WordFacts, LoopFacts, TopFacts DEF LoopPolynomial, W
  <2>3. 8 - p.width \in Nat /\ 8 - p.width <= 8 BY WordFacts
  <2>4. ShiftLeft(b, Top(p) - 8) \in W BY TopFacts, ByteFacts, ShiftLeftMember
  <2>. QED BY <2>2, <2>3, <2>4, WordFacts, TopFacts, EightLeftAbove DEF OverByte
<1> HIDE DEF z
<1>7. LeaveLoop(p, z) \in W /\ e \in W BY <1>5, LoopFacts, LowType
<1>8. ASSUME NEW k \in Nat, k < Top(p) PROVE k \in EnterLoop(p, e) <=> k \in z
  <2>1. CASE Shifted(p)
    <3> DEFINE n == 8 - p.width
    <3>1. Top(p) = 8 /\ n \in Nat /\ p.width < 8
      BY <2>1, WordFacts DEF Shifted, Top, CHAR_BIT
    <3>2. k \in EnterLoop(p, e) <=> k < p.digits /\ k >= n /\ k - n \in e
      BY <1>7, <2>1, LoopFacts
    <3>3. k >= n => (k - n \in e <=> k \in z)
      <4> SUFFICES ASSUME k >= n PROVE k - n \in e <=> k \in z
        OBVIOUS
      <4>1. k - n \in Nat /\ k - n < p.width /\ (k - n) + n = k
        BY <1>8, <3>1, WordFacts
      <4> HIDE DEF n
      <4>2. k - n \in LeaveLoop(p, z) <=> (k - n) + n \in z
        BY <1>5, <2>1, <4>1, LoopFacts DEF n
      <4>. QED BY <4>1, <4>2, LowMember
    <3>4. k < p.digits BY <1>8, TopFacts, WordFacts
    <3>5. k \in z => k >= n BY <1>6, <3>1
    <3>. QED BY <3>2, <3>3, <3>4, <3>5
  <2>2. CASE ~Shifted(p)
    <3>1. EnterLoop(p, e) = Low(z, p.width)
      BY <1>5, <1>7, <2>2, LoopFacts
    <3>2. Top(p) = p.width BY <2>2, WordFacts DEF Shifted, Top, CHAR_BIT
    <3>. QED BY <1>8, <3>1, <3>2, LowMember
  <2>. QED BY <2>1, <2>2
<1>9. EnterLoop(p, e) \in W BY <1>7, LoopFacts
<1>. QED BY <1>4, <1>8, <1>9 DEF Alike, z

\* The table gives what the loop over the bits gives, up to the bits above the
\* CRC that neither of them clears.
LEMMA UnreflectedStep ==
  ASSUME NEW p, WellFormed(p), ~p.reflectInput, NEW x \in W, NEW b \in Byte
  PROVE  /\ AddByteByTable(p, InitTable(p), x, b) \in W
         /\ AddByte(p, x, b) \in W
         /\ Alike(AddByteByTable(p, InitTable(p), x, b), AddByte(p, x, b), Top(p))
<1> DEFINE h == Top(p)
           n == Top(p) - 8
           y == Xor(x, ShiftLeft(b, n))
           t == Low(Xor(ShiftRight(x, n), b), 8)
           bottom == Low(x, n)
           sum == Xor(bottom, ShiftLeft(t, n))
           table == InitTable(p)
           byTable == AddByteByTable(p, InitTable(p), x, b)
<1>1. h \in Nat /\ h >= 8 /\ n \in Nat /\ h = n + 8 /\ h <= p.digits
  BY TopFacts, WordFacts
<1>2. b \in W /\ \A k \in b : k < 8 BY ByteFacts
<1>3. /\ ShiftLeft(b, n) \in W
      /\ \A k \in Nat : k \in ShiftLeft(b, n) <=> k >= n /\ k - n \in b
  BY <1>1, <1>2, ShiftLeftMember
<1>4. /\ ShiftRight(x, n) \in W
      /\ \A k \in Nat : k \in ShiftRight(x, n) <=> k + n \in x
  BY <1>1, ShiftRightMember
<1>5. /\ t \in W /\ t \in Byte
      /\ \A k \in Nat : k \in t <=> k < 8 /\ ~(k + n \in x <=> k \in b)
  <2>1. Xor(ShiftRight(x, n), b) \in W BY <1>2, <1>4, XorType
  <2>2. \A k \in Nat : k \in Xor(ShiftRight(x, n), b) <=> ~(k + n \in x <=> k \in b)
    BY <1>4, XorMember
  <2>3. t \in W BY <2>1, LowType
  <2>4. \A k : k \in t <=> k \in Xor(ShiftRight(x, n), b) /\ k < 8
    BY LowMember
  <2> HIDE DEF t
  <2>. QED BY <2>2, <2>3, <2>4, ByteFacts
<1>6. /\ ShiftLeft(t, n) \in W
      /\ \A k \in Nat : k \in ShiftLeft(t, n) <=> k >= n /\ k - n \in t
  BY <1>1, <1>5, ShiftLeftMember
<1>7. bottom \in W /\ \A k : k \in bottom <=> k \in x /\ k < n
  BY LowMember, LowType
<1>8. y \in W /\ sum \in W BY <1>3, <1>6, <1>7, XorType
<1>9. Alike(y, sum, h)
  <2> SUFFICES ASSUME NEW k \in Nat, k < h PROVE k \in y <=> k \in sum
    BY DEF Alike
  <2>1. k \in y <=> ~(k \in x <=> k >= n /\ k - n \in b)
    BY <1>3, XorMember
  <2>2. k \in sum <=> ~(k \in bottom <=> k >= n /\ k - n \in t)
    BY <1>6, XorMember
  <2>3. k >= n => (k - n \in t <=> ~(k \in x <=> k - n \in b))
    <3> SUFFICES ASSUME k >= n PROVE k - n \in t <=> ~(k \in x <=> k - n \in b)
      OBVIOUS
    <3>1. k - n \in Nat /\ k - n < 8 /\ (k - n) + n = k BY <1>1
    <3> HIDE DEF h, n, t
    <3>. QED BY <1>5, <3>1
  <2> HIDE DEF y, sum, bottom, t, n, h
  <2>. QED BY <1>1, <1>7, <2>1, <2>2, <2>3
<1>10. AddByte(p, x, b) = OverByte(p, y) BY UnreflectedByte
<1>11. Alike(OverByte(p, y), OverByte(p, sum), h)
  BY <1>1, <1>8, <1>9, WordFacts, TopFacts, EightLeftAlike DEF OverByte
<1>12. OverByte(p, sum) = Xor(OverByte(p, bottom), OverByte(p, ShiftLeft(t, n)))
  BY <1>6, <1>7, WordFacts, TopFacts, EightLeftLinear DEF OverByte
<1>13. \A k \in Nat : k \in OverByte(p, bottom) <=> k >= 8 /\ k - 8 \in bottom
  <2>1. \A k \in bottom : k < h - 8 BY <1>7
  <2>. QED BY <1>1, <1>7, <2>1, WordFacts, TopFacts, EightLeftOfLow DEF OverByte
<1>14. table[t] \in W /\ Alike(table[t], OverByte(p, ShiftLeft(t, n)), h)
  BY <1>5, UnreflectedEntry
<1>15. /\ byTable \in W
       /\ \A k \in Nat : k < h =>
            (k \in byTable <=> ~(k >= 8 /\ k - 8 \in x <=> k \in table[t]))
  <2>1. CASE p.width >= CHAR_BIT
    <3>1. h = p.width BY <2>1, WordFacts DEF Top, CHAR_BIT
    <3>2. byTable = Xor(Low(ShiftLeft(x, 8), p.digits), table[t])
      <4>1. p.width - CHAR_BIT = n BY <3>1 DEF CHAR_BIT
      <4>2. byTable = Xor(Low(ShiftLeft(x, 8), p.digits),
                          table[Low(Xor(ShiftRight(x, p.width - CHAR_BIT), b), 8)])
        BY <2>1, WordFacts DEF AddByteByTable, CHAR_BIT, Shifted
      <4>. QED BY <4>1, <4>2
    <3> DEFINE s == Low(ShiftLeft(x, 8), p.digits)
    <3>3. /\ ShiftLeft(x, 8) \in W
          /\ \A k \in Nat : k \in ShiftLeft(x, 8) <=> k >= 8 /\ k - 8 \in x
      BY ShiftLeftMember
    <3>4. s \in W /\ \A k : k \in s <=> k \in ShiftLeft(x, 8) /\ k < p.digits
      BY <3>3, LowType, LowMember
    <3> HIDE DEF s, table, t, h, n
    <3>5. byTable \in W BY <1>14, <3>2, <3>4, XorType DEF s
    <3>6. \A k : k \in byTable <=> ~(k \in s <=> k \in table[t])
      BY <3>2, XorMember DEF s
    <3>7. \A k \in Nat : k < h => k < p.digits BY <1>1, WordFacts
    <3> HIDE DEF byTable
    <3>. QED BY <3>3, <3>4, <3>5, <3>6, <3>7
  <2>2. CASE ~(p.width >= CHAR_BIT)
    <3>1. h = 8 /\ n = 0 /\ Shifted(p)
      BY <2>2, WordFacts DEF Top, CHAR_BIT, Shifted
    <3>2. byTable = table[Low(Xor(x, b), 8)]
      BY <2>2, <3>1 DEF AddByteByTable, CHAR_BIT, Shifted
    <3>3. t = Low(Xor(x, b), 8) BY <3>1, ShiftByNothing
    <3> HIDE DEF byTable, table, t, h, n
    <3>. QED BY <1>14, <3>1, <3>2, <3>3
  <2>. QED BY <2>1, <2>2
<1>16. Alike(byTable, OverByte(p, sum), h)
  <2> SUFFICES ASSUME NEW k \in Nat, k < h
               PROVE  k \in byTable <=> k \in OverByte(p, sum)
    BY DEF Alike
  <2>1. k \in OverByte(p, sum)
          <=> ~(k \in OverByte(p, bottom) <=> k \in OverByte(p, ShiftLeft(t, n)))
    BY <1>12, XorMember
  <2>2. k \in OverByte(p, ShiftLeft(t, n)) <=> k \in table[t]
    BY <1>14 DEF Alike
  <2>3. k \in OverByte(p, bottom) <=> k >= 8 /\ k - 8 \in bottom
    BY <1>13
  <2>4. k >= 8 => (k - 8 \in bottom <=> k - 8 \in x)
    <3>1. k >= 8 => k - 8 < n BY <1>1
    <3>. QED BY <1>7, <3>1
  <2> HIDE DEF byTable, table, t, h, n, sum, bottom
  <2>. QED BY <1>15, <2>1, <2>2, <2>3, <2>4
<1>17. OverByte(p, y) \in W BY <1>8, TopFacts
<1> HIDE DEF byTable, sum, y, h
<1>. QED BY <1>10, <1>11, <1>15, <1>16, <1>17 DEF Alike, byTable, h

LEMMA UnreflectedAlike ==
  ASSUME NEW p, WellFormed(p), ~p.reflectInput, NEW b \in Byte,
         NEW x \in W, NEW y \in W, Alike(x, y, Top(p))
  PROVE  Alike(AddByte(p, x, b), AddByte(p, y, b), Top(p))
<1> DEFINE s == ShiftLeft(b, Top(p) - 8)
<1>1. s \in W BY TopFacts, ByteFacts, ShiftLeftMember
<1> HIDE DEF s
<1>2. Xor(x, s) \in W /\ Xor(y, s) \in W BY <1>1, XorType
<1>3. Alike(Xor(x, s), Xor(y, s), Top(p)) BY XorMember DEF Alike
<1>4. AddByte(p, x, b) = OverByte(p, Xor(x, s))
      /\ AddByte(p, y, b) = OverByte(p, Xor(y, s))
  BY UnreflectedByte DEF s
<1>. QED
  BY <1>2, <1>3, <1>4, WordFacts, TopFacts, EightLeftAlike DEF OverByte

-----------------------------------------------------------------------------
(* The computation by table and in parts.                                  *)

\* The bits of a remainder the loops look at and the result is made of.
Agreed(p, x, y) == IF p.reflectInput THEN x = y ELSE Alike(x, y, Top(p))

LEMMA ReflectedType ==
  ASSUME NEW p, WellFormed(p), p.reflectInput, NEW x \in W, NEW b \in Byte
  PROVE  AddByte(p, x, b) \in W
  BY ByteFacts, XorType, ReflectedPolynomial, ReflectedByte, EightRightType

\* A byte leaves the remainders in agreement, by whichever loop it is taken.
LEMMA ByteKeepsAgreement ==
  ASSUME NEW p, WellFormed(p), NEW x \in W, NEW y \in W, NEW b \in Byte,
         Agreed(p, x, y)
  PROVE  /\ AddByteByTable(p, InitTable(p), x, b) \in W
         /\ AddByte(p, y, b) \in W
         /\ Agreed(p, AddByteByTable(p, InitTable(p), x, b), AddByte(p, y, b))
<1> DEFINE byTable == AddByteByTable(p, InitTable(p), x, b)
<1>1. CASE p.reflectInput
  <2>1. x = y BY <1>1 DEF Agreed
  <2>2. byTable = AddByte(p, x, b) BY <1>1, ReflectedStep
  <2>3. AddByte(p, x, b) \in W BY <1>1, ReflectedType
  <2> HIDE DEF byTable
  <2>4. Agreed(p, byTable, AddByte(p, y, b)) BY <1>1, <2>1, <2>2 DEF Agreed
  <2>. QED BY <2>1, <2>2, <2>3, <2>4 DEF byTable
<1>2. CASE ~p.reflectInput
  <2>1. Alike(x, y, Top(p)) BY <1>2 DEF Agreed
  <2>2. byTable \in W /\ Alike(byTable, AddByte(p, x, b), Top(p))
    BY <1>2, UnreflectedStep
  <2>3. Alike(AddByte(p, x, b), AddByte(p, y, b), Top(p))
    BY <1>2, <2>1, UnreflectedAlike
  <2>4. AddByte(p, y, b) \in W BY <1>2, UnreflectedStep
  <2> HIDE DEF byTable
  <2>5. Alike(byTable, AddByte(p, y, b), Top(p))
    BY <2>2, <2>3 DEF Alike
  <2>6. Agreed(p, byTable, AddByte(p, y, b)) BY <1>2, <2>5 DEF Agreed
  <2>. QED BY <2>2, <2>4, <2>6 DEF byTable
<1>. QED BY <1>1, <1>2

LEMMA LeaveLoopAlike ==
  ASSUME NEW p, WellFormed(p), NEW x \in W, NEW y \in W, Agreed(p, x, y)
  PROVE  Alike(LeaveLoop(p, x), LeaveLoop(p, y), p.width)
<1>1. CASE p.reflectInput
  BY <1>1 DEF Agreed, Alike
<1>2. CASE ~p.reflectInput
  <2>1. Alike(x, y, Top(p)) BY <1>2 DEF Agreed
  <2>2. CASE Shifted(p)
    <3> DEFINE n == 8 - p.width
    <3>1. n \in Nat /\ Top(p) = 8 /\ p.width < 8
      BY <2>2, WordFacts DEF Shifted, CHAR_BIT, Top
    <3>2. \A k \in Nat : k < p.width => k + n \in Nat /\ k + n < 8
      BY <3>1, WordFacts
    <3> HIDE DEF n
    <3>3. \A k \in Nat : /\ k \in LeaveLoop(p, x) <=> k + n \in x
                         /\ k \in LeaveLoop(p, y) <=> k + n \in y
      BY <2>2, LoopFacts DEF n
    <3>. QED BY <2>1, <3>1, <3>2, <3>3 DEF Alike
  <2>3. CASE ~Shifted(p)
    <3>1. Top(p) = p.width BY <1>2, <2>3, WordFacts DEF Shifted, CHAR_BIT, Top
    <3>2. LeaveLoop(p, x) = x /\ LeaveLoop(p, y) = y BY <2>3 DEF LeaveLoop
    <3>. QED BY <2>1, <3>1, <3>2
  <2>. QED BY <2>2, <2>3
<1>. QED BY <1>1, <1>2

LEMMA FinalizeMember ==
  ASSUME NEW p, WellFormed(p), NEW x \in W
  PROVE  /\ Finalize(p, x) \in W
         /\ \A k \in Nat :
              k \in Finalize(p, x) <=>
                /\ k < p.width
                /\ ~(k \in p.finalXOR <=>
                       IF ReflectRemainder(p) THEN (p.width - 1) - k \in x
                                              ELSE k \in x)
<1> DEFINE r == IF ReflectRemainder(p) THEN Reflect(x, p.width) ELSE x
<1>1. Finalize(p, x) = Low(Xor(r, p.finalXOR), p.width) BY DEF Finalize
<1>2. /\ Reflect(x, p.width) \in W
      /\ \A k \in Nat : k \in Reflect(x, p.width)
                          <=> k < p.width /\ (p.width - 1) - k \in x
  BY WordFacts, ReflectMember
<1>3. r \in W BY <1>2
<1>4. \A k \in Nat : k < p.width =>
        (k \in r <=> IF ReflectRemainder(p) THEN (p.width - 1) - k \in x
                                            ELSE k \in x)
  BY <1>2
<1> HIDE DEF r
<1>5. \A k \in Nat : k \in Finalize(p, x)
                       <=> k < p.width /\ ~(k \in r <=> k \in p.finalXOR)
  BY <1>1, LowMember, XorMember
<1>6. Finalize(p, x) \in W BY <1>1, <1>3, WordFacts, XorType, LowType
<1>. QED BY <1>4, <1>5, <1>6

LEMMA FinalizeAlike ==
  ASSUME NEW p, WellFormed(p), NEW x \in W, NEW y \in W, Alike(x, y, p.width)
  PROVE  Finalize(p, x) = Finalize(p, y)
<1>1. \A k \in Nat : k < p.width =>
        /\ k \in x <=> k \in y
        /\ (p.width - 1) - k \in x <=> (p.width - 1) - k \in y
  <2> SUFFICES ASSUME NEW k \in Nat, k < p.width
               PROVE  /\ k \in x <=> k \in y
                      /\ (p.width - 1) - k \in x <=> (p.width - 1) - k \in y
    OBVIOUS
  <2>1. (p.width - 1) - k \in Nat /\ (p.width - 1) - k < p.width
    BY WordFacts
  <2>. QED BY <2>1 DEF Alike
<1>2. \A k \in Nat : k \in Finalize(p, x) <=> k \in Finalize(p, y)
  BY <1>1, FinalizeMember
<1>3. Finalize(p, x) \in W /\ Finalize(p, y) \in W BY FinalizeMember, Zenon
<1>4. PICK f \in W, g \in W : f = Finalize(p, x) /\ g = Finalize(p, y) BY <1>3
<1>5. \A k \in Nat : k \in f <=> k \in g BY <1>2, <1>4, Zenon
<1>6. f = g BY <1>5 DEF W
<1>. QED BY <1>4, <1>6

\* Undoing the last steps of a CRC gives the bits of the remainder back.
LEMMA UndoneIsAlike ==
  ASSUME NEW p, WellFormed(p), NEW x \in W
  PROVE  /\ UndoFinalize(p, Finalize(p, x)) \in W
         /\ Alike(UndoFinalize(p, Finalize(p, x)), x, p.width)
<1> DEFINE crc == Finalize(p, x)
           s == Xor(Low(crc, p.width), p.finalXOR)
           In(k) == IF ReflectRemainder(p) THEN (p.width - 1) - k \in x
                                           ELSE k \in x
<1>1. crc \in W BY FinalizeMember
<1>2. s \in W BY <1>1, WordFacts, LowType, XorType
<1>3. \A k \in Nat : k < p.width => (k \in s <=> In(k))
  <2> SUFFICES ASSUME NEW k \in Nat, k < p.width PROVE k \in s <=> In(k)
    OBVIOUS
  <2>1. k \in crc <=> ~(k \in p.finalXOR <=> In(k)) BY FinalizeMember
  <2>2. k \in s <=> ~(k \in crc <=> k \in p.finalXOR)
    BY XorMember, LowMember
  <2> HIDE DEF s, crc, In
  <2>. QED BY <2>1, <2>2
<1>4. UndoFinalize(p, crc)
        = IF ReflectRemainder(p) THEN Reflect(s, p.width) ELSE s
  BY DEF UndoFinalize
<1> HIDE DEF s, crc
<1>5. CASE ReflectRemainder(p)
  <2>1. /\ Reflect(s, p.width) \in W
        /\ \A k \in Nat : k \in Reflect(s, p.width)
                            <=> k < p.width /\ (p.width - 1) - k \in s
    BY <1>2, WordFacts, ReflectMember
  <2>2. ASSUME NEW k \in Nat, k < p.width
        PROVE  k \in Reflect(s, p.width) <=> k \in x
    <3> DEFINE j == (p.width - 1) - k
    <3>1. j \in Nat /\ j < p.width /\ (p.width - 1) - j = k
      BY <2>2, WordFacts
    <3>2. k \in Reflect(s, p.width) <=> j \in s BY <2>1, <2>2
    <3> HIDE DEF j
    <3>3. j \in s <=> (p.width - 1) - j \in x BY <1>3, <1>5, <3>1
    <3>. QED BY <3>1, <3>2, <3>3
  <2>. QED BY <1>4, <1>5, <2>1, <2>2 DEF Alike, crc
<1>6. CASE ~ReflectRemainder(p)
  BY <1>2, <1>3, <1>4, <1>6 DEF Alike, crc
<1>. QED BY <1>5, <1>6

LEMMA LoopKeepsWord ==
  ASSUME NEW p, WellFormed(p), NEW x \in W
  PROVE  Alike(LeaveLoop(p, EnterLoop(p, x)), x, p.width)
<1>1. CASE Shifted(p)
  <2> DEFINE n == 8 - p.width
             e == EnterLoop(p, x)
  <2> SUFFICES ASSUME NEW k \in Nat, k < p.width
               PROVE  k \in LeaveLoop(p, e) <=> k \in x
    BY DEF Alike
  <2>1. /\ k + n \in Nat /\ k + n >= n /\ k + n < p.digits
        /\ (k + n) - n = k
    BY <1>1, WordFacts DEF Shifted, CHAR_BIT
  <2>2. k + n \in e <=> k + n < p.digits /\ k + n >= n /\ (k + n) - n \in x
    <3> HIDE DEF n
    <3>1. \A j \in Nat : j \in EnterLoop(p, x)
                           <=> j < p.digits /\ j >= n /\ j - n \in x
      BY <1>1, LoopFacts DEF n
    <3>. QED BY <2>1, <3>1
  <2>3. e \in W BY LoopFacts
  <2> HIDE DEF e, n
  <2>4. k \in LeaveLoop(p, e) <=> k + n \in e BY <1>1, <2>3, LoopFacts DEF n
  <2>. QED BY <2>1, <2>2, <2>4
<1>2. CASE ~Shifted(p) BY <1>2 DEF LeaveLoop, EnterLoop, Alike
<1>. QED BY <1>1, <1>2

LEMMA ResumeKeepsResult ==
  ASSUME NEW x \in W, WellFormed(parameters)
  PROVE  Resume(Result(x)) \in W /\ Result(Resume(Result(x))) = Result(x)
<1> DEFINE p == parameters
           y == LeaveLoop(p, x)
           u == UndoFinalize(p, Finalize(p, y))
           e == EnterLoop(p, u)
<1>1. y \in W BY LoopFacts
<1>2. Resume(Result(x)) = e /\ Result(x) = Finalize(p, y)
  BY DEF Resume, Result
<1> HIDE DEF y
<1>3. u \in W /\ Alike(u, y, p.width) BY <1>1, UndoneIsAlike
<1> HIDE DEF u
<1>4. e \in W /\ LeaveLoop(p, e) \in W /\ Alike(LeaveLoop(p, e), u, p.width)
  BY <1>3, LoopFacts, LoopKeepsWord
<1>5. Result(e) = Finalize(p, LeaveLoop(p, e)) BY DEF Result
<1> HIDE DEF e
<1>6. Alike(LeaveLoop(p, e), y, p.width) BY <1>3, <1>4 DEF Alike
<1>7. Finalize(p, LeaveLoop(p, e)) = Finalize(p, y)
  BY <1>1, <1>4, <1>6, FinalizeAlike
<1>. QED BY <1>2, <1>4, <1>5, <1>7

-----------------------------------------------------------------------------

(* The invariant: the remainders agree in the bits that count.             *)

RemaindersTyped ==
  /\ WellFormed(parameters) /\ unread \in Seq(Byte)
  /\ remainder \in W /\ table_remainder \in W

CrcInv == RemaindersTyped /\ Agreed(parameters, table_remainder, remainder)

LEMMA AgreementGivesResult == CrcInv => TableAgrees
<1> SUFFICES ASSUME CrcInv PROVE TableAgrees OBVIOUS
<1>1. Alike(LeaveLoop(parameters, table_remainder),
            LeaveLoop(parameters, remainder), parameters.width)
  BY LeaveLoopAlike DEF CrcInv, RemaindersTyped
<1>. QED BY <1>1, LoopFacts, FinalizeAlike
     DEF TableAgrees, Result, CrcInv, RemaindersTyped

\* The loop by table and the loop over the bits agree, after each byte, in
\* every bit that counts (CalculateRemainder of CRC.h).
THEOREM CrcInvariant == CrcSpec => []CrcInv
<1>1. CrcInit => CrcInv
  <2> SUFFICES ASSUME NEW p, WellFormed(p), NEW data \in Seq(Byte), BeginCrc(p, data)
               PROVE  CrcInv
    BY DEF CrcInit
  <2>1. EnterLoop(p, p.initialValue) \in W BY WordFacts, LoopFacts
  <2>. QED BY <2>1 DEF BeginCrc, CrcInv, RemaindersTyped, Agreed, Alike
<1>2. ASSUME CrcInv, [CrcNext]_crcVars PROVE CrcInv'
  <2>1. CASE NextByte
    <3>1. Head(unread) \in Byte /\ Tail(unread) \in Seq(Byte)
      BY <1>2, <2>1, HeadTailProperties DEF CrcInv, RemaindersTyped, NextByte
    <3>. QED BY <1>2, <2>1, <3>1, ByteKeepsAgreement
         DEF CrcInv, RemaindersTyped, NextByte
  <2>2. CASE AppendData
    <3>1. Result(table_remainder) = Result(remainder)
      BY <1>2, AgreementGivesResult DEF TableAgrees
    <3>2. Resume(Result(remainder)) \in W
      BY <1>2, ResumeKeepsResult DEF CrcInv, RemaindersTyped
    <3>. QED BY <1>2, <2>2, <3>1, <3>2
         DEF CrcInv, RemaindersTyped, AppendData, Agreed, Alike
  <2>3. CASE UNCHANGED crcVars
    BY <1>2, <2>3 DEF CrcInv, RemaindersTyped, crcVars
  <2>. QED BY <1>2, <2>1, <2>2, <2>3 DEF CrcNext
<1>. QED BY <1>1, <1>2, PTL DEF CrcSpec

\* A CRC calculated with the lookup table (CRC::Table) is the one calculated
\* bit by bit, for every width, polynomial and reflection the templates can
\* be instantiated with, all data, and however it is cut into parts.
THEOREM TableAgreesAlways == CrcSpec => []TableAgrees
  BY CrcInvariant, AgreementGivesResult, PTL

\* Appending to a finished CRC (the Calculate that takes a previous CRC) goes
\* on where the CRC was finished: UndoFinalize takes back what Finalize did.
THEOREM PartsMakeWholeAlways == CrcSpec => PartsMakeWhole
<1>1. CrcInv /\ [CrcNext]_crcVars
        => [AppendData => Result(remainder') = Result(remainder)]_crcVars
  BY ResumeKeepsResult DEF CrcInv, RemaindersTyped, AppendData
<1>. QED BY <1>1, CrcInvariant, PTL DEF CrcSpec, PartsMakeWhole

-----------------------------------------------------------------------------
(* The program arguments.                                                  *)

\* The places read so far where setting f is given.
ReadSoFar(f) == {k \in Given(f) : k < i}

SettingsInv ==
  /\ Len(argv) \in Nat
  /\ i \in Nat /\ i >= 1
  /\ \A f \in Field :
       IF ReadSoFar(f) = {} THEN settings[f] = Defaults[f]
       ELSE \E k \in ReadSoFar(f) :
              /\ \A j \in ReadSoFar(f) : k >= j
              /\ settings[f] \in Reading(f, argv[k + 1])

LEMMA LastOfSet ==
  ASSUME NEW S \in SUBSET Nat, NEW k \in S, \A j \in S : k >= j
  PROVE  Max(S) = k
<1>1. Max(S) \in S /\ \A j \in S : Max(S) >= j BY Zenon DEF Max
<1>2. Max(S) \in Nat /\ k \in Nat BY <1>1
<1>3. Max(S) >= k /\ k >= Max(S) BY <1>1
<1>. QED BY <1>2, <1>3

\* Before each argument, a setting has the value of the last place before it
\* where it is given.
THEOREM SettingsInvariant == SettingsSpec => []SettingsInv
<1>1. SettingsInit => SettingsInv
  <2> SUFFICES ASSUME NEW name, NEW a \in Seq(Text), LoadBegins(<<name>> \o a)
               PROVE  SettingsInv
    BY DEF SettingsInit
  <2>1. Len(argv) = Len(<<name>>) + Len(a) /\ Len(<<name>>) = 1
    BY ConcatProperties DEF LoadBegins
  <2>2. Len(argv) \in Nat BY <2>1, LenProperties
  <2>3. \A f \in Field : ReadSoFar(f) = {}
    BY <2>2 DEF LoadBegins, ReadSoFar, Given
  <2>. QED BY <2>2, <2>3 DEF SettingsInv, LoadBegins
<1>2. ASSUME SettingsInv, [LoadArgument]_settingsVars PROVE SettingsInv'
  <2>1. CASE LoadArgument
    <3>1. /\ argv' = argv /\ i' = i + 1 /\ Len(argv) \in Nat
          /\ i \in Nat /\ i >= 1 /\ i < Len(argv)
      BY <1>2, <2>1 DEF SettingsInv, LoadArgument
    <3>2. ASSUME NEW f \in Field
          PROVE  IF ReadSoFar(f)' = {} THEN settings'[f] = Defaults[f]
                 ELSE \E k \in ReadSoFar(f)' :
                        /\ \A j \in ReadSoFar(f)' : k >= j
                        /\ settings'[f] \in Reading(f, argv'[k + 1])
      <4>1. Given(f)' = Given(f) BY <3>1 DEF Given
      <4>2. ReadSoFar(f)' = {k \in Given(f) : k < i + 1}
        BY <3>1, <4>1 DEF ReadSoFar
      <4>3. Given(f) \in SUBSET Nat BY <3>1 DEF Given
      <4>4. i \in Given(f)
              <=> argv[i] = Option[f] /\ Reading(f, argv[i + 1]) # {}
        BY <3>1 DEF Given
      <4>5. CASE i \in Given(f)
        <5>1. ReadSoFar(f)' = ReadSoFar(f) \cup {i}
          BY <3>1, <4>2, <4>3, <4>5 DEF ReadSoFar
        <5>2. \A j \in ReadSoFar(f)' : i >= j
          BY <3>1, <4>2, <4>3
        <5>3. settings'[f] = CHOOSE v \in Reading(f, argv[i + 1]) : TRUE
          BY <2>1, <4>4, <4>5 DEF LoadArgument
        <5>4. settings'[f] \in Reading(f, argv'[i + 1])
          BY <3>1, <4>4, <4>5, <5>3
        <5>. QED BY <5>1, <5>2, <5>4
      <4>6. CASE i \notin Given(f)
        <5>1. ReadSoFar(f)' = ReadSoFar(f)
          BY <3>1, <4>2, <4>3, <4>6 DEF ReadSoFar
        <5>2. settings'[f] = settings[f]
          BY <2>1, <4>4, <4>6 DEF LoadArgument
        <5>. QED BY <1>2, <3>1, <5>1, <5>2 DEF SettingsInv
      <4>. QED BY <4>5, <4>6
    <3>. QED BY <3>1, <3>2 DEF SettingsInv
  <2>2. CASE UNCHANGED settingsVars
    BY <1>2, <2>2 DEF settingsVars, SettingsInv, ReadSoFar, Given
  <2>. QED BY <1>2, <2>1, <2>2
<1>. QED BY <1>1, <1>2, PTL DEF SettingsSpec

LEMMA ReadToTheEnd == SettingsInv => LastReadableValueCounts
<1> SUFFICES ASSUME SettingsInv, i >= Len(argv), NEW f \in Field
             PROVE  IF Given(f) = {} THEN settings[f] = Defaults[f]
                    ELSE settings[f] \in Reading(f, argv[Max(Given(f)) + 1])
  BY DEF LastReadableValueCounts
<1>1. Given(f) \in SUBSET Nat BY DEF SettingsInv, Given
<1>2. ReadSoFar(f) = Given(f) BY DEF SettingsInv, ReadSoFar, Given
<1>. QED BY <1>1, <1>2, LastOfSet DEF SettingsInv

\* Whatever the program is started with, each setting ends up with the value
\* of its last readable occurrence, or else its default
\* (SubProcessSettings::Load).
THEOREM LastReadableValueCountsAlways ==
  SettingsSpec => []LastReadableValueCounts
  BY SettingsInvariant, ReadToTheEnd, PTL

-----------------------------------------------------------------------------
(* The packets: numbers.                                                   *)

\* The bits of a byte are the eight low bits of a number.
LowBits(byte, m) ==
  /\ 0 \in byte <=> m % 2 = 1
  /\ 1 \in byte <=> (m \div 2) % 2 = 1
  /\ 2 \in byte <=> (m \div 4) % 2 = 1
  /\ 3 \in byte <=> (m \div 8) % 2 = 1
  /\ 4 \in byte <=> (m \div 16) % 2 = 1
  /\ 5 \in byte <=> (m \div 32) % 2 = 1
  /\ 6 \in byte <=> (m \div 64) % 2 = 1
  /\ 7 \in byte <=> (m \div 128) % 2 = 1

\* They are worth what remains of it below 256.
LEMMA ByteValue ==
  ASSUME NEW m \in Nat, NEW byte,
         LowBits(byte, m)
  PROVE  ByteNumber(byte) = m - 256 * (m \div 256)
<1> DEFINE bit(k) == IF k \in byte THEN 2 ^ k ELSE 0
<1>0. bit(0) = m - 2 * (m \div 2)
  BY DEF bit, LowBits
<1>1. bit(1) = 2 * (m \div 2) - 4 * (m \div 4)
  BY DEF bit, LowBits
<1>2. bit(2) = 4 * (m \div 4) - 8 * (m \div 8)
  BY DEF bit, LowBits
<1>3. bit(3) = 8 * (m \div 8) - 16 * (m \div 16)
  BY DEF bit, LowBits
<1>4. bit(4) = 16 * (m \div 16) - 32 * (m \div 32)
  BY DEF bit, LowBits
<1>5. bit(5) = 32 * (m \div 32) - 64 * (m \div 64)
  BY DEF bit, LowBits
<1>6. bit(6) = 64 * (m \div 64) - 128 * (m \div 128)
  BY DEF bit, LowBits
<1>7. bit(7) = 128 * (m \div 128) - 256 * (m \div 256)
  BY DEF bit, LowBits
<1>8. ByteNumber(byte) = bit(0) + bit(1) + bit(2) + bit(3) + bit(4) + bit(5)
                           + bit(6) + bit(7)
  BY DEF ByteNumber
<1> HIDE DEF bit
<1>9. \A d \in {2, 4, 8, 16, 32, 64, 128, 256} : m \div d \in Int OBVIOUS
<1>. QED BY <1>0, <1>1, <1>2, <1>3, <1>4, <1>5, <1>6, <1>7, <1>8, <1>9

\* The bits of the bytes of a word.
LEMMA ByteOfWord ==
  ASSUME NEW word \in W, NEW n \in Nat, NEW j \in 1 .. n
  PROVE  /\ BytesOf(word, n)[j] \in Byte
         /\ \A k \in 0 .. 7 :
              k \in BytesOf(word, n)[j] <=> k + 8 * (j - 1) \in word
<1>1. BytesOf(word, n)[j] = Low(ShiftRight(word, 8 * (j - 1)), 8)
  BY DEF BytesOf, CHAR_BIT
<1>2. 8 * (j - 1) \in Nat OBVIOUS
<1>3. /\ ShiftRight(word, 8 * (j - 1)) \in W
      /\ \A k \in Nat : k \in ShiftRight(word, 8 * (j - 1))
                          <=> k + 8 * (j - 1) \in word
  BY <1>2, ShiftRightMember
<1>. QED BY <1>1, <1>3 DEF Low, Byte, CHAR_BIT, W

LEMMA BytesOfWord ==
  ASSUME NEW word \in W
  PROVE  \A j \in 1 .. 4 : \A k \in 0 .. 7 :
           k \in BytesOf(word, 4)[j] <=> k + 8 * (j - 1) \in word
  BY ByteOfWord

\* The four bytes of a number below 2^31 are worth the number.
LEMMA NumberBack ==
  ASSUME NEW n \in Nat, n <= FLATBUFFERS_MAX_BUFFER_SIZE,
         NEW b, b = BytesOf(WordOf(n), 4)
  PROVE  ByteNumber(b[1]) + 256 * ByteNumber(b[2]) + 65536 * ByteNumber(b[3])
           + 16777216 * ByteNumber(b[4]) = n
<1>1. \A j \in 1 .. 4 : \A k \in 0 .. 7 :
        k \in b[j] <=> k + 8 * (j - 1) \in WordOf(n)
  <2>1. WordOf(n) \in W BY DEF WordOf, W
  <2>. QED BY <2>1, BytesOfWord
<1>2. ByteNumber(b[1]) = n - 256 * (n \div 256)
  <2>1. \A k \in 0 .. 7 : k \in b[1] <=> k + 0 \in WordOf(n) BY <1>1
  <2>2. LowBits(b[1], n)
    <3>0. 0 \in b[1] <=> n % 2 = 1 BY <2>1 DEF WordOf
    <3>1. 1 \in b[1] <=> (n \div 2) % 2 = 1 BY <2>1 DEF WordOf
    <3>2. 2 \in b[1] <=> (n \div 4) % 2 = 1 BY <2>1 DEF WordOf
    <3>3. 3 \in b[1] <=> (n \div 8) % 2 = 1 BY <2>1 DEF WordOf
    <3>4. 4 \in b[1] <=> (n \div 16) % 2 = 1 BY <2>1 DEF WordOf
    <3>5. 5 \in b[1] <=> (n \div 32) % 2 = 1 BY <2>1 DEF WordOf
    <3>6. 6 \in b[1] <=> (n \div 64) % 2 = 1 BY <2>1 DEF WordOf
    <3>7. 7 \in b[1] <=> (n \div 128) % 2 = 1 BY <2>1 DEF WordOf
    <3>. QED BY <3>0, <3>1, <3>2, <3>3, <3>4, <3>5, <3>6, <3>7 DEF LowBits
  <2>. QED BY <2>2, ByteValue
<1>3. ByteNumber(b[2]) = (n \div 256) - 256 * (n \div 65536)
  <2> DEFINE m == n \div 256
  <2>1. \A k \in 0 .. 7 : k \in b[2] <=> k + 8 \in WordOf(n) BY <1>1
  <2>2. LowBits(b[2], m)
    <3>0. 0 \in b[2] <=> m % 2 = 1 BY <2>1 DEF WordOf
    <3>1. 1 \in b[2] <=> (m \div 2) % 2 = 1 BY <2>1 DEF WordOf
    <3>2. 2 \in b[2] <=> (m \div 4) % 2 = 1 BY <2>1 DEF WordOf
    <3>3. 3 \in b[2] <=> (m \div 8) % 2 = 1 BY <2>1 DEF WordOf
    <3>4. 4 \in b[2] <=> (m \div 16) % 2 = 1 BY <2>1 DEF WordOf
    <3>5. 5 \in b[2] <=> (m \div 32) % 2 = 1 BY <2>1 DEF WordOf
    <3>6. 6 \in b[2] <=> (m \div 64) % 2 = 1 BY <2>1 DEF WordOf
    <3>7. 7 \in b[2] <=> (m \div 128) % 2 = 1 BY <2>1 DEF WordOf
    <3>. QED BY <3>0, <3>1, <3>2, <3>3, <3>4, <3>5, <3>6, <3>7 DEF LowBits
  <2>3. m \in Nat /\ m \div 256 = n \div 65536 OBVIOUS
  <2>. QED BY <2>2, <2>3, ByteValue
<1>4. ByteNumber(b[3]) = (n \div 65536) - 256 * (n \div 16777216)
  <2> DEFINE m == n \div 65536
  <2>1. \A k \in 0 .. 7 : k \in b[3] <=> k + 16 \in WordOf(n) BY <1>1
  <2>2. LowBits(b[3], m)
    <3>0. 0 \in b[3] <=> m % 2 = 1 BY <2>1 DEF WordOf
    <3>1. 1 \in b[3] <=> (m \div 2) % 2 = 1 BY <2>1 DEF WordOf
    <3>2. 2 \in b[3] <=> (m \div 4) % 2 = 1 BY <2>1 DEF WordOf
    <3>3. 3 \in b[3] <=> (m \div 8) % 2 = 1 BY <2>1 DEF WordOf
    <3>4. 4 \in b[3] <=> (m \div 16) % 2 = 1 BY <2>1 DEF WordOf
    <3>5. 5 \in b[3] <=> (m \div 32) % 2 = 1 BY <2>1 DEF WordOf
    <3>6. 6 \in b[3] <=> (m \div 64) % 2 = 1 BY <2>1 DEF WordOf
    <3>7. 7 \in b[3] <=> (m \div 128) % 2 = 1 BY <2>1 DEF WordOf
    <3>. QED BY <3>0, <3>1, <3>2, <3>3, <3>4, <3>5, <3>6, <3>7 DEF LowBits
  <2>3. m \in Nat /\ m \div 256 = n \div 16777216 OBVIOUS
  <2>. QED BY <2>2, <2>3, ByteValue
<1>5. ByteNumber(b[4]) = (n \div 16777216) - 256 * (n \div 4294967296)
  <2> DEFINE m == n \div 16777216
  <2>1. \A k \in 0 .. 7 : k \in b[4] <=> k + 24 \in WordOf(n) BY <1>1
  <2>2. LowBits(b[4], m)
    <3>0. 0 \in b[4] <=> m % 2 = 1 BY <2>1 DEF WordOf
    <3>1. 1 \in b[4] <=> (m \div 2) % 2 = 1 BY <2>1 DEF WordOf
    <3>2. 2 \in b[4] <=> (m \div 4) % 2 = 1 BY <2>1 DEF WordOf
    <3>3. 3 \in b[4] <=> (m \div 8) % 2 = 1 BY <2>1 DEF WordOf
    <3>4. 4 \in b[4] <=> (m \div 16) % 2 = 1 BY <2>1 DEF WordOf
    <3>5. 5 \in b[4] <=> (m \div 32) % 2 = 1 BY <2>1 DEF WordOf
    <3>6. 6 \in b[4] <=> (m \div 64) % 2 = 1 BY <2>1 DEF WordOf
    <3>7. 7 \in b[4] <=> (m \div 128) % 2 = 1
      BY <2>1 DEF WordOf, FLATBUFFERS_MAX_BUFFER_SIZE
    <3>. QED BY <3>0, <3>1, <3>2, <3>3, <3>4, <3>5, <3>6, <3>7 DEF LowBits
  <2>3. m \in Nat /\ m \div 256 = n \div 4294967296 OBVIOUS
  <2>. QED BY <2>2, <2>3, ByteValue
<1>6. n \div 4294967296 = 0 BY DEF FLATBUFFERS_MAX_BUFFER_SIZE
<1>7. \A d \in {256, 65536, 16777216} : n \div d \in Int OBVIOUS
<1>. QED BY <1>2, <1>3, <1>4, <1>5, <1>6, <1>7

\* The two bytes of a version below 256: the first one is worth it, and the
\* flag is not set.
LEMMA VersionBack ==
  ASSUME NEW v \in 0 .. 255, NEW b, b = BytesOf(SetVersion(v), 2)
  PROVE  ByteNumber(b[1]) = v /\ FLAG \notin b[2]
<1>1. \A j \in 1 .. 2 : \A k \in 0 .. 7 :
        k \in b[j] <=> k + 8 * (j - 1) \in SetVersion(v)
  <2>1. SetVersion(v) \in W BY DEF SetVersion, WordOf, Low, W
  <2>. QED BY <2>1, ByteOfWord
<1>2. \A k \in 0 .. 7 : k \in b[1] <=> k \in SetVersion(v) BY <1>1
<1>3. LowBits(b[1], v)
  <2>0. 0 \in b[1] <=> v % 2 = 1
    BY <1>2 DEF SetVersion, WordOf, Low
  <2>1. 1 \in b[1] <=> (v \div 2) % 2 = 1
    BY <1>2 DEF SetVersion, WordOf, Low
  <2>2. 2 \in b[1] <=> (v \div 4) % 2 = 1
    BY <1>2 DEF SetVersion, WordOf, Low
  <2>3. 3 \in b[1] <=> (v \div 8) % 2 = 1
    BY <1>2 DEF SetVersion, WordOf, Low
  <2>4. 4 \in b[1] <=> (v \div 16) % 2 = 1
    BY <1>2 DEF SetVersion, WordOf, Low
  <2>5. 5 \in b[1] <=> (v \div 32) % 2 = 1
    BY <1>2 DEF SetVersion, WordOf, Low
  <2>6. 6 \in b[1] <=> (v \div 64) % 2 = 1
    BY <1>2 DEF SetVersion, WordOf, Low
  <2>7. 7 \in b[1] <=> (v \div 128) % 2 = 1
    BY <1>2 DEF SetVersion, WordOf, Low
  <2>. QED BY <2>0, <2>1, <2>2, <2>3, <2>4, <2>5, <2>6, <2>7 DEF LowBits
<1>4. 7 \in b[2] <=> 7 + 8 * (2 - 1) \in SetVersion(v) BY <1>1
<1>5. 15 \notin SetVersion(v) BY DEF SetVersion, Low
<1>6. v \in Nat /\ v \div 256 = 0 OBVIOUS
<1>. QED BY <1>3, <1>4, <1>5, <1>6, ByteValue DEF FLAG

-----------------------------------------------------------------------------
(* The packets: the layout of a datagram.                                  *)

LEMMA ThreePieces ==
  ASSUME NEW S, NEW x \in Seq(S), NEW y \in Seq(S), NEW z \in Seq(S),
         NEW w, w = x \o y \o z
  PROVE  /\ w \in Seq(S) /\ Len(w) = Len(x) + Len(y) + Len(z)
         /\ \A k \in 1 .. Len(x) : w[k] = x[k]
         /\ \A k \in 1 .. Len(y) : w[Len(x) + k] = y[k]
         /\ \A k \in 1 .. Len(z) : w[Len(x) + Len(y) + k] = z[k]
<1>1. Len(x) \in Nat /\ Len(y) \in Nat /\ Len(z) \in Nat BY LenProperties
<1>2. /\ x \o y \in Seq(S) /\ Len(x \o y) = Len(x) + Len(y)
      /\ \A k \in 1 .. Len(x) + Len(y) :
           (x \o y)[k] = IF k <= Len(x) THEN x[k] ELSE y[k - Len(x)]
  BY ConcatProperties
<1> DEFINE u == x \o y
<1>3. /\ u \o z \in Seq(S) /\ Len(u \o z) = Len(u) + Len(z)
      /\ \A k \in 1 .. Len(u) + Len(z) :
           (u \o z)[k] = IF k <= Len(u) THEN u[k] ELSE z[k - Len(u)]
  BY <1>2, ConcatProperties
<1>4. w = u \o z OBVIOUS
<1>5. /\ u \in Seq(S) /\ Len(u) = Len(x) + Len(y)
      /\ \A k \in 1 .. Len(x) + Len(y) :
           u[k] = IF k <= Len(x) THEN x[k] ELSE y[k - Len(x)]
  BY <1>2
<1> HIDE DEF u
<1>. QED BY <1>1, <1>3, <1>4, <1>5

\* A part of a sequence that holds another one is that one.
LEMMA PartIs ==
  ASSUME NEW S, NEW w \in Seq(S), NEW y \in Seq(S), NEW from \in Nat,
         NEW to \in Nat, from >= 1, to <= Len(w), to = from + Len(y) - 1,
         \A k \in 1 .. Len(y) : w[from - 1 + k] = y[k]
  PROVE  SubSeq(w, from, to) = y
<1>1. Len(w) \in Nat /\ Len(y) \in Nat BY LenProperties
<1>2. \A k \in from .. to : w[k] \in S BY <1>1, ElementOfSeq
<1>3. /\ SubSeq(w, from, to) \in Seq(S)
      /\ Len(SubSeq(w, from, to)) = IF from <= to THEN to - from + 1 ELSE 0
      /\ \A k \in 1 .. to - from + 1 : SubSeq(w, from, to)[k] = w[from + k - 1]
  BY <1>2, SubSeqProperties
<1>4. Len(SubSeq(w, from, to)) = Len(y) BY <1>1, <1>3
<1>5. \A k \in 1 .. Len(y) : SubSeq(w, from, to)[k] = y[k] BY <1>1, <1>3
<1>. QED BY <1>3, <1>4, <1>5, SeqEqual

HeaderLaidOut(S, a, v, l, s, z, h) ==
  /\ h \in Seq(S)
  /\ Len(h) = Len(a) + Len(v) + Len(l) + Len(s) + Len(z)
  /\ \A k \in 1 .. Len(a) : h[k] = a[k]
  /\ \A k \in 1 .. Len(v) : h[Len(a) + k] = v[k]
  /\ \A k \in 1 .. Len(l) : h[Len(a) + Len(v) + k] = l[k]
  /\ \A k \in 1 .. Len(s) : h[Len(a) + Len(v) + Len(l) + k] = s[k]

LEMMA HeaderLayout ==
  ASSUME NEW S, NEW a \in Seq(S), NEW v \in Seq(S), NEW l \in Seq(S),
         NEW s \in Seq(S), NEW z \in Seq(S), NEW h, h = a \o v \o l \o s \o z
  PROVE  HeaderLaidOut(S, a, v, l, s, z, h)
<1>1. PICK b : b = a \o v \o l OBVIOUS
<1>2. /\ b \in Seq(S) /\ Len(b) = Len(a) + Len(v) + Len(l)
      /\ \A k \in 1 .. Len(a) : b[k] = a[k]
      /\ \A k \in 1 .. Len(v) : b[Len(a) + k] = v[k]
      /\ \A k \in 1 .. Len(l) : b[Len(a) + Len(v) + k] = l[k]
  BY <1>1, ThreePieces
<1>3. h = b \o s \o z BY <1>1
<1>4. /\ h \in Seq(S) /\ Len(h) = Len(b) + Len(s) + Len(z)
      /\ \A k \in 1 .. Len(b) : h[k] = b[k]
      /\ \A k \in 1 .. Len(s) : h[Len(b) + k] = s[k]
  <2>1. b \in Seq(S) BY <1>2
  <2>. HIDE <1>2
  <2>. QED BY <1>3, <2>1, ThreePieces
<1>5. /\ Len(a) \in Nat /\ Len(v) \in Nat /\ Len(l) \in Nat
      /\ Len(s) \in Nat /\ Len(z) \in Nat
  BY LenProperties
<1>6. Len(h) = Len(a) + Len(v) + Len(l) + Len(s) + Len(z) BY <1>2, <1>4, <1>5
<1>7. \A k \in 1 .. Len(a) : h[k] = a[k]
  <2>1. \A k \in 1 .. Len(a) : k \in 1 .. Len(b) BY <1>2, <1>5
  <2>. QED BY <1>2, <1>4, <2>1
<1>8. \A k \in 1 .. Len(v) : h[Len(a) + k] = v[k]
  <2>1. \A k \in 1 .. Len(v) : Len(a) + k \in 1 .. Len(b) BY <1>2, <1>5
  <2>. QED BY <1>2, <1>4, <2>1
<1>9. \A k \in 1 .. Len(l) : h[Len(a) + Len(v) + k] = l[k]
  <2>1. \A k \in 1 .. Len(l) : Len(a) + Len(v) + k \in 1 .. Len(b)
    BY <1>2, <1>5
  <2>. QED BY <1>2, <1>4, <2>1
<1>10. \A k \in 1 .. Len(s) : h[Len(a) + Len(v) + Len(l) + k] = s[k]
  BY <1>2, <1>4
<1>. QED BY <1>4, <1>6, <1>7, <1>8, <1>9, <1>10 DEF HeaderLaidOut

\* n bytes are a sequence of whatever they are.
LEMMA SequenceOfBytes ==
  ASSUME NEW word, NEW n \in Nat,
         NEW S, \A j \in 1 .. n : BytesOf(word, n)[j] \in S
  PROVE  BytesOf(word, n) \in Seq(S) /\ Len(BytesOf(word, n)) = n
<1>1. PICK b : b = BytesOf(word, n) OBVIOUS
<1>2. b = [j \in 1 .. n |-> b[j]] BY <1>1 DEF BytesOf
<1>. QED BY <1>1, <1>2

\* Where the parts of a datagram are: h is the header without its checksum c,
\* and n the length of both.
Arrangement(a, h, c, p, bytes, n) ==
  /\ \E S : /\ a \in Seq(S) /\ h \in Seq(S) /\ c \in Seq(S)
            /\ p \in Seq(S) /\ bytes \in Seq(S)
  /\ n \in {12, 16}
  /\ Len(a) = 2 /\ Len(c) = 2 /\ Len(h) = n - 2 /\ Len(bytes) = n + Len(p)
  /\ \A k \in 1 .. 2 : h[k] = a[k]
  /\ \A k \in 1 .. n - 2 : bytes[k] = h[k]
  /\ \A k \in 1 .. 2 : bytes[n - 2 + k] = c[k]
  /\ \A k \in 1 .. Len(p) : bytes[n + k] = p[k]
  /\ c = BytesOf(Calculate(CRC_16_ARC, h), 2)

LEMMA Arranged ==
  ASSUME NEW a, NEW h, NEW c, NEW p, NEW bytes, NEW n,
         Arrangement(a, h, c, p, bytes, n)
  PROVE  /\ SubSeq(bytes, 1, 2) = a
         /\ HeaderChecksumCorrect(SubSeq(bytes, 1, n))
         /\ SubSeq(bytes, n + 1, n + Len(p)) = p
<1>1. PICK S : /\ a \in Seq(S) /\ h \in Seq(S) /\ c \in Seq(S)
               /\ p \in Seq(S) /\ bytes \in Seq(S)
  BY DEF Arrangement
<1>2. Len(p) \in Nat BY <1>1, LenProperties
<1>3. /\ n \in {12, 16}
      /\ Len(a) = 2 /\ Len(c) = 2 /\ Len(h) = n - 2 /\ Len(bytes) = n + Len(p)
  BY DEF Arrangement
<1>4. SubSeq(bytes, 1, 2) = a
  <2>1. \A k \in 1 .. Len(a) : bytes[1 - 1 + k] = a[k] BY <1>3 DEF Arrangement
  <2>2. Len(a) <= Len(bytes) /\ Len(a) \in Nat BY <1>2, <1>3
  <2>3. a \in Seq(S) /\ bytes \in Seq(S) BY <1>1
  <2>4. SubSeq(bytes, 1, Len(a)) = a BY <2>1, <2>2, <2>3, PartIs
  <2>. QED BY <1>3, <2>4
<1>5. SubSeq(bytes, n + 1, n + Len(p)) = p
  <2>1. \A k \in 1 .. Len(p) : bytes[n + 1 - 1 + k] = p[k]
    BY <1>3 DEF Arrangement
  <2>2. n + 1 \in Nat /\ n + Len(p) \in Nat /\ n + 1 >= 1 BY <1>2, <1>3
  <2>. QED BY <1>1, <1>2, <1>3, <2>1, <2>2, PartIs
<1>6. HeaderChecksumCorrect(SubSeq(bytes, 1, n))
  <2>1. PICK H : H = SubSeq(bytes, 1, n) OBVIOUS
  <2>2. \A k \in 1 .. n : bytes[k] \in S
    <3>1. \A k \in 1 .. n : k \in 1 .. Len(bytes) BY <1>2, <1>3
    <3>. QED BY <1>1, <3>1, ElementOfSeq
  <2>3. /\ H \in Seq(S) /\ Len(H) = n
        /\ \A k \in 1 .. n : H[k] = bytes[k]
    BY <1>3, <2>1, <2>2, SubSeqProperties
  <2>4. SubSeq(H, 1, n - 2) = h
    <3>1. \A k \in 1 .. Len(h) : H[1 - 1 + k] = h[k]
      BY <1>3, <2>3 DEF Arrangement
    <3>2. n - 2 \in Nat /\ n - 2 <= Len(H) /\ n - 2 = 1 + Len(h) - 1
      BY <1>3, <2>3
    <3>3. h \in Seq(S) /\ H \in Seq(S) BY <1>1, <2>3
    <3>. QED BY <3>1, <3>2, <3>3, PartIs
  <2>5. SubSeq(H, n - 1, n) = c
    <3>1. \A k \in 1 .. Len(c) : H[n - 1 - 1 + k] = c[k]
      BY <1>3, <2>3 DEF Arrangement
    <3>2. /\ n - 1 \in Nat /\ n \in Nat /\ n - 1 >= 1 /\ n <= Len(H)
          /\ n = n - 1 + Len(c) - 1
      BY <1>3, <2>3
    <3>3. c \in Seq(S) /\ H \in Seq(S) BY <1>1, <2>3
    <3>. QED BY <3>1, <3>2, <3>3, PartIs
  <2>. QED BY <2>1, <2>3, <2>4, <2>5 DEF HeaderChecksumCorrect, Arrangement
<1>. QED BY <1>4, <1>5, <1>6

LEMMA PairIsSequence ==
  ASSUME NEW S, NEW g \in [1 .. 2 -> S]
  PROVE  g \in Seq(S) /\ Len(g) = 2
<1>1. \A n \in Nat : \A f \in [1 .. n -> S] : f \in Seq(S) /\ Len(f) = n OBVIOUS
<1>2. 2 \in Nat OBVIOUS
<1>. QED BY <1>1, <1>2, Zenon

\* The bytes of the datagram d: v are those of its version, l those of its
\* length, n is the length of its header.
LaidOut(bytes, d, n, v, l) ==
  /\ \E S : bytes \in Seq(S)
  /\ Len(bytes) = n + Len(d.payload)
  /\ SubSeq(bytes, 1, 2) = BEGIN_SEQUENCE
  /\ bytes[3] = v[1]
  /\ bytes[4] = v[2] \cup IF d.payload_checksum_included THEN {FLAG} ELSE {}
  /\ \A k \in 1 .. 4 : bytes[4 + k] = l[k]
  /\ d.payload_checksum_included =>
       \A k \in 1 .. 4 :
         bytes[8 + k] = BytesOf(Calculate(CRC_32, d.payload), 4)[k]
  /\ HeaderChecksumCorrect(SubSeq(bytes, 1, n))
  /\ SubSeq(bytes, n + 1, n + Len(d.payload)) = d.payload

LEMMA GetLaidOut ==
  ASSUME NEW d, d.payload \in Seq(Byte),
         d.payload_checksum_included \in BOOLEAN,
         NEW n, n = HeaderLengthOf(d.payload_checksum_included)
  PROVE  LaidOut(Get(d), d, n, BytesOf(d.version, 2),
                 BytesOf(WordOf(Len(d.payload)), 4))
<1>1. PICK flag : flag = IF d.payload_checksum_included THEN {FLAG} ELSE {}
  OBVIOUS
<1>2. PICK a : a = BEGIN_SEQUENCE OBVIOUS
<1>3. PICK v : v = BytesOf(d.version, 2) OBVIOUS
<1>4. PICK f : f = [v EXCEPT ![2] = @ \cup flag] OBVIOUS
<1>5. PICK l : l = BytesOf(WordOf(Len(d.payload)), 4) OBVIOUS
<1>6. PICK s : s = IF d.payload_checksum_included
                   THEN BytesOf(Calculate(CRC_32, d.payload), 4) ELSE << >>
  OBVIOUS
<1>7. PICK z : z = <<{}, {}>> OBVIOUS
<1>8. PICK h : h = a \o f \o l \o s \o z OBVIOUS
<1>9. PICK c : c = BytesOf(Calculate(CRC_16_ARC, h), 2) OBVIOUS
<1>10. PICK p : p = d.payload OBVIOUS
<1>11. PICK bytes : bytes = h \o c \o p OBVIOUS
<1>12. bytes = Get(d)
  BY <1>1, <1>2, <1>3, <1>4, <1>5, <1>6, <1>7, <1>8, <1>9, <1>10, <1>11 DEF Get
<1>13. PICK S : S = Byte \cup {a[j] : j \in 1 .. 2} \cup {f[j] : j \in 1 .. 2}
                      \cup {l[j] : j \in 1 .. 4} \cup {s[j] : j \in 1 .. 4}
                      \cup {c[j] : j \in 1 .. 2}
  OBVIOUS
<1>14. n \in {12, 16} BY DEF HeaderLengthOf, MINIMAL_LENGTH
<1>15. a \in Seq(S) /\ Len(a) = 2
  <2>1. \A j \in 1 .. 2 : a[j] \in S BY <1>13
  <2>2. PICK word : a = BytesOf(word, 2) BY <1>2 DEF BEGIN_SEQUENCE
  <2>. QED BY <2>1, <2>2, SequenceOfBytes
<1>16. f \in Seq(S) /\ Len(f) = 2 /\ f[1] = v[1] /\ f[2] = v[2] \cup flag
  <2>1. f[1] \in S /\ f[2] \in S BY <1>13
  <2>2. f = [k \in 1 .. 2 |-> f[k]] /\ f[1] = v[1] /\ f[2] = v[2] \cup flag
    <3>1. PICK V : V = {v[k] : k \in 1 .. 2} OBVIOUS
    <3>2. v \in [1 .. 2 -> V] BY <1>3, <3>1 DEF BytesOf
    <3>3. 1 \in 1 .. 2 /\ 2 \in 1 .. 2 /\ 1 # 2 OBVIOUS
    <3>. QED BY <1>4, <3>2, <3>3, Zenon
  <2>3. \A k \in 1 .. 2 : k = 1 \/ k = 2 OBVIOUS
  <2>4. f \in [1 .. 2 -> S] BY <2>1, <2>2, <2>3, Zenon
  <2>. QED BY <2>2, <2>4, PairIsSequence, Zenon
<1>17. l \in Seq(S) /\ Len(l) = 4
  <2>1. \A j \in 1 .. 4 : l[j] \in S BY <1>13
  <2>. QED BY <1>5, <2>1, SequenceOfBytes
<1>18. s \in Seq(S) /\ Len(s) = n - 12
  <2>1. CASE d.payload_checksum_included
    <3>1. s = BytesOf(Calculate(CRC_32, d.payload), 4) BY <1>6, <2>1
    <3>2. \A j \in 1 .. 4 : s[j] \in S BY <1>13
    <3>3. s \in Seq(S) /\ Len(s) = 4 BY <3>1, <3>2, SequenceOfBytes
    <3>. QED BY <2>1, <3>3 DEF HeaderLengthOf, MINIMAL_LENGTH
  <2>2. CASE ~d.payload_checksum_included
    BY <1>6, <2>2 DEF HeaderLengthOf, MINIMAL_LENGTH
  <2>. QED BY <2>1, <2>2
<1>19. z \in Seq(S) /\ Len(z) = 2
  <2>1. {} \in S BY <1>13 DEF Byte
  <2>. QED BY <1>7, <2>1
<1>20. c \in Seq(S) /\ Len(c) = 2
  <2>1. \A j \in 1 .. 2 : c[j] \in S BY <1>13
  <2>. QED BY <1>9, <2>1, SequenceOfBytes
<1>21. p \in Seq(S) BY <1>10, <1>13, SeqMonotonic
<1>22. /\ a \in Seq(S) /\ f \in Seq(S) /\ l \in Seq(S) /\ s \in Seq(S)
       /\ z \in Seq(S) /\ c \in Seq(S)
  BY <1>15, <1>16, <1>17, <1>18, <1>19, <1>20
<1>23. /\ h \in Seq(S)
       /\ Len(h) = Len(a) + Len(f) + Len(l) + Len(s) + Len(z)
       /\ \A k \in 1 .. Len(a) : h[k] = a[k]
       /\ \A k \in 1 .. Len(f) : h[Len(a) + k] = f[k]
       /\ \A k \in 1 .. Len(l) : h[Len(a) + Len(f) + k] = l[k]
       /\ \A k \in 1 .. Len(s) : h[Len(a) + Len(f) + Len(l) + k] = s[k]
  <2>1. HeaderLaidOut(S, a, f, l, s, z, h) BY <1>8, <1>22, HeaderLayout, Zenon
  <2>. QED BY <2>1 DEF HeaderLaidOut
<1>24. /\ bytes \in Seq(S)
       /\ Len(bytes) = Len(h) + Len(c) + Len(p)
       /\ \A k \in 1 .. Len(h) : bytes[k] = h[k]
       /\ \A k \in 1 .. Len(c) : bytes[Len(h) + k] = c[k]
       /\ \A k \in 1 .. Len(p) : bytes[Len(h) + Len(c) + k] = p[k]
  <2>1. h \in Seq(S) /\ c \in Seq(S) /\ p \in Seq(S) BY <1>21, <1>22, <1>23
  <2>. QED BY <1>11, <2>1, ThreePieces
<1>25. Len(h) = n - 2 /\ Len(bytes) = n + Len(p)
  <2>1. Len(p) \in Nat BY <1>10, LenProperties
  <2>. QED BY <1>14, <1>15, <1>16, <1>17, <1>18, <1>19, <1>20, <1>23, <1>24, <2>1,
              SMTT(60)
<1>26. /\ \A k \in 1 .. 2 : h[k] = a[k]
       /\ h[3] = f[1] /\ h[4] = f[2]
       /\ \A k \in 1 .. 4 : h[4 + k] = l[k]
  <2>1. Len(a) = 2 /\ Len(f) = 2 /\ Len(l) = 4 BY <1>15, <1>16, <1>17
  <2>2. h[2 + 1] = f[1] /\ h[2 + 2] = f[2] BY <1>23, <2>1
  <2>. QED BY <1>23, <2>1, <2>2
<1>27. /\ \A k \in 1 .. n - 2 : bytes[k] = h[k]
       /\ \A k \in 1 .. 2 : bytes[n - 2 + k] = c[k]
       /\ \A k \in 1 .. Len(p) : bytes[n + k] = p[k]
  BY <1>14, <1>20, <1>24, <1>25
<1>28. /\ SubSeq(bytes, 1, 2) = a
       /\ HeaderChecksumCorrect(SubSeq(bytes, 1, n))
       /\ SubSeq(bytes, n + 1, n + Len(p)) = p
  <2>1. \E T : /\ a \in Seq(T) /\ h \in Seq(T) /\ c \in Seq(T)
               /\ p \in Seq(T) /\ bytes \in Seq(T)
    BY <1>15, <1>21, <1>22, <1>23, <1>24
  <2>2. Len(a) = 2 /\ Len(c) = 2 BY <1>15, <1>20
  <2>3. \A k \in 1 .. 2 : h[k] = a[k] BY <1>26
  <2>4. Arrangement(a, h, c, p, bytes, n)
    BY <1>9, <1>14, <1>25, <1>27, <2>1, <2>2, <2>3, Zenon DEF Arrangement
  <2>. QED BY <2>4, Arranged
<1>29. bytes[3] = v[1] /\ bytes[4] = v[2] \cup flag
  BY <1>14, <1>16, <1>26, <1>27
<1>30. \A k \in 1 .. 4 : bytes[4 + k] = l[k] BY <1>14, <1>26, <1>27, SMTT(60)
<1>31. \E T : bytes \in Seq(T) BY <1>24
<1>32. ASSUME d.payload_checksum_included, NEW k \in 1 .. 4
       PROVE  bytes[8 + k] = BytesOf(Calculate(CRC_32, d.payload), 4)[k]
  <2>1. n = 16 BY <1>32 DEF HeaderLengthOf, MINIMAL_LENGTH
  <2>2. Len(s) = 4 BY <1>18, <2>1
  <2>3. Len(a) + Len(f) + Len(l) = 8 BY <1>15, <1>16, <1>17
  <2>4. h[8 + k] = s[k] BY <1>23, <2>2, <2>3
  <2>5. 8 + k \in 1 .. n - 2 BY <2>1
  <2>6. bytes[8 + k] = s[k] BY <1>27, <2>4, <2>5
  <2>. QED BY <1>6, <1>32, <2>6, Zenon
<1>. QED
  BY <1>1, <1>2, <1>3, <1>5, <1>10, <1>12, <1>25, <1>28, <1>29, <1>30, <1>31, <1>32
     DEF LaidOut

\* What a datagram of version v is for who loads it: the whole of it loads,
\* and no part of it does.
Arrives(bytes, v, flag, payload) ==
  /\ Len(bytes) \in Nat /\ DOMAIN bytes = 1 .. Len(bytes)
  /\ SubSeq(bytes, 1, Len(bytes)) = bytes
  /\ Loads(bytes)
  /\ Version(Load(bytes)) = v
  /\ Load(bytes).payload = payload
  /\ ChecksumIncluded(bytes) <=> flag
  /\ HeaderLengthOf(flag) + LengthField(bytes) = Len(bytes)
  /\ flag => \A k \in 1 .. 4 :
               bytes[8 + k] = BytesOf(Calculate(CRC_32, payload), 4)[k]
  /\ \A r \in 1 .. Len(bytes) : r # Len(bytes) => ~Loads(SubSeq(bytes, 1, r))

\* Every datagram of the game process arrives so.
LEMMA WholeAndPart ==
  ASSUME NEW v \in 0 .. 255, NEW flag \in BOOLEAN, NEW payload \in Seq(Byte),
         Len(payload) + HeaderLengthOf(TRUE) < LENGTH_MODULUS,
         Len(payload) <= FLATBUFFERS_MAX_BUFFER_SIZE,
         NEW bytes, bytes = Get(NewDatagram(v, flag, payload))
  PROVE  Arrives(bytes, v, flag, payload)
<1>1. PICK d : d = NewDatagram(v, flag, payload) OBVIOUS
<1>2. /\ d.payload = payload /\ d.payload_checksum_included = flag
      /\ d.version = SetVersion(v)
  BY <1>1 DEF NewDatagram
<1>3. PICK n : n = HeaderLengthOf(flag) OBVIOUS
<1>4. n \in {12, 16} /\ n <= HeaderLengthOf(TRUE)
  BY <1>3 DEF HeaderLengthOf, MINIMAL_LENGTH
<1>5. PICK w, l : /\ w = BytesOf(SetVersion(v), 2)
                  /\ l = BytesOf(WordOf(Len(payload)), 4)
  OBVIOUS
<1>l. LaidOut(bytes, d, n, w, l) BY <1>1, <1>2, <1>3, <1>5, GetLaidOut
<1>6. Len(payload) \in Nat BY LenProperties
<1>7. ByteNumber(bytes[3]) = v /\ (ChecksumIncluded(bytes) <=> flag)
  <2>1. ByteNumber(w[1]) = v /\ FLAG \notin w[2] BY <1>5, VersionBack
  <2>2. bytes[3] = w[1] /\ bytes[4] = w[2] \cup IF flag THEN {FLAG} ELSE {}
    BY <1>2, <1>l DEF LaidOut
  <2>. QED BY <2>1, <2>2 DEF ChecksumIncluded
<1>8. LengthField(bytes) = Len(payload)
  <2>1. /\ bytes[5] = l[1] /\ bytes[6] = l[2] /\ bytes[7] = l[3]
        /\ bytes[8] = l[4]
    <3>1. /\ bytes[4 + 1] = l[1] /\ bytes[4 + 2] = l[2]
          /\ bytes[4 + 3] = l[3] /\ bytes[4 + 4] = l[4]
      BY <1>l DEF LaidOut
    <3>. QED BY <3>1
  <2>2. l = BytesOf(WordOf(Len(payload)), 4) BY <1>5
  <2>. QED BY <1>6, <2>1, <2>2, NumberBack DEF LengthField
<1>9. HeaderLengthOf(ChecksumIncluded(bytes)) = n
  BY <1>3, <1>7 DEF HeaderLengthOf
<1>10. (Len(payload) + n) % LENGTH_MODULUS = Len(payload) + n
  <2>1. Len(payload) + n \in 0 .. LENGTH_MODULUS - 1
    <3>1. HeaderLengthOf(TRUE) = 16 BY DEF HeaderLengthOf, MINIMAL_LENGTH
    <3>2. Len(payload) + 16 < LENGTH_MODULUS BY <3>1
    <3>. QED BY <1>4, <1>6, <3>2, LengthAssumption
  <2>. QED BY <2>1, LengthAssumption
<1>11. Len(bytes) \in Nat /\ Len(bytes) = n + Len(payload)
  BY <1>2, <1>4, <1>6, <1>l DEF LaidOut
<1>12. Loads(bytes)
  BY <1>4, <1>6, <1>8, <1>9, <1>10, <1>11, <1>l DEF Loads, MINIMAL_LENGTH, LaidOut
<1>13. Version(Load(bytes)) = v BY <1>7 DEF Version, Load
<1>14. Load(bytes).payload = payload
  BY <1>2, <1>8, <1>9, <1>l DEF Load, LaidOut
<1>15. PICK S : bytes \in Seq(S) BY <1>l DEF LaidOut
<1>16. SubSeq(bytes, 1, Len(bytes)) = bytes
  BY <1>11, <1>15, PartIs
<1>17. ASSUME NEW r \in 1 .. Len(bytes), r # Len(bytes),
              Loads(SubSeq(bytes, 1, r))
       PROVE  FALSE
  <2>1. PICK part : part = SubSeq(bytes, 1, r) BY Zenon
  <2>2. Len(part) = r /\ \A k \in 1 .. r : part[k] = bytes[k]
    <3>1. \A k \in 1 .. r : k \in 1 .. Len(bytes) BY <1>11
    <3>2. \A k \in 1 .. r : bytes[k] \in S BY <1>15, <3>1, ElementOfSeq
    <3>3. r \in Int /\ 1 \in Int /\ r >= 1 BY <1>11
    <3>. QED BY <2>1, <3>2, <3>3, SubSeqProperties
  <2>3. r >= 12 BY <1>17, <2>1, <2>2 DEF Loads, MINIMAL_LENGTH
  <2>4. /\ part[4] = bytes[4] /\ part[5] = bytes[5] /\ part[6] = bytes[6]
        /\ part[7] = bytes[7] /\ part[8] = bytes[8]
    BY <2>2, <2>3
  <2>5. LengthField(part) = Len(payload) BY <1>8, <2>4 DEF LengthField
  <2>6. HeaderLengthOf(ChecksumIncluded(part)) = n
    BY <1>9, <2>4 DEF ChecksumIncluded
  <2>7. Len(payload) + n <= r
    BY <1>10, <1>17, <2>1, <2>2, <2>5, <2>6 DEF Loads
  <2>. QED BY <1>4, <1>6, <1>11, <1>17, <2>7
<1>18. DOMAIN bytes = 1 .. Len(bytes) BY <1>15, LenProperties
<1>19. HeaderLengthOf(flag) + LengthField(bytes) = Len(bytes)
  BY <1>3, <1>8, <1>11
<1>20. ASSUME flag, NEW k \in 1 .. 4
       PROVE  bytes[8 + k] = BytesOf(Calculate(CRC_32, payload), 4)[k]
  BY <1>2, <1>l, <1>20, Zenon DEF LaidOut
<1>. QED
  BY <1>7, <1>11, <1>12, <1>13, <1>14, <1>16, <1>17, <1>18, <1>19, <1>20, Zenon
  DEF Arrives

-----------------------------------------------------------------------------
(* The packets: tables.                                                    *)

\* u is the table t with one more field, f, read back as v, also when v is the
\* default and left out; the fields that were there are read as before.
Added(t, u, f, v, d) ==
  /\ DOMAIN t \subseteq DOMAIN u /\ DOMAIN u \subseteq DOMAIN t \cup {f}
  /\ GetField(u, f, d) = v
  /\ \A g, e : g # f => GetField(u, g, e) = GetField(t, g, e)
  /\ \A g \in DOMAIN t : GetPointer(u, g) = GetPointer(t, g)

LEMMA AddedElement ==
  ASSUME NEW t, NEW f, f \notin DOMAIN t, NEW v, NEW d
  PROVE  Added(t, AddElement(t, f, v, d), f, v, d)
<1>0. PICK u : u = AddElement(t, f, v, d) OBVIOUS
<1>1. CASE v = d
  <2>1. u = t BY <1>0, <1>1 DEF AddElement
  <2>. QED BY <1>0, <1>1, <2>1 DEF Added, GetField
<1>2. CASE v # d
  <2>1. u = [g \in DOMAIN t \cup {f} |-> IF g = f THEN v ELSE t[g]]
    BY <1>0, <1>2 DEF AddElement, With
  <2>2. DOMAIN u = DOMAIN t \cup {f} BY <2>1
  <2>3. u[f] = v BY <2>1
  <2>4. \A g \in DOMAIN t : u[g] = t[g] BY <2>1
  <2>. QED BY <1>0, <2>2, <2>3, <2>4 DEF Added, GetField, GetPointer
<1>. QED BY <1>1, <1>2

\* The same of what is always written.
AddedChild(t, u, f, child) ==
  /\ DOMAIN u = DOMAIN t \cup {f}
  /\ GetPointer(u, f) = child
  /\ \A g, e : g # f => GetField(u, g, e) = GetField(t, g, e)
  /\ \A g \in DOMAIN t : GetPointer(u, g) = GetPointer(t, g)

LEMMA AddedOffset ==
  ASSUME NEW t, NEW f, f \notin DOMAIN t, NEW v
  PROVE  AddedChild(t, AddOffset(t, f, v), f, v)
<1>1. PICK u : u = AddOffset(t, f, v) OBVIOUS
<1>2. u = [g \in DOMAIN t \cup {f} |-> IF g = f THEN v ELSE t[g]]
  BY <1>1 DEF AddOffset, With
<1>3. DOMAIN u = DOMAIN t \cup {f} BY <1>2
<1>4. u[f] = v BY <1>2
<1>5. \A g \in DOMAIN t : u[g] = t[g] BY <1>2
<1>. QED BY <1>1, <1>3, <1>4, <1>5 DEF AddedChild, GetField, GetPointer

LEMMA EmptyTable == DOMAIN Empty = {}
  BY DEF Empty

LEMMA InputBack ==
  ASSUME NEW sequence, NEW id, NEW disconnect, NEW direction, NEW move
  PROVE  Input(CreateInput(sequence, id, disconnect, direction, move))
           = [sequence |-> sequence, id |-> id, disconnect |-> disconnect,
              direction |-> direction, move |-> move]
<1>1. PICK t1 : t1 = AddElement(Empty, "sequence", sequence, 0) OBVIOUS
<1>2. PICK t2 : t2 = AddElement(t1, "direction", direction, 0) OBVIOUS
<1>3. PICK t3 : t3 = AddElement(t2, "id", id, 0) OBVIOUS
<1>4. PICK t4 : t4 = AddElement(t3, "move", move, FALSE) OBVIOUS
<1>5. PICK t5 : t5 = AddElement(t4, "disconnect", disconnect, FALSE) OBVIOUS
<1>6. t5 = CreateInput(sequence, id, disconnect, direction, move)
  BY <1>1, <1>2, <1>3, <1>4, <1>5 DEF CreateInput
<1>7. Added(Empty, t1, "sequence", sequence, 0)
  BY <1>1, AddedElement, EmptyTable
<1>8. DOMAIN t1 \subseteq {"sequence"} BY <1>7, EmptyTable DEF Added
<1>9. Added(t1, t2, "direction", direction, 0) BY <1>2, <1>8, AddedElement
<1>10. DOMAIN t2 \subseteq {"sequence", "direction"} BY <1>8, <1>9 DEF Added
<1>11. Added(t2, t3, "id", id, 0) BY <1>3, <1>10, AddedElement
<1>12. DOMAIN t3 \subseteq {"sequence", "direction", "id"}
  BY <1>10, <1>11 DEF Added
<1>13. Added(t3, t4, "move", move, FALSE) BY <1>4, <1>12, AddedElement
<1>14. DOMAIN t4 \subseteq {"sequence", "direction", "id", "move"}
  BY <1>12, <1>13 DEF Added
<1>15. Added(t4, t5, "disconnect", disconnect, FALSE)
  BY <1>5, <1>14, AddedElement
<1>16. GetField(t5, "sequence", 0) = sequence
  BY <1>7, <1>9, <1>11, <1>13, <1>15 DEF Added
<1>17. GetField(t5, "id", 0) = id BY <1>11, <1>13, <1>15 DEF Added
<1>18. GetField(t5, "direction", 0) = direction
  BY <1>9, <1>11, <1>13, <1>15 DEF Added
<1>19. GetField(t5, "move", FALSE) = move BY <1>13, <1>15 DEF Added
<1>20. GetField(t5, "disconnect", FALSE) = disconnect BY <1>15 DEF Added
<1>. QED BY <1>6, <1>16, <1>17, <1>18, <1>19, <1>20 DEF Input

\* An id that has become negative names the same game.
LEMMA Int32Back ==
  ASSUME NEW n \in 0 .. INT32_MODULUS - 1
  PROVE  Int32(n) % INT32_MODULUS = n
<1>1. PICK M : M = INT32_MODULUS OBVIOUS
<1>2. M \in Nat \ {0} BY <1>1, SerializeAssumption
<1>3. PICK h : h = M \div 2 OBVIOUS
<1>4. h \in Nat /\ h <= M BY <1>2, <1>3
<1>5. n \in 0 .. M - 1 BY <1>1
<1>6. Int32(n) = ((n + h) % M) - h BY <1>1, <1>3 DEF Int32
<1>7. CASE n + h < M
  <2>1. (n + h) % M = n + h BY <1>2, <1>4, <1>5, <1>7
  <2>2. n % M = n BY <1>2, <1>5
  <2>. QED BY <1>1, <1>4, <1>5, <1>6, <2>1, <2>2
<1>8. CASE n + h >= M
  <2>1. (n + h) % M = n + h - M BY <1>2, <1>4, <1>5, <1>8
  <2>2. (n - M) % M = n BY <1>2, <1>5
  <2>. QED BY <1>1, <1>2, <1>4, <1>5, <1>6, <2>1, <2>2
<1>. QED BY <1>2, <1>4, <1>5, <1>7, <1>8

LEMMA OneField ==
  ASSUME NEW f, NEW v, NEW d
  PROVE  GetField(AddElement(Empty, f, v, d), f, d) = v
<1>1. Added(Empty, AddElement(Empty, f, v, d), f, v, d)
  BY AddedElement, EmptyTable
<1>. QED BY <1>1 DEF Added

LEMMA PlayerBack ==
  ASSUME NEW name, NEW id, NEW points, NEW position, NEW vehicle,
         NEW player,
         player = PlayerOf(CreatePlayer(name, id, points, position, vehicle))
  PROVE  /\ player.name = name /\ player.id = id
         /\ player.points = Int32(points)
         /\ player.position = position /\ player.vehicle = vehicle
<1>1. PICK t1 : t1 = AddOffset(Empty, "position", position) OBVIOUS
<1>2. PICK t2 : t2 = AddElement(t1, "points", Int32(points), 0) OBVIOUS
<1>3. PICK t3 : t3 = AddElement(t2, "id", id, 0) OBVIOUS
<1>4. PICK t4 : t4 = AddOffset(t3, "name", name) OBVIOUS
<1>5. PICK t5 : t5 = AddElement(t4, "vehicle", vehicle, 0) OBVIOUS
<1>6. t5 = CreatePlayer(name, id, points, position, vehicle)
  BY <1>1, <1>2, <1>3, <1>4, <1>5 DEF CreatePlayer
<1>7. DOMAIN t1 = {"position"} /\ GetPointer(t1, "position") = position
  <2>1. AddedChild(Empty, t1, "position", position)
    BY <1>1, AddedOffset, EmptyTable
  <2>. QED BY <2>1, EmptyTable DEF AddedChild
<1>8. Added(t1, t2, "points", Int32(points), 0) BY <1>2, <1>7, AddedElement
<1>9. /\ "position" \in DOMAIN t2
      /\ DOMAIN t2 \subseteq {"position", "points"}
  BY <1>7, <1>8 DEF Added
<1>10. Added(t2, t3, "id", id, 0) BY <1>3, <1>9, AddedElement
<1>11. /\ "position" \in DOMAIN t3
       /\ DOMAIN t3 \subseteq {"position", "points", "id"}
  BY <1>9, <1>10 DEF Added
<1>12. AddedChild(t3, t4, "name", name) BY <1>4, <1>11, AddedOffset
<1>13. Added(t4, t5, "vehicle", vehicle, 0)
  BY <1>5, <1>11, <1>12, AddedElement DEF AddedChild
<1>14. GetPointer(t5, "position") = position
  BY <1>7, <1>8, <1>9, <1>10, <1>11, <1>12, <1>13 DEF Added, AddedChild
<1>15. GetField(t5, "points", 0) = Int32(points)
  BY <1>8, <1>10, <1>12, <1>13 DEF Added, AddedChild
<1>16. GetField(t5, "id", 0) = id BY <1>10, <1>12, <1>13 DEF Added, AddedChild
<1>17. GetPointer(t5, "name") = name BY <1>12, <1>13 DEF Added, AddedChild
<1>18. GetField(t5, "vehicle", 0) = vehicle BY <1>13 DEF Added, AddedChild
<1>. QED BY <1>6, <1>14, <1>15, <1>16, <1>17, <1>18 DEF PlayerOf

\* A table of a vector, a struct or a child and a number.
LEMMA ChildAndNumber ==
  ASSUME NEW p, NEW child, NEW f, f # p, NEW v, NEW d,
         NEW t, t = AddElement(AddOffset(Empty, p, child), f, v, d)
  PROVE  GetPointer(t, p) = child /\ GetField(t, f, d) = v
<1>1. PICK t1 : t1 = AddOffset(Empty, p, child) OBVIOUS
<1>2. DOMAIN t1 = {p} /\ GetPointer(t1, p) = child
  <2>1. AddedChild(Empty, t1, p, child) BY <1>1, AddedOffset, EmptyTable
  <2>. QED BY <2>1, EmptyTable DEF AddedChild
<1>3. Added(t1, t, f, v, d) BY <1>1, <1>2, AddedElement
<1>. QED BY <1>2, <1>3 DEF Added, AddedChild

LEMMA GameBack ==
  ASSUME NEW sequence, NEW teams, NEW boxes, NEW finished,
         NEW game, game = GameOf(CreateGame(sequence, teams, boxes, finished))
  PROVE  /\ game.sequence = sequence
         /\ game.teams = [n \in DOMAIN teams |-> TeamOf(teams[n])]
         /\ game.boxes = [n \in DOMAIN boxes |-> PointBoxOf(boxes[n])]
         /\ game.finished = finished
<1>1. PICK t1 : t1 = AddElement(Empty, "sequence", sequence, 0) OBVIOUS
<1>2. PICK t2 : t2 = AddOffset(t1, "boxes", boxes) OBVIOUS
<1>3. PICK t3 : t3 = AddOffset(t2, "teams", teams) OBVIOUS
<1>4. PICK t4 : t4 = AddElement(t3, "finished", finished, FALSE) OBVIOUS
<1>5. t4 = CreateGame(sequence, teams, boxes, finished)
  BY <1>1, <1>2, <1>3, <1>4 DEF CreateGame
<1>6. Added(Empty, t1, "sequence", sequence, 0)
  BY <1>1, AddedElement, EmptyTable
<1>7. DOMAIN t1 \subseteq {"sequence"} BY <1>6, EmptyTable DEF Added, AddedChild
<1>8. AddedChild(t1, t2, "boxes", boxes) BY <1>2, <1>7, AddedOffset
<1>9. AddedChild(t2, t3, "teams", teams)
  <2>1. "teams" \notin DOMAIN t2 BY <1>7, <1>8 DEF AddedChild
  <2>. QED BY <1>3, <2>1, AddedOffset
<1>10. Added(t3, t4, "finished", finished, FALSE)
  BY <1>4, <1>7, <1>8, <1>9, AddedElement DEF AddedChild
<1>11. GetField(t4, "sequence", 0) = sequence
  BY <1>6, <1>8, <1>9, <1>10 DEF Added, AddedChild
<1>12. GetPointer(t4, "boxes") = boxes BY <1>8, <1>9, <1>10 DEF Added, AddedChild
<1>13. GetPointer(t4, "teams") = teams BY <1>9, <1>10 DEF Added, AddedChild
<1>14. GetField(t4, "finished", FALSE) = finished BY <1>10 DEF Added, AddedChild
<1>. QED BY <1>5, <1>11, <1>12, <1>13, <1>14 DEF GameOf

LEMMA PlayerGenerated ==
  ASSUME NEW player, Fits(player.points),
         NEW s, s = PlayerOf(PlayerGenerateFlatbuffers(player))
  PROVE  /\ s.id = player.id /\ s.name = player.name
         /\ s.points = player.points /\ s.position = player.position
         /\ SameVehicle(s.vehicle, player.vehicle)
<1>1. PICK vehicle :
        vehicle = CASE player.vehicle = "CYCLIST" -> Vehicle.Cyclist
                    [] player.vehicle = "CAR" -> Vehicle.Car
                    [] OTHER -> Vehicle.Pedestrian
  OBVIOUS
<1>2. SameVehicle(vehicle, player.vehicle)
  <2>1. Vehicle.Cyclist = 1 /\ Vehicle.Car = 2 /\ Vehicle.Pedestrian = 0
    BY DEF Vehicle
  <2>2. CASE player.vehicle = "CYCLIST"
    BY <1>1, <2>1, <2>2 DEF SameVehicle
  <2>3. CASE player.vehicle = "CAR"
    BY <1>1, <2>1, <2>3 DEF SameVehicle
  <2>4. CASE player.vehicle # "CYCLIST" /\ player.vehicle # "CAR"
    BY <1>1, <2>1, <2>4 DEF SameVehicle
  <2>. QED BY <2>2, <2>3, <2>4
<1>3. PlayerGenerateFlatbuffers(player)
        = CreatePlayer(player.name, player.id, player.points, player.position,
                       vehicle)
  BY <1>1 DEF PlayerGenerateFlatbuffers
<1>4. /\ s.name = player.name /\ s.id = player.id
      /\ s.points = Int32(player.points)
      /\ s.position = player.position /\ s.vehicle = vehicle
  BY <1>3, PlayerBack
<1>. QED BY <1>2, <1>4 DEF Fits

LEMMA SequenceFacts ==
  ASSUME NEW s, IsSequence(s)
  PROVE  Len(s) \in Nat /\ DOMAIN s = 1 .. Len(s) /\ s = [n \in 1 .. Len(s) |-> s[n]]
  BY LenProperties DEF IsSequence

LEMMA TeamGenerated ==
  ASSUME NEW players, TeamFits(players),
         NEW s, s = TeamOf(TeamGenerateFlatbuffers(players))
  PROVE  TeamShown(s, players)
<1>1. PICK tables : tables = [n \in DOMAIN players |->
                                PlayerGenerateFlatbuffers(players[n])]
  OBVIOUS
<1>2. PICK table : table = CreateTeam(TeamScore(players), tables) OBVIOUS
<1>3. TeamGenerateFlatbuffers(players) = table
  BY <1>1, <1>2 DEF TeamGenerateFlatbuffers
<1>4. /\ GetPointer(table, "players") = tables
      /\ GetField(table, "points", 0) = Int32(TeamScore(players))
  BY <1>2, ChildAndNumber DEF CreateTeam
<1>5. s.points = TeamScore(players) BY <1>3, <1>4 DEF TeamOf, TeamFits, Fits
<1>6. s.players = [n \in DOMAIN players |-> PlayerOf(tables[n])]
  BY <1>1, <1>3, <1>4 DEF TeamOf
<1>7. Len(s.players) = Len(players)
  BY <1>6, SequenceFacts DEF TeamFits
<1>8. ASSUME NEW n \in DOMAIN players
      PROVE  LET p == s.players[n]
             IN  /\ p.id = players[n].id /\ p.name = players[n].name
                 /\ p.points = players[n].points
                 /\ p.position = players[n].position
                 /\ SameVehicle(p.vehicle, players[n].vehicle)
  <2>1. s.players[n] = PlayerOf(PlayerGenerateFlatbuffers(players[n]))
    BY <1>1, <1>6
  <2>. QED BY <2>1, PlayerGenerated DEF TeamFits
<1>. QED BY <1>5, <1>7, <1>8 DEF TeamShown

LEMMA BoxesGenerated ==
  ASSUME NEW boxes, BoxesFit(boxes), NEW shown, NEW tables,
         DOMAIN tables = DOMAIN boxes,
         \A n \in DOMAIN boxes :
           tables[n] = CreatePointBox(boxes[n].position, boxes[n].value),
         shown = [n \in DOMAIN tables |-> PointBoxOf(tables[n])]
  PROVE  shown = boxes
<1>1. ASSUME NEW n \in DOMAIN boxes PROVE shown[n] = boxes[n]
  <2>1. PICK box : box = boxes[n] OBVIOUS
  <2>2. /\ box = [position |-> box.position, value |-> box.value]
        /\ Fits(box.value)
    BY <2>1 DEF BoxesFit
  <2>3. PICK t : t = CreatePointBox(box.position, box.value) OBVIOUS
  <2>4. /\ GetPointer(t, "position") = box.position
        /\ GetField(t, "value", 0) = Int32(box.value)
    BY <2>3, ChildAndNumber DEF CreatePointBox
  <2>5. PointBoxOf(t) = box BY <2>2, <2>4 DEF PointBoxOf, Fits
  <2>. QED BY <2>1, <2>3, <2>5
<1>2. boxes = [n \in DOMAIN boxes |-> boxes[n]] BY SequenceFacts DEF BoxesFit
<1>. QED BY <1>1, <1>2

\* An application shows the status that was sent.
LEMMA StatusGenerated ==
  ASSUME NEW m, StatusFits(m),
         NEW game, game = GameOf(GameGenerateFlatbuffers(m))
  PROVE  StatusShown(game, m)
<1>1. PICK red, blue : /\ red = TeamGenerateFlatbuffers(m.red)
                       /\ blue = TeamGenerateFlatbuffers(m.blue)
  OBVIOUS
<1>2. PICK boxes : boxes = [n \in DOMAIN m.boxes |->
                              CreatePointBox(m.boxes[n].position, m.boxes[n].value)]
  OBVIOUS
<1>3. PICK won : won = (TeamScore(m.red) >= points_to_win
                          \/ TeamScore(m.blue) >= points_to_win)
  OBVIOUS
<1>4. GameGenerateFlatbuffers(m) = CreateGame(m.sequence, <<red, blue>>, boxes, won)
  BY <1>1, <1>2, <1>3 DEF GameGenerateFlatbuffers
<1>5. /\ game.sequence = m.sequence
      /\ game.teams = [n \in DOMAIN <<red, blue>> |-> TeamOf(<<red, blue>>[n])]
      /\ game.boxes = [n \in DOMAIN boxes |-> PointBoxOf(boxes[n])]
      /\ game.finished = won
  BY <1>4, GameBack
<1>6. game.teams[1] = TeamOf(red) /\ game.teams[2] = TeamOf(blue) BY <1>5
<1>7. TeamShown(game.teams[1], m.red)
  BY <1>1, <1>6, TeamGenerated DEF StatusFits
<1>8. TeamShown(game.teams[2], m.blue)
  BY <1>1, <1>6, TeamGenerated DEF StatusFits
<1>9. game.boxes = m.boxes
  <2>1. BoxesFit(m.boxes) BY DEF StatusFits
  <2>2. /\ DOMAIN boxes = DOMAIN m.boxes
        /\ \A n \in DOMAIN m.boxes :
             boxes[n] = CreatePointBox(m.boxes[n].position, m.boxes[n].value)
    BY <1>2
  <2>. QED BY <1>5, <2>1, <2>2, BoxesGenerated
<1>10. game.finished <=> \E t \in {1, 2} : game.teams[t].points >= points_to_win
  BY <1>3, <1>5, <1>7, <1>8, Zenon DEF TeamShown
<1>. QED BY <1>5, <1>7, <1>8, <1>9, <1>10, Zenon DEF StatusShown

-----------------------------------------------------------------------------
(* The packets: what a receiver reads.                                     *)

LEMMA RootBack ==
  ASSUME NEW m \in Message
  PROVE  GetRoot(Serialize(Table(m))) = Table(m)
<1>1. PICK t : t = Table(m) OBVIOUS
<1>2. t \in Tables BY <1>1, MessageAssumption
<1>3. PICK u : u = GetRoot(Serialize(t)) OBVIOUS
<1>4. u \in Tables /\ Serialize(u) = Serialize(t) BY <1>2, <1>3 DEF GetRoot
<1>. QED BY <1>1, <1>2, <1>3, <1>4, SerializeAssumption

LEMMA InputRead ==
  ASSUME NEW m
  PROVE  Input(CreateInput(m.sequence, m.id, FALSE, m.direction, m.move))
           = [sequence |-> m.sequence, id |-> m.id, disconnect |-> FALSE,
              direction |-> m.direction, move |-> m.move]
<1>1. PICK x : x = FALSE OBVIOUS
<1>2. Input(CreateInput(m.sequence, m.id, x, m.direction, m.move))
        = [sequence |-> m.sequence, id |-> m.id, disconnect |-> x,
           direction |-> m.direction, move |-> m.move]
  BY ONLY InputBack
<1>. QED BY <1>1, <1>2

\* What is read is told from a refusal by its kind.
LEMMA NotRefused ==
  ASSUME NEW u, u.kind # "refused"
  PROVE  u # Refused
<1>1. Refused.kind = "refused" BY DEF Refused
<1>. QED BY <1>1

VersionOf(m) ==
  CASE m.kind = "input"   -> DATAGRAM_PLAYER_INPUT_VER
    [] m.kind = "status"  -> GAME_STATUS_VER
    [] m.kind = "game id" -> GAME_ID_VER
    [] m.kind = "ended"   -> GAME_ENDED_VER

LEMMA WrittenFacts ==
  ASSUME NEW m \in Message
  PROVE  \E flag \in BOOLEAN :
           Written(m) = NewDatagram(VersionOf(m), flag, Serialize(Table(m)))
<1>1. m.kind \in {"input", "status", "game id", "ended"} BY MessageAssumption
<1>2. CASE m.kind = "input"
  BY <1>2 DEF Written, VersionOf, MockInputDatagram, DATAGRAM_PLAYER_INPUT_VER
<1>3. CASE m.kind = "status"
  BY <1>3 DEF Written, VersionOf, GetGameStatus
<1>4. CASE m.kind = "game id"
  BY <1>4 DEF Written, VersionOf, TransmitGameId, GAME_ID_VER
<1>5. CASE m.kind = "ended"
  BY <1>5 DEF Written, VersionOf, SendGameFinished, GAME_ENDED_VER
<1>. QED BY <1>1, <1>2, <1>3, <1>4, <1>5

LEMMA Versions ==
  ASSUME NEW m \in Message
  PROVE  /\ m.kind \in {"input", "status", "game id", "ended"}
         /\ m.kind = "input"   => VersionOf(m) = 101
         /\ m.kind = "status"  => VersionOf(m) = 100
         /\ m.kind = "game id" => VersionOf(m) = 12
         /\ m.kind = "ended"   => VersionOf(m) = 11
<1>1. m.kind \in {"input", "status", "game id", "ended"} BY MessageAssumption
<1>2. CASE m.kind = "input"
  BY <1>2 DEF VersionOf, DATAGRAM_PLAYER_INPUT_VER
<1>3. CASE m.kind = "status" BY <1>3 DEF VersionOf, GAME_STATUS_VER
<1>4. CASE m.kind = "game id" BY <1>4 DEF VersionOf, GAME_ID_VER
<1>5. CASE m.kind = "ended" BY <1>5 DEF VersionOf, GAME_ENDED_VER
<1>. QED BY <1>1, <1>2, <1>3, <1>4, <1>5

\* The receiver r has loaded the message m as the datagram d and reads u.
Reads(r, m, d, u) ==
  /\ Version(d) = VersionOf(m)
  /\ d.payload = Serialize(Table(m))
  /\ u = Decode(r, d)

\* What a receiver that has loaded a message makes of it.
RightlyRead(m, r, u) ==
  IF MeantFor(m, r) THEN u # Refused /\ AsMeant(m, u) ELSE u = Refused

LEMMA GameProcessReads ==
  ASSUME NEW m \in Message, NEW r, NEW d, NEW u, Reads(r, m, d, u)
  PROVE  r.kind = "game process" => RightlyRead(m, r, u)
<1>r. SUFFICES ASSUME r.kind = "game process" PROVE RightlyRead(m, r, u)
  OBVIOUS
<1>v. Version(d) = VersionOf(m) BY DEF Reads
<1>0. GetRoot(d.payload) = Table(m) BY RootBack DEF Reads
<1>1. u = DecodeDatagram(r.client, d) BY <1>r DEF Decode, Reads
<1>2. MeantFor(m, r) <=> /\ m.kind = "input" /\ m.id = r.client.id
                         /\ m.sequence > r.client.last_sequence
  BY <1>r DEF MeantFor
<1>4. CASE m.kind = "input"
  <2>1. PICK input : input = Input(Table(m)) OBVIOUS
  <2>2. /\ input.sequence = m.sequence /\ input.id = m.id
        /\ input.direction = m.direction /\ input.move = m.move
    <3>1. Table(m) = CreateInput(m.sequence, m.id, FALSE, m.direction, m.move)
      BY <1>4 DEF Table
    <3>2. input = [sequence |-> m.sequence, id |-> m.id, disconnect |-> FALSE,
                   direction |-> m.direction, move |-> m.move]
      BY <2>1, <3>1, InputRead, Zenon
    <3>. QED BY <3>2
  <2>3. Input(GetRoot(d.payload)) = input BY <1>0, <2>1
  <2>4. Version(d) = DATAGRAM_PLAYER_INPUT_VER
    BY <1>v, <1>4, Versions DEF DATAGRAM_PLAYER_INPUT_VER
  <2>5. u = IF m.sequence > r.client.last_sequence /\ m.id = r.client.id
            THEN [kind |-> "input", move |-> m.move,
                  direction |-> m.direction, last_sequence |-> m.sequence]
            ELSE Refused
    BY <1>1, <2>2, <2>3, <2>4 DEF DecodeDatagram
  <2>6. CASE MeantFor(m, r)
    <3>1. u = [kind |-> "input", move |-> m.move, direction |-> m.direction,
               last_sequence |-> m.sequence]
      BY <1>2, <2>5, <2>6, Zenon
    <3>2. u.kind = "input" BY <3>1
    <3>3. u.last_sequence = m.sequence BY <3>1
    <3>4. u.move = m.move BY <3>1
    <3>5. u.direction = m.direction BY <3>1
    <3>6. u # Refused BY <3>2 DEF Refused
    <3>7. AsMeant(m, u) BY <1>4, <3>2, <3>3, <3>4, <3>5 DEF AsMeant
    <3>. QED BY <2>6, <3>6, <3>7, Zenon DEF RightlyRead
  <2>7. CASE ~MeantFor(m, r) BY <1>2, <1>4, <2>5, <2>7 DEF RightlyRead
  <2>. QED BY <2>6, <2>7
<1>5. CASE m.kind # "input"
  <2>1. Version(d) # DATAGRAM_PLAYER_INPUT_VER
    <3>1. m.kind \in {"status", "game id", "ended"} BY <1>5, Versions
    <3>2. VersionOf(m) \in {100, 12, 11} BY <3>1, Versions
    <3>. QED BY <1>v, <3>2 DEF DATAGRAM_PLAYER_INPUT_VER
  <2>. QED BY <1>1, <1>2, <1>5, <2>1 DEF DecodeDatagram, RightlyRead
<1>. QED BY <1>4, <1>5

LEMMA ApplicationReads ==
  ASSUME NEW m \in Message, NEW r, NEW d, NEW u, Reads(r, m, d, u)
  PROVE  r.kind = "application" => RightlyRead(m, r, u)
<1>r. SUFFICES ASSUME r.kind = "application" PROVE RightlyRead(m, r, u)
  OBVIOUS
<1>v. Version(d) = VersionOf(m) BY DEF Reads
<1>0. GetRoot(d.payload) = Table(m) BY RootBack DEF Reads
<1>1. u = DecodeGameStatus(d) BY <1>r DEF Decode, Reads
<1>2. MeantFor(m, r) <=> m.kind = "status" BY <1>r DEF MeantFor
<1>4. CASE m.kind = "status"
  <2>1. PICK game : game = GameOf(Table(m)) OBVIOUS
  <2>2. StatusShown(game, m)
    BY <1>4, <2>1, MessageAssumption, StatusGenerated DEF Table
  <2>3. GameOf(GetRoot(d.payload)) = game BY <1>0, <2>1
  <2>4. Version(d) = GAME_STATUS_VER BY <1>v, <1>4, Versions DEF GAME_STATUS_VER
  <2>5. u = [kind |-> "status", game |-> game]
    BY <1>1, <2>3, <2>4 DEF DecodeGameStatus
  <2>. QED BY <1>2, <1>4, <2>2, <2>5 DEF RightlyRead, AsMeant, Refused
<1>5. CASE m.kind # "status"
  <2>1. Version(d) # GAME_STATUS_VER
    <3>1. m.kind \in {"input", "game id", "ended"} BY <1>5, Versions
    <3>2. VersionOf(m) \in {101, 12, 11} BY <3>1, Versions
    <3>. QED BY <1>v, <3>2 DEF GAME_STATUS_VER
  <2>. QED BY <1>1, <1>2, <1>5, <2>1 DEF DecodeGameStatus, RightlyRead
<1>. QED BY <1>4, <1>5

LEMMA MainProcessReads ==
  ASSUME NEW m \in Message, NEW r, NEW d, NEW u, Reads(r, m, d, u)
  PROVE  r.kind = "main process" => RightlyRead(m, r, u)
<1>r. SUFFICES ASSUME r.kind = "main process" PROVE RightlyRead(m, r, u)
  OBVIOUS
<1>v. Version(d) = VersionOf(m) BY DEF Reads
<1>0. GetRoot(d.payload) = Table(m) BY RootBack DEF Reads
<1>1. u = DecodeReport(d) BY <1>r DEF Decode, Reads
<1>2. MeantFor(m, r) <=> m.kind \in {"game id", "ended"} BY <1>r DEF MeantFor
<1>4. CASE m.kind = "game id"
  <2>1. PICK id : id = FGameId(Table(m)).id OBVIOUS
  <2>2. id = Int32(m.id)
    BY <1>4, <2>1, OneField DEF Table, CreateFGameId, FGameId
  <2>3. id % INT32_MODULUS = m.id BY <1>4, <2>2, Int32Back, MessageAssumption
  <2>4. Version(d) = 12 BY <1>v, <1>4, Versions
  <2>5. u = [kind |-> "game id", id |-> id]
    <3>1. GetRoot(d.payload) = Table(m) BY <1>0
    <3>2. DecodeReport(d)
            = [kind |-> "game id", id |-> FGameId(GetRoot(d.payload)).id]
      BY <2>4 DEF DecodeReport, GAME_ID_VER, GAME_ENDED_VER
    <3>. QED BY <1>1, <2>1, <3>1, <3>2
  <2>6. u.kind = "game id" BY <2>5
  <2>7. u.id = id BY <2>5
  <2>8. u # Refused
    <3>1. u.kind # "refused" BY <2>6
    <3>. QED BY <3>1, NotRefused, Zenon
  <2>9. AsMeant(m, u) BY <1>4, <2>3, <2>6, <2>7 DEF AsMeant
  <2>. QED BY <1>2, <1>4, <2>8, <2>9 DEF RightlyRead
<1>5. CASE m.kind = "ended"
  <2>1. FGameEnded(Table(m)).ended = TRUE
    BY <1>5, OneField DEF Table, CreateFGameEnded, FGameEnded
  <2>2. Version(d) = 11 BY <1>v, <1>5, Versions
  <2>3. u = [kind |-> "ended", ended |-> FGameEnded(Table(m)).ended]
    <3>1. GetRoot(d.payload) = Table(m) BY <1>0
    <3>2. DecodeReport(d)
            = [kind |-> "ended", ended |-> FGameEnded(GetRoot(d.payload)).ended]
      BY <2>2 DEF DecodeReport, GAME_ID_VER, GAME_ENDED_VER
    <3>. QED BY <1>1, <3>1, <3>2
  <2>4. u.kind = "ended" BY <2>3
  <2>5. u.ended = TRUE BY <2>1, <2>3
  <2>6. u # Refused
    <3>1. u.kind # "refused" BY <2>4
    <3>. QED BY <3>1, NotRefused, Zenon
  <2>7. AsMeant(m, u) BY <1>5, <2>4, <2>5 DEF AsMeant
  <2>. QED BY <1>2, <1>5, <2>6, <2>7 DEF RightlyRead
<1>6. CASE m.kind \notin {"game id", "ended"}
  <2>1. Version(d) # GAME_ID_VER /\ Version(d) # GAME_ENDED_VER
    <3>1. m.kind \in {"input", "status"} BY <1>6, Versions
    <3>2. VersionOf(m) \in {101, 100} BY <3>1, Versions
    <3>. QED BY <1>v, <3>2 DEF GAME_ID_VER, GAME_ENDED_VER
  <2>. QED BY <1>1, <1>2, <1>6, <2>1 DEF DecodeReport, RightlyRead
<1>. QED BY <1>4, <1>5, <1>6

\* A message as it is sent, and what becomes of it with any room for it.
LEMMA Delivered ==
  ASSUME NEW m \in Message, NEW r \in Receivers,
         NEW bytes, bytes = Get(Written(m)), NEW n \in DOMAIN bytes
  PROVE  IF Loads(SubSeq(bytes, 1, n))
         THEN /\ n = Len(bytes)
              /\ Reads(r, m, Load(SubSeq(bytes, 1, n)),
                       Decode(r, Load(SubSeq(bytes, 1, n))))
         ELSE n # Len(bytes)
<1>1. PICK payload : payload = Serialize(Table(m)) OBVIOUS
<1>2. PICK flag \in BOOLEAN : Written(m) = NewDatagram(VersionOf(m), flag, payload)
  BY <1>1, WrittenFacts
<1>3. PICK v : v = VersionOf(m) OBVIOUS
<1>4. v \in 0 .. 255
  <2>1. v \in {101, 100, 12, 11} BY <1>3, Versions
  <2>. QED BY <2>1
<1>5. bytes = Get(NewDatagram(v, flag, payload)) BY <1>2, <1>3, Zenon
<1>6. /\ payload \in Seq(Byte)
      /\ Len(payload) + HeaderLengthOf(TRUE) < LENGTH_MODULUS
      /\ Len(payload) <= FLATBUFFERS_MAX_BUFFER_SIZE
  BY <1>1, MessageAssumption
<1>7. Arrives(bytes, v, flag, payload) BY <1>4, <1>5, <1>6, WholeAndPart
<1>8. CASE n = Len(bytes)
  <2>1. SubSeq(bytes, 1, n) = bytes BY <1>7, <1>8 DEF Arrives
  <2>2. Reads(r, m, Load(bytes), Decode(r, Load(bytes)))
    BY <1>1, <1>3, <1>7, Zenon DEF Reads, Arrives
  <2>3. Loads(SubSeq(bytes, 1, n)) BY <1>7, <2>1, Zenon DEF Arrives
  <2>4. Reads(r, m, Load(SubSeq(bytes, 1, n)),
              Decode(r, Load(SubSeq(bytes, 1, n))))
    BY <2>1, <2>2, Zenon
  <2>. QED BY <1>8, <2>3, <2>4, Zenon
<1>9. CASE n # Len(bytes)
  <2>1. ~Loads(SubSeq(bytes, 1, n)) BY <1>7, <1>9, Zenon DEF Arrives
  <2>. QED BY <1>9, <2>1, Zenon
<1>. QED BY <1>8, <1>9, Zenon

LEMMA ReaderIsRight ==
  ASSUME NEW m \in Message, NEW r \in Receivers, NEW d, NEW u, Reads(r, m, d, u)
  PROVE  RightlyRead(m, r, u)
<1>1. r.kind \in {"application", "main process", "game process"}
  BY DEF Receivers
<1>. QED
  BY <1>1, ApplicationReads, MainProcessReads, GameProcessReads

\* What has been sent is one of the messages, and what is understood is what
\* the receiver makes of the part it had room for.
PacketInv ==
  /\ message \in Message
  /\ packet = Get(Written(message))
  /\ receiver \in Receivers
  /\ room \in DOMAIN packet
  /\ \/ understood = Pending
     \/ understood = IF Loads(SubSeq(packet, 1, room))
                     THEN Decode(receiver, Load(SubSeq(packet, 1, room)))
                     ELSE Refused

LEMMA PacketInvInductive == PacketSpec => []PacketInv
<1>1. (\E m \in Message : PacketSent(m)) => PacketInv
  BY Zenon DEF PacketSent, PacketInv
<1>2. PacketInv /\ [ReceivePacket]_packetVars => PacketInv'
  <2>. SUFFICES ASSUME PacketInv, [ReceivePacket]_packetVars
                PROVE  PacketInv'
    OBVIOUS
  <2>1. CASE ReceivePacket BY <2>1, Zenon DEF PacketInv, ReceivePacket
  <2>2. CASE UNCHANGED packetVars BY <2>2, Zenon DEF PacketInv, packetVars
  <2>. QED BY <2>1, <2>2
<1>. QED BY <1>1, <1>2, PTL DEF PacketSpec

\* Whatever is sent and whatever its length: a receiver takes a datagram
\* exactly when it is meant for it and has arrived as a whole, and reads what
\* the sender meant (Datagram::Load and Get, and the writers and readers of
\* the messages).
THEOREM PacketsUnderstoodAlways == PacketSpec => []PacketsUnderstood
<1>1. PacketInv => PacketsUnderstood
  <2>. SUFFICES ASSUME PacketInv, understood # Pending
                PROVE  IF MeantFor(message, receiver) /\ room = Len(packet)
                       THEN understood # Refused /\ AsMeant(message, understood)
                       ELSE understood = Refused
    BY Zenon DEF PacketsUnderstood
  <2>1. /\ message \in Message /\ packet = Get(Written(message))
        /\ receiver \in Receivers /\ room \in DOMAIN packet
    BY Zenon DEF PacketInv
  <2>2. CASE Loads(SubSeq(packet, 1, room))
    <3>1. PICK d : d = Load(SubSeq(packet, 1, room)) OBVIOUS
    <3>2. understood = Decode(receiver, d) BY <2>2, <3>1, Zenon DEF PacketInv
    <3>3. room = Len(packet) /\ Reads(receiver, message, d, understood)
      BY <2>1, <2>2, <3>1, <3>2, Delivered, Zenon
    <3>4. RightlyRead(message, receiver, understood)
      BY <2>1, <3>3, ReaderIsRight, Zenon
    <3>. QED BY <3>3, <3>4, Zenon DEF RightlyRead
  <2>3. CASE ~Loads(SubSeq(packet, 1, room))
    <3>1. understood = Refused BY <2>3, Zenon DEF PacketInv
    <3>2. room # Len(packet) BY <2>1, <2>3, Delivered, Zenon
    <3>. QED BY <3>1, <3>2, Zenon
  <2>. QED BY <2>2, <2>3
<1>. QED BY <1>1, PacketInvInductive, PTL

-----------------------------------------------------------------------------
(* Damage: the reflected computation keeps different remainders apart.     *)

\* The words of n bits.
Words(n) == {x \in W : \A k \in x : k < n}

\* The CRCs whose polynomial ends in one and that are computed reflected, as
\* the two of the game process are.
Separating(p) ==
  /\ WellFormed(p) /\ p.reflectInput /\ p.reflectOutput /\ p.width >= 8
  /\ 0 \in p.polynomial

LEMMA BitRightApart ==
  ASSUME NEW n \in Nat, n >= 1, NEW q \in Words(n), n - 1 \in q,
         NEW x \in Words(n), NEW y \in Words(n)
  PROVE  /\ BitRight(q, x) \in Words(n)
         /\ x # y => BitRight(q, x) # BitRight(q, y)
<1>1. q \in W /\ x \in W /\ y \in W BY DEF Words
<1>2. /\ BitRight(q, x) \in W
      /\ \A k \in Nat :
           k \in BitRight(q, x) <=> ~(k + 1 \in x <=> 0 \in x /\ k \in q)
  BY <1>1, BitRightMember
<1>3. \A k \in Nat :
        k \in BitRight(q, y) <=> ~(k + 1 \in y <=> 0 \in y /\ k \in q)
  BY <1>1, BitRightMember
<1>4. BitRight(q, x) \in Words(n)
  <2>1. ASSUME NEW k \in BitRight(q, x) PROVE k < n
    <3>1. k \in Nat BY <1>2 DEF W
    <3>2. k + 1 \in x \/ k \in q BY <1>2, <2>1, <3>1
    <3>. QED BY <3>1, <3>2 DEF Words
  <2>. QED BY <1>2, <2>1 DEF Words
<1>5. ASSUME BitRight(q, x) = BitRight(q, y) PROVE x = y
  <2>1. n \notin x /\ n \notin y BY DEF Words
  <2>2. 0 \in x <=> 0 \in y
    <3>1. n - 1 \in Nat /\ (n - 1) + 1 = n OBVIOUS
    <3>. QED BY <1>2, <1>3, <1>5, <2>1, <3>1
  <2>3. \A k \in Nat : k + 1 \in x <=> k + 1 \in y BY <1>2, <1>3, <1>5, <2>2
  <2>4. \A k \in Nat : k \in x <=> k \in y
    <3>1. \A k \in Nat : k # 0 => k - 1 \in Nat /\ (k - 1) + 1 = k OBVIOUS
    <3>. QED BY <2>2, <2>3, <3>1
  <2>. QED BY <1>1, <2>4 DEF W
<1>. QED BY <1>4, <1>5

LEMMA EightRightApart ==
  ASSUME NEW n \in Nat, n >= 1, NEW q \in Words(n), n - 1 \in q,
         NEW x \in Words(n), NEW y \in Words(n)
  PROVE  /\ EightRight(q, x) \in Words(n)
         /\ x # y => EightRight(q, x) # EightRight(q, y)
<1>1. \A a \in Words(n) : BitRight(q, a) \in Words(n) BY BitRightApart
<1>2. \A a, b \in Words(n) : a # b => BitRight(q, a) # BitRight(q, b)
  BY BitRightApart
<1>. QED BY <1>1, <1>2 DEF EightRight, EightTimes

LEMMA XorApart ==
  ASSUME NEW n \in Nat, NEW x \in Words(n), NEW y \in Words(n), NEW z \in Words(n)
  PROVE  /\ Xor(x, z) \in Words(n)
         /\ x # y => Xor(x, z) # Xor(y, z)
         /\ x # y => Xor(z, x) # Xor(z, y)
<1>1. Xor(x, z) \in W BY XorType DEF Words
<1>2. \A k \in Xor(x, z) : k < n BY XorMember DEF Words
<1>3. x # y => Xor(x, z) # Xor(y, z) BY DEF Xor
<1>4. x # y => Xor(z, x) # Xor(z, y) BY DEF Xor
<1>. QED BY <1>1, <1>2, <1>3, <1>4 DEF Words

\* Another remainder or another byte gives another remainder.
LEMMA AddByteApart ==
  ASSUME NEW p, Separating(p),
         NEW x \in Words(p.width), NEW y \in Words(p.width),
         NEW b \in Byte, NEW c \in Byte
  PROVE  /\ AddByte(p, x, b) \in Words(p.width)
         /\ x # y => AddByte(p, x, b) # AddByte(p, y, b)
         /\ b # c => AddByte(p, x, b) # AddByte(p, x, c)
<1>1. PICK n : n = p.width OBVIOUS
<1>2. n \in Nat /\ n >= 8 BY <1>1, WordFacts DEF Separating
<1>3. PICK q : q = Reflect(p.polynomial, p.width) OBVIOUS
<1>4. q \in Words(n) /\ n - 1 \in q
  <2>1. p.polynomial \in W /\ 0 \in p.polynomial BY WordFacts DEF Separating
  <2>2. /\ q \in W
        /\ \A k \in Nat : k \in q <=> k < n /\ (n - 1) - k \in p.polynomial
    BY <1>1, <1>2, <1>3, <2>1, ReflectMember
  <2>3. n - 1 \in Nat /\ (n - 1) - (n - 1) = 0 /\ n - 1 < n BY <1>2
  <2>4. \A k \in q : k < n BY <2>2 DEF W
  <2>. QED BY <2>1, <2>2, <2>3, <2>4 DEF Words
<1>5. b \in Words(n) /\ c \in Words(n)
  <2>1. /\ b \in W /\ \A k \in b : k < 8
        /\ c \in W /\ \A k \in c : k < 8
    BY ByteFacts
  <2>. QED BY <1>2, <2>1 DEF Words, W
<1>6. \A z, d : AddByte(p, z, d) = EightRight(q, Xor(z, d))
  BY <1>3, ReflectedByte DEF Separating
<1>7. x \in Words(n) /\ y \in Words(n) BY <1>1
<1>8. \A z, d \in Words(n) : Xor(z, d) \in Words(n) BY <1>2, XorApart
<1>9. EightRight(q, Xor(x, b)) \in Words(n)
  BY <1>2, <1>4, <1>5, <1>7, <1>8, EightRightApart
<1>10. ASSUME x # y PROVE EightRight(q, Xor(x, b)) # EightRight(q, Xor(y, b))
  <2>1. Xor(x, b) # Xor(y, b) BY <1>2, <1>5, <1>7, <1>10, XorApart
  <2>. QED BY <1>2, <1>4, <1>5, <1>7, <1>8, <2>1, EightRightApart
<1>11. ASSUME b # c PROVE EightRight(q, Xor(x, b)) # EightRight(q, Xor(x, c))
  <2>1. Xor(x, b) # Xor(x, c) BY <1>2, <1>5, <1>7, <1>11, XorApart
  <2>. QED BY <1>2, <1>4, <1>5, <1>7, <1>8, <2>1, EightRightApart
<1>. QED BY <1>1, <1>6, <1>9, <1>10, <1>11

\* Induction up to a number, for a set.
LEMMA Climb ==
  ASSUME NEW N \in Nat, NEW T, 0 \in T, \A n \in 1 .. N : n - 1 \in T => n \in T
  PROVE  \A n \in 0 .. N : n \in T
<1>1. PICK Bad : Bad = {n \in 0 .. N : n \notin T} OBVIOUS
<1>2. ASSUME Bad # {} PROVE FALSE
  <2>1. Bad \in SUBSET Nat BY <1>1
  <2>2. PICK n \in Bad : \A m \in Bad : n <= m BY <1>2, <2>1, LeastNumberExists
  <2>3. n \in 1 .. N /\ n \notin T BY <1>1, <2>2
  <2>4. n - 1 \notin Bad BY <2>1, <2>2, <2>3
  <2>5. n - 1 \in T BY <1>1, <2>3, <2>4
  <2>. QED BY <2>3, <2>5
<1>. QED BY <1>1, <1>2

\* g is what the outer loop has computed after each of the first m bytes.
Loop(p, data, x, m, g) ==
  g = [n \in 0 .. m |-> IF n = 0 THEN EnterLoop(p, x)
                        ELSE UNION {AddByte(p, w, data[n]) : w \in {g[n - 1]}}]

LEMMA LoopRuns ==
  ASSUME NEW p, NEW data, Len(data) \in Nat, NEW x
  PROVE  \E g : /\ g[0] = EnterLoop(p, x)
                /\ \A n \in 1 .. Len(data) : g[n] = AddByte(p, g[n - 1], data[n])
                /\ CalculateRemainder(p, data, x) = LeaveLoop(p, g[Len(data)])
<1>0. \A y, z : UNION {AddByte(p, w, z) : w \in {y}} = AddByte(p, y, z)
  OBVIOUS
<1>1. PICK T : T = {m \in 0 .. Len(data) : \E g : Loop(p, data, x, m, g)}
  OBVIOUS
<1>2. 0 \in T
  <2>1. PICK g : g = [n \in 0 .. 0 |-> EnterLoop(p, x)] OBVIOUS
  <2>2. \A n \in 0 .. 0 : n = 0 OBVIOUS
  <2>3. Loop(p, data, x, 0, g) BY <2>1, <2>2 DEF Loop
  <2>. QED BY <1>1, <2>3
<1>3. ASSUME NEW m \in 1 .. Len(data), m - 1 \in T PROVE m \in T
  <2>1. PICK f : Loop(p, data, x, m - 1, f) BY <1>1, <1>3
  <2>2. PICK g : g = [n \in 0 .. m |-> IF n < m THEN f[n]
                                       ELSE AddByte(p, f[m - 1], data[m])]
    OBVIOUS
  <2>3. \A n \in 0 .. m - 1 : g[n] = f[n] BY <2>2
  <2>4. ASSUME NEW n \in 0 .. m
        PROVE  g[n] = IF n = 0 THEN EnterLoop(p, x)
                      ELSE UNION {AddByte(p, w, data[n]) : w \in {g[n - 1]}}
    <3>1. CASE n = 0 BY <2>1, <2>3, <3>1 DEF Loop
    <3>2. CASE n # 0 /\ n < m
      <4>1. n \in 0 .. m - 1 /\ n - 1 \in 0 .. m - 1 BY <3>2
      <4>2. g[n] = f[n] /\ g[n - 1] = f[n - 1] BY <2>3, <4>1
      <4>3. f[n] = UNION {AddByte(p, w, data[n]) : w \in {f[n - 1]}}
        BY <2>1, <3>2, <4>1 DEF Loop
      <4>. QED BY <3>2, <4>2, <4>3
    <3>3. CASE n = m
      <4>1. g[m] = AddByte(p, f[m - 1], data[m]) BY <2>2
      <4>2. g[m - 1] = f[m - 1] BY <2>3
      <4>3. UNION {AddByte(p, w, data[n]) : w \in {g[n - 1]}}
              = AddByte(p, g[n - 1], data[n])
        BY <1>0
      <4>4. g[n] = AddByte(p, g[n - 1], data[n]) BY <3>3, <4>1, <4>2
      <4>5. n # 0 BY <3>3
      <4>. QED BY <4>3, <4>4, <4>5, Zenon
    <3>. QED BY <3>1, <3>2, <3>3
  <2>5. Loop(p, data, x, m, g)
    <3>1. g = [n \in 0 .. m |-> g[n]] BY <2>2
    <3>2. PICK e : e = [n \in 0 .. m |->
                          IF n = 0 THEN EnterLoop(p, x)
                          ELSE UNION {AddByte(p, w, data[n]) : w \in {g[n - 1]}}]
      OBVIOUS
    <3>3. \A n \in 0 .. m : g[n] = e[n] BY <2>4, <3>2
    <3>4. e = [n \in 0 .. m |-> e[n]] BY <3>2
    <3>5. g = e BY ONLY <3>1, <3>3, <3>4
    <3>. QED BY <3>2, <3>5, Zenon DEF Loop
  <2>. QED BY <1>1, <2>5
<1>4. Len(data) \in T
  <2>1. \A n \in 0 .. Len(data) : n \in T BY <1>2, <1>3, Climb
  <2>. QED BY <2>1
<1>5. PICK g : g = CHOOSE f : Loop(p, data, x, Len(data), f) OBVIOUS
<1>6. Loop(p, data, x, Len(data), g)
  <2>1. \E f : Loop(p, data, x, Len(data), f) BY <1>1, <1>4
  <2>. QED BY <1>5, <2>1, Zenon
<1>7. CalculateRemainder(p, data, x) = LeaveLoop(p, g[Len(data)])
  BY <1>5, Zenon DEF CalculateRemainder, Loop
<1>8. g[0] = EnterLoop(p, x) BY <1>6 DEF Loop
<1>9. ASSUME NEW n \in 1 .. Len(data)
      PROVE  g[n] = AddByte(p, g[n - 1], data[n])
  <2>0. \A j \in 0 .. Len(data) :
          g[j] = IF j = 0 THEN EnterLoop(p, x)
                 ELSE UNION {AddByte(p, w, data[j]) : w \in {g[j - 1]}}
    BY <1>6, Zenon DEF Loop
  <2>1. g[n] = UNION {AddByte(p, w, data[n]) : w \in {g[n - 1]}}
    <3>1. n \in 0 .. Len(data) /\ n # 0 OBVIOUS
    <3>. QED BY <2>0, <3>1, Zenon
  <2>2. UNION {AddByte(p, w, data[n]) : w \in {g[n - 1]}}
          = AddByte(p, g[n - 1], data[n])
    BY <1>0
  <2>. QED BY <2>1, <2>2, Zenon
<1>. QED BY <1>7, <1>8, <1>9

\* Two sequences of bytes that differ at k and nowhere else.
DifferAt(a, b, k) ==
  /\ a \in Seq(Byte) /\ b \in Seq(Byte) /\ Len(a) = Len(b)
  /\ k \in 1 .. Len(a) /\ a[k] # b[k]
  /\ \A j \in 1 .. Len(a) : j # k => a[j] = b[j]

LEMMA RemaindersApart ==
  ASSUME NEW p, Separating(p), NEW a, NEW b, NEW k, DifferAt(a, b, k),
         NEW x \in Words(p.width)
  PROVE  /\ CalculateRemainder(p, a, x) \in Words(p.width)
         /\ CalculateRemainder(p, b, x) \in Words(p.width)
         /\ CalculateRemainder(p, a, x) # CalculateRemainder(p, b, x)
<1>1. PICK N : N = Len(a) OBVIOUS
<1>2. /\ N \in Nat /\ Len(b) = N /\ k \in 1 .. N
      /\ \A n \in 1 .. N : a[n] \in Byte /\ b[n] \in Byte
  BY <1>1, LenProperties, ElementOfSeq DEF DifferAt
<1>3. PICK f : /\ f[0] = EnterLoop(p, x)
               /\ \A n \in 1 .. N : f[n] = AddByte(p, f[n - 1], a[n])
               /\ CalculateRemainder(p, a, x) = LeaveLoop(p, f[N])
  BY <1>1, <1>2, LoopRuns
<1>4. PICK g : /\ g[0] = EnterLoop(p, x)
               /\ \A n \in 1 .. N : g[n] = AddByte(p, g[n - 1], b[n])
               /\ CalculateRemainder(p, b, x) = LeaveLoop(p, g[N])
  BY <1>1, <1>2, LoopRuns
<1>5. \A y : EnterLoop(p, y) = y /\ LeaveLoop(p, y) = y
  BY DEF Separating, EnterLoop, LeaveLoop, Shifted
<1>6. PICK T : T = {n \in 0 .. N : /\ f[n] \in Words(p.width)
                                   /\ g[n] \in Words(p.width)
                                   /\ n < k => f[n] = g[n]
                                   /\ n >= k => f[n] # g[n]}
  OBVIOUS
<1>7. 0 \in T BY <1>2, <1>3, <1>4, <1>5, <1>6
<1>8. ASSUME NEW n \in 1 .. N, n - 1 \in T PROVE n \in T
  <2>1. /\ f[n] = AddByte(p, f[n - 1], a[n]) /\ g[n] = AddByte(p, g[n - 1], b[n])
        /\ a[n] \in Byte /\ b[n] \in Byte
    BY <1>2, <1>3, <1>4
  <2>2. f[n - 1] \in Words(p.width) /\ g[n - 1] \in Words(p.width)
    BY <1>6, <1>8
  <2>3. f[n] \in Words(p.width) /\ g[n] \in Words(p.width)
    BY <2>1, <2>2, AddByteApart
  <2>4. CASE n < k
    <3>1. f[n - 1] = g[n - 1] BY <1>2, <1>6, <1>8, <2>4
    <3>2. a[n] = b[n] BY <1>1, <1>2, <2>4 DEF DifferAt
    <3>. QED BY <1>2, <1>6, <2>1, <2>3, <2>4, <3>1, <3>2
  <2>5. CASE n = k
    <3>1. f[n - 1] = g[n - 1] BY <1>2, <1>6, <1>8, <2>5
    <3>2. a[n] # b[n] BY <2>5 DEF DifferAt
    <3>3. f[n] # g[n] BY <2>1, <2>2, <3>1, <3>2, AddByteApart
    <3>. QED BY <1>2, <1>6, <2>3, <2>5, <3>3
  <2>6. CASE n > k
    <3>1. f[n - 1] # g[n - 1] BY <1>2, <1>6, <1>8, <2>6
    <3>2. a[n] = b[n] BY <1>1, <1>2, <2>6 DEF DifferAt
    <3>3. f[n] # g[n] BY <2>1, <2>2, <3>1, <3>2, AddByteApart
    <3>. QED BY <1>2, <1>6, <2>3, <2>6, <3>3
  <2>. QED BY <1>2, <2>4, <2>5, <2>6
<1>9. N \in T BY <1>2, <1>7, <1>8, Climb
<1>10. /\ f[N] \in Words(p.width) /\ g[N] \in Words(p.width) /\ f[N] # g[N]
  BY <1>2, <1>6, <1>9
<1>. QED BY <1>3, <1>4, <1>5, <1>10

LEMMA CalculateApart ==
  ASSUME NEW p, Separating(p), NEW a, NEW b, NEW k, DifferAt(a, b, k)
  PROVE  /\ Calculate(p, a) \in Words(p.width)
         /\ Calculate(p, b) \in Words(p.width)
         /\ Calculate(p, a) # Calculate(p, b)
<1>1. PICK n : n = p.width OBVIOUS
<1>2. /\ n \in Nat /\ p.initialValue \in Words(n) /\ p.finalXOR \in Words(n)
  BY <1>1, WordFacts DEF Separating, Words
<1>3. PICK x, y : /\ x = CalculateRemainder(p, a, p.initialValue)
                  /\ y = CalculateRemainder(p, b, p.initialValue)
  OBVIOUS
<1>4. x \in Words(n) /\ y \in Words(n) /\ x # y
  BY <1>1, <1>2, <1>3, RemaindersApart
<1>5. \A z \in Words(n) : Low(z, n) = z BY DEF Low, Words
<1>6. ~ReflectRemainder(p) BY DEF Separating, ReflectRemainder
<1>7. /\ Calculate(p, a) = Low(Xor(x, p.finalXOR), n)
      /\ Calculate(p, b) = Low(Xor(y, p.finalXOR), n)
  BY <1>1, <1>3, <1>6 DEF Calculate, Finalize
<1>8. /\ Xor(x, p.finalXOR) \in Words(n) /\ Xor(y, p.finalXOR) \in Words(n)
      /\ Xor(x, p.finalXOR) # Xor(y, p.finalXOR)
  BY <1>2, <1>4, XorApart
<1>. QED BY <1>1, <1>5, <1>7, <1>8

LEMMA WordBound ==
  ASSUME NEW a, NEW b
  PROVE  Word(<<a>>) \subseteq 0 .. 15 /\ Word(<<a, b>>) \subseteq 0 .. 31
<1>1. Len(<<a>>) = 1 /\ Len(<<a, b>>) = 2 OBVIOUS
<1>2. Word(<<a>>) \subseteq 0 .. 15
  <2>1. Word(<<a>>) \subseteq 0 .. 16 * Len(<<a>>) - 1 BY Zenon DEF Word
  <2>. QED BY <1>1, <2>1
<1>3. Word(<<a, b>>) \subseteq 0 .. 31
  <2>1. Word(<<a, b>>) \subseteq 0 .. 16 * Len(<<a, b>>) - 1 BY Zenon DEF Word
  <2>. QED BY <1>1, <2>1
<1>. QED BY <1>2, <1>3

\* The last bit of a word whose last half is odd.
LEMMA OddWord ==
  ASSUME NEW halves, Len(halves) \in Nat, Len(halves) >= 1,
         NEW m \in Nat, m % 2 = 1, halves[Len(halves)] = m
  PROVE  0 \in Word(halves)
<1>1. 0 \in 0 .. 16 * Len(halves) - 1 OBVIOUS
<1>2. 0 \div 16 = 0 /\ 0 % 16 = 0 /\ 2 ^ 0 = 1 OBVIOUS
<1>3. Len(halves) - (0 \div 16) = Len(halves) BY <1>2
<1>4. (m \div 1) % 2 = 1 OBVIOUS
<1>5. (halves[Len(halves) - (0 \div 16)] \div 2 ^ (0 % 16)) % 2 = 1
  BY <1>2, <1>3, <1>4
<1>. QED BY <1>1, <1>5 DEF Word

LEMMA BothSeparating ==
  /\ Separating(CRC_16_ARC) /\ CRC_16_ARC.width = 16
  /\ Separating(CRC_32) /\ CRC_32.width = 32
<1>1. /\ CRC_16_ARC.digits = 16 /\ CRC_16_ARC.width = 16
      /\ CRC_16_ARC.polynomial = Word(<<\h8005>>)
      /\ CRC_16_ARC.initialValue = Word(<<0>>)
      /\ CRC_16_ARC.finalXOR = Word(<<0>>)
      /\ CRC_16_ARC.reflectInput = TRUE /\ CRC_16_ARC.reflectOutput = TRUE
  BY DEF CRC_16_ARC, Parameters
<1>2. /\ CRC_32.digits = 32 /\ CRC_32.width = 32
      /\ CRC_32.polynomial = Word(<<\h04C1, \h1DB7>>)
      /\ CRC_32.initialValue = Word(<<\hFFFF, \hFFFF>>)
      /\ CRC_32.finalXOR = Word(<<\hFFFF, \hFFFF>>)
      /\ CRC_32.reflectInput = TRUE /\ CRC_32.reflectOutput = TRUE
  BY DEF CRC_32, Parameters
<1>3. 0 \in CRC_16_ARC.polynomial
  <2>1. 0 \in Word(<<\h8005>>) BY OddWord
  <2>. QED BY <1>1, <2>1
<1>4. 0 \in CRC_32.polynomial
  <2>1. 0 \in Word(<<\h04C1, \h1DB7>>) BY OddWord
  <2>. QED BY <1>2, <2>1
<1>5. Separating(CRC_16_ARC)
  <2>1. /\ CRC_16_ARC.polynomial \subseteq 0 .. 15
        /\ CRC_16_ARC.initialValue \subseteq 0 .. 15
        /\ CRC_16_ARC.finalXOR \subseteq 0 .. 15
    <3>1. \A a : Word(<<a>>) \subseteq 0 .. 15 BY WordBound
    <3>2. Word(<<\h8005>>) \subseteq 0 .. 15 BY <3>1
    <3>3. Word(<<0>>) \subseteq 0 .. 15 BY <3>1
    <3>. QED BY <1>1, <3>2, <3>3
  <2>2. WellFormed(CRC_16_ARC)
    <3>1. PICK p : p = CRC_16_ARC OBVIOUS
    <3>2. p.digits = 16 /\ p.width = 16 BY <1>1, <3>1
    <3>3. p.reflectInput \in BOOLEAN /\ p.reflectOutput \in BOOLEAN
      <4>1. CRC_16_ARC.reflectInput \in BOOLEAN /\ CRC_16_ARC.reflectOutput \in BOOLEAN
        BY DEF CRC_16_ARC, Parameters
      <4>. QED BY <3>1, <4>1
    <3>4. /\ p.polynomial \in SUBSET (0 .. p.width - 1)
          /\ p.initialValue \in SUBSET (0 .. p.width - 1)
          /\ p.finalXOR \in SUBSET (0 .. p.width - 1)
      <4>1. 0 .. p.width - 1 = 0 .. 15 BY <3>2
      <4>. QED BY <2>1, <3>1, <4>1, Zenon
    <3>5. WellFormed(p) BY <3>2, <3>3, <3>4 DEF WellFormed, CHAR_BIT
    <3>. QED BY <3>1, <3>5
  <2>. QED BY <1>1, <1>3, <2>2 DEF Separating
<1>6. Separating(CRC_32)
  <2>1. /\ CRC_32.polynomial \subseteq 0 .. 31
        /\ CRC_32.initialValue \subseteq 0 .. 31
        /\ CRC_32.finalXOR \subseteq 0 .. 31
    <3>1. \A a, b : Word(<<a, b>>) \subseteq 0 .. 31 BY WordBound
    <3>2. Word(<<\h04C1, \h1DB7>>) \subseteq 0 .. 31 BY <3>1
    <3>3. Word(<<\hFFFF, \hFFFF>>) \subseteq 0 .. 31 BY <3>1
    <3>. QED BY <1>2, <3>2, <3>3
  <2>2. WellFormed(CRC_32)
    <3>1. PICK p : p = CRC_32 OBVIOUS
    <3>2. p.digits = 32 /\ p.width = 32 BY <1>2, <3>1
    <3>3. p.reflectInput \in BOOLEAN /\ p.reflectOutput \in BOOLEAN
      <4>1. CRC_32.reflectInput \in BOOLEAN /\ CRC_32.reflectOutput \in BOOLEAN
        BY DEF CRC_32, Parameters
      <4>. QED BY <3>1, <4>1
    <3>4. /\ p.polynomial \in SUBSET (0 .. p.width - 1)
          /\ p.initialValue \in SUBSET (0 .. p.width - 1)
          /\ p.finalXOR \in SUBSET (0 .. p.width - 1)
      <4>1. 0 .. p.width - 1 = 0 .. 31 BY <3>2
      <4>. QED BY <2>1, <3>1, <4>1, Zenon
    <3>5. WellFormed(p) BY <3>2, <3>3, <3>4 DEF WellFormed, CHAR_BIT
    <3>. QED BY <3>1, <3>5
  <2>. QED BY <1>2, <1>4, <2>2 DEF Separating
<1>. QED BY <1>1, <1>2, <1>5, <1>6

\* Two bytes keep apart words of 16 bits.
LEMMA BytesApart ==
  ASSUME NEW x \in Words(16), NEW y \in Words(16), BytesOf(x, 2) = BytesOf(y, 2)
  PROVE  x = y
<1>1. x \in W /\ y \in W /\ \A k \in Nat : k \in x \/ k \in y => k < 16
  BY DEF Words
<1>2. ASSUME NEW z \in Words(16), NEW k \in Nat, k < 16
      PROVE  k \in z <=> IF k < 8 THEN k \in BytesOf(z, 2)[1]
                                  ELSE k - 8 \in BytesOf(z, 2)[2]
  <2>1. /\ BytesOf(z, 2)[1] = Low(ShiftRight(z, 8 * (1 - 1)), 8)
        /\ BytesOf(z, 2)[2] = Low(ShiftRight(z, 8 * (2 - 1)), 8)
    BY DEF BytesOf, CHAR_BIT
  <2>2. z \in W BY DEF Words
  <2>3. k \in ShiftRight(z, 0) <=> k + 0 \in z BY <2>2, ShiftRightMember
  <2>4. k >= 8 => (k - 8 \in ShiftRight(z, 8) <=> (k - 8) + 8 \in z)
    BY <2>2, ShiftRightMember
  <2>5. 8 * (1 - 1) = 0 /\ 8 * (2 - 1) = 8 OBVIOUS
  <2>6. CASE k < 8 BY <2>1, <2>3, <2>5, <2>6, LowMember
  <2>7. CASE k >= 8
    <3>1. (k - 8) + 8 = k /\ k - 8 < 8 /\ ~(k < 8) BY <1>2, <2>7
    <3>. QED BY <2>1, <2>4, <2>5, <2>7, <3>1, LowMember
  <2>. QED BY <2>6, <2>7
<1>3. \A k \in Nat : k < 16 => (k \in x <=> k \in y) BY <1>2
<1>. QED BY <1>1, <1>3 DEF W

-----------------------------------------------------------------------------
(* Damage: datagrams.                                                      *)

\* The bytes a receiver of player lists passes on to LoadClients.
Accepted(bytes) == Loads(bytes) /\ PayloadCorrectness(Load(bytes))

\* All of the payload has arrived, as DatagramStream waits for it.
Complete(bytes) ==
  HeaderLengthOf(ChecksumIncluded(bytes)) + LengthField(bytes) <= Len(bytes)

\* The bytes that a checksum is computed of, or is.
ProtectedLength(bytes) ==
  HeaderLengthOf(ChecksumIncluded(bytes))
    + IF ChecksumIncluded(bytes) THEN LengthField(bytes) ELSE 0

LEMMA LengthFieldType ==
  ASSUME NEW bytes
  PROVE  LengthField(bytes) \in Nat
<1>1. \A b : ByteNumber(b) \in Nat
  <2>1. /\ 2 ^ 0 \in Nat /\ 2 ^ 1 \in Nat /\ 2 ^ 2 \in Nat /\ 2 ^ 3 \in Nat
        /\ 2 ^ 4 \in Nat /\ 2 ^ 5 \in Nat /\ 2 ^ 6 \in Nat /\ 2 ^ 7 \in Nat
    OBVIOUS
  <2>. QED BY <2>1 DEF ByteNumber
<1>. QED BY <1>1 DEF LengthField

\* A part of two sequences of bytes that differ at k.
LEMMA PartsDiffer ==
  ASSUME NEW a, NEW b, NEW k, DifferAt(a, b, k),
         NEW i0 \in 1 .. Len(a), NEW i1 \in 1 .. Len(a), i0 <= i1 + 1
  PROVE  /\ k \in i0 .. i1 =>
              DifferAt(SubSeq(a, i0, i1), SubSeq(b, i0, i1), k - i0 + 1)
         /\ k \notin i0 .. i1 => SubSeq(a, i0, i1) = SubSeq(b, i0, i1)
<1>1. PICK x, y : x = SubSeq(a, i0, i1) /\ y = SubSeq(b, i0, i1) OBVIOUS
<1>2. PICK N : N = Len(a) OBVIOUS
<1>3. /\ N \in Nat /\ Len(b) = N /\ i0 \in 1 .. N /\ i1 \in 1 .. N
      /\ \A j \in 1 .. N : a[j] \in Byte /\ b[j] \in Byte
      /\ k \in 1 .. N /\ a[k] # b[k] /\ \A j \in 1 .. N : j # k => a[j] = b[j]
  BY <1>2, LenProperties, ElementOfSeq DEF DifferAt
<1>4. \A j \in i0 .. i1 : j \in 1 .. N BY <1>3
<1>5. /\ x \in Seq(Byte) /\ Len(x) = i1 - i0 + 1
      /\ \A j \in 1 .. i1 - i0 + 1 : x[j] = a[i0 + j - 1]
  <2>1. \A j \in i0 .. i1 : a[j] \in Byte BY <1>3, <1>4
  <2>. QED BY <1>1, <1>3, <2>1, SubSeqProperties
<1>6. /\ y \in Seq(Byte) /\ Len(y) = i1 - i0 + 1
      /\ \A j \in 1 .. i1 - i0 + 1 : y[j] = b[i0 + j - 1]
  <2>1. \A j \in i0 .. i1 : b[j] \in Byte BY <1>3, <1>4
  <2>. QED BY <1>1, <1>3, <2>1, SubSeqProperties
<1>7. \A j \in 1 .. i1 - i0 + 1 : i0 + j - 1 \in 1 .. N BY <1>3
<1>8. ASSUME k \in i0 .. i1 PROVE DifferAt(x, y, k - i0 + 1)
  <2>1. k - i0 + 1 \in 1 .. i1 - i0 + 1 /\ i0 + (k - i0 + 1) - 1 = k
    BY <1>3, <1>8
  <2>2. x[k - i0 + 1] # y[k - i0 + 1] BY <1>3, <1>5, <1>6, <2>1
  <2>3. ASSUME NEW j \in 1 .. i1 - i0 + 1, j # k - i0 + 1 PROVE x[j] = y[j]
    <3>1. i0 + j - 1 # k BY <1>3, <1>8, <2>3
    <3>. QED BY <1>3, <1>5, <1>6, <1>7, <3>1
  <2>. QED BY <1>5, <1>6, <2>1, <2>2, <2>3 DEF DifferAt
<1>9. ASSUME k \notin i0 .. i1 PROVE x = y
  <2>1. ASSUME NEW j \in 1 .. i1 - i0 + 1 PROVE x[j] = y[j]
    <3>1. i0 + j - 1 # k /\ i0 + j - 1 \in 1 .. N BY <1>3, <1>9
    <3>. QED BY <1>3, <1>5, <1>6, <3>1
  <2>. QED BY <1>5, <1>6, <2>1
<1>. QED BY <1>1, <1>8, <1>9

\* No two headers that differ in one byte are both correct.
LEMMA HeadersApart ==
  ASSUME NEW a, NEW b, NEW k, DifferAt(a, b, k), Len(a) >= 4,
         HeaderChecksumCorrect(a), HeaderChecksumCorrect(b)
  PROVE  FALSE
<1>1. PICK n : n = Len(a) OBVIOUS
<1>2. n \in Nat /\ n >= 4 /\ Len(b) = n /\ k \in 1 .. n
  BY <1>1, LenProperties DEF DifferAt
<1>3. PICK s, t : s = SubSeq(a, 1, n - 2) /\ t = SubSeq(b, 1, n - 2) OBVIOUS
<1>4. /\ SubSeq(a, n - 1, n) = BytesOf(Calculate(CRC_16_ARC, s), 2)
      /\ SubSeq(b, n - 1, n) = BytesOf(Calculate(CRC_16_ARC, t), 2)
  BY <1>1, <1>2, <1>3 DEF HeaderChecksumCorrect
<1>5. CASE k \in 1 .. n - 2
  <2>1. DifferAt(s, t, k - 1 + 1)
    <3>1. 1 \in 1 .. Len(a) /\ n - 2 \in 1 .. Len(a) /\ 1 <= (n - 2) + 1
      BY <1>1, <1>2
    <3>. QED BY <1>3, <1>5, <3>1, PartsDiffer
  <2>2. PICK x, y : /\ x = Calculate(CRC_16_ARC, s)
                    /\ y = Calculate(CRC_16_ARC, t)
    OBVIOUS
  <2>3. x \in Words(16) /\ y \in Words(16) /\ x # y
    BY <2>1, <2>2, CalculateApart, BothSeparating
  <2>4. SubSeq(a, n - 1, n) = SubSeq(b, n - 1, n)
    <3>1. n - 1 \in 1 .. Len(a) /\ n \in 1 .. Len(a) /\ n - 1 <= n + 1
          /\ k \notin n - 1 .. n
      BY <1>1, <1>2, <1>5
    <3>. QED BY <3>1, PartsDiffer
  <2>5. BytesOf(x, 2) = BytesOf(y, 2) BY <1>4, <2>2, <2>4
  <2>. QED BY <2>3, <2>5, BytesApart
<1>6. CASE k \in n - 1 .. n
  <2>1. s = t
    <3>1. 1 \in 1 .. Len(a) /\ n - 2 \in 1 .. Len(a) /\ 1 <= (n - 2) + 1
          /\ k \notin 1 .. n - 2
      BY <1>1, <1>2, <1>6
    <3>. QED BY <1>3, <3>1, PartsDiffer
  <2>2. PICK u, v : u = SubSeq(a, n - 1, n) /\ v = SubSeq(b, n - 1, n) OBVIOUS
  <2>3. DifferAt(u, v, k - (n - 1) + 1)
    <3>1. n - 1 \in 1 .. Len(a) /\ n \in 1 .. Len(a) /\ n - 1 <= n + 1
      BY <1>1, <1>2
    <3>. QED BY <1>6, <2>2, <3>1, PartsDiffer
  <2>4. u # v BY <2>3 DEF DifferAt
  <2>. QED BY <1>4, <2>1, <2>2, <2>4
<1>. QED BY <1>2, <1>5, <1>6

\* Whatever was sent: a receiver that checks both checksums refuses what
\* arrives with any one of the protected bytes damaged, in one bit or in
\* several (Datagram::Load, PayloadCorrectness).  The flag that says whether
\* there is a checksum of the payload is left out: with it the length of the
\* header changes.
THEOREM OneByteErrorFound ==
  ASSUME NEW sent, NEW arrived, NEW k, DifferAt(sent, arrived, k),
         Accepted(sent), Complete(sent), k <= ProtectedLength(sent),
         ChecksumIncluded(arrived) <=> ChecksumIncluded(sent)
  PROVE  ~Accepted(arrived)
<1>. SUFFICES ASSUME Accepted(arrived) PROVE FALSE
  OBVIOUS
<1>1. PICK n : n = HeaderLengthOf(ChecksumIncluded(sent)) OBVIOUS
<1>2. n \in {12, 16} /\ (n = 16 <=> ChecksumIncluded(sent))
  BY <1>1 DEF HeaderLengthOf, MINIMAL_LENGTH
<1>3. n = HeaderLengthOf(ChecksumIncluded(arrived))
  BY <1>1 DEF HeaderLengthOf
<1>4. PICK N : N = Len(sent) OBVIOUS
<1>5. N \in Nat /\ Len(arrived) = N /\ k \in 1 .. N /\ n <= N
  BY <1>1, <1>4, LenProperties DEF DifferAt, Accepted, Loads
<1>6. /\ HeaderChecksumCorrect(SubSeq(sent, 1, n))
      /\ HeaderChecksumCorrect(SubSeq(arrived, 1, n))
  BY <1>1, <1>3 DEF Accepted, Loads
<1>7. CASE k <= n
  <2>1. PICK a, b : a = SubSeq(sent, 1, n) /\ b = SubSeq(arrived, 1, n) OBVIOUS
  <2>2. DifferAt(a, b, k - 1 + 1)
    <3>1. 1 \in 1 .. Len(sent) /\ n \in 1 .. Len(sent) /\ 1 <= n + 1
          /\ k \in 1 .. n
      BY <1>2, <1>4, <1>5, <1>7
    <3>. QED BY <2>1, <3>1, PartsDiffer
  <2>3. Len(a) = n
    <3>1. \A j \in 1 .. n : sent[j] \in Byte
      <4>1. \A j \in 1 .. n : j \in 1 .. Len(sent) BY <1>2, <1>4, <1>5
      <4>. QED BY <4>1, ElementOfSeq DEF DifferAt
    <3>2. n \in Int /\ 1 \in Int /\ 1 <= n BY <1>2
    <3>. QED BY <2>1, <3>1, <3>2, SubSeqProperties
  <2>4. HeaderChecksumCorrect(a) /\ HeaderChecksumCorrect(b) BY <1>6, <2>1
  <2>5. Len(a) >= 4 BY <1>2, <2>3
  <2>. QED BY <2>2, <2>4, <2>5, HeadersApart
<1>8. CASE k > n
  <2>1. \A j \in 1 .. n : sent[j] = arrived[j]
    BY <1>2, <1>4, <1>5, <1>8 DEF DifferAt
  <2>2. PICK L : L = LengthField(sent) OBVIOUS
  <2>3. L = LengthField(arrived)
    <3>1. /\ sent[5] = arrived[5] /\ sent[6] = arrived[6]
          /\ sent[7] = arrived[7] /\ sent[8] = arrived[8]
      BY <1>2, <2>1
    <3>. QED BY <2>2, <3>1 DEF LengthField
  <2>4. L \in Nat BY <2>2, LengthFieldType
  <2>5. n = 16 /\ k <= n + L
    <3>1. k <= n + IF ChecksumIncluded(sent) THEN L ELSE 0
      BY <1>1, <2>2 DEF ProtectedLength
    <3>2. ChecksumIncluded(sent) BY <1>2, <1>5, <1>8, <3>1
    <3>. QED BY <1>2, <3>1, <3>2
  <2>6. n + L <= N BY <1>1, <1>4, <2>2 DEF Complete
  <2>7. PICK a, b : /\ a = SubSeq(sent, n + 1, n + L)
                    /\ b = SubSeq(arrived, n + 1, n + L)
    OBVIOUS
  <2>8. DifferAt(a, b, k - (n + 1) + 1)
    <3>1. n + 1 \in 1 .. Len(sent) /\ n + L \in 1 .. Len(sent)
          /\ n + 1 <= (n + L) + 1 /\ k \in n + 1 .. n + L
      BY <1>2, <1>4, <1>5, <1>8, <2>4, <2>5, <2>6
    <3>. QED BY <2>7, <3>1, PartsDiffer
  <2>9. Calculate(CRC_32, a) # Calculate(CRC_32, b)
    BY <2>8, CalculateApart, BothSeparating
  <2>10. SubSeq(sent, 9, 12) = SubSeq(arrived, 9, 12)
    <3>1. 9 \in 1 .. Len(sent) /\ 12 \in 1 .. Len(sent) /\ 9 <= 12 + 1
          /\ k \notin 9 .. 12
      BY <1>2, <1>4, <1>5, <1>8
    <3>. QED BY <3>1, PartsDiffer
  <2>11. ChecksumIncluded(sent) /\ ChecksumIncluded(arrived) BY <1>2, <2>5
  <2>12. /\ Calculate(CRC_32, a) = FromBytes(SubSeq(sent, 9, 12))
         /\ Calculate(CRC_32, b) = FromBytes(SubSeq(arrived, 9, 12))
    <3>1. Load(sent).payload = a /\ Load(arrived).payload = b
      BY <1>1, <1>3, <2>2, <2>3, <2>7 DEF Load
    <3>2. /\ Load(sent).payload_checksum = FromBytes(SubSeq(sent, 9, 12))
          /\ Load(arrived).payload_checksum = FromBytes(SubSeq(arrived, 9, 12))
          /\ Load(sent).payload_checksum_included <=> ChecksumIncluded(sent)
          /\ Load(arrived).payload_checksum_included <=> ChecksumIncluded(arrived)
      BY DEF Load
    <3>. QED BY <2>11, <3>1, <3>2 DEF Accepted, PayloadCorrectness
  <2>. QED BY <2>9, <2>10, <2>12
<1>. QED BY <1>2, <1>5, <1>7, <1>8

LEMMA CalculateType ==
  ASSUME NEW p, Separating(p), NEW a \in Seq(Byte)
  PROVE  Calculate(p, a) \in Words(p.width)
<1>1. PICK n : n = p.width OBVIOUS
<1>2. /\ n \in Nat /\ p.initialValue \in Words(n) /\ p.finalXOR \in Words(n)
  BY <1>1, WordFacts DEF Separating, Words
<1>3. PICK N : N = Len(a) OBVIOUS
<1>4. N \in Nat /\ \A k \in 1 .. N : a[k] \in Byte
  BY <1>3, LenProperties, ElementOfSeq
<1>5. PICK f : /\ f[0] = EnterLoop(p, p.initialValue)
               /\ \A k \in 1 .. N : f[k] = AddByte(p, f[k - 1], a[k])
               /\ CalculateRemainder(p, a, p.initialValue) = LeaveLoop(p, f[N])
  BY <1>3, <1>4, LoopRuns
<1>6. \A y : EnterLoop(p, y) = y /\ LeaveLoop(p, y) = y
  BY DEF Separating, EnterLoop, LeaveLoop, Shifted
<1>7. PICK T : T = {k \in 0 .. N : f[k] \in Words(n)} OBVIOUS
<1>8. 0 \in T BY <1>2, <1>4, <1>5, <1>6, <1>7
<1>9. ASSUME NEW k \in 1 .. N, k - 1 \in T PROVE k \in T
  <2>1. f[k - 1] \in Words(p.width) BY <1>1, <1>7, <1>9
  <2>2. AddByte(p, f[k - 1], a[k]) \in Words(p.width) BY <1>4, <2>1, AddByteApart
  <2>. QED BY <1>1, <1>4, <1>5, <1>7, <2>2
<1>10. f[N] \in Words(n)
  <2>1. \A k \in 0 .. N : k \in T BY <1>4, <1>8, <1>9, Climb
  <2>. QED BY <1>4, <1>7, <2>1
<1>11. Calculate(p, a) = Low(Xor(f[N], p.finalXOR), n)
  <2>1. ~ReflectRemainder(p) BY DEF Separating, ReflectRemainder
  <2>. QED BY <1>1, <1>5, <1>6, <2>1 DEF Calculate, Finalize
<1>12. Xor(f[N], p.finalXOR) \in Words(n) BY <1>2, <1>10, XorApart
<1>. QED BY <1>1, <1>11, <1>12 DEF Low, Words

\* Four bytes give back the word of 32 bits they were made of.
LEMMA WordBack ==
  ASSUME NEW x \in Words(32), NEW b, Len(b) = 4, DOMAIN b = 1 .. 4,
         \A k \in 1 .. 4 : b[k] = BytesOf(x, 4)[k]
  PROVE  FromBytes(b) = x
<1>1. x \in W /\ \A k \in x : k \in Nat /\ k < 32 BY DEF Words, W
<1>2. ASSUME NEW j \in 1 .. 4, NEW n, n = 8 * (j - 1)
      PROVE  /\ ShiftLeft(b[j], n) \subseteq x
             /\ \A k \in x : k >= n /\ k < n + 8 => k \in ShiftLeft(b[j], n)
  <2>1. n \in Nat BY <1>2
  <2>2. b[j] = Low(ShiftRight(x, n), 8) BY <1>2 DEF BytesOf, CHAR_BIT
  <2>3. /\ ShiftRight(x, n) \in W
        /\ \A k \in Nat : k \in ShiftRight(x, n) <=> k + n \in x
    BY <1>1, <2>1, ShiftRightMember
  <2>4. b[j] \in W /\ \A k \in Nat : k \in b[j] <=> k + n \in x /\ k < 8
    BY <2>2, <2>3, LowMember, LowType
  <2>5. /\ ShiftLeft(b[j], n) \in W
        /\ \A k \in Nat : k \in ShiftLeft(b[j], n) <=> k >= n /\ k - n \in b[j]
    BY <2>1, <2>4, ShiftLeftMember
  <2>6. ASSUME NEW k \in ShiftLeft(b[j], n) PROVE k \in x
    <3>1. k \in Nat BY <2>5 DEF W
    <3>2. k >= n /\ k - n \in b[j] BY <2>5, <3>1
    <3>3. k - n \in Nat /\ (k - n) + n = k BY <2>1, <3>1, <3>2
    <3>. QED BY <2>4, <3>2, <3>3
  <2>7. ASSUME NEW k \in x, k >= n, k < n + 8 PROVE k \in ShiftLeft(b[j], n)
    <3>1. k \in Nat /\ k - n \in Nat /\ (k - n) + n = k /\ k - n < 8
      BY <1>1, <2>1, <2>7
    <3>2. k - n \in b[j] BY <2>4, <3>1
    <3>. QED BY <2>5, <2>7, <3>1, <3>2
  <2>. QED BY <2>6, <2>7
<1>3. FromBytes(b) = UNION {ShiftLeft(b[j], 8 * (j - 1)) : j \in 1 .. 4}
  BY DEF FromBytes, CHAR_BIT
<1>4. ASSUME NEW k \in x PROVE k \in FromBytes(b)
  <2>1. PICK j \in 1 .. 4 : k >= 8 * (j - 1) /\ k < 8 * (j - 1) + 8
    <3>1. k \in Nat /\ k < 32 BY <1>1
    <3>2. CASE k < 8
      <4>1. 1 \in 1 .. 4 /\ k >= 8 * (1 - 1) /\ k < 8 * (1 - 1) + 8 BY <3>1, <3>2
      <4>. QED BY <4>1
    <3>3. CASE k >= 8 /\ k < 16
      <4>1. 2 \in 1 .. 4 /\ k >= 8 * (2 - 1) /\ k < 8 * (2 - 1) + 8 BY <3>1, <3>3
      <4>. QED BY <4>1
    <3>4. CASE k >= 16 /\ k < 24
      <4>1. 3 \in 1 .. 4 /\ k >= 8 * (3 - 1) /\ k < 8 * (3 - 1) + 8 BY <3>1, <3>4
      <4>. QED BY <4>1
    <3>5. CASE k >= 24
      <4>1. 4 \in 1 .. 4 /\ k >= 8 * (4 - 1) /\ k < 8 * (4 - 1) + 8 BY <3>1, <3>5
      <4>. QED BY <4>1
    <3>. QED BY <3>1, <3>2, <3>3, <3>4, <3>5
  <2>2. k \in ShiftLeft(b[j], 8 * (j - 1)) BY <1>2, <2>1
  <2>. QED BY <1>3, <2>2
<1>5. ASSUME NEW k \in FromBytes(b) PROVE k \in x
  <2>1. PICK j \in 1 .. 4 : k \in ShiftLeft(b[j], 8 * (j - 1)) BY <1>3
  <2>. QED BY <1>2, <2>1
<1>. QED BY <1>4, <1>5

\* Every datagram of the writers is taken by a receiver that checks both
\* checksums, and one that carries a payload checksum is protected whole
\* (Datagram::Get, Load, PayloadCorrectness).
THEOREM SentIsAccepted ==
  ASSUME NEW v \in 0 .. 255, NEW flag \in BOOLEAN, NEW payload \in Seq(Byte),
         Len(payload) + HeaderLengthOf(TRUE) < LENGTH_MODULUS,
         Len(payload) <= FLATBUFFERS_MAX_BUFFER_SIZE,
         NEW bytes, bytes = Get(NewDatagram(v, flag, payload))
  PROVE  /\ Accepted(bytes) /\ Complete(bytes)
         /\ ChecksumIncluded(bytes) <=> flag
         /\ flag => ProtectedLength(bytes) = Len(bytes)
<1>1. Arrives(bytes, v, flag, payload) BY WholeAndPart
<1>2. /\ Loads(bytes) /\ Load(bytes).payload = payload
      /\ ChecksumIncluded(bytes) <=> flag
      /\ HeaderLengthOf(flag) + LengthField(bytes) = Len(bytes)
      /\ Len(bytes) \in Nat /\ DOMAIN bytes = 1 .. Len(bytes)
  BY <1>1, Zenon DEF Arrives
<1>3. HeaderLengthOf(ChecksumIncluded(bytes)) = HeaderLengthOf(flag)
  BY <1>2 DEF HeaderLengthOf
<1>4. Complete(bytes) BY <1>2, <1>3 DEF Complete
<1>5. flag => ProtectedLength(bytes) = Len(bytes)
  BY <1>2, <1>3 DEF ProtectedLength
<1>6. ASSUME ChecksumIncluded(bytes)
      PROVE  Calculate(CRC_32, payload) = FromBytes(SubSeq(bytes, 9, 12))
  <2>1. PICK x : x = Calculate(CRC_32, payload) OBVIOUS
  <2>2. x \in Words(32) BY <2>1, BothSeparating, CalculateType
  <2>3. \A k \in 1 .. 4 : bytes[8 + k] = BytesOf(x, 4)[k]
    BY <1>1, <1>2, <1>6, <2>1, Zenon DEF Arrives
  <2>4. PICK b : b = SubSeq(bytes, 9, 12) OBVIOUS
  <2>5. /\ Len(b) = 4 /\ DOMAIN b = 1 .. 4
        /\ \A k \in 1 .. 4 : b[k] = bytes[8 + k]
    <3>1. b = [k \in 1 .. 4 |-> bytes[9 + k - 1]] BY <2>4
    <3>2. \A k \in 1 .. 4 : 9 + k - 1 = 8 + k OBVIOUS
    <3>3. PICK S : S = {bytes[j] : j \in 9 .. 12} OBVIOUS
    <3>4. \A j \in 9 .. 12 : bytes[j] \in S BY <3>3
    <3>5. b \in Seq(S) /\ Len(b) = 4 BY <2>4, <3>4, SubSeqProperties
    <3>. QED BY <3>1, <3>2, <3>5, LenProperties
  <2>6. FromBytes(b) = x BY <2>2, <2>3, <2>5, WordBack
  <2>. QED BY <2>1, <2>4, <2>6
<1>7. PayloadCorrectness(Load(bytes))
  <2>1. /\ Load(bytes).payload_checksum = FromBytes(SubSeq(bytes, 9, 12))
        /\ Load(bytes).payload_checksum_included <=> ChecksumIncluded(bytes)
    BY DEF Load
  <2>. QED BY <1>2, <1>6, <2>1 DEF PayloadCorrectness
<1>. QED BY <1>2, <1>4, <1>5, <1>7 DEF Accepted

\* One damaged byte of a datagram with a payload checksum, a player list on
\* its way from the main process: it is never loaded, unless it is the byte
\* of the checksum flag and the flag is lost.
THEOREM DamagedDatagramRefused ==
  ASSUME NEW v \in 0 .. 255, NEW payload \in Seq(Byte),
         Len(payload) + HeaderLengthOf(TRUE) < LENGTH_MODULUS,
         Len(payload) <= FLATBUFFERS_MAX_BUFFER_SIZE,
         NEW arrived, NEW k,
         DifferAt(Get(NewDatagram(v, TRUE, payload)), arrived, k),
         ChecksumIncluded(arrived)
  PROVE  ~Accepted(arrived)
<1>1. PICK flag \in BOOLEAN : flag = TRUE OBVIOUS
<1>2. PICK bytes : bytes = Get(NewDatagram(v, flag, payload)) OBVIOUS
<1>3. /\ Accepted(bytes) /\ Complete(bytes) /\ ChecksumIncluded(bytes)
      /\ ProtectedLength(bytes) = Len(bytes)
  BY <1>1, <1>2, SentIsAccepted
<1>4. DifferAt(bytes, arrived, k) BY <1>1, <1>2
<1>5. k <= ProtectedLength(bytes)
  BY <1>3, <1>4, LenProperties DEF DifferAt
<1>. QED BY <1>3, <1>4, <1>5, OneByteErrorFound

-----------------------------------------------------------------------------
(* A player list on its way from the main process to LoadClients: the       *)
(* stream of datagrams it is in.                                           *)

SP == INSTANCE DatagramStream_proofs WITH
  LOWER         <- BEGIN_SEQUENCE[1],
  UPPER         <- BEGIN_SEQUENCE[2],
  HEADER_SHORT  <- HeaderLengthOf(FALSE),
  HEADER_LONG   <- HeaderLengthOf(TRUE),
  IsLong        <- ChecksumIncluded,
  PayloadLength <- LengthField,
  ChecksumOk    <- HeaderChecksumCorrect,
  Chunk         <- Seq(Byte) \ {<< >>}

LEMMA HeaderLengths == HeaderLengthOf(FALSE) = 12 /\ HeaderLengthOf(TRUE) = 16
  BY DEF HeaderLengthOf, MINIMAL_LENGTH

\* A word in memory is bytes.
LEMMA WordInBytes ==
  ASSUME NEW word \in W, NEW n \in Nat
  PROVE  BytesOf(word, n) \in Seq(Byte) /\ Len(BytesOf(word, n)) = n
<1>1. \A j \in 1 .. n : BytesOf(word, n)[j] \in Byte BY ByteOfWord
<1>. QED BY <1>1, SequenceOfBytes

LEMMA BeginSequence ==
  /\ BEGIN_SEQUENCE \in Seq(Byte) /\ Len(BEGIN_SEQUENCE) = 2
  /\ BEGIN_SEQUENCE[1] \in Byte /\ BEGIN_SEQUENCE[2] \in Byte
<1>1. Word(<<\hABDA>>) \in W
  <2>1. PICK x : x = \hABDA OBVIOUS
  <2>2. Word(<<x>>) \subseteq 0 .. 15 BY WordBound
  <2>3. Word(<<x>>) \subseteq Nat BY <2>2
  <2>. QED BY <2>1, <2>3 DEF W
<1>2. BEGIN_SEQUENCE \in Seq(Byte) /\ Len(BEGIN_SEQUENCE) = 2
  <2>1. PICK x : x = Word(<<\hABDA>>) OBVIOUS
  <2>2. x \in W /\ 2 \in Nat BY <1>1, <2>1
  <2>3. BytesOf(x, 2) \in Seq(Byte) /\ Len(BytesOf(x, 2)) = 2 BY <2>2, WordInBytes
  <2>. QED BY <2>1, <2>3 DEF BEGIN_SEQUENCE
<1>. QED BY <1>2, ElementOfSeq

\* The stream of the main process is one that the theorems on
\* DatagramStream are about.
LEMMA HeaderFacts ==
  /\ BEGIN_SEQUENCE[1] \in Byte /\ BEGIN_SEQUENCE[2] \in Byte
  /\ HeaderLengthOf(FALSE) \in Nat /\ HeaderLengthOf(TRUE) \in Nat
  /\ 2 <= HeaderLengthOf(FALSE) /\ HeaderLengthOf(FALSE) <= HeaderLengthOf(TRUE)
<1>1. PICK a, b : a = HeaderLengthOf(FALSE) /\ b = HeaderLengthOf(TRUE) OBVIOUS
<1>2. a = 12 /\ b = 16 BY <1>1, HeaderLengths, Zenon
<1>3. a \in Nat /\ b \in Nat /\ 2 <= a /\ a <= b BY <1>2
<1>. QED BY <1>1, <1>3, BeginSequence, Zenon

LEMMA FieldFacts ==
  \A h \in [1 .. HeaderLengthOf(FALSE) -> Byte] :
    ChecksumIncluded(h) \in BOOLEAN /\ LengthField(h) \in Nat
  BY LengthFieldType DEF ChecksumIncluded

LEMMA ReadFacts ==
  Seq(Byte) \ {<< >>} \subseteq Seq(Byte) \ {<< >>} /\ MaxBytes \in Nat
  BY LinkAssumption

-----------------------------------------------------------------------------

\* The datagrams in a stream of bytes.
FoundIn(bytes) == SP!Parse(bytes)[1]

WholeDatagram(m) ==
  /\ m \in Seq(Byte) /\ Len(m) >= 12 /\ Len(m) >= SP!HeaderLength(m)
  /\ SP!HeaderCorrect(m, SP!HeaderLength(m))
  /\ Len(m) = SP!HeaderLength(m) + SP!HeaderPayloadLength(m)

LEMMA DatagramFound ==
  ASSUME NEW m, WholeDatagram(m), NEW more \in Seq(Byte)
  PROVE  FoundIn(m \o more) = <<m>> \o FoundIn(more)
<1>1. /\ m \in Seq(Byte) /\ Len(m) >= HeaderLengthOf(FALSE)
      /\ Len(m) >= SP!HeaderLength(m)
      /\ SP!HeaderCorrect(m, SP!HeaderLength(m))
      /\ Len(m) = SP!HeaderLength(m) + SP!HeaderPayloadLength(m)
  BY HeaderLengths DEF WholeDatagram
<1>2. SP!Parse(m \o more)[1] = <<m>> \o SP!Parse(more)[1]
  BY <1>1, SP!DatagramTaken, HeaderFacts, FieldFacts, ReadFacts
<1>. QED BY <1>2 DEF FoundIn

LEMMA NoHeaderPassed ==
  ASSUME NEW g \in Seq(Byte), NEW more \in Seq(Byte), Len(more) >= 16,
         \A m \in 1 .. Len(g) : ~SP!HeaderAt(g \o more, m)
  PROVE  FoundIn(g \o more) = FoundIn(more)
<1>1. Len(more) >= HeaderLengthOf(TRUE) BY HeaderLengths
<1>2. SP!Parse(g \o more)[1] = SP!Parse(more)[1]
  BY <1>1, SP!BytesPassed, HeaderFacts, FieldFacts, ReadFacts
<1>. QED BY <1>2 DEF FoundIn

LEMMA NoHeaderFound ==
  ASSUME NEW g \in Seq(Byte), \A m \in 1 .. Len(g) : ~SP!HeaderAt(g, m)
  PROVE  FoundIn(g) = << >>
  BY SP!NothingFound, HeaderFacts, FieldFacts, ReadFacts DEF FoundIn

Noise(g) ==
  \A n \in 1 .. Len(g) :
    g[n] = BEGIN_SEQUENCE[1] => n < Len(g) /\ g[n + 1] # BEGIN_SEQUENCE[2]

LEMMA NoiseSkipped ==
  ASSUME NEW g \in Seq(Byte), Noise(g), NEW more \in Seq(Byte)
  PROVE  FoundIn(g \o more) = FoundIn(more)
<1>1. SP!Noise(g) BY DEF Noise, SP!Noise
<1>2. SP!Parse(g \o more)[1] = SP!Parse(more)[1]
  BY <1>1, SP!NoisePassed, HeaderFacts, FieldFacts, ReadFacts
<1>. QED BY <1>2 DEF FoundIn

LEMMA FoundType ==
  ASSUME NEW bytes \in Seq(Byte)
  PROVE  FoundIn(bytes) \in Seq(Seq(Byte))
<1>1. 1 \in 1 .. Len(bytes) + 1 BY LenProperties
<1>2. SP!Parse(bytes)[1] \in Seq(Seq(Byte))
  BY <1>1, SP!ParseType, HeaderFacts, FieldFacts, ReadFacts
<1>. QED BY <1>2 DEF FoundIn

LEMMA NothingInNothing == FoundIn(<< >>) = << >>
<1>1. << >> \in Seq(Byte) /\ \A m \in 1 .. Len(<< >>) : ~SP!HeaderAt(<< >>, m)
  BY EmptySeq
<1>. QED BY <1>1, NoHeaderFound

-----------------------------------------------------------------------------
(* A player list on its way into a table and back.                         *)

LEMMA VehicleBack ==
  ASSUME NEW vehicle
  PROVE  FVehicle(CreateFVehicle(vehicle)) = [vehicleType |-> vehicle]
<1>1. GetField(CreateFVehicle(vehicle), "vehicleType", 0) = vehicle
  BY OneField DEF CreateFVehicle, FVehicleType
<1>. QED BY <1>1 DEF FVehicle

LEMMA ClientBack ==
  ASSUME NEW name, NEW id, NEW ip, NEW port, NEW vehicle
  PROVE  FClient(CreateFClient(name, id, ip, port, CreateFVehicle(vehicle)))
           = [name |-> name, id |-> id, ipAddress |-> ip, port |-> port,
              vehicle |-> [vehicleType |-> vehicle]]
<1>1. PICK v : v = CreateFVehicle(vehicle) OBVIOUS
<1>2. PICK t1 : t1 = AddOffset(Empty, "vehicle", v) OBVIOUS
<1>3. PICK t2 : t2 = AddElement(t1, "port", port, 0) OBVIOUS
<1>4. PICK t3 : t3 = AddOffset(t2, "ipAddress", ip) OBVIOUS
<1>5. PICK t4 : t4 = AddElement(t3, "id", id, 0) OBVIOUS
<1>6. PICK t5 : t5 = AddOffset(t4, "name", name) OBVIOUS
<1>7. CreateFClient(name, id, ip, port, v) = t5
  BY <1>2, <1>3, <1>4, <1>5, <1>6 DEF CreateFClient
<1>8. AddedChild(Empty, t1, "vehicle", v)
  BY <1>2, EmptyTable, AddedOffset
<1>9. DOMAIN t1 = {"vehicle"} BY <1>8, EmptyTable DEF AddedChild
<1>10. Added(t1, t2, "port", port, 0) BY <1>3, <1>9, AddedElement
<1>11. DOMAIN t2 \subseteq {"vehicle", "port"} /\ "vehicle" \in DOMAIN t2
  BY <1>9, <1>10 DEF Added
<1>12. AddedChild(t2, t3, "ipAddress", ip) BY <1>4, <1>11, AddedOffset
<1>13. /\ DOMAIN t3 \subseteq {"vehicle", "port", "ipAddress"}
       /\ "vehicle" \in DOMAIN t3 /\ "ipAddress" \in DOMAIN t3
  BY <1>11, <1>12 DEF AddedChild
<1>14. Added(t3, t4, "id", id, 0) BY <1>5, <1>13, AddedElement
<1>15. /\ DOMAIN t4 \subseteq {"vehicle", "port", "ipAddress", "id"}
       /\ "vehicle" \in DOMAIN t4 /\ "ipAddress" \in DOMAIN t4
  BY <1>13, <1>14 DEF Added
<1>16. AddedChild(t4, t5, "name", name) BY <1>6, <1>15, AddedOffset
<1>17. GetPointer(t5, "name") = name BY <1>16 DEF AddedChild
<1>18. GetField(t5, "id", 0) = id BY <1>14, <1>16 DEF Added, AddedChild
<1>19. GetPointer(t5, "ipAddress") = ip
  BY <1>12, <1>13, <1>14, <1>15, <1>16 DEF Added, AddedChild
<1>20. GetField(t5, "port", 0) = port
  BY <1>10, <1>12, <1>14, <1>16 DEF Added, AddedChild
<1>21. GetPointer(t5, "vehicle") = v
  BY <1>8, <1>9, <1>10, <1>11, <1>12, <1>13, <1>14, <1>15, <1>16
     DEF Added, AddedChild
<1>22. FVehicle(v) = [vehicleType |-> vehicle] BY <1>1, VehicleBack
<1>. QED BY <1>1, <1>7, <1>17, <1>18, <1>19, <1>20, <1>21, <1>22 DEF FClient

\* A team of a list, as its table and as it is read back.
TeamSent(t) ==
  CreateFTeam([k \in DOMAIN t |->
    CreateFClient(t[k].name, t[k].id, t[k].ip, t[k].port,
                  CreateFVehicle(t[k].vehicle))])
TeamRead(t) ==
  [k \in DOMAIN t |->
     [name |-> t[k].name, id |-> t[k].id, ipAddress |-> t[k].ip,
      port |-> t[k].port, vehicle |-> [vehicleType |-> t[k].vehicle]]]

LEMMA TeamBack ==
  ASSUME NEW t
  PROVE  FTeam(TeamSent(t)) = [clients |-> TeamRead(t)]
<1>1. PICK cs : cs = [k \in DOMAIN t |->
                  CreateFClient(t[k].name, t[k].id, t[k].ip, t[k].port,
                                CreateFVehicle(t[k].vehicle))]
  OBVIOUS
<1>2. TeamSent(t) = AddOffset(Empty, "clients", cs)
  BY <1>1 DEF TeamSent, CreateFTeam
<1>3. AddedChild(Empty, TeamSent(t), "clients", cs)
  BY <1>2, EmptyTable, AddedOffset
<1>4. GetPointer(TeamSent(t), "clients") = cs BY <1>3 DEF AddedChild
<1>5. DOMAIN cs = DOMAIN t BY <1>1
<1>6. \A k \in DOMAIN t : FClient(cs[k])
         = [name |-> t[k].name, id |-> t[k].id, ipAddress |-> t[k].ip,
            port |-> t[k].port, vehicle |-> [vehicleType |-> t[k].vehicle]]
  <2> TAKE k \in DOMAIN t
  <2>1. cs[k] = CreateFClient(t[k].name, t[k].id, t[k].ip, t[k].port,
                              CreateFVehicle(t[k].vehicle))
    BY <1>1
  <2>. QED BY <2>1, ClientBack
<1>7. [k \in DOMAIN cs |-> FClient(cs[k])] = TeamRead(t)
  BY <1>5, <1>6 DEF TeamRead
<1>. QED BY <1>4, <1>7 DEF FTeam

LEMMA ListBack ==
  ASSUME NEW list, NEW game, game = FGame(PlayerListTable(list))
  PROVE  game.teams = [k \in DOMAIN list.teams |-> [clients |-> TeamRead(list.teams[k])]]
<1>1. PICK teams : teams = [k \in DOMAIN list.teams |-> TeamSent(list.teams[k])]
  OBVIOUS
<1>2. PICK t : t = PlayerListTable(list) OBVIOUS
<1>3. t = AddElement(AddOffset(Empty, "teams", teams), "id", 55555, 0)
  BY <1>1, <1>2 DEF PlayerListTable, CreateFGame, TeamSent
<1>4. GetPointer(t, "teams") = teams BY <1>3, ChildAndNumber
<1>5. game.teams = [k \in DOMAIN teams |-> FTeam(teams[k])]
  BY <1>2, <1>4 DEF FGame
<1>6. DOMAIN teams = DOMAIN list.teams
      /\ \A k \in DOMAIN list.teams :
           FTeam(teams[k]) = [clients |-> TeamRead(list.teams[k])]
  BY <1>1, TeamBack
<1>. QED BY <1>5, <1>6

\* What LoadClients makes of the table is what the list means.
LEMMA ListRead ==
  ASSUME NEW list, IsList(list.teams),
         NEW game, game = FGame(PlayerListTable(list))
  PROVE  /\ Len(game.teams) = Len(list.teams) /\ Len(list.teams) \in Nat
         /\ Len(list.teams) >= 2 => ClientsIn(game) = Meant(list)
<1>1. game.teams = [k \in DOMAIN list.teams |-> [clients |-> TeamRead(list.teams[k])]]
  BY ListBack
<1>2. Len(list.teams) \in Nat /\ DOMAIN list.teams = 1 .. Len(list.teams)
  BY LenProperties DEF IsList
<1>3. Len(game.teams) = Len(list.teams)
  BY <1>1, <1>2
<1>4. ASSUME Len(list.teams) >= 2 PROVE ClientsIn(game) = Meant(list)
  <2>1. 1 \in DOMAIN list.teams /\ 2 \in DOMAIN list.teams BY <1>2, <1>4
  <2>2. /\ game.teams[1].clients = TeamRead(list.teams[1])
        /\ game.teams[2].clients = TeamRead(list.teams[2])
    BY <1>1, <2>1
  <2>3. PICK a, b : a = list.teams[1] /\ b = list.teams[2] OBVIOUS
  <2>4. PICK r, s : r = TeamRead(a) /\ s = TeamRead(b) OBVIOUS
  <2>5. /\ DOMAIN r = DOMAIN a /\ DOMAIN s = DOMAIN b
        /\ \A k \in DOMAIN a :
             r[k] = [name |-> a[k].name, id |-> a[k].id, ipAddress |-> a[k].ip,
                     port |-> a[k].port, vehicle |-> [vehicleType |-> a[k].vehicle]]
        /\ \A k \in DOMAIN b :
             s[k] = [name |-> b[k].name, id |-> b[k].id, ipAddress |-> b[k].ip,
                     port |-> b[k].port, vehicle |-> [vehicleType |-> b[k].vehicle]]
    BY <2>4 DEF TeamRead
  <2>6. [k \in DOMAIN r |->
           [name |-> r[k].name, id |-> r[k].id,
            vehicle |-> VehicleTypeOf(r[k].vehicle.vehicleType),
            ip |-> r[k].ipAddress, port |-> r[k].port, is_red |-> 1 = 1]]
        = [k \in DOMAIN a |->
             [name |-> a[k].name, id |-> a[k].id,
              vehicle |-> VehicleTypeOf(a[k].vehicle),
              ip |-> a[k].ip, port |-> a[k].port, is_red |-> 1 = 1]]
    BY <2>5
  <2>7. [k \in DOMAIN s |->
           [name |-> s[k].name, id |-> s[k].id,
            vehicle |-> VehicleTypeOf(s[k].vehicle.vehicleType),
            ip |-> s[k].ipAddress, port |-> s[k].port, is_red |-> 2 = 1]]
        = [k \in DOMAIN b |->
             [name |-> b[k].name, id |-> b[k].id,
              vehicle |-> VehicleTypeOf(b[k].vehicle),
              ip |-> b[k].ip, port |-> b[k].port, is_red |-> 2 = 1]]
    BY <2>5
  <2>. QED BY <2>2, <2>3, <2>4, <2>6, <2>7, ZenonT(60) DEF ClientsIn, Meant
<1>. QED BY <1>2, <1>3, <1>4

-----------------------------------------------------------------------------
(* The datagrams of player lists.                                          *)

LEMMA DatagramParts ==
  ASSUME NEW v, NEW included, NEW payload,
         NEW d, d = NewDatagram(v, included, payload)
  PROVE  /\ d.version = SetVersion(v) /\ d.payload = payload
         /\ d.payload_checksum_included = included
  BY DEF NewDatagram

LEMMA DatagramBytes ==
  ASSUME NEW v \in 0 .. 255, NEW payload \in Seq(Byte),
         NEW d, d.version = SetVersion(v), d.payload = payload,
         d.payload_checksum_included
  PROVE  Get(d) \in Seq(Byte)
<1>3. PICK a : a = BEGIN_SEQUENCE OBVIOUS
<1>4. PICK w : w = BytesOf(SetVersion(v), 2) OBVIOUS
<1>5. PICK f : f = [w EXCEPT ![2] = @ \cup {FLAG}] OBVIOUS
<1>6. PICK l : l = BytesOf(WordOf(Len(payload)), 4) OBVIOUS
<1>7. PICK s : s = BytesOf(Calculate(CRC_32, payload), 4) OBVIOUS
<1>8. PICK z : z = <<{}, {}>> OBVIOUS
<1>9. PICK h : h = a \o f \o l \o s \o z OBVIOUS
<1>10. PICK c : c = BytesOf(Calculate(CRC_16_ARC, h), 2) OBVIOUS
<1>11. Get(d) = h \o c \o payload
  BY <1>3, <1>4, <1>5, <1>6, <1>7, <1>8, <1>9, <1>10 DEF Get
<1>12. a \in Seq(Byte) BY <1>3, BeginSequence
<1>13. f \in Seq(Byte)
  <2>1. SetVersion(v) \in W
    <3>1. WordOf(v) \subseteq 0 .. 30 BY Zenon DEF WordOf
    <3>2. PICK x : x = WordOf(v) OBVIOUS
    <3>3. x \subseteq 0 .. 30 BY <3>1, <3>2, Zenon
    <3>4. x \in W BY <3>3 DEF W
    <3>5. Low(x, 15) \in W BY <3>4, LowType
    <3>. QED BY <3>2, <3>5, Zenon DEF SetVersion
  <2>2. w[1] \in Byte /\ w[2] \in Byte
    <3>1. PICK x : x = SetVersion(v) OBVIOUS
    <3>2. x \in W BY <2>1, <3>1
    <3>3. \A j \in 1 .. 2 : BytesOf(x, 2)[j] \in Byte BY <3>2, ByteOfWord
    <3>4. w = BytesOf(x, 2) BY <1>4, <3>1, Zenon
    <3>. QED BY <3>3, <3>4
  <2>3. w[2] \cup {FLAG} \in Byte BY <2>2 DEF Byte, FLAG, CHAR_BIT
  <2>4. w \in [1 .. 2 -> Byte]
    <3>1. w = [j \in 1 .. 2 |-> w[j]] BY <1>4 DEF BytesOf
    <3>. QED BY <2>2, <3>1
  <2>5. f \in [1 .. 2 -> Byte] BY <1>5, <2>3, <2>4
  <2>. QED BY <2>5, PairIsSequence, Zenon
<1>14. l \in Seq(Byte)
  <2>1. WordOf(Len(payload)) \subseteq 0 .. 30 BY Zenon DEF WordOf
  <2>2. PICK x : x = WordOf(Len(payload)) OBVIOUS
  <2>3. x \subseteq 0 .. 30 BY <2>1, <2>2, Zenon
  <2>4. x \in W BY <2>3 DEF W
  <2>. QED BY <1>6, <2>2, <2>4, WordInBytes
<1>15. s \in Seq(Byte)
  <2>1. PICK x : x = Calculate(CRC_32, payload) OBVIOUS
  <2>2. x \in W BY <2>1, BothSeparating, CalculateType DEF Words
  <2>. QED BY <1>7, <2>1, <2>2, WordInBytes
<1>16. z \in Seq(Byte)
  <2>1. {} \in Byte BY DEF Byte
  <2>. QED BY <1>8, <2>1
<1>17. h \in Seq(Byte)
  BY <1>9, <1>12, <1>13, <1>14, <1>15, <1>16, HeaderLayout, SMTT(60)
<1>18. c \in Seq(Byte)
  <2>1. PICK x : x = Calculate(CRC_16_ARC, h) OBVIOUS
  <2>2. x \in W BY <1>17, <2>1, BothSeparating, CalculateType DEF Words
  <2>. QED BY <1>10, <2>1, <2>2, WordInBytes
<1>19. PICK g : g = h \o c \o payload OBVIOUS
<1>20. g \in Seq(Byte) BY <1>17, <1>18, <1>19, ThreePieces
<1>. QED BY <1>11, <1>19, <1>20

\* What DatagramStream reads of a header.
LEMMA StreamReads ==
  ASSUME NEW m \in Seq(Byte), Len(m) >= 12
  PROVE  /\ SP!HeaderLength(m) = IF ChecksumIncluded(m) THEN 16 ELSE 12
         /\ SP!HeaderPayloadLength(m) = LengthField(m)
<1>1. PICK n, h : n = HeaderLengthOf(FALSE) /\ h = SubSeq(m, 1, n) OBVIOUS
<1>2. n = 12 BY <1>1, HeaderLengths, Zenon
<1>3. Len(m) \in Nat BY LenProperties
<1>4. \A k \in 1 .. 12 : h[k] = m[k]
  <2>1. h = [k \in 1 .. 12 |-> m[1 + k - 1]]
    <3>1. h = SubSeq(m, 1, n) BY <1>1, Zenon
    <3>. QED BY <1>2, <3>1
  <2>2. \A k \in 1 .. 12 : 1 + k - 1 = k OBVIOUS
  <2>. QED BY <2>1, <2>2
<1>5. h[4] = m[4] /\ h[5] = m[5] /\ h[6] = m[6] /\ h[7] = m[7] /\ h[8] = m[8]
  BY <1>4
<1>6. ChecksumIncluded(h) <=> ChecksumIncluded(m) BY <1>5 DEF ChecksumIncluded
<1>7. LengthField(h) = LengthField(m) BY <1>5 DEF LengthField
<1>8. SP!HeaderPayloadLength(m) = LengthField(h)
  BY <1>1, Zenon DEF SP!HeaderPayloadLength
<1>9. SP!Flagged(m) <=> ChecksumIncluded(h) BY <1>1, Zenon DEF SP!Flagged
<1>10. SP!HeaderLength(m)
         = IF SP!Flagged(m) THEN HeaderLengthOf(TRUE) ELSE HeaderLengthOf(FALSE)
  BY Zenon DEF SP!HeaderLength
<1>11. SP!HeaderLength(m) = IF SP!Flagged(m) THEN 16 ELSE 12
  BY <1>10, HeaderLengths, Zenon
<1>. QED BY <1>6, <1>7, <1>8, <1>9, <1>11

\* The header that Load accepts is the one the stream accepts.
LEMMA LoadsHeader ==
  ASSUME NEW m \in Seq(Byte), Len(m) >= 12,
         NEW n, n = SP!HeaderLength(m), Len(m) >= n
  PROVE  SP!HeaderCorrect(m, n) <=>
           /\ SubSeq(m, 1, 2) = BEGIN_SEQUENCE
           /\ HeaderChecksumCorrect(SubSeq(m, 1, n))
<1>1. PICK a, b : a = BEGIN_SEQUENCE /\ b = SubSeq(m, 1, 2) OBVIOUS
<1>2. a \in Seq(Byte) /\ Len(a) = 2 BY <1>1, BeginSequence
<1>3. Len(m) \in Nat /\ \A k \in 1 .. Len(m) : m[k] \in Byte
  BY LenProperties, ElementOfSeq
<1>4. b \in Seq(Byte) /\ Len(b) = 2 /\ b[1] = m[1] /\ b[2] = m[2]
  <2>1. b = [k \in 1 .. 2 |-> m[1 + k - 1]] BY <1>1
  <2>2. \A k \in 1 .. 2 : b[k] = m[k]
    <3>1. \A k \in 1 .. 2 : 1 + k - 1 = k OBVIOUS
    <3>. QED BY <2>1, <3>1
  <2>3. \A k \in 1 .. 2 : m[k] \in Byte BY <1>3
  <2>4. b \in [1 .. 2 -> Byte] BY <2>1, <2>2, <2>3
  <2>5. b \in Seq(Byte) /\ Len(b) = 2 BY <2>4, PairIsSequence, Zenon
  <2>. QED BY <2>2, <2>5
<1>5. b = a <=> (m[1] = a[1] /\ m[2] = a[2])
  <2>1. ASSUME m[1] = a[1], m[2] = a[2] PROVE b = a
    <3>1. \A k \in 1 .. Len(b) : b[k] = a[k]
      <4>1. \A k \in 1 .. Len(b) : k = 1 \/ k = 2 BY <1>4
      <4>. QED BY <1>4, <2>1, <4>1
    <3>. QED BY <1>2, <1>4, <3>1, SeqEqual
  <2>. QED BY <1>4, <2>1
<1>. QED BY <1>1, <1>5 DEF SP!HeaderCorrect, SP!BeginsDatagram

LEMMA ListFacts ==
  ASSUME NEW list \in PlayerList, NEW payload,
         payload = Serialize(PlayerListTable(list))
  PROVE  /\ list.version \in 0 .. 255 /\ IsList(list.teams)
         /\ PlayerListTable(list) \in Tables
         /\ payload \in Seq(Byte)
         /\ Len(payload) + HeaderLengthOf(TRUE) < LENGTH_MODULUS
         /\ Len(payload) <= FLATBUFFERS_MAX_BUFFER_SIZE
         /\ Datagrams[list] = Get(NewDatagram(list.version, TRUE, payload))
<1>1. Datagrams[list] = Get(NewDatagram(list.version, TRUE, payload))
  BY DEF Datagrams, MockPlayerListDatagram
<1>. QED BY <1>1, PlayerListAssumption

\* Each is a datagram that the stream finds.
LEMMA ListIsWhole ==
  ASSUME NEW list \in PlayerList
  PROVE  /\ WholeDatagram(Datagrams[list]) /\ Len(Datagrams[list]) >= 16
         /\ ChecksumIncluded(Datagrams[list])
<1>1. PICK payload : payload = Serialize(PlayerListTable(list)) OBVIOUS
<1>7. PICK flag \in BOOLEAN : flag = TRUE OBVIOUS
<1>2. PICK d : d = NewDatagram(list.version, flag, payload) OBVIOUS
<1>3. PICK m : m = Datagrams[list] OBVIOUS
<1>4. m = Get(d) BY <1>1, <1>2, <1>3, <1>7, ListFacts
<1>5. list.version \in 0 .. 255 /\ payload \in Seq(Byte) BY <1>1, ListFacts
<1>6. m \in Seq(Byte)
  <2>1. /\ d.version = SetVersion(list.version) /\ d.payload = payload
        /\ d.payload_checksum_included = flag
    BY <1>2, DatagramParts
  <2>2. d.payload_checksum_included BY <1>7, <2>1
  <2>. QED BY <1>4, <1>5, <2>1, <2>2, DatagramBytes
<1>8. m = Get(NewDatagram(list.version, flag, payload))
  BY <1>2, <1>4
<1>9. Arrives(m, list.version, flag, payload)
  BY <1>1, <1>5, <1>8, ListFacts, WholeAndPart
<1>10. /\ Loads(m) /\ ChecksumIncluded(m)
       /\ HeaderLengthOf(flag) + LengthField(m) = Len(m) /\ Len(m) \in Nat
  BY <1>7, <1>9, Zenon DEF Arrives
<1>11. HeaderLengthOf(flag) = 16 BY <1>7, HeaderLengths, Zenon
<1>12. LengthField(m) \in Nat BY LengthFieldType
<1>13. Len(m) >= 16 BY <1>10, <1>11, <1>12
<1>14. SP!HeaderLength(m) = 16 /\ SP!HeaderPayloadLength(m) = LengthField(m)
  BY <1>6, <1>10, <1>13, StreamReads
<1>15. SubSeq(m, 1, 2) = BEGIN_SEQUENCE
       /\ HeaderChecksumCorrect(SubSeq(m, 1, HeaderLengthOf(ChecksumIncluded(m))))
  BY <1>10, Zenon DEF Loads
<1>16. HeaderLengthOf(ChecksumIncluded(m)) = 16
  BY <1>10 DEF HeaderLengthOf, MINIMAL_LENGTH
<1>17. SP!HeaderCorrect(m, SP!HeaderLength(m))
  BY <1>6, <1>13, <1>14, <1>15, <1>16, LoadsHeader
<1>. QED BY <1>3, <1>6, <1>10, <1>11, <1>13, <1>14, <1>17 DEF WholeDatagram

-----------------------------------------------------------------------------
(* What the handler calls for a datagram that the stream delivered.        *)

GameIn(bytes) == FGame(GetRoot(Load(bytes).payload))

Called(bytes) ==
  IF /\ PayloadCorrectness(Load(bytes))
     /\ Version(Load(bytes)) = GAME_CLIENTS_VERSION
     /\ ~(Len(GameIn(bytes).teams) < 2)
  THEN <<ClientsIn(GameIn(bytes))>> ELSE << >>

LEMMA ListCalled ==
  ASSUME NEW list \in PlayerList
  PROVE  Called(Datagrams[list]) = IF Loadable(list) THEN <<Meant(list)>> ELSE << >>
<1>1. PICK payload : payload = Serialize(PlayerListTable(list)) OBVIOUS
<1>2. PICK t : t = PlayerListTable(list) OBVIOUS
<1>3. PICK flag \in BOOLEAN : flag = TRUE OBVIOUS
<1>4. PICK m : m = Datagrams[list] OBVIOUS
<1>5. m = Get(NewDatagram(list.version, flag, payload))
  BY <1>1, <1>3, <1>4, ListFacts
<1>6. Arrives(m, list.version, flag, payload)
  BY <1>1, <1>5, ListFacts, WholeAndPart
<1>7. Version(Load(m)) = list.version /\ Load(m).payload = payload
  BY <1>6, Zenon DEF Arrives
<1>8. PayloadCorrectness(Load(m))
  BY <1>1, <1>5, ListFacts, SentIsAccepted DEF Accepted
<1>9. GetRoot(payload) = t
  <2>1. PICK u : u = GetRoot(payload) OBVIOUS
  <2>2. t \in Tables /\ payload = Serialize(t) BY <1>1, <1>2, ListFacts
  <2>3. u \in Tables /\ Serialize(u) = payload BY <2>1, <2>2 DEF GetRoot
  <2>. QED BY <2>1, <2>2, <2>3, SerializeAssumption
<1>10. GameIn(m) = FGame(PlayerListTable(list)) BY <1>2, <1>7, <1>9 DEF GameIn
<1>11. PICK game : game = GameIn(m) OBVIOUS
<1>12. IsList(list.teams) BY ListFacts
<1>13. /\ Len(game.teams) = Len(list.teams) /\ Len(list.teams) \in Nat
       /\ Len(list.teams) >= 2 => ClientsIn(game) = Meant(list)
  BY <1>10, <1>11, <1>12, ListRead
<1>14. ~(Len(game.teams) < 2) <=> Len(list.teams) >= 2 BY <1>13
<1>15. Called(m) = IF /\ list.version = GAME_CLIENTS_VERSION
                      /\ Len(list.teams) >= 2
                   THEN <<ClientsIn(game)>> ELSE << >>
  BY <1>7, <1>8, <1>11, <1>14 DEF Called
<1>. QED BY <1>4, <1>13, <1>15 DEF Loadable

LEMMA HeaderIsAt ==
  ASSUME NEW bytes, NEW m
  PROVE  SP!HeaderAt(bytes, m) <=> HeaderAt(bytes, m)
BY DEF SP!HeaderAt, HeaderAt, SP!From, SP!BeginsDatagram, SP!HeaderLength,
       SP!Flagged, SP!HeaderCorrect, Stream!BeginsDatagram,
       Stream!HeaderLength, Stream!Flagged, Stream!HeaderCorrect

-----------------------------------------------------------------------------
(* The bytes around the datagrams.                                         *)

LEMMA AroundNoise ==
  /\ Before \in Seq(Byte) /\ After \in Seq(Byte) /\ After \o Before \in Seq(Byte)
  /\ Noise(Before) /\ Noise(After \o Before) /\ FoundIn(After) = << >>
<1>1. Before \in Seq(Byte) /\ After \in Seq(Byte) BY AroundAssumption
<1>2. PICK g : g = After \o Before OBVIOUS
<1>3. /\ g \in Seq(Byte) /\ Len(g) = Len(After) + Len(Before)
      /\ Len(After) \in Nat /\ Len(Before) \in Nat
      /\ \A k \in 1 .. Len(g) : g[k] = IF k <= Len(After) THEN After[k]
                                       ELSE Before[k - Len(After)]
  <2>1. /\ After \o Before \in Seq(Byte)
        /\ Len(After \o Before) = Len(After) + Len(Before)
        /\ \A k \in 1 .. Len(After) + Len(Before) :
             (After \o Before)[k] = IF k <= Len(After) THEN After[k]
                                    ELSE Before[k - Len(After)]
    BY <1>1, ConcatProperties
  <2>2. Len(After) \in Nat /\ Len(Before) \in Nat BY <1>1, LenProperties
  <2>. QED BY <1>2, <2>1, <2>2
<1>4. PICK last : last = BEGIN_SEQUENCE[2] OBVIOUS
<1>5. PICK tail : tail = <<last>> OBVIOUS
<1>6. last \in Byte /\ tail \in Seq(Byte) /\ Len(tail) = 1 /\ tail[1] = last
  BY <1>4, <1>5, BeginSequence
<1>7. PICK around : around = g \o tail OBVIOUS
<1>8. /\ Len(around) = Len(g) + 1
      /\ \A k \in 1 .. Len(g) : around[k] = g[k]
      /\ around[Len(g) + 1] = last
  <2>1. /\ Len(g \o tail) = Len(g) + Len(tail)
        /\ \A k \in 1 .. Len(g) + Len(tail) :
             (g \o tail)[k] = IF k <= Len(g) THEN g[k] ELSE tail[k - Len(g)]
    <3>1. g \in Seq(Byte) /\ tail \in Seq(Byte) BY <1>3, <1>6
    <3>. QED BY <3>1, ConcatProperties
  <2>2. Len(g) \in Nat /\ Len(g) + 1 - Len(g) = 1 /\ ~(Len(g) + 1 <= Len(g))
    BY <1>3
  <2>. QED BY <1>6, <1>7, <2>1, <2>2
<1>9. around = After \o Before \o <<BEGIN_SEQUENCE[2]>>
  BY <1>2, <1>4, <1>5, <1>7, Zenon
<1>10. \A k \in 1 .. Len(around) - 1 :
         ~(around[k] = BEGIN_SEQUENCE[1] /\ around[k + 1] = BEGIN_SEQUENCE[2])
  BY <1>9, AroundAssumption
<1>11. Noise(g)
  <2>1. ASSUME NEW k \in 1 .. Len(g), g[k] = BEGIN_SEQUENCE[1]
        PROVE  k < Len(g) /\ g[k + 1] # last
    <3>1. Len(g) \in Nat BY <1>3
    <3>2. k \in 1 .. Len(around) - 1 /\ around[k] = g[k] BY <1>8, <3>1
    <3>3. around[k + 1] # last BY <1>4, <1>10, <2>1, <3>2
    <3>4. k < Len(g) BY <1>8, <3>1, <3>3
    <3>5. k + 1 \in 1 .. Len(g) BY <3>1, <3>4
    <3>6. around[k + 1] = g[k + 1] BY <1>8, <3>5
    <3>. QED BY <3>3, <3>4, <3>6
  <2>. QED BY <1>4, <2>1 DEF Noise
<1>12. Noise(Before)
  <2>1. ASSUME NEW k \in 1 .. Len(Before), Before[k] = BEGIN_SEQUENCE[1]
        PROVE  k < Len(Before) /\ Before[k + 1] # BEGIN_SEQUENCE[2]
    <3>1. PICK j : j = Len(After) + k OBVIOUS
    <3>2. /\ j \in 1 .. Len(g) /\ ~(j <= Len(After)) /\ j - Len(After) = k
      BY <1>3, <3>1
    <3>3. g[j] = Before[k] BY <1>3, <3>2
    <3>4. j < Len(g) /\ g[j + 1] # BEGIN_SEQUENCE[2]
      BY <1>11, <2>1, <3>2, <3>3 DEF Noise
    <3>5. /\ j + 1 \in 1 .. Len(g) /\ ~(j + 1 <= Len(After))
          /\ (j + 1) - Len(After) = k + 1
      BY <1>3, <3>1, <3>2, <3>4
    <3>6. g[j + 1] = Before[k + 1] BY <1>3, <3>5
    <3>7. k < Len(Before) BY <1>3, <3>1, <3>4
    <3>. QED BY <3>4, <3>6, <3>7
  <2>. QED BY <2>1 DEF Noise
<1>13. FoundIn(After) = << >>
  <2>1. ASSUME NEW m \in 1 .. Len(After) PROVE ~SP!HeaderAt(After, m)
    <3>1. SUFFICES ASSUME SP!HeaderAt(After, m) PROVE FALSE OBVIOUS
    <3>2. m + 1 <= Len(After) /\ After[m] = BEGIN_SEQUENCE[1]
          /\ After[m + 1] = BEGIN_SEQUENCE[2]
      BY <1>1, <3>1, SP!HeaderBegins, HeaderFacts, FieldFacts, ReadFacts
    <3>3. m \in 1 .. Len(g) /\ m + 1 \in 1 .. Len(g) /\ m + 1 <= Len(After)
          /\ m <= Len(After)
      BY <1>3, <3>2
    <3>4. g[m] = After[m] /\ g[m + 1] = After[m + 1] BY <1>3, <3>3
    <3>. QED BY <1>11, <3>2, <3>3, <3>4 DEF Noise
  <2>. QED BY <1>1, <2>1, NoHeaderFound
<1>. QED BY <1>1, <1>2, <1>3, <1>11, <1>12, <1>13

-----------------------------------------------------------------------------
(* A damaged datagram.                                                     *)

LEMMA FlipFacts ==
  ASSUME NEW m \in Seq(Byte), NEW n \in 1 .. Len(m), NEW bit \in DamagedBit,
         NEW f, f = Flip(m, n, bit)
  PROVE  /\ DifferAt(m, f, n)
         /\ \A k \in 1 .. Len(m) : k # n => f[k] = m[k]
<1>1. PICK x, y : x = m[n] /\ y = Xor(x, {bit}) OBVIOUS
<1>2. /\ Len(m) \in Nat /\ m \in [1 .. Len(m) -> Byte] /\ x \in Byte
  BY <1>1, LenProperties, ElementOfSeq
<1>3. bit \in 0 .. 7 BY LinkAssumption DEF CHAR_BIT
<1>4. y \in Byte /\ x # y
  <2>1. \A k : k \in y <=> ~(k \in x <=> k = bit) BY <1>1, XorMember
  <2>2. x \subseteq 0 .. 7 BY <1>2 DEF Byte, CHAR_BIT
  <2>3. y \subseteq 0 .. 7 BY <1>3, <2>1, <2>2
  <2>4. bit \in y <=> bit \notin x BY <2>1
  <2>. QED BY <2>3, <2>4 DEF Byte, CHAR_BIT
<1>5. f = [m EXCEPT ![n] = y] BY <1>1 DEF Flip
<1>6. /\ f \in [1 .. Len(m) -> Byte] /\ f[n] = y
      /\ \A k \in 1 .. Len(m) : k # n => f[k] = m[k]
  BY <1>2, <1>4, <1>5
<1>7. f \in Seq(Byte) /\ Len(f) = Len(m)
  <2>1. \A N \in Nat : \A g \in [1 .. N -> Byte] : g \in Seq(Byte) /\ Len(g) = N
    OBVIOUS
  <2>. QED BY <1>2, <1>6, <2>1
<1>. QED BY <1>1, <1>4, <1>6, <1>7 DEF DifferAt

\* Damage behind the header: the datagram is found and nothing is called.
LEMMA DamagedPayload ==
  ASSUME NEW list \in PlayerList, NEW m, m = Datagrams[list],
         NEW n \in 1 .. Len(m), n > 16, NEW bit \in DamagedBit,
         NEW f, f = Flip(m, n, bit)
  PROVE  WholeDatagram(f) /\ Called(f) = << >>
<1>1. WholeDatagram(m) /\ Len(m) >= 16 /\ ChecksumIncluded(m) BY ListIsWhole
<1>2. m \in Seq(Byte) /\ Len(m) \in Nat BY <1>1, LenProperties DEF WholeDatagram
<1>3. DifferAt(m, f, n) /\ \A k \in 1 .. Len(m) : k # n => f[k] = m[k]
  BY <1>2, FlipFacts
<1>4. f \in Seq(Byte) /\ Len(f) = Len(m) BY <1>3 DEF DifferAt
<1>5. \A k \in 1 .. 16 : f[k] = m[k] BY <1>1, <1>2, <1>3
<1>6. f[4] = m[4] /\ f[5] = m[5] /\ f[6] = m[6] /\ f[7] = m[7] /\ f[8] = m[8]
  BY <1>5
<1>7. ChecksumIncluded(f) /\ LengthField(f) = LengthField(m)
  BY <1>1, <1>6 DEF ChecksumIncluded, LengthField
<1>8. /\ SP!HeaderLength(m) = 16 /\ SP!HeaderLength(f) = 16
      /\ SP!HeaderPayloadLength(f) = SP!HeaderPayloadLength(m)
  BY <1>1, <1>2, <1>4, <1>7, StreamReads
<1>9. SubSeq(m, 1, 16) = SubSeq(f, 1, 16) /\ SubSeq(m, 1, 2) = SubSeq(f, 1, 2)
  <2>1. PICK a, b, c : a = 1 /\ b = 16 /\ c = 2 OBVIOUS
  <2>2. /\ a \in 1 .. Len(m) /\ b \in 1 .. Len(m) /\ c \in 1 .. Len(m)
        /\ a <= b + 1 /\ a <= c + 1 /\ n \notin a .. b /\ n \notin a .. c
    BY <1>1, <1>2, <2>1
  <2>3. DifferAt(m, f, n) BY <1>3
  <2>4. SubSeq(m, a, b) = SubSeq(f, a, b)
    BY <2>2, <2>3, PartsDiffer, ZenonT(60)
  <2>5. SubSeq(m, a, c) = SubSeq(f, a, c)
    BY <2>2, <2>3, PartsDiffer, ZenonT(60)
  <2>. QED BY <2>1, <2>4, <2>5
<1>10. SP!HeaderCorrect(m, 16) BY <1>1, <1>8 DEF WholeDatagram
<1>11. SP!HeaderCorrect(f, 16)
  <2>1. PICK k : k = 16 OBVIOUS
  <2>2. /\ k = SP!HeaderLength(m) /\ k = SP!HeaderLength(f)
        /\ Len(m) >= 12 /\ Len(m) >= k /\ Len(f) >= 12 /\ Len(f) >= k
    BY <1>1, <1>2, <1>4, <1>8, <2>1
  <2>3. SP!HeaderCorrect(m, k) BY <1>10, <2>1
  <2>4. /\ SubSeq(m, 1, 2) = BEGIN_SEQUENCE
        /\ HeaderChecksumCorrect(SubSeq(m, 1, k))
    BY <1>2, <2>2, <2>3, LoadsHeader
  <2>5. /\ SubSeq(f, 1, 2) = BEGIN_SEQUENCE
        /\ HeaderChecksumCorrect(SubSeq(f, 1, k))
    BY <1>9, <2>1, <2>4
  <2>6. SP!HeaderCorrect(f, k) BY <1>4, <2>2, <2>5, LoadsHeader
  <2>. QED BY <2>1, <2>6
<1>12. WholeDatagram(f)
  BY <1>1, <1>4, <1>8, <1>11 DEF WholeDatagram
<1>13. Called(f) = << >>
  <2>1. PICK payload : payload = Serialize(PlayerListTable(list)) OBVIOUS
  <2>2. /\ list.version \in 0 .. 255 /\ payload \in Seq(Byte)
        /\ Len(payload) + HeaderLengthOf(TRUE) < LENGTH_MODULUS
        /\ Len(payload) <= FLATBUFFERS_MAX_BUFFER_SIZE
        /\ DifferAt(Get(NewDatagram(list.version, TRUE, payload)), f, n)
    <3>1. m = Get(NewDatagram(list.version, TRUE, payload)) BY <2>1, ListFacts
    <3>2. DifferAt(Get(NewDatagram(list.version, TRUE, payload)), f, n)
      BY <1>3, <3>1, Zenon
    <3>. QED BY <2>1, <3>2, ListFacts
  <2>3. ~Accepted(f) BY <1>7, <2>2, DamagedDatagramRefused
  <2>4. Loads(f)
    <3>1. Loads(m)
      <4>1. PICK flag \in BOOLEAN : flag = TRUE OBVIOUS
      <4>2. m = Get(NewDatagram(list.version, flag, payload))
        BY <2>1, <4>1, ListFacts
      <4>3. Arrives(m, list.version, flag, payload)
        BY <2>1, <4>2, ListFacts, WholeAndPart
      <4>. QED BY <4>3, Zenon DEF Arrives
    <3>2. PICK b : b = HeaderLengthOf(ChecksumIncluded(m)) OBVIOUS
    <3>3. b = 16 BY <1>1, <3>2 DEF HeaderLengthOf, MINIMAL_LENGTH
    <3>4. HeaderLengthOf(ChecksumIncluded(f)) = b
      BY <1>7, <3>3 DEF HeaderLengthOf, MINIMAL_LENGTH
    <3>5. /\ Len(m) >= MINIMAL_LENGTH /\ SubSeq(m, 1, 2) = BEGIN_SEQUENCE
          /\ Len(m) >= b /\ HeaderChecksumCorrect(SubSeq(m, 1, b))
          /\ (LengthField(m) + b) % LENGTH_MODULUS <= Len(m)
      BY <3>1, <3>2, Zenon DEF Loads
    <3>6. /\ Len(f) >= MINIMAL_LENGTH /\ SubSeq(f, 1, 2) = BEGIN_SEQUENCE
          /\ Len(f) >= b /\ HeaderChecksumCorrect(SubSeq(f, 1, b))
          /\ (LengthField(f) + b) % LENGTH_MODULUS <= Len(f)
      <4>1. SubSeq(f, 1, b) = SubSeq(m, 1, b) BY <1>9, <3>3
      <4>2. SubSeq(f, 1, 2) = BEGIN_SEQUENCE BY <1>9, <3>5
      <4>. QED BY <1>4, <1>7, <3>5, <4>1, <4>2, Zenon
    <3>. QED BY <3>4, <3>6, Zenon DEF Loads
  <2>. QED BY <2>3, <2>4 DEF Called, Accepted
<1>. QED BY <1>12, <1>13

-----------------------------------------------------------------------------
(* What follows a damaged datagram.                                        *)

\* Joined bytes are bytes.
LEMMA Joined ==
  ASSUME NEW s \in Seq(Byte), NEW t \in Seq(Byte)
  PROVE  s \o t \in Seq(Byte) /\ Len(s \o t) = Len(s) + Len(t)
         /\ Len(s) \in Nat /\ Len(t) \in Nat /\ Len(s \o t) \in Nat
BY ConcatProperties, LenProperties

LEMMA JoinedAlike ==
  ASSUME NEW s \in Seq(Byte), NEW t \in Seq(Byte), NEW u \in Seq(Byte)
  PROVE  (s \o t) \o u = s \o (t \o u)
BY ConcatAssociative

\* What may be sent behind a damaged datagram and the bytes around it.
MayFollow ==
  {more \in Seq(Byte) :
     \/ more = << >>
     \/ \E l \in PlayerList, rest \in Seq(Byte) : more = Datagrams[l] \o rest}

LEMMA MayFollowType == MayFollow \subseteq Seq(Byte)
BY DEF MayFollow

\* A damaged header that keeps its flag does not pass.
LEMMA DamagedHeaderFails ==
  ASSUME NEW list \in PlayerList, NEW n \in 1 .. Len(Datagrams[list]), n <= 16,
         NEW bit \in DamagedBit, NEW f, f = Flip(Datagrams[list], n, bit),
         ChecksumIncluded(f)
  PROVE  ~SP!HeaderAt(f, 1)
<1>1. PICK m : m = Datagrams[list] OBVIOUS
<1>2. /\ WholeDatagram(m) /\ Len(m) >= 16 /\ ChecksumIncluded(m)
      /\ m \in Seq(Byte) /\ Len(m) \in Nat
  BY <1>1, ListIsWhole, LenProperties DEF WholeDatagram
<1>3. DifferAt(m, f, n) BY <1>1, <1>2, FlipFacts
<1>4. f \in Seq(Byte) /\ Len(f) = Len(m) BY <1>3 DEF DifferAt
<1>5. SP!HeaderLength(m) = 16 /\ SP!HeaderLength(f) = 16
  BY <1>2, <1>4, StreamReads
<1>6. SUFFICES ASSUME SP!HeaderAt(f, 1) PROVE FALSE OBVIOUS
<1>7. SP!From(f, 1) = f
  BY <1>4, SP!FromFirst, HeaderFacts, FieldFacts, ReadFacts
<1>8. SP!HeaderCorrect(f, SP!HeaderLength(f)) BY <1>6, <1>7 DEF SP!HeaderAt
<1>9. SP!HeaderCorrect(m, SP!HeaderLength(m)) BY <1>2 DEF WholeDatagram
<1>10. PICK k : k = 16 OBVIOUS
<1>11. /\ k = SP!HeaderLength(m) /\ k = SP!HeaderLength(f)
       /\ Len(m) >= 12 /\ Len(m) >= k /\ Len(f) >= 12 /\ Len(f) >= k
  BY <1>2, <1>4, <1>5, <1>10
<1>12. SP!HeaderCorrect(f, k) /\ SP!HeaderCorrect(m, k)
  BY <1>8, <1>9, <1>11
<1>13. HeaderChecksumCorrect(SubSeq(m, 1, k))
  BY <1>2, <1>11, <1>12, LoadsHeader
<1>14. HeaderChecksumCorrect(SubSeq(f, 1, k))
  BY <1>4, <1>11, <1>12, LoadsHeader
<1>15. PICK a : a = 1 OBVIOUS
<1>16. /\ a \in 1 .. Len(m) /\ k \in 1 .. Len(m) /\ a <= k + 1 /\ n \in a .. k
  BY <1>1, <1>2, <1>10, <1>15
<1>17. DifferAt(SubSeq(m, a, k), SubSeq(f, a, k), n - a + 1)
  BY <1>3, <1>16, PartsDiffer
<1>18. Len(SubSeq(m, a, k)) >= 4
  <2>1. k \in 0 .. Len(m) BY <1>16
  <2>2. Len(SubSeq(m, 1, k)) = k
    BY <1>2, <2>1, SP!PrefixProperties, HeaderFacts, FieldFacts, ReadFacts
  <2>. QED BY <1>10, <1>15, <2>2
<1>19. HeaderChecksumCorrect(SubSeq(m, a, k)) /\ HeaderChecksumCorrect(SubSeq(f, a, k))
  BY <1>13, <1>14, <1>15
<1>. QED BY <1>17, <1>18, <1>19, HeadersApart

\* Damage in the header: nothing is found before what follows.
LEMMA DamagedHeader ==
  ASSUME NEW list \in PlayerList, Loadable(list),
         NEW n \in 1 .. Len(Datagrams[list]), n <= 16,
         NEW bit \in DamagedBit, NEW f, f = Flip(Datagrams[list], n, bit)
  PROVE  /\ \A more \in MayFollow :
              FoundIn((f \o (After \o Before)) \o more) = FoundIn(more)
         /\ FoundIn(f \o After) = << >>
<1>1. /\ Datagrams[list] \in Seq(Byte) /\ Len(Datagrams[list]) >= 16
      /\ Len(Datagrams[list]) \in Nat
  BY ListIsWhole, LenProperties DEF WholeDatagram
<1>2. DifferAt(Datagrams[list], f, n)
  BY <1>1, FlipFacts
<1>3. f \in Seq(Byte) /\ Len(f) = Len(Datagrams[list]) /\ Len(f) \in Nat
      /\ Len(f) >= 16
  BY <1>1, <1>2 DEF DifferAt
<1>4. Before \in Seq(Byte) /\ After \in Seq(Byte) /\ After \o Before \in Seq(Byte)
  BY AroundNoise
<1>5. PICK g, seen : g = f \o After /\ seen = f \o (After \o Before) OBVIOUS
<1>6. seen = g \o Before /\ seen = f \o After \o Before
  BY <1>3, <1>4, <1>5, JoinedAlike, Zenon
<1>7. /\ g \in Seq(Byte) /\ seen \in Seq(Byte) /\ Len(g) \in Nat /\ Len(seen) \in Nat
      /\ Len(seen) = Len(g) + Len(Before) /\ Len(Before) \in Nat
      /\ Len(seen) >= Len(f)
  <2>1. g \in Seq(Byte) /\ Len(g) = Len(f) + Len(After) /\ Len(After) \in Nat
    BY <1>3, <1>4, <1>5, ConcatProperties, LenProperties
  <2>2. seen \in Seq(Byte) /\ Len(seen) = Len(g) + Len(Before) /\ Len(Before) \in Nat
    <3>1. /\ g \o Before \in Seq(Byte) /\ Len(g \o Before) = Len(g) + Len(Before)
          /\ Len(Before) \in Nat
      BY <1>4, <2>1, Joined
    <3>. QED BY <1>6, <3>1, Zenon
  <2>. QED BY <1>3, <2>1, <2>2
<1>8. ASSUME NEW next \in {<< >>} \cup {Datagrams[l] : l \in PlayerList},
             NEW m \in 1 .. Len(seen)
      PROVE  ~SP!HeaderAt(seen \o next, m)
  <2>1. next \in Seq(Byte)
    <3>1. << >> \in Seq(Byte) BY EmptySeq
    <3>2. \A l \in PlayerList : Datagrams[l] \in Seq(Byte)
      BY ListIsWhole DEF WholeDatagram
    <3>. QED BY <3>1, <3>2
  <2>2. CASE m = 1 => ~ChecksumIncluded(f)
    <3>1. n \in 1 .. HeaderLengthOf(TRUE)
      <4>1. PICK k : k = HeaderLengthOf(TRUE) OBVIOUS
      <4>2. k = 16 BY <4>1, HeaderLengths, Zenon
      <4>3. n \in 1 .. k BY <1>1, <4>2
      <4>. QED BY <4>1, <4>3, Zenon
    <3>2. ~HeaderAt(seen \o next, m)
      <4>1. \A nx \in {<< >>} \cup {Datagrams[l] : l \in PlayerList} :
              \A q \in 1 .. Len(f \o After \o Before) :
                (q = 1 => ~ChecksumIncluded(f))
                  => ~HeaderAt(f \o After \o Before \o nx, q)
        BY <3>1, DamageAssumption
      <4>. QED BY <1>6, <2>2, <4>1
    <3>. QED BY <3>2, HeaderIsAt
  <2>3. CASE m = 1 /\ ChecksumIncluded(f)
    <3>1. ~SP!HeaderAt(f, 1) BY <2>3, DamagedHeaderFails
    <3>2. PICK tail : tail = (After \o Before) \o next OBVIOUS
    <3>3. tail \in Seq(Byte) /\ seen \o next = f \o tail
      <4>1. tail \in Seq(Byte) BY <1>4, <2>1, <3>2, Joined, Zenon
      <4>2. (f \o (After \o Before)) \o next = f \o ((After \o Before) \o next)
        BY <1>3, <1>4, <2>1, JoinedAlike, ZenonT(60)
      <4>. QED BY <1>5, <3>2, <4>1, <4>2, Zenon
    <3>4. PICK p : p = 1 OBVIOUS
    <3>5. p \in 1 .. Len(f) /\ Len(f) - p + 1 >= 16 BY <1>3, <3>4
    <3>6. Len(f) - p + 1 >= HeaderLengthOf(TRUE) BY <3>5, HeaderLengths
    <3>7. SP!HeaderAt(f \o tail, p) => SP!HeaderAt(f, p)
      BY <1>3, <3>3, <3>5, <3>6, SP!HeaderAtKept, HeaderFacts, FieldFacts, ReadFacts
    <3>. QED BY <2>3, <3>1, <3>3, <3>4, <3>7
  <2>. QED BY <2>2, <2>3
<1>9. \A m \in 1 .. Len(seen) : ~SP!HeaderAt(seen, m)
  <2>1. seen \o << >> = seen BY <1>7, ConcatEmptySeq
  <2>2. << >> \in {<< >>} \cup {Datagrams[l] : l \in PlayerList} OBVIOUS
  <2>3. \A m \in 1 .. Len(seen) : ~SP!HeaderAt(seen \o << >>, m) BY <1>8, <2>2
  <2>. QED BY <2>1, <2>3
<1>10. FoundIn(g) = << >>
  <2>1. ASSUME NEW m \in 1 .. Len(g) PROVE ~SP!HeaderAt(g, m)
    <3>1. m \in 1 .. Len(seen) BY <1>7
    <3>2. ~SP!HeaderAt(g \o Before, m) BY <1>6, <1>9, <3>1
    <3>3. SP!HeaderAt(g, m) => SP!HeaderAt(g \o Before, m)
      BY <1>4, <1>7, SP!HeaderAtKept, HeaderFacts, FieldFacts, ReadFacts
    <3>. QED BY <3>2, <3>3
  <2>. QED BY <1>7, <2>1, NoHeaderFound
<1>11. ASSUME NEW more \in MayFollow PROVE FoundIn(seen \o more) = FoundIn(more)
  <2>1. CASE more = << >>
    <3>1. seen \o more = seen BY <1>7, <2>1, ConcatEmptySeq
    <3>2. FoundIn(seen) = << >> BY <1>7, <1>9, NoHeaderFound
    <3>. QED BY <2>1, <3>1, <3>2, NothingInNothing
  <2>2. CASE more # << >>
    <3>1. PICK l \in PlayerList, rest \in Seq(Byte) : more = Datagrams[l] \o rest
      BY <2>2 DEF MayFollow
    <3>2. PICK d : d = Datagrams[l] OBVIOUS
    <3>3. d \in Seq(Byte) /\ Len(d) >= 16 /\ Len(d) \in Nat
      BY <3>2, ListIsWhole, LenProperties DEF WholeDatagram
    <3>4. more \in Seq(Byte) /\ Len(more) >= 16
      <4>1. d \o rest \in Seq(Byte) /\ Len(d \o rest) = Len(d) + Len(rest)
            /\ Len(rest) \in Nat
        BY <3>3, ConcatProperties, LenProperties
      <4>2. more = d \o rest BY <3>1, <3>2
      <4>. QED BY <3>3, <4>1, <4>2
    <3>5. PICK bytes : bytes = seen \o d OBVIOUS
    <3>6. bytes \in Seq(Byte) /\ Len(bytes) = Len(seen) + Len(d)
      BY <1>7, <3>3, <3>5, ConcatProperties
    <3>7. seen \o more = bytes \o rest
      <4>1. seen \o (d \o rest) = (seen \o d) \o rest
        BY <1>7, <3>3, JoinedAlike, Zenon
      <4>. QED BY <3>1, <3>2, <3>5, <4>1
    <3>8. ASSUME NEW m \in 1 .. Len(seen) PROVE ~SP!HeaderAt(seen \o more, m)
      <4>1. d \in {<< >>} \cup {Datagrams[k] : k \in PlayerList} BY <3>2
      <4>2. ~SP!HeaderAt(bytes, m) BY <1>8, <3>5, <4>1
      <4>3. m \in 1 .. Len(bytes) /\ Len(bytes) - m + 1 >= 16
        BY <1>7, <3>3, <3>6
      <4>4. Len(bytes) - m + 1 >= HeaderLengthOf(TRUE) BY <4>3, HeaderLengths
      <4>5. SP!HeaderAt(bytes \o rest, m) => SP!HeaderAt(bytes, m)
        BY <3>6, <4>3, <4>4, SP!HeaderAtKept, HeaderFacts, FieldFacts, ReadFacts
      <4>. QED BY <3>7, <4>2, <4>5
    <3>. QED BY <1>7, <3>4, <3>8, NoHeaderPassed
  <2>. QED BY <2>1, <2>2
<1>. QED BY <1>5, <1>10, <1>11

-----------------------------------------------------------------------------
(* What was sent, as the stream reads it whatever follows.                 *)

LEMMA ListMayFollow ==
  ASSUME NEW l \in PlayerList, NEW rest \in Seq(Byte)
  PROVE  Datagrams[l] \o rest \in MayFollow
<1>1. PICK more : more = Datagrams[l] \o rest OBVIOUS
<1>2. Datagrams[l] \in Seq(Byte) BY ListIsWhole DEF WholeDatagram
<1>3. more \in Seq(Byte) BY <1>1, <1>2, Joined
<1>4. \E k \in PlayerList, r \in Seq(Byte) : more = Datagrams[k] \o r
  BY <1>1, Zenon
<1>5. more \in MayFollow BY <1>3, <1>4 DEF MayFollow
<1>. QED BY <1>1, <1>5, Zenon

\* What is found in bytes that end between two datagrams, and goes on to be
\* found whatever follows; behind a damaged one (narrow), whatever the main
\* process sends.
ReadsAs(all, found, narrow) ==
  /\ all \in Seq(Byte) /\ found \in Seq(Seq(Byte))
  /\ FoundIn(all) = found
  /\ \A more \in Seq(Byte) : (narrow => more \in MayFollow) =>
       FoundIn((all \o Before) \o more) = found \o FoundIn(more)

LEMMA NothingSent == ReadsAs(<< >>, << >>, FALSE)
<1>1. << >> \in Seq(Byte) /\ << >> \in Seq(Seq(Byte)) BY EmptySeq
<1>2. ASSUME NEW more \in Seq(Byte)
      PROVE  FoundIn((<< >> \o Before) \o more) = << >> \o FoundIn(more)
  <2>1. << >> \o Before = Before BY AroundNoise, ConcatEmptySeq
  <2>2. FoundIn(Before \o more) = FoundIn(more) BY AroundNoise, NoiseSkipped
  <2>3. << >> \o FoundIn(more) = FoundIn(more) BY FoundType, ConcatEmptySeq
  <2>. QED BY <2>1, <2>2, <2>3
<1>. QED BY <1>1, <1>2, NothingInNothing DEF ReadsAs

\* A datagram that the stream finds.
LEMMA WholeSent ==
  ASSUME NEW all, NEW found, NEW narrow \in BOOLEAN, ReadsAs(all, found, narrow),
         NEW d, WholeDatagram(d),
         narrow => \E list \in PlayerList : d = Datagrams[list]
  PROVE  ReadsAs(((all \o Before) \o d) \o After, Append(found, d), FALSE)
<1>0. PICK now : now = ((all \o Before) \o d) \o After OBVIOUS
<1>1. /\ Before \in Seq(Byte) /\ After \in Seq(Byte) /\ After \o Before \in Seq(Byte)
      /\ Noise(Before) /\ Noise(After \o Before) /\ FoundIn(After) = << >>
  BY AroundNoise
<1>2. all \in Seq(Byte) /\ found \in Seq(Seq(Byte)) /\ d \in Seq(Byte)
  BY DEF ReadsAs, WholeDatagram
<1>3. PICK a : a = all \o Before OBVIOUS
<1>4. a \in Seq(Byte) BY <1>1, <1>2, <1>3, Joined
<1>5. ASSUME NEW rest \in Seq(Byte)
      PROVE  FoundIn(a \o (d \o rest)) = Append(found, d) \o FoundIn(rest)
  <2>1. PICK more : more = d \o rest OBVIOUS
  <2>2. more \in Seq(Byte) BY <1>2, <2>1, Joined
  <2>3. narrow => more \in MayFollow
    <3>1. ASSUME narrow PROVE more \in MayFollow
      <4>1. PICK list \in PlayerList : d = Datagrams[list] BY <3>1
      <4>2. Datagrams[list] \o rest \in MayFollow BY ListMayFollow
      <4>. QED BY <2>1, <4>1, <4>2, Zenon
    <3>. QED BY <3>1
  <2>4. FoundIn(a \o more) = found \o FoundIn(more)
    BY <1>3, <2>2, <2>3 DEF ReadsAs
  <2>5. FoundIn(more) = <<d>> \o FoundIn(rest) BY <2>1, DatagramFound
  <2>6. PICK r : r = FoundIn(rest) OBVIOUS
  <2>7. r \in Seq(Seq(Byte)) BY <2>6, FoundType
  <2>8. found \o (<<d>> \o r) = Append(found, d) \o r
    <3>1. PICK S, one : S = Seq(Byte) /\ one = <<d>> OBVIOUS
    <3>2. one \in Seq(S) /\ found \in Seq(S) /\ r \in Seq(S) BY <1>2, <2>7, <3>1
    <3>4. (found \o one) \o r = found \o (one \o r) BY <3>2, ConcatAssociative
    <3>3. Append(found, d) = found \o <<d>> BY <1>2, AppendIsConcat
    <3>. QED BY <3>1, <3>3, <3>4, Zenon
  <2>. QED BY <2>1, <2>4, <2>5, <2>6, <2>8
<1>6. now \in Seq(Byte)
  <2>1. a \o d \in Seq(Byte) BY <1>2, <1>4, Joined
  <2>2. (a \o d) \o After \in Seq(Byte) BY <1>1, <2>1, Joined
  <2>. QED BY <1>0, <1>3, <2>2, Zenon
<1>7. Append(found, d) \in Seq(Seq(Byte)) BY <1>2
<1>8. FoundIn(now) = Append(found, d)
  <2>1. now = a \o (d \o After)
    <3>1. (a \o d) \o After = a \o (d \o After)
      BY <1>1, <1>2, <1>4, JoinedAlike, Zenon
    <3>. QED BY <1>0, <1>3, <3>1, Zenon
  <2>2. FoundIn(now) = Append(found, d) \o << >> BY <1>1, <1>5, <2>1
  <2>3. Append(found, d) \o << >> = Append(found, d) BY <1>7, ConcatEmptySeq
  <2>. QED BY <2>2, <2>3
<1>9. ASSUME NEW more \in Seq(Byte)
      PROVE  FoundIn((now \o Before) \o more) = Append(found, d) \o FoundIn(more)
  <2>1. PICK rest : rest = (After \o Before) \o more OBVIOUS
  <2>2. rest \in Seq(Byte) BY <1>1, <2>1, Joined
  <2>3. (now \o Before) \o more = a \o (d \o rest)
    <3>1. PICK e, tail : e = d \o tail /\ tail = After \o Before OBVIOUS
    <3>2. tail \in Seq(Byte) BY <1>1, <3>1
    <3>3. e \in Seq(Byte) BY <1>2, <3>1, <3>2, Joined
    <3>4. PICK b : b = a \o d OBVIOUS
    <3>5. now \o Before = a \o e
      <4>1. b \in Seq(Byte) BY <1>2, <1>4, <3>4, Joined, Zenon
      <4>2. (b \o After) \o Before = b \o (After \o Before)
        BY <1>1, <4>1, JoinedAlike, Zenon
      <4>3. (a \o d) \o tail = a \o (d \o tail)
        BY <1>2, <1>4, <3>2, JoinedAlike, Zenon
      <4>. QED BY <1>0, <1>3, <3>1, <3>4, <4>2, <4>3, Zenon
    <3>6. (a \o e) \o more = a \o (e \o more) BY <1>4, <3>3, JoinedAlike, Zenon
    <3>7. (d \o tail) \o more = d \o (tail \o more)
      BY <1>2, <3>2, JoinedAlike, Zenon
    <3>. QED BY <2>1, <3>1, <3>5, <3>6, <3>7, Zenon
  <2>4. FoundIn(rest) = FoundIn(more) BY <1>1, <2>1, NoiseSkipped
  <2>. QED BY <1>5, <2>2, <2>3, <2>4
<1>10. ReadsAs(now, Append(found, d), FALSE)
  BY <1>6, <1>7, <1>8, <1>9 DEF ReadsAs
<1>. QED BY <1>0, <1>10, Zenon

\* A damaged list: found and not called, or not found.
LEMMA DamagedSent ==
  ASSUME NEW all, NEW found, ReadsAs(all, found, FALSE),
         NEW list \in PlayerList, Loadable(list),
         NEW n \in 1 .. Len(Datagrams[list]), NEW bit \in DamagedBit,
         NEW f, f = Flip(Datagrams[list], n, bit)
  PROVE  LET now == ((all \o Before) \o f) \o After
         IN  \/ ReadsAs(now, found, TRUE)
             \/ ReadsAs(now, Append(found, f), TRUE) /\ Called(f) = << >>
<1>0. PICK now : now = ((all \o Before) \o f) \o After OBVIOUS
<1> SUFFICES \/ ReadsAs(now, found, TRUE)
             \/ ReadsAs(now, Append(found, f), TRUE) /\ Called(f) = << >>
  BY <1>0, Zenon
<1>1. PICK m : m = Datagrams[list] OBVIOUS
<1>2. /\ m \in Seq(Byte) /\ Len(m) \in Nat /\ Len(m) >= 16
  BY <1>1, ListIsWhole, LenProperties DEF WholeDatagram
<1>3. CASE n > 16
  <2>1. WholeDatagram(f) /\ Called(f) = << >> BY <1>1, <1>3, DamagedPayload
  <2>2. PICK narrow \in BOOLEAN : narrow = FALSE OBVIOUS
  <2>3. ReadsAs(all, found, narrow) BY <2>2
  <2>4. ReadsAs(now, Append(found, f), FALSE)
    <3>1. ReadsAs(((all \o Before) \o f) \o After, Append(found, f), FALSE)
      BY <2>1, <2>2, <2>3, WholeSent
    <3>. QED BY <1>0, <3>1, Zenon
  <2>. QED BY <2>1, <2>4 DEF ReadsAs
<1>4. CASE n <= 16
  <2>1. /\ \A more \in MayFollow :
             FoundIn((f \o (After \o Before)) \o more) = FoundIn(more)
        /\ FoundIn(f \o After) = << >>
    BY <1>4, DamagedHeader
  <2>2. /\ Before \in Seq(Byte) /\ After \in Seq(Byte)
        /\ After \o Before \in Seq(Byte)
    BY AroundNoise
  <2>3. f \in Seq(Byte)
    <3>1. DifferAt(m, f, n) BY <1>1, <1>2, FlipFacts
    <3>. QED BY <3>1 DEF DifferAt
  <2>4. /\ all \in Seq(Byte) /\ found \in Seq(Seq(Byte))
        /\ \A more \in Seq(Byte) :
             FoundIn((all \o Before) \o more) = found \o FoundIn(more)
    BY DEF ReadsAs
  <2>5. PICK a : a = all \o Before OBVIOUS
  <2>6. a \in Seq(Byte) BY <2>2, <2>4, <2>5, Joined
  <2>7. now = a \o (f \o After)
    <3>1. (a \o f) \o After = a \o (f \o After)
      BY <2>2, <2>3, <2>6, JoinedAlike, Zenon
    <3>. QED BY <1>0, <2>5, <3>1, Zenon
  <2>8. f \o After \in Seq(Byte) BY <2>2, <2>3, Joined
  <2>9. now \in Seq(Byte) BY <2>6, <2>7, <2>8, Joined
  <2>10. FoundIn(now) = found
    <3>1. FoundIn(now) = found \o << >> BY <2>1, <2>4, <2>5, <2>7, <2>8
    <3>2. found \o << >> = found BY <2>4, ConcatEmptySeq
    <3>. QED BY <3>1, <3>2
  <2>11. ASSUME NEW more \in MayFollow
         PROVE  FoundIn((now \o Before) \o more) = found \o FoundIn(more)
    <3>1. more \in Seq(Byte) BY MayFollowType
    <3>2. PICK e : e = f \o (After \o Before) OBVIOUS
    <3>3. e \in Seq(Byte) BY <2>2, <2>3, <3>2, Joined
    <3>4. PICK rest : rest = e \o more OBVIOUS
    <3>5. rest \in Seq(Byte) BY <3>1, <3>3, <3>4, Joined
    <3>6. (now \o Before) \o more = a \o rest
      <4>1. PICK b, tail : b = a \o f /\ tail = After \o Before OBVIOUS
      <4>2. now \o Before = a \o e
        <5>1. b \in Seq(Byte) BY <2>3, <2>6, <4>1, Joined, Zenon
        <5>2. tail \in Seq(Byte) BY <2>2, <4>1
        <5>3. (b \o After) \o Before = b \o (After \o Before)
          BY <2>2, <5>1, JoinedAlike, Zenon
        <5>4. (a \o f) \o tail = a \o (f \o tail)
          BY <2>3, <2>6, <5>2, JoinedAlike, Zenon
        <5>. QED BY <1>0, <2>5, <3>2, <4>1, <5>3, <5>4, Zenon
      <4>3. (a \o e) \o more = a \o (e \o more)
        BY <2>6, <3>1, <3>3, JoinedAlike, Zenon
      <4>. QED BY <3>4, <4>2, <4>3, Zenon
    <3>7. FoundIn(rest) = FoundIn(more) BY <2>1, <3>2, <3>4
    <3>. QED BY <2>4, <2>5, <3>5, <3>6, <3>7
  <2>12. ReadsAs(now, found, TRUE) BY <2>4, <2>9, <2>10, <2>11 DEF ReadsAs
  <2>. QED BY <2>12
<1>5. n > 16 \/ n <= 16 BY <1>1, <1>2
<1>. QED BY <1>3, <1>4, <1>5, Zenon

-----------------------------------------------------------------------------
(* The lists that count, and the calls made for a sequence of datagrams.   *)

IsAmong(f, lists, n) ==
  f = [k \in 0 .. n |-> IF k = 0 THEN << >>
                        ELSE IF lists[k].damaged THEN f[k - 1]
                        ELSE Append(f[k - 1], lists[k].list)]

IntactOf(lists) == (CHOOSE f : IsAmong(f, lists, Len(lists)))[Len(lists)]

LEMMA IntactIs == Lists!Intact = IntactOf(announced)
BY DEF Lists!Intact, IntactOf, IsAmong

LEMMA AmongExists ==
  ASSUME NEW lists, NEW n \in Nat
  PROVE  \E f : IsAmong(f, lists, n)
<1>1. PICK Bad : Bad = {k \in Nat : \A f : ~IsAmong(f, lists, k)} OBVIOUS
<1>2. SUFFICES ASSUME Bad # {} PROVE FALSE BY <1>1
<1>3. PICK m \in Bad : \A k \in Bad : m <= k
  <2>1. Bad \in SUBSET Nat BY <1>1
  <2>. QED BY <1>2, <2>1, LeastNumberExists
<1>4. CASE m = 0
  <2>1. IsAmong([k \in 0 .. 0 |-> << >>], lists, 0) BY DEF IsAmong
  <2>. QED BY <1>1, <1>3, <1>4, <2>1
<1>5. CASE m # 0
  <2>1. m - 1 \in Nat /\ m \in Nat /\ ~(m <= m - 1) BY <1>1, <1>3, <1>5
  <2>2. PICK f : IsAmong(f, lists, m - 1) BY <1>1, <1>3, <2>1
  <2>3. PICK e : e = IF lists[m].damaged THEN f[m - 1]
                     ELSE Append(f[m - 1], lists[m].list)
    OBVIOUS
  <2>4. PICK g : g = [k \in 0 .. m |-> IF k = m THEN e ELSE f[k]] OBVIOUS
  <2>5. ASSUME NEW k \in 0 .. m
        PROVE  g[k] = IF k = 0 THEN << >>
                      ELSE IF lists[k].damaged THEN g[k - 1]
                      ELSE Append(g[k - 1], lists[k].list)
    <3>1. k # 0 => g[k - 1] = f[k - 1]
      <4>1. ASSUME k # 0 PROVE g[k - 1] = f[k - 1]
        <5>1. k - 1 \in 0 .. m /\ k - 1 # m BY <2>1, <4>1
        <5>. QED BY <2>4, <5>1
      <4>. QED BY <4>1
    <3>2. CASE k = m BY <1>5, <2>3, <2>4, <3>1, <3>2
    <3>3. CASE k # m
      <4>1. k \in 0 .. m - 1 BY <2>1, <3>3
      <4>2. f[k] = IF k = 0 THEN << >>
                   ELSE IF lists[k].damaged THEN f[k - 1]
                   ELSE Append(f[k - 1], lists[k].list)
        BY <2>2, <4>1 DEF IsAmong
      <4>. QED BY <2>4, <3>1, <3>3, <4>2
    <3>. QED BY <3>2, <3>3
  <2>6. IsAmong(g, lists, m)
    <3>1. g = [k \in 0 .. m |-> g[k]] BY <2>4
    <3>. QED BY <2>5, <3>1 DEF IsAmong
  <2>. QED BY <1>1, <1>3, <2>6
<1>. QED BY <1>4, <1>5

LEMMA AmongAgree ==
  ASSUME NEW p, NEW q, NEW n \in Nat, NEW m1 \in Nat, NEW m2 \in Nat,
         n <= m1, n <= m2,
         NEW f, IsAmong(f, p, m1), NEW g, IsAmong(g, q, m2),
         \A k \in 1 .. n : p[k] = q[k]
  PROVE  f[n] = g[n]
<1>1. PICK Bad : Bad = {k \in 0 .. n : f[k] # g[k]} OBVIOUS
<1>2. SUFFICES ASSUME Bad # {} PROVE FALSE BY <1>1
<1>3. PICK k \in Bad : \A j \in Bad : k <= j
  <2>1. Bad \in SUBSET Nat BY <1>1
  <2>. QED BY <1>2, <2>1, LeastNumberExists
<1>4. k \in 0 .. n /\ k \in 0 .. m1 /\ k \in 0 .. m2 BY <1>1, <1>3
<1>5. /\ f[k] = IF k = 0 THEN << >> ELSE IF p[k].damaged THEN f[k - 1]
                ELSE Append(f[k - 1], p[k].list)
      /\ g[k] = IF k = 0 THEN << >> ELSE IF q[k].damaged THEN g[k - 1]
                ELSE Append(g[k - 1], q[k].list)
  BY <1>4 DEF IsAmong
<1>6. CASE k = 0 BY <1>1, <1>3, <1>5, <1>6
<1>7. CASE k # 0
  <2>1. k - 1 \in 0 .. n /\ k \in 1 .. n /\ ~(k <= k - 1) BY <1>4, <1>7
  <2>2. f[k - 1] = g[k - 1] BY <1>1, <1>3, <2>1
  <2>3. p[k] = q[k] BY <2>1
  <2>. QED BY <1>1, <1>3, <1>5, <1>7, <2>2, <2>3
<1>. QED BY <1>6, <1>7

LEMMA IntactOfNone == IntactOf(<< >>) = << >>
<1>1. PICK none, n : none = << >> /\ n = Len(none) OBVIOUS
<1>2. n = 0 BY <1>1
<1>3. PICK f : f = CHOOSE h : IsAmong(h, none, n) OBVIOUS
<1>4. IsAmong(f, none, n) BY <1>2, <1>3, AmongExists
<1>5. f[0] = << >> BY <1>2, <1>4 DEF IsAmong
<1>6. IntactOf(none) = f[n] BY <1>1, <1>3 DEF IntactOf
<1>. QED BY <1>1, <1>2, <1>5, <1>6

LEMMA IntactOfMore ==
  ASSUME NEW S, NEW lists \in Seq(S), NEW a \in S
  PROVE  IntactOf(Append(lists, a))
           = IF a.damaged THEN IntactOf(lists)
             ELSE Append(IntactOf(lists), a.list)
<1>1. PICK more, n, m : more = Append(lists, a) /\ n = Len(lists) /\ m = Len(more)
  OBVIOUS
<1>2. /\ n \in Nat /\ m = n + 1 /\ more[m] = a
      /\ \A k \in 1 .. n : lists[k] = more[k]
  <2>1. /\ Len(Append(lists, a)) = n + 1 /\ n \in Nat
        /\ Append(lists, a)[n + 1] = a
        /\ \A k \in 1 .. n : Append(lists, a)[k] = lists[k]
    BY <1>1, LenProperties, AppendProperties
  <2>. QED BY <1>1, <2>1
<1>3. PICK f, g : /\ f = CHOOSE h : IsAmong(h, lists, n)
                  /\ g = CHOOSE h : IsAmong(h, more, m)
  OBVIOUS
<1>4. m \in Nat BY <1>2
<1>5. IsAmong(f, lists, n) BY <1>2, <1>3, AmongExists
<1>6. IsAmong(g, more, m) BY <1>3, <1>4, AmongExists
<1>7. f[n] = g[n]
  <2>1. n <= n /\ n <= m BY <1>2
  <2>. QED BY <1>2, <1>4, <1>5, <1>6, <2>1, AmongAgree
<1>8. g[m] = IF a.damaged THEN g[n] ELSE Append(g[n], a.list)
  <2>1. m \in 0 .. m /\ m # 0 /\ m - 1 = n BY <1>2
  <2>2. g[m] = IF more[m].damaged THEN g[m - 1]
               ELSE Append(g[m - 1], more[m].list)
    BY <1>6, <2>1 DEF IsAmong
  <2>. QED BY <1>2, <2>1, <2>2
<1>9. IntactOf(lists) = f[n] /\ IntactOf(more) = g[m] BY <1>1, <1>3 DEF IntactOf
<1>. QED BY <1>1, <1>7, <1>8, <1>9

-----------------------------------------------------------------------------
(* The calls made for the datagrams found.                                 *)

IsCalls(f, found, n) ==
  f = [k \in 0 .. n |-> IF k = 0 THEN << >> ELSE f[k - 1] \o Called(found[k])]

CallsOf(found) == (CHOOSE f : IsCalls(f, found, Len(found)))[Len(found)]

\* What LoadClients may be called with.
Callable == {ClientsIn(GameIn(bytes)) : bytes \in Seq(Byte)}

LEMMA CalledType ==
  ASSUME NEW bytes \in Seq(Byte)
  PROVE  Called(bytes) \in Seq(Callable)
<1>1. PICK c : c = ClientsIn(GameIn(bytes)) OBVIOUS
<1>2. c \in Callable BY <1>1 DEF Callable
<1>3. <<c>> \in Seq(Callable) /\ << >> \in Seq(Callable) BY <1>2
<1>4. Called(bytes) = <<c>> \/ Called(bytes) = << >> BY <1>1 DEF Called
<1>. QED BY <1>3, <1>4

LEMMA CallsExist ==
  ASSUME NEW found, NEW n \in Nat
  PROVE  \E f : IsCalls(f, found, n)
<1>1. PICK Bad : Bad = {k \in Nat : \A f : ~IsCalls(f, found, k)} OBVIOUS
<1>2. SUFFICES ASSUME Bad # {} PROVE FALSE BY <1>1
<1>3. PICK m \in Bad : \A k \in Bad : m <= k
  <2>1. Bad \in SUBSET Nat BY <1>1
  <2>. QED BY <1>2, <2>1, LeastNumberExists
<1>4. CASE m = 0
  <2>1. IsCalls([k \in 0 .. 0 |-> << >>], found, 0) BY DEF IsCalls
  <2>. QED BY <1>1, <1>3, <1>4, <2>1
<1>5. CASE m # 0
  <2>1. m - 1 \in Nat /\ m \in Nat /\ ~(m <= m - 1) BY <1>1, <1>3, <1>5
  <2>2. PICK f : IsCalls(f, found, m - 1) BY <1>1, <1>3, <2>1
  <2>3. PICK e : e = f[m - 1] \o Called(found[m]) OBVIOUS
  <2>4. PICK g : g = [k \in 0 .. m |-> IF k = m THEN e ELSE f[k]] OBVIOUS
  <2>5. ASSUME NEW k \in 0 .. m
        PROVE  g[k] = IF k = 0 THEN << >> ELSE g[k - 1] \o Called(found[k])
    <3>1. k # 0 => g[k - 1] = f[k - 1]
      <4>1. ASSUME k # 0 PROVE g[k - 1] = f[k - 1]
        <5>1. k - 1 \in 0 .. m /\ k - 1 # m BY <2>1, <4>1
        <5>. QED BY <2>4, <5>1
      <4>. QED BY <4>1
    <3>2. CASE k = m BY <1>5, <2>3, <2>4, <3>1, <3>2
    <3>3. CASE k # m
      <4>1. k \in 0 .. m - 1 BY <2>1, <3>3
      <4>2. f[k] = IF k = 0 THEN << >> ELSE f[k - 1] \o Called(found[k])
        BY <2>2, <4>1 DEF IsCalls
      <4>. QED BY <2>4, <3>1, <3>3, <4>2
    <3>. QED BY <3>2, <3>3
  <2>6. IsCalls(g, found, m)
    <3>1. g = [k \in 0 .. m |-> g[k]] BY <2>4
    <3>. QED BY <2>5, <3>1 DEF IsCalls
  <2>. QED BY <1>1, <1>3, <2>6
<1>. QED BY <1>4, <1>5

LEMMA CallsAgree ==
  ASSUME NEW p, NEW q, NEW n \in Nat, NEW m1 \in Nat, NEW m2 \in Nat,
         n <= m1, n <= m2,
         NEW f, IsCalls(f, p, m1), NEW g, IsCalls(g, q, m2),
         \A k \in 1 .. n : p[k] = q[k]
  PROVE  f[n] = g[n]
<1>1. PICK Bad : Bad = {k \in 0 .. n : f[k] # g[k]} OBVIOUS
<1>2. SUFFICES ASSUME Bad # {} PROVE FALSE BY <1>1
<1>3. PICK k \in Bad : \A j \in Bad : k <= j
  <2>1. Bad \in SUBSET Nat BY <1>1
  <2>. QED BY <1>2, <2>1, LeastNumberExists
<1>4. k \in 0 .. n /\ k \in 0 .. m1 /\ k \in 0 .. m2 BY <1>1, <1>3
<1>5. /\ f[k] = IF k = 0 THEN << >> ELSE f[k - 1] \o Called(p[k])
      /\ g[k] = IF k = 0 THEN << >> ELSE g[k - 1] \o Called(q[k])
  BY <1>4 DEF IsCalls
<1>6. CASE k = 0 BY <1>1, <1>3, <1>5, <1>6
<1>7. CASE k # 0
  <2>1. k - 1 \in 0 .. n /\ k \in 1 .. n /\ ~(k <= k - 1) BY <1>4, <1>7
  <2>2. f[k - 1] = g[k - 1] BY <1>1, <1>3, <2>1
  <2>3. p[k] = q[k] BY <2>1
  <2>. QED BY <1>1, <1>3, <1>5, <1>7, <2>2, <2>3
<1>. QED BY <1>6, <1>7

LEMMA CallsOfSeq ==
  ASSUME NEW found \in Seq(Seq(Byte)), NEW n, n = Len(found)
  PROVE  /\ n \in Nat
         /\ \E f : IsCalls(f, found, n) /\ CallsOf(found) = f[n]
<1>1. n \in Nat BY LenProperties
<1>2. PICK f : f = CHOOSE h : IsCalls(h, found, n) OBVIOUS
<1>3. IsCalls(f, found, n) BY <1>1, <1>2, CallsExist
<1>4. CallsOf(found) = f[n] BY <1>2 DEF CallsOf
<1>. QED BY <1>1, <1>3, <1>4

LEMMA CallsOfNone == CallsOf(<< >>) = << >>
<1>1. PICK none, n : none = << >> /\ n = Len(none) OBVIOUS
<1>2. n = 0 /\ none \in Seq(Seq(Byte)) BY <1>1
<1>3. PICK f : IsCalls(f, none, n) /\ CallsOf(none) = f[n] BY <1>1, <1>2, CallsOfSeq
<1>4. f[0] = << >> BY <1>2, <1>3 DEF IsCalls
<1>. QED BY <1>1, <1>2, <1>3, <1>4

LEMMA CallsOfMore ==
  ASSUME NEW found \in Seq(Seq(Byte)), NEW d \in Seq(Byte)
  PROVE  CallsOf(Append(found, d)) = CallsOf(found) \o Called(d)
<1>1. PICK more, n, m :
        more = Append(found, d) /\ n = Len(found) /\ m = Len(more)
  OBVIOUS
<1>2. /\ n \in Nat /\ m = n + 1 /\ more[m] = d /\ more \in Seq(Seq(Byte))
      /\ \A k \in 1 .. n : found[k] = more[k]
  <2>1. /\ Len(Append(found, d)) = n + 1 /\ n \in Nat
        /\ Append(found, d)[n + 1] = d /\ Append(found, d) \in Seq(Seq(Byte))
        /\ \A k \in 1 .. n : Append(found, d)[k] = found[k]
    BY <1>1, LenProperties, AppendProperties
  <2>. QED BY <1>1, <2>1
<1>3. PICK f : IsCalls(f, found, n) /\ CallsOf(found) = f[n] BY <1>1, CallsOfSeq
<1>4. PICK g : IsCalls(g, more, m) /\ CallsOf(more) = g[m]
  BY <1>1, <1>2, CallsOfSeq
<1>5. m \in Nat BY <1>2
<1>6. f[n] = g[n]
  <2>1. n <= n /\ n <= m BY <1>2
  <2>. QED BY <1>2, <1>3, <1>4, <1>5, <2>1, CallsAgree
<1>7. g[m] = g[n] \o Called(d)
  <2>1. m \in 0 .. m /\ m # 0 /\ m - 1 = n BY <1>2
  <2>2. g[m] = g[m - 1] \o Called(more[m]) BY <1>4, <2>1 DEF IsCalls
  <2>. QED BY <1>2, <2>1, <2>2
<1>8. CallsOf(more) = CallsOf(found) \o Called(d)
  BY <1>3, <1>4, <1>6, <1>7, Zenon
<1>. QED BY <1>1, <1>8, Zenon

LEMMA CallsOfType ==
  ASSUME NEW found \in Seq(Seq(Byte))
  PROVE  CallsOf(found) \in Seq(Callable)
<1>1. PICK n : n = Len(found) OBVIOUS
<1>2. PICK f : IsCalls(f, found, n) /\ CallsOf(found) = f[n] BY <1>1, CallsOfSeq
<1>3. n \in Nat /\ \A k \in 1 .. n : found[k] \in Seq(Byte)
  BY <1>1, LenProperties, ElementOfSeq
<1>4. PICK Bad : Bad = {k \in 0 .. n : f[k] \notin Seq(Callable)} OBVIOUS
<1>5. ASSUME Bad # {} PROVE FALSE
  <2>1. PICK k \in Bad : \A j \in Bad : k <= j
    <3>1. Bad \in SUBSET Nat BY <1>4
    <3>. QED BY <1>5, <3>1, LeastNumberExists
  <2>2. k \in 0 .. n BY <1>4, <2>1
  <2>3. f[k] = IF k = 0 THEN << >> ELSE f[k - 1] \o Called(found[k])
    BY <1>2, <2>2 DEF IsCalls
  <2>4. CASE k = 0
    <3>1. << >> \in Seq(Callable) OBVIOUS
    <3>. QED BY <1>4, <2>1, <2>3, <2>4, <3>1
  <2>5. CASE k # 0
    <3>1. k - 1 \in 0 .. n /\ k \in 1 .. n /\ ~(k <= k - 1) BY <1>3, <2>2, <2>5
    <3>2. f[k - 1] \in Seq(Callable) BY <1>4, <2>1, <3>1
    <3>3. Called(found[k]) \in Seq(Callable) BY <1>3, <3>1, CalledType
    <3>4. f[k - 1] \o Called(found[k]) \in Seq(Callable)
      BY <3>2, <3>3, ConcatProperties
    <3>. QED BY <1>4, <2>1, <2>3, <2>5, <3>4
  <2>. QED BY <2>4, <2>5
<1>6. n \in 0 .. n /\ n \notin Bad BY <1>3, <1>5
<1>. QED BY <1>2, <1>4, <1>6

\* What was called stays called: the calls for the first datagrams are the
\* first calls.
LEMMA CallsBegin ==
  ASSUME NEW s \in Seq(Seq(Byte)),
         NEW found \in Seq(Seq(Byte)), Len(s) <= Len(found),
         \A k \in 1 .. Len(s) : s[k] = found[k]
  PROVE  \E u \in Seq(Callable) : CallsOf(found) = CallsOf(s) \o u
<1>1. PICK n, m : n = Len(s) /\ m = Len(found) OBVIOUS
<1>2. /\ n \in Nat /\ m \in Nat /\ n <= m /\ found \in Seq(Seq(Byte))
      /\ \A k \in 1 .. n : s[k] = found[k]
  BY <1>1, LenProperties
<1>3. PICK f : IsCalls(f, s, n) /\ CallsOf(s) = f[n] BY <1>1, CallsOfSeq
<1>4. PICK g : IsCalls(g, found, m) /\ CallsOf(found) = g[m]
  BY <1>1, <1>2, CallsOfSeq
<1>5. f[n] = g[n]
  <2>1. n <= n BY <1>2
  <2>. QED BY <1>2, <1>3, <1>4, <2>1, CallsAgree
<1>6. CallsOf(s) \in Seq(Callable) BY CallsOfType
<1>7. PICK Bad : Bad = {k \in n .. m :
                          ~(\E u \in Seq(Callable) : g[k] = CallsOf(s) \o u)}
  OBVIOUS
<1>8. ASSUME Bad # {} PROVE FALSE
  <2>1. PICK k \in Bad : \A j \in Bad : k <= j
    <3>1. Bad \in SUBSET Nat BY <1>2, <1>7
    <3>. QED BY <1>8, <3>1, LeastNumberExists
  <2>2. k \in n .. m BY <1>7, <2>1
  <2>3. CASE k = n
    <3>1. PICK none : none = << >> OBVIOUS
    <3>2. none \in Seq(Callable) /\ CallsOf(s) \o none = CallsOf(s)
      BY <1>6, <3>1, ConcatEmptySeq
    <3>3. g[k] = CallsOf(s) \o none BY <1>3, <1>5, <2>3, <3>2, Zenon
    <3>. QED BY <1>7, <2>1, <3>2, <3>3
  <2>4. CASE k # n
    <3>1. /\ k - 1 \in n .. m /\ k \in 0 .. m /\ k # 0 /\ k \in 1 .. m
          /\ ~(k <= k - 1)
      BY <1>2, <2>2, <2>4
    <3>2. k - 1 \notin Bad BY <2>1, <3>1
    <3>3. PICK u \in Seq(Callable) : g[k - 1] = CallsOf(s) \o u
      BY <1>7, <3>1, <3>2
    <3>4. PICK c : c = Called(found[k]) OBVIOUS
    <3>5. c \in Seq(Callable)
      <4>1. found[k] \in Seq(Byte) BY <1>1, <1>2, <3>1, ElementOfSeq
      <4>. QED BY <3>4, <4>1, CalledType
    <3>6. g[k] = g[k - 1] \o c BY <1>4, <3>1, <3>4 DEF IsCalls
    <3>7. (CallsOf(s) \o u) \o c = CallsOf(s) \o (u \o c)
      BY <1>6, <3>5, ConcatAssociative
    <3>8. PICK e : e = u \o c OBVIOUS
    <3>9. e \in Seq(Callable) BY <3>5, <3>8, ConcatProperties
    <3>10. g[k] = CallsOf(s) \o e BY <3>3, <3>6, <3>7, <3>8, Zenon
    <3>. QED BY <1>7, <2>1, <3>9, <3>10
  <2>. QED BY <2>3, <2>4
<1>9. m \in n .. m /\ m \notin Bad BY <1>2, <1>8
<1>10. PICK u \in Seq(Callable) : g[m] = CallsOf(s) \o u BY <1>7, <1>9
<1>. QED BY <1>4, <1>10, Zenon

-----------------------------------------------------------------------------
(* What was sent and what was announced agree.                             *)

\* What a list can mean, and the history of what was announced.
Meanings == {Meant(list) : list \in {l \in PlayerList : Loadable(l)}}
History == [list : Meanings, damaged : BOOLEAN]

\* The datagrams found in bytes call for the lists announced in them.
ListsRead(all, lists) ==
  /\ \E narrow \in BOOLEAN :
       /\ ReadsAs(all, FoundIn(all), narrow)
       /\ narrow => \E k \in 1 .. Len(lists) : lists[k].damaged
  /\ \A k \in 1 .. Len(FoundIn(all)) : Len(FoundIn(all)[k]) >= 16
  /\ CallsOf(FoundIn(all)) = IntactOf(lists)

LEMMA NoLists == ListsRead(<< >>, << >>)
<1>0. PICK narrow \in BOOLEAN : narrow = FALSE OBVIOUS
<1>1. PICK none : none = << >> OBVIOUS
<1>2. FoundIn(none) = none /\ Len(none) = 0 BY <1>1, NothingInNothing
<1>3. ReadsAs(none, FoundIn(none), narrow)
  <2>1. ReadsAs(none, none, narrow) BY <1>0, <1>1, NothingSent, Zenon
  <2>. QED BY <1>2, <2>1
<1>4. CallsOf(FoundIn(none)) = IntactOf(none)
  BY <1>1, <1>2, CallsOfNone, IntactOfNone
<1>5. ListsRead(none, none) BY <1>0, <1>1, <1>2, <1>3, <1>4 DEF ListsRead
<1>. QED BY <1>1, <1>5

\* One more datagram of a sequence of long ones.
LEMMA StillLong ==
  ASSUME NEW found \in Seq(Seq(Byte)), NEW d \in Seq(Byte), Len(d) >= 16,
         \A k \in 1 .. Len(found) : Len(found[k]) >= 16
  PROVE  \A k \in 1 .. Len(Append(found, d)) : Len(Append(found, d)[k]) >= 16
<1>1. /\ Len(found) \in Nat /\ Len(Append(found, d)) = Len(found) + 1
      /\ Append(found, d)[Len(found) + 1] = d
      /\ \A k \in 1 .. Len(found) : Append(found, d)[k] = found[k]
  BY LenProperties, AppendProperties
<1>2. ASSUME NEW k \in 1 .. Len(Append(found, d))
      PROVE  Len(Append(found, d)[k]) >= 16
  <2>1. k = Len(found) + 1 \/ k \in 1 .. Len(found) BY <1>1
  <2>2. CASE k = Len(found) + 1 BY <1>1, <2>2
  <2>3. CASE k \in 1 .. Len(found) BY <1>1, <2>3
  <2>. QED BY <2>1, <2>2, <2>3
<1>. QED BY <1>2

LEMMA ListSent ==
  ASSUME NEW all, NEW lists \in Seq(History), ListsRead(all, lists),
         NEW list \in PlayerList, NEW a,
         Loadable(list) => a \in History /\ ~a.damaged /\ a.list = Meant(list)
  PROVE  ListsRead(((all \o Before) \o Datagrams[list]) \o After,
                   IF Loadable(list) THEN Append(lists, a) ELSE lists)
<1>1. PICK now, d, found, lists2 :
        /\ now = ((all \o Before) \o Datagrams[list]) \o After
        /\ d = Datagrams[list] /\ found = FoundIn(all)
        /\ lists2 = IF Loadable(list) THEN Append(lists, a) ELSE lists
  OBVIOUS
<1>2. PICK narrow \in BOOLEAN : ReadsAs(all, found, narrow)
  BY <1>1 DEF ListsRead
<1>3. found \in Seq(Seq(Byte)) BY <1>2 DEF ReadsAs
<1>4. WholeDatagram(d) /\ Len(d) >= 16 /\ d \in Seq(Byte)
  BY <1>1, ListIsWhole DEF WholeDatagram
<1>5. ReadsAs(now, Append(found, d), FALSE)
  <2>1. ReadsAs(((all \o Before) \o d) \o After, Append(found, d), FALSE)
    BY <1>1, <1>2, <1>4, WholeSent
  <2>. QED BY <1>1, <2>1, Zenon
<1>6. FoundIn(now) = Append(found, d) BY <1>5 DEF ReadsAs
<1>7. \A k \in 1 .. Len(FoundIn(now)) : Len(FoundIn(now)[k]) >= 16
  <2>1. \A k \in 1 .. Len(found) : Len(found[k]) >= 16 BY <1>1 DEF ListsRead
  <2>. QED BY <1>3, <1>4, <1>6, <2>1, StillLong
<1>8. CallsOf(FoundIn(now)) = CallsOf(found) \o Called(d)
  BY <1>3, <1>4, <1>6, CallsOfMore
<1>9. CallsOf(found) = IntactOf(lists) /\ CallsOf(found) \in Seq(Callable)
  BY <1>1, <1>3, CallsOfType DEF ListsRead
<1>10. CallsOf(FoundIn(now)) = IntactOf(lists2)
  <2>1. CASE Loadable(list)
    <3>0. a \in History /\ ~a.damaged /\ a.list = Meant(list) BY <2>1
    <3>1. PICK c : c = Meant(list) OBVIOUS
    <3>2. Called(d) = <<c>> BY <1>1, <2>1, <3>1, ListCalled
    <3>3. <<c>> \in Seq(Callable) BY <1>4, <3>2, CalledType
    <3>4. c \in Callable
      <4>1. PICK one : one = <<c>> OBVIOUS
      <4>2. one \in Seq(Callable) /\ Len(one) = 1 /\ one[1] = c
        BY <3>3, <4>1
      <4>3. 1 \in 1 .. Len(one) BY <4>2
      <4>. QED BY <4>2, <4>3, ElementOfSeq, Zenon
    <3>5. PICK calls : calls = CallsOf(found) OBVIOUS
    <3>6. calls \in Seq(Callable) /\ Append(calls, c) = calls \o <<c>>
      BY <1>9, <3>4, <3>5, AppendIsConcat
    <3>7. IntactOf(Append(lists, a)) = Append(IntactOf(lists), c)
      BY <3>0, <3>1, IntactOfMore
    <3>8. lists2 = Append(lists, a) BY <1>1, <2>1
    <3>. QED BY <1>8, <1>9, <3>2, <3>5, <3>6, <3>7, <3>8, Zenon
  <2>2. CASE ~Loadable(list)
    <3>1. Called(d) = << >> BY <1>1, <2>2, ListCalled
    <3>2. PICK calls : calls = CallsOf(found) OBVIOUS
    <3>3. calls \o << >> = calls BY <1>9, <3>2, ConcatEmptySeq
    <3>4. lists2 = lists BY <1>1, <2>2
    <3>. QED BY <1>8, <1>9, <3>1, <3>2, <3>3, <3>4, Zenon
  <2>. QED BY <2>1, <2>2
<1>11. PICK wide \in BOOLEAN : wide = FALSE OBVIOUS
<1>12. ReadsAs(now, FoundIn(now), wide) BY <1>5, <1>6, <1>11, Zenon
<1>13. ListsRead(now, lists2) BY <1>7, <1>10, <1>11, <1>12 DEF ListsRead
<1>. QED BY <1>1, <1>13, Zenon

LEMMA ListDamaged ==
  ASSUME NEW all, NEW lists \in Seq(History), ListsRead(all, lists),
         \A k \in 1 .. Len(lists) : ~lists[k].damaged,
         NEW list \in PlayerList, Loadable(list),
         NEW n \in 1 .. Len(Datagrams[list]), NEW bit \in DamagedBit,
         NEW a \in History, a.damaged
  PROVE  ListsRead(((all \o Before) \o Flip(Datagrams[list], n, bit)) \o After,
                   Append(lists, a))
<1>1. PICK now, f, found, lists2 :
        /\ now = ((all \o Before) \o Flip(Datagrams[list], n, bit)) \o After
        /\ f = Flip(Datagrams[list], n, bit) /\ found = FoundIn(all)
        /\ lists2 = Append(lists, a)
  OBVIOUS
<1>2. ReadsAs(all, found, FALSE)
  <2>1. PICK narrow \in BOOLEAN :
          /\ ReadsAs(all, found, narrow)
          /\ narrow => \E k \in 1 .. Len(lists) : lists[k].damaged
    BY <1>1 DEF ListsRead
  <2>2. ~narrow BY <2>1
  <2>3. narrow = FALSE BY <2>2
  <2>. QED BY <2>1, <2>3, Zenon
<1>3. found \in Seq(Seq(Byte)) BY <1>2 DEF ReadsAs
<1>4. \/ ReadsAs(now, found, TRUE)
      \/ ReadsAs(now, Append(found, f), TRUE) /\ Called(f) = << >>
  <2>1. LET next == ((all \o Before) \o f) \o After
        IN  \/ ReadsAs(next, found, TRUE)
            \/ ReadsAs(next, Append(found, f), TRUE) /\ Called(f) = << >>
    BY <1>1, <1>2, DamagedSent
  <2>. QED BY <1>1, <2>1, Zenon
<1>5. CallsOf(found) = IntactOf(lists) /\ CallsOf(found) \in Seq(Callable)
  BY <1>1, <1>3, CallsOfType DEF ListsRead
<1>6. IntactOf(lists2) = IntactOf(lists) BY <1>1, IntactOfMore
<1>7. f \in Seq(Byte) /\ Len(f) >= 16
  <2>1. PICK m : m = Datagrams[list] OBVIOUS
  <2>2. m \in Seq(Byte) /\ Len(m) >= 16 BY <2>1, ListIsWhole DEF WholeDatagram
  <2>3. DifferAt(m, f, n) BY <1>1, <2>1, <2>2, FlipFacts
  <2>. QED BY <2>2, <2>3 DEF DifferAt
<1>8. \A k \in 1 .. Len(found) : Len(found[k]) >= 16 BY <1>1 DEF ListsRead
<1>9. \E k \in 1 .. Len(lists2) : lists2[k].damaged
  <2>1. /\ Len(lists) \in Nat /\ Len(Append(lists, a)) = Len(lists) + 1
        /\ Append(lists, a)[Len(lists) + 1] = a
    BY LenProperties, AppendProperties
  <2>2. Len(lists) + 1 \in 1 .. Len(lists2) /\ lists2[Len(lists) + 1] = a
    BY <1>1, <2>1
  <2>. QED BY <2>2
<1>10. PICK narrow \in BOOLEAN : narrow = TRUE OBVIOUS
<1>11. CASE ReadsAs(now, found, TRUE)
  <2>1. FoundIn(now) = found BY <1>11 DEF ReadsAs
  <2>2. ReadsAs(now, FoundIn(now), narrow) BY <1>10, <1>11, <2>1, Zenon
  <2>. QED BY <1>5, <1>6, <1>8, <1>9, <1>1, <2>1, <2>2 DEF ListsRead
<1>12. CASE ReadsAs(now, Append(found, f), TRUE) /\ Called(f) = << >>
  <2>1. FoundIn(now) = Append(found, f) BY <1>12 DEF ReadsAs
  <2>2. ReadsAs(now, FoundIn(now), narrow) BY <1>10, <1>12, <2>1, Zenon
  <2>3. \A k \in 1 .. Len(FoundIn(now)) : Len(FoundIn(now)[k]) >= 16
    BY <1>3, <1>7, <1>8, <2>1, StillLong
  <2>4. CallsOf(FoundIn(now)) = IntactOf(lists2)
    <3>1. CallsOf(FoundIn(now)) = CallsOf(found) \o Called(f)
      BY <1>3, <1>7, <2>1, CallsOfMore
    <3>2. PICK calls : calls = CallsOf(found) OBVIOUS
    <3>3. calls \o << >> = calls BY <1>5, <3>2, ConcatEmptySeq
    <3>. QED BY <1>5, <1>6, <1>12, <3>1, <3>2, <3>3, Zenon
  <2>. QED BY <1>9, <1>1, <2>2, <2>3, <2>4 DEF ListsRead
<1>. QED BY <1>4, <1>11, <1>12

-----------------------------------------------------------------------------
(* The inductive invariant of the link, and the steps that keep it.        *)

LEMMA MinOfTwo ==
  ASSUME NEW m \in Nat, NEW n \in Nat, NEW k, k = Min({m, n})
  PROVE  k \in {m, n} /\ k <= m /\ k <= n
<1>1. \E x \in {m, n} : \A y \in {m, n} : x <= y
  <2>1. CASE m <= n BY <2>1
  <2>2. CASE ~(m <= n) BY <2>2
  <2>. QED BY <2>1, <2>2
<1>. QED BY <1>1 DEF Min

\* A sequence is its beginning and its rest.
LEMMA PartsJoined ==
  ASSUME NEW s \in Seq(Byte), NEW k \in 0 .. Len(s),
         NEW a \in Seq(Byte), Len(a) = k, \A j \in 1 .. k : a[j] = s[j],
         NEW b \in Seq(Byte), Len(b) = Len(s) - k,
         \A j \in 1 .. Len(b) : b[j] = s[k + j]
  PROVE  a \o b = s
<1>1. Len(s) \in Nat BY LenProperties
<1>2. PICK c : c = a \o b OBVIOUS
<1>3. /\ a \o b \in Seq(Byte) /\ Len(a \o b) = Len(a) + Len(b)
      /\ \A j \in 1 .. Len(a) + Len(b) :
           (a \o b)[j] = IF j <= Len(a) THEN a[j] ELSE b[j - Len(a)]
  BY ConcatProperties
<1>4. /\ c \in Seq(Byte) /\ Len(c) = Len(a) + Len(b)
      /\ \A j \in 1 .. Len(a) + Len(b) :
           c[j] = IF j <= Len(a) THEN a[j] ELSE b[j - Len(a)]
  BY <1>2, <1>3, Zenon
<1>5. ASSUME NEW j \in 1 .. Len(c) PROVE c[j] = s[j]
  <2>1. CASE j <= k BY <1>1, <1>4, <2>1
  <2>2. CASE ~(j <= k)
    <3>1. j - k \in 1 .. Len(b) /\ k + (j - k) = j BY <1>1, <1>4, <2>2
    <3>2. c[j] = b[j - k] BY <1>1, <1>4, <2>2
    <3>3. b[j - k] = s[k + (j - k)] BY <3>1
    <3>. QED BY <3>1, <3>2, <3>3
  <2>. QED BY <2>1, <2>2
<1>6. Len(c) = Len(s) BY <1>1, <1>4
<1>7. c = s BY <1>4, <1>5, <1>6, SeqEqual
<1>. QED BY <1>2, <1>7

LinkInv ==
  /\ SP!StreamInv
  /\ wire \in Seq(Byte) /\ announced \in Seq(History)
  /\ ListsRead(received \o wire, announced)
  /\ loaded = CallsOf(delivered)

LEMMA LinkTypes ==
  ASSUME LinkInv
  PROVE  /\ received \in Seq(Byte) /\ delivered \in Seq(Seq(Byte))
         /\ loaded \in Seq(Callable)
<1>1. received \in Seq(Byte) /\ delivered \in Seq(Seq(Byte))
  BY DEF LinkInv, SP!StreamInv, SP!HeaderInv, SP!TypeOK
<1>2. CallsOf(delivered) \in Seq(Callable) BY <1>1, CallsOfType
<1>. QED BY <1>1, <1>2 DEF LinkInv

LEMMA LinkInvInit == LinkInit => LinkInv
<1> SUFFICES ASSUME LinkInit PROVE LinkInv OBVIOUS
<1>1. /\ wire = << >> /\ announced = << >> /\ loaded = << >>
      /\ received = << >> /\ delivered = << >>
  BY DEF LinkInit, Stream!Init
<1>2. SP!Init
  BY DEF LinkInit, Stream!Init, SP!Init
<1>3. SP!StreamInv
  BY <1>2, SP!StreamInvInit, HeaderFacts, FieldFacts, ReadFacts
<1>4. wire \in Seq(Byte) /\ announced \in Seq(History) BY <1>1
<1>5. received \o wire = << >>
  <2>1. << >> \in Seq(Byte) BY EmptySeq
  <2>2. << >> \o << >> = << >> BY <2>1, ConcatEmptySeq
  <2>. QED BY <1>1, <2>2
<1>6. ListsRead(received \o wire, announced) BY <1>1, <1>5, NoLists
<1>7. loaded = CallsOf(delivered) BY <1>1, CallsOfNone
<1>. QED BY <1>3, <1>4, <1>6, <1>7 DEF LinkInv

\* The stream's part of a step.
LEMMA StreamKept ==
  ASSUME LinkInv, UNCHANGED streamVars
  PROVE  SP!StreamInv'
<1>1. SP!StreamInv BY DEF LinkInv
<1>2. UNCHANGED SP!vars BY DEF streamVars, SP!vars
<1>3. [SP!Next]_SP!vars BY <1>2
<1>. QED BY <1>1, <1>3, SP!StreamInvStep, HeaderFacts, FieldFacts, ReadFacts

LEMMA StreamSteps ==
  ASSUME LinkInv, SP!Next
  PROVE  SP!StreamInv'
<1>1. SP!StreamInv BY DEF LinkInv
<1>2. [SP!Next]_SP!vars OBVIOUS
<1>. QED BY <1>1, <1>2, SP!StreamInvStep, HeaderFacts, FieldFacts, ReadFacts

\* A read moves bytes from the wire to the stream.
LEMMA ReadSomeStep ==
  ASSUME LinkInv, NEW n \in ReadSize, ReadSome(n)
  PROVE  LinkInv' /\ UNCHANGED <<announced, loaded>>
<1>1. PICK k : k = Min({n, Len(wire)}) OBVIOUS
<1>2. /\ wire # << >> /\ Stream!AddData(SubSeq(wire, 1, k))
      /\ wire' = SubSeq(wire, k + 1, Len(wire))
      /\ UNCHANGED <<announced, loaded>>
  BY <1>1 DEF ReadSome
<1>3. wire \in Seq(Byte) /\ Len(wire) \in Nat /\ Len(wire) # 0
  BY <1>2, LenProperties, EmptySeq DEF LinkInv
<1>4. n \in Nat /\ n # 0 BY LinkAssumption
<1>5. k \in 1 .. Len(wire)
  <2>1. k \in {n, Len(wire)} /\ k <= n /\ k <= Len(wire)
    BY <1>1, <1>3, <1>4, MinOfTwo
  <2>. QED BY <1>3, <1>4, <2>1
<1>6. PICK chunk, rest : /\ chunk = SubSeq(wire, 1, k)
                         /\ rest = SubSeq(wire, k + 1, Len(wire))
  OBVIOUS
<1>7. /\ chunk \in Seq(Byte) /\ Len(chunk) = k /\ rest \in Seq(Byte)
      /\ chunk \o rest = wire
  <2>1. k \in 0 .. Len(wire) /\ k + 1 \in 1 .. Len(wire) + 1 BY <1>3, <1>5
  <2>2. chunk \in Seq(Byte) /\ Len(chunk) = k
        /\ \A j \in 1 .. k : chunk[j] = wire[j]
    BY <1>3, <1>6, <2>1, SP!PrefixProperties, HeaderFacts, FieldFacts, ReadFacts
  <2>3. rest = SP!From(wire, k + 1) BY <1>6 DEF SP!From
  <2>4. /\ rest \in Seq(Byte) /\ Len(rest) = Len(wire) - (k + 1) + 1
        /\ \A j \in 1 .. Len(wire) - (k + 1) + 1 : rest[j] = wire[k + 1 + j - 1]
    BY <1>3, <2>1, <2>3, SP!FromProperties, HeaderFacts, FieldFacts, ReadFacts
  <2>5. chunk \o rest = wire
    <3>1. Len(rest) = Len(wire) - k /\ k \in 0 .. Len(wire)
      BY <1>3, <1>5, <2>4
    <3>2. ASSUME NEW j \in 1 .. Len(rest) PROVE rest[j] = wire[k + j]
      <4>1. j \in 1 .. Len(wire) - (k + 1) + 1 /\ k + 1 + j - 1 = k + j
        BY <1>3, <1>5, <3>1
      <4>. QED BY <2>4, <4>1
    <3>. QED BY <1>3, <2>2, <2>4, <3>1, <3>2, PartsJoined
  <2>. QED BY <2>2, <2>4, <2>5
<1>8. chunk \in Seq(Byte) \ {<< >>}
  <2>1. chunk # << >> BY <1>5, <1>7, EmptySeq
  <2>. QED BY <1>7, <2>1
<1>9. SP!AddData(chunk)
  BY <1>2, <1>6 DEF Stream!AddData, SP!AddData
<1>10. SP!Next BY <1>8, <1>9 DEF SP!Next
<1>11. SP!StreamInv' BY <1>10, StreamSteps
<1>12. received' = received \o chunk /\ delivered' = delivered BY <1>9 DEF SP!AddData
<1>13. received' \o wire' = received \o wire
  <2>1. received \in Seq(Byte) BY LinkTypes
  <2>2. (received \o chunk) \o rest = received \o (chunk \o rest)
    BY <1>7, <2>1, JoinedAlike
  <2>3. wire' = rest BY <1>2, <1>6
  <2>. QED BY <1>7, <1>12, <2>2, <2>3, Zenon
<1>14. wire' \in Seq(Byte) BY <1>2, <1>6, <1>7
<1>15. ListsRead(received \o wire, announced)' BY <1>2, <1>13 DEF LinkInv, ListsRead
<1>16. (loaded = CallsOf(delivered))' BY <1>2, <1>12 DEF LinkInv
<1>. QED BY <1>2, <1>11, <1>14, <1>15, <1>16 DEF LinkInv

\* The stream looks for a datagram and has found none yet.
LEMMA SearchStep ==
  ASSUME LinkInv, SearchDatagram
  PROVE  LinkInv' /\ UNCHANGED <<announced, loaded>>
<1>1. SP!Next /\ UNCHANGED <<received, delivered>>
  <2>1. CASE Stream!Incomplete
    BY <2>1 DEF Stream!Incomplete, SP!Incomplete, SP!FlushData, SP!Next
  <2>2. CASE Stream!ScanFound
    BY <2>2 DEF Stream!ScanFound, SP!ScanFound, Stream!Begins, SP!Begins,
                Stream!From, SP!From, SP!FlushData, SP!Next
  <2>3. CASE Stream!ScanNotFound
    BY <2>3 DEF Stream!ScanNotFound, SP!ScanNotFound, Stream!Begins, SP!Begins,
                Stream!From, SP!From, SP!FlushData, SP!Next
  <2>4. CASE Stream!ScanEmpty
    BY <2>4 DEF Stream!ScanEmpty, SP!ScanEmpty, SP!FlushData, SP!Next
  <2>5. CASE Stream!ReadFlag
    BY <2>5 DEF Stream!ReadFlag, SP!ReadFlag, Stream!HeaderLength,
                SP!HeaderLength, Stream!Flagged, SP!Flagged, SP!FlushData, SP!Next
  <2>6. CASE Stream!AcceptHeader
    BY <2>6 DEF Stream!AcceptHeader, SP!AcceptHeader, Stream!HeaderCorrect,
                SP!HeaderCorrect, Stream!BeginsDatagram, SP!BeginsDatagram,
                Stream!HeaderPayloadLength, SP!HeaderPayloadLength,
                SP!FlushData, SP!Next
  <2>7. CASE Stream!RejectHeader
    BY <2>7 DEF Stream!RejectHeader, SP!RejectHeader, Stream!HeaderCorrect,
                SP!HeaderCorrect, Stream!BeginsDatagram, SP!BeginsDatagram,
                Stream!From, SP!From, SP!FlushData, SP!Next
  <2>. QED BY <2>1, <2>2, <2>3, <2>4, <2>5, <2>6, <2>7 DEF SearchDatagram
<1>2. SP!StreamInv' BY <1>1, StreamSteps
<1>3. UNCHANGED <<wire, announced, loaded>> BY DEF SearchDatagram
<1>4. ListsRead(received \o wire, announced)' BY <1>1, <1>3 DEF LinkInv, ListsRead
<1>5. (loaded = CallsOf(delivered))' BY <1>1, <1>3 DEF LinkInv
<1>. QED BY <1>2, <1>3, <1>4, <1>5 DEF LinkInv

\* What LoadClients appends is what the datagram calls for.
LEMMA HandlerCalls ==
  ASSUME loaded \in Seq(Callable), NEW bytes \in Seq(Byte),
         IF PayloadCorrectness(Load(bytes)) THEN LoadClients(Load(bytes))
                                            ELSE UNCHANGED loaded
  PROVE  \/ Called(bytes) = << >> /\ loaded' = loaded
         \/ \E c \in Callable : Called(bytes) = <<c>> /\ loaded' = Append(loaded, c)
<1>1. PICK game, c : game = GameIn(bytes) /\ c = ClientsIn(game) OBVIOUS
<1>2. c \in Callable BY <1>1 DEF Callable
<1>3. Called(bytes) = IF /\ PayloadCorrectness(Load(bytes))
                         /\ Version(Load(bytes)) = GAME_CLIENTS_VERSION
                         /\ ~(Len(game.teams) < 2)
                      THEN <<c>> ELSE << >>
  BY <1>1 DEF Called
<1>4. CASE ~PayloadCorrectness(Load(bytes))
  BY <1>3, <1>4
<1>5. CASE PayloadCorrectness(Load(bytes))
  <2>1. IF Version(Load(bytes)) # GAME_CLIENTS_VERSION \/ Len(game.teams) < 2
        THEN UNCHANGED loaded ELSE loaded' = Append(loaded, c)
    BY <1>1, <1>5, Zenon DEF LoadClients, GameIn
  <2>. QED BY <1>2, <1>3, <1>5, <2>1
<1>. QED BY <1>4, <1>5

\* A datagram is handled: the next call that was meant, or none.
LEMMA HandleStep ==
  ASSUME LinkInv, HandleDatagram
  PROVE  LinkInv' /\ [Lists!Next]_Lists!playerListVars
<1>1. PICK d : d = SubSeq(buffer, 1, header_length + payload_length) OBVIOUS
<1>2. SP!LoadDatagram
  BY DEF HandleDatagram, Stream!LoadDatagram, SP!LoadDatagram, Stream!From, SP!From
<1>3. /\ UNCHANGED <<wire, announced, received>>
      /\ delivered' = Append(delivered, d)
  BY <1>1, <1>2 DEF HandleDatagram, SP!LoadDatagram
<1>4. SP!StreamInv' BY <1>2, StreamSteps DEF SP!Next, SP!FlushData
<1>5. SP!StreamInv /\ SP!ReadAlike /\ wire \in Seq(Byte)
  BY DEF LinkInv, SP!StreamInv
<1>6. received \in Seq(Byte) /\ delivered \in Seq(Seq(Byte)) /\ loaded \in Seq(Callable)
  BY LinkTypes
<1>7. PICK all, found, p, rest :
        /\ all = received \o wire /\ found = FoundIn(all)
        /\ p = SP!Gone + header_length + payload_length + 1
        /\ rest = SP!Parse(all)[p]
  OBVIOUS
<1>8. /\ d \in Seq(Byte) /\ rest \in Seq(Seq(Byte))
      /\ found = delivered \o (<<d>> \o rest)
  <2>1. /\ d \in Seq(Byte)
        /\ SP!Parse(received \o wire)[SP!Gone + header_length + payload_length + 1]
             \in Seq(Seq(Byte))
        /\ SP!Parse(received \o wire)[SP!Gone + 1]
             = <<d>> \o SP!Parse(received \o wire)
                          [SP!Gone + header_length + payload_length + 1]
    BY <1>1, <1>2, <1>5, SP!LoadStep, HeaderFacts, FieldFacts, ReadFacts
  <2>2. SP!Parse(received \o wire)[1]
          = delivered \o SP!Parse(received \o wire)[SP!Gone + 1]
    BY <1>5 DEF SP!ReadAlike
  <2>. QED BY <1>7, <2>1, <2>2, Zenon DEF FoundIn
<1>9. PICK now : now = Append(delivered, d) OBVIOUS
<1>10. /\ now \in Seq(Seq(Byte)) /\ found \in Seq(Seq(Byte))
       /\ Len(now) <= Len(found)
       /\ \A k \in 1 .. Len(now) : now[k] = found[k]
  <2>1. PICK S, one : S = Seq(Byte) /\ one = <<d>> OBVIOUS
  <2>2. one \in Seq(S) /\ delivered \in Seq(S) /\ rest \in Seq(S) /\ d \in S
    BY <1>6, <1>8, <2>1
  <2>3. now = delivered \o one BY <1>9, <2>1, <2>2, AppendIsConcat
  <2>4. found = now \o rest
    <3>1. (delivered \o one) \o rest = delivered \o (one \o rest)
      BY <2>2, ConcatAssociative
    <3>. QED BY <1>8, <2>1, <2>3, <3>1, Zenon
  <2>5. now \in Seq(S) BY <1>9, <2>2
  <2>6. /\ now \o rest \in Seq(S) /\ Len(now \o rest) = Len(now) + Len(rest)
        /\ Len(now) \in Nat /\ Len(rest) \in Nat
        /\ \A k \in 1 .. Len(now) + Len(rest) :
             (now \o rest)[k] = IF k <= Len(now) THEN now[k] ELSE rest[k - Len(now)]
    BY <2>2, <2>5, ConcatProperties, LenProperties
  <2>7. /\ found \in Seq(S) /\ Len(found) = Len(now) + Len(rest)
        /\ Len(now) \in Nat /\ Len(rest) \in Nat
        /\ \A k \in 1 .. Len(now) + Len(rest) :
             found[k] = IF k <= Len(now) THEN now[k] ELSE rest[k - Len(now)]
    BY <2>4, <2>6, Zenon
  <2>. QED BY <2>1, <2>5, <2>7
<1>11. PICK u \in Seq(Callable) : CallsOf(found) = CallsOf(now) \o u
  BY <1>10, CallsBegin
<1>12. CallsOf(now) = loaded \o Called(d)
  BY <1>6, <1>8, <1>9, CallsOfMore DEF LinkInv
<1>13. CallsOf(found) = Lists!Intact
  BY <1>7, IntactIs DEF LinkInv, ListsRead
<1>14. \/ Called(d) = << >> /\ loaded' = loaded
       \/ \E c \in Callable : Called(d) = <<c>> /\ loaded' = Append(loaded, c)
  <2>1. delivered'[Len(delivered')] = d
    <3>1. Len(Append(delivered, d)) = Len(delivered) + 1
          /\ Append(delivered, d)[Len(delivered) + 1] = d
      BY <1>6, <1>8, AppendProperties
    <3>. QED BY <1>3, <3>1
  <2>2. \E bytes \in {delivered'[Len(delivered')]} :
          \E datagram \in {Load(bytes)} :
            IF PayloadCorrectness(datagram) THEN LoadClients(datagram)
                                            ELSE UNCHANGED loaded
    BY DEF HandleDatagram
  <2>3. IF PayloadCorrectness(Load(d)) THEN LoadClients(Load(d))
                                       ELSE UNCHANGED loaded
    BY <2>1, <2>2, Zenon
  <2>. QED BY <1>6, <1>8, <2>3, HandlerCalls
<1>15. loaded' = CallsOf(now) /\ [Lists!Next]_Lists!playerListVars
  <2>1. CASE Called(d) = << >> /\ loaded' = loaded
    <3>1. CallsOf(now) = loaded BY <1>6, <1>12, <2>1, ConcatEmptySeq
    <3>2. UNCHANGED Lists!playerListVars
      BY <1>3, <2>1 DEF Lists!playerListVars
    <3>. QED BY <2>1, <3>1, <3>2
  <2>2. CASE \E c \in Callable : Called(d) = <<c>> /\ loaded' = Append(loaded, c)
    <3>1. PICK c \in Callable : Called(d) = <<c>> /\ loaded' = Append(loaded, c)
      BY <2>2
    <3>2. CallsOf(now) = Append(loaded, c)
      BY <1>6, <1>12, <3>1, AppendIsConcat
    <3>3. PICK s : s = Append(loaded, c) OBVIOUS
    <3>4. /\ s \in Seq(Callable) /\ Len(s) = Len(loaded) + 1
          /\ s[Len(loaded) + 1] = c /\ Len(loaded) \in Nat
      BY <1>6, <3>3, AppendProperties, LenProperties
    <3>5. /\ Len(s \o u) = Len(s) + Len(u) /\ Len(u) \in Nat
          /\ \A k \in 1 .. Len(s) + Len(u) :
               (s \o u)[k] = IF k <= Len(s) THEN s[k] ELSE u[k - Len(s)]
      BY <3>4, ConcatProperties, LenProperties
    <3>6. Lists!Intact = s \o u BY <1>11, <1>13, <3>2, <3>3, Zenon
    <3>7. Len(loaded) + 1 \in 1 .. Len(s) + Len(u) /\ Len(loaded) + 1 <= Len(s)
      BY <3>4, <3>5
    <3>8. (s \o u)[Len(loaded) + 1] = c /\ Len(loaded) < Len(s \o u)
      BY <3>4, <3>5, <3>7
    <3>9. Lists!Intact[Len(loaded) + 1] = c /\ Len(loaded) < Len(Lists!Intact)
      BY <3>6, <3>8, Zenon
    <3>10. Lists!LoadNext BY <1>3, <3>1, <3>9 DEF Lists!LoadNext
    <3>. QED BY <3>1, <3>2, <3>10 DEF Lists!Next
  <2>. QED BY <1>14, <2>1, <2>2
<1>16. ListsRead(received \o wire, announced)' BY <1>3 DEF LinkInv, ListsRead
<1>17. (loaded = CallsOf(delivered))' BY <1>3, <1>9, <1>15
<1>18. wire' \in Seq(Byte) /\ announced' \in Seq(History) BY <1>3 DEF LinkInv
<1>. QED BY <1>4, <1>15, <1>16, <1>17, <1>18 DEF LinkInv

\* The main process sends a list: the history it tells grows by that list.
LEMMA SendStep ==
  ASSUME LinkInv, NEW list \in PlayerList, SendPlayerList(list)
  PROVE  LinkInv' /\ [Lists!Next]_Lists!playerListVars
<1>1. PICK d : d = Datagrams[list] OBVIOUS
<1>2. /\ wire \in Seq(Byte) /\ announced \in Seq(History)
      /\ received \in Seq(Byte) /\ ListsRead(received \o wire, announced)
      /\ loaded = CallsOf(delivered)
  BY LinkTypes DEF LinkInv
<1>3. /\ Before \in Seq(Byte) /\ After \in Seq(Byte) /\ d \in Seq(Byte)
  BY <1>1, AroundNoise, ListIsWhole DEF WholeDatagram
<1>4. ASSUME NEW e \in Seq(Byte), NEW damaged \in BOOLEAN, Send(list, e, damaged),
             NEW lists,
             ListsRead((((received \o wire) \o Before) \o e) \o After, lists),
             announced' = lists,
             \/ lists = announced
             \/ /\ Loadable(list)
                /\ lists = Append(announced, [list |-> Meant(list), damaged |-> damaged])
      PROVE  LinkInv' /\ [Lists!Next]_Lists!playerListVars
  <2>1. wire' = ((wire \o Before) \o e) \o After /\ UNCHANGED <<loaded, streamVars>>
    BY <1>4 DEF Send
  <2>2. SP!StreamInv' BY <2>1, StreamKept
  <2>3. PICK a, b : a = wire \o Before /\ b = a \o e OBVIOUS
  <2>4. a \in Seq(Byte) BY <1>2, <1>3, <2>3, Joined
  <2>5. b \in Seq(Byte) BY <2>3, <2>4, Joined
  <2>6. b \o After \in Seq(Byte) BY <1>3, <2>5, Joined
  <2>7. wire' = b \o After BY <2>1, <2>3, Zenon
  <2>8. received' = received /\ delivered' = delivered /\ loaded' = loaded
    BY <2>1 DEF streamVars
  <2>9. received' \o wire' = (((received \o wire) \o Before) \o e) \o After
    <3>1. received \o (b \o After) = (received \o b) \o After
      BY <1>2, <1>3, <2>5, JoinedAlike, ZenonT(60)
    <3>2. received \o (a \o e) = (received \o a) \o e
      BY <1>2, <2>4, JoinedAlike, ZenonT(60)
    <3>3. received \o (wire \o Before) = (received \o wire) \o Before
      BY <1>2, <1>3, JoinedAlike, ZenonT(60)
    <3>. QED BY <2>3, <2>7, <2>8, <3>1, <3>2, <3>3, Zenon
  <2>10. ListsRead(received \o wire, announced)'
    <3>1. ListsRead(received' \o wire', announced') BY <1>4, <2>9, Zenon
    <3>. QED BY <3>1 DEF ListsRead
  <2>11. announced' \in Seq(History) /\ [Lists!Next]_Lists!playerListVars
    <3>1. CASE lists = announced
      BY <1>2, <1>4, <2>8, <3>1 DEF Lists!playerListVars
    <3>2. CASE /\ Loadable(list)
               /\ lists = Append(announced, [list |-> Meant(list), damaged |-> damaged])
      <4>1. Meant(list) \in Meanings BY <3>2 DEF Meanings
      <4>2. [list |-> Meant(list), damaged |-> damaged] \in History
        BY <4>1 DEF History
      <4>3. announced' \in Seq(History) BY <1>2, <1>4, <3>2, <4>2
      <4>4. Lists!Announce(Meant(list), damaged)
        BY <1>4, <2>8, <3>2 DEF Lists!Announce
      <4>5. Lists!Next BY <4>1, <4>4 DEF Lists!Next, Meanings
      <4>. QED BY <4>3, <4>5
    <3>. QED BY <1>4, <3>1, <3>2
  <2>12. (loaded = CallsOf(delivered))' BY <1>2, <2>8
  <2>13. wire' \in Seq(Byte) BY <2>6, <2>7
  <2>. QED BY <2>2, <2>10, <2>11, <2>12, <2>13 DEF LinkInv
<1>5. CASE Send(list, d, FALSE)
  <2>1. PICK damaged \in BOOLEAN : damaged = FALSE OBVIOUS
  <2>2. PICK r, lists : /\ r = [list |-> Meant(list), damaged |-> damaged]
                        /\ lists = IF Loadable(list) THEN Append(announced, r)
                                   ELSE announced
    OBVIOUS
  <2>3. Send(list, d, damaged) BY <1>5, <2>1, Zenon
  <2>4. announced' = lists BY <2>2, <2>3 DEF Send
  <2>5. ListsRead((((received \o wire) \o Before) \o d) \o After, lists)
    <3>1. CASE Loadable(list)
      <4>1. Meant(list) \in Meanings BY <3>1 DEF Meanings
      <4>2. r \in History /\ ~r.damaged /\ r.list = Meant(list)
        BY <2>1, <2>2, <4>1 DEF History
      <4>. QED BY <1>1, <1>2, <2>2, <4>2, ListSent
    <3>2. CASE ~Loadable(list) BY <1>1, <1>2, <2>2, <3>2, ListSent
    <3>. QED BY <3>1, <3>2
  <2>. QED BY <1>3, <1>4, <2>2, <2>3, <2>4, <2>5
<1>6. ASSUME \A k \in DOMAIN announced : ~announced[k].damaged, Loadable(list),
             NEW n \in DOMAIN d, NEW bit \in DamagedBit,
             Send(list, Flip(d, n, bit), TRUE)
      PROVE  LinkInv' /\ [Lists!Next]_Lists!playerListVars
  <2>1. PICK damaged \in BOOLEAN : damaged = TRUE OBVIOUS
  <2>2. PICK r, lists, f : /\ r = [list |-> Meant(list), damaged |-> damaged]
                           /\ lists = Append(announced, r)
                           /\ f = Flip(d, n, bit)
    OBVIOUS
  <2>3. Send(list, f, damaged) BY <1>6, <2>1, <2>2, Zenon
  <2>4. announced' = lists BY <1>6, <2>2, <2>3 DEF Send
  <2>5. Meant(list) \in Meanings BY <1>6 DEF Meanings
  <2>6. r \in History /\ r.damaged BY <2>1, <2>2, <2>5 DEF History
  <2>7. /\ \A k \in 1 .. Len(announced) : ~announced[k].damaged
        /\ n \in 1 .. Len(d)
    <3>1. DOMAIN announced = 1 .. Len(announced) /\ DOMAIN d = 1 .. Len(d)
      BY <1>2, <1>3, LenProperties
    <3>. QED BY <1>6, <3>1
  <2>8. ListsRead((((received \o wire) \o Before) \o f) \o After, lists)
    <3>1. n \in 1 .. Len(Datagrams[list]) /\ f = Flip(Datagrams[list], n, bit)
      BY <1>1, <2>2, <2>7
    <3>2. ListsRead((((received \o wire) \o Before) \o Flip(Datagrams[list], n, bit))
                       \o After, Append(announced, r))
      BY <1>2, <1>6, <2>6, <2>7, <3>1, ListDamaged
    <3>. QED BY <2>2, <3>1, <3>2, Zenon
  <2>9. f \in Seq(Byte)
    <3>1. DifferAt(d, f, n) BY <1>3, <2>2, <2>7, FlipFacts
    <3>. QED BY <3>1 DEF DifferAt
  <2>. QED BY <1>4, <1>6, <2>2, <2>3, <2>4, <2>8, <2>9
<1>. QED BY <1>1, <1>5, <1>6 DEF SendPlayerList

LEMMA LinkStep ==
  ASSUME LinkInv, LinkNext
  PROVE  LinkInv' /\ [Lists!Next]_Lists!playerListVars
<1>1. ASSUME NEW n \in ReadSize, ReadSome(n)
      PROVE  LinkInv' /\ [Lists!Next]_Lists!playerListVars
  BY <1>1, ReadSomeStep DEF Lists!playerListVars
<1>2. CASE SearchDatagram
  BY <1>2, SearchStep DEF Lists!playerListVars
<1>3. CASE HandleDatagram BY <1>3, HandleStep
<1>4. ASSUME NEW list \in PlayerList, SendPlayerList(list)
      PROVE  LinkInv' /\ [Lists!Next]_Lists!playerListVars
  BY <1>4, SendStep
<1>. QED BY <1>1, <1>2, <1>3, <1>4 DEF LinkNext, Receive

LEMMA LinkRests ==
  ASSUME LinkInv, UNCHANGED linkVars
  PROVE  LinkInv'
<1>1. UNCHANGED <<wire, announced, loaded, received, delivered>>
      /\ UNCHANGED streamVars
  BY DEF linkVars, streamVars
<1>2. SP!StreamInv' BY <1>1, StreamKept
<1>3. ListsRead(received \o wire, announced)' BY <1>1 DEF LinkInv, ListsRead
<1>4. (loaded = CallsOf(delivered))' BY <1>1 DEF LinkInv
<1>. QED BY <1>1, <1>2, <1>3, <1>4 DEF LinkInv

LEMMA LinkInvHolds == LinkInit /\ [][LinkNext]_linkVars => []LinkInv
<1>1. LinkInv /\ [LinkNext]_linkVars => LinkInv'
  BY LinkStep, LinkRests
<1>. QED BY <1>1, LinkInvInit, PTL

\* However the stream of the main process is cut, with any bytes between its
\* datagrams that hold no begin sequence (AroundAssumption), and if one bit of
\* a datagram is damaged so that nothing in it passes for a header
\* (DamageAssumption): the lists that LoadClients is called with are those
\* that were announced and arrived intact, each once, complete and in order.
\* (The safety part of ListsLoaded.)
THEOREM ListsLoadedAsMeant ==
  LinkInit /\ [][LinkNext]_linkVars
    => Lists!Init /\ [][Lists!Next]_Lists!playerListVars
<1>1. LinkInit => Lists!Init
  BY DEF LinkInit, Lists!Init
<1>2. LinkInv /\ [LinkNext]_linkVars => [Lists!Next]_Lists!playerListVars
  <2>1. UNCHANGED linkVars => UNCHANGED Lists!playerListVars
    BY DEF linkVars, Lists!playerListVars
  <2>. QED BY <2>1, LinkStep
<1>. QED BY <1>1, <1>2, LinkInvHolds, PTL

\* When all that was sent has been read and the receive handler waits for
\* more, every intact list has been loaded: none is held back in the buffer
\* of DatagramStream, nor lost with the damaged one.
THEOREM NoListHeldBack ==
  LinkInit /\ [][LinkNext]_linkVars
    => [](handler = "waiting" /\ wire = << >> => loaded = Lists!Intact)
<1>1. ASSUME LinkInv, handler = "waiting", wire = << >>
      PROVE  loaded = Lists!Intact
  <2>1. /\ SP!StreamInv /\ ListsRead(received \o wire, announced)
        /\ loaded = CallsOf(delivered) /\ received \in Seq(Byte)
    BY <1>1, LinkTypes DEF LinkInv
  <2>2. received \o wire = received BY <1>1, <2>1, ConcatEmptySeq
  <2>3. /\ \A k \in 1 .. Len(FoundIn(received)) : Len(FoundIn(received)[k]) >= 16
        /\ CallsOf(FoundIn(received)) = IntactOf(announced)
    BY <2>1, <2>2 DEF ListsRead
  <2>4. \A k \in 1 .. Len(SP!Parse(received)[1]) :
          Len(SP!Parse(received)[1][k]) >= HeaderLengthOf(TRUE)
    BY <2>3, HeaderLengths DEF FoundIn
  <2>5. delivered = SP!Parse(received)[1]
    BY <1>1, <2>1, <2>4, SP!WaitingHasAll, HeaderFacts, FieldFacts, ReadFacts
  <2>. QED BY <2>1, <2>3, <2>5, IntactIs DEF FoundIn
<1>2. LinkInv => (handler = "waiting" /\ wire = << >> => loaded = Lists!Intact)
  BY <1>1
<1>. QED BY <1>2, LinkInvHolds, PTL
=============================================================================
