------------------------- MODULE MovementLoop_proofs -------------------------
(***************************************************************************)
(* The nested loops over players and boxes compute what Game.tla states in *)
(* closed form, for teams and vectors of boxes of any size, and leave no   *)
(* box close to the way of a player, wherever the places are.              *)
(***************************************************************************)
EXTENDS BoxCollection, Game_proofs

USE DEF vars

-----------------------------------------------------------------------------
(* Vectors of boxes.                                                       *)

Serials(vector) == {vector[n].serial : n \in DOMAIN vector}

\* A vector as a function: its boxes by their serial numbers.
LEMMA AsFunctionValue ==
  ASSUME NEW vector \in Seq(Box), InOrder(vector)
  PROVE  /\ DOMAIN AsFunction(vector) = Serials(vector)
         /\ \A n \in DOMAIN vector :
              AsFunction(vector)[vector[n].serial] = vector[n].position
<1> DEFINE B == ToSet(vector)
<1>1. DOMAIN vector = 1 .. Len(vector) /\ Len(vector) \in Nat
  BY LenProperties
<1>2. \A n \in DOMAIN vector : vector[n].serial \in Nat
  <2>1. \A n \in DOMAIN vector : vector[n] \in Box BY <1>1, ElementOfSeq
  <2>. QED BY <2>1 DEF Box
<1>3. DOMAIN AsFunction(vector) = Serials(vector)
  BY DEF AsFunction, Serials
<1>4. ASSUME NEW n \in DOMAIN vector
      PROVE  AsFunction(vector)[vector[n].serial] = vector[n].position
  <2> DEFINE s == vector[n].serial
             c == CHOOSE b \in B : b.serial = s
  <2>1. vector[n] \in B BY DEF ToSet
  <2>2. c \in B /\ c.serial = s BY <2>1
  <2>3. PICK m \in DOMAIN vector : c = vector[m] BY <2>2 DEF ToSet
  <2> HIDE DEF c
  <2>4. m = n
    <3>1. vector[m].serial = vector[n].serial BY <2>2, <2>3
    <3>2. ~(m < n) /\ ~(n < m) BY <1>2, <3>1 DEF InOrder
    <3>. QED BY <1>1, <3>2
  <2>5. AsFunction(vector)[s] = c.position
    BY DEF AsFunction, c
  <2>. QED BY <2>3, <2>4, <2>5
<1>. QED BY <1>3, <1>4

\* What erasing the box at index n leaves.
LEMMA RemoveAtValue ==
  ASSUME NEW vector \in Seq(Box), NEW n \in 1 .. Len(vector)
  PROVE  /\ RemoveAt(vector, n) \in Seq(Box)
         /\ Len(RemoveAt(vector, n)) = Len(vector) - 1
         /\ \A m \in 1 .. Len(vector) - 1 :
              RemoveAt(vector, n)[m] = IF m < n THEN vector[m] ELSE vector[m + 1]
<1> DEFINE s == SubSeq(vector, 1, n - 1)
           t == SubSeq(vector, n + 1, Len(vector))
<1>1. Len(vector) \in Nat BY LenProperties
<1>2. \A m \in 1 .. Len(vector) : vector[m] \in Box BY ElementOfSeq
<1>3. /\ s \in Seq(Box) /\ Len(s) = n - 1
      /\ \A m \in 1 .. n - 1 : s[m] = vector[m]
  <2>1. \A m \in 1 .. n - 1 : vector[m] \in Box BY <1>1, <1>2
  <2>. QED BY <1>1, <2>1, SubSeqProperties
<1>4. /\ t \in Seq(Box) /\ Len(t) = Len(vector) - n
      /\ \A m \in 1 .. Len(vector) - n : t[m] = vector[n + m]
  <2>1. \A m \in n + 1 .. Len(vector) : vector[m] \in Box BY <1>1, <1>2
  <2>. QED BY <1>1, <2>1, SubSeqProperties
<1>5. RemoveAt(vector, n) = s \o t BY DEF RemoveAt
<1> HIDE DEF s, t
<1>6. /\ s \o t \in Seq(Box)
      /\ Len(s \o t) = Len(s) + Len(t)
      /\ \A m \in 1 .. Len(s) + Len(t) :
           (s \o t)[m] = IF m <= Len(s) THEN s[m] ELSE t[m - Len(s)]
  BY <1>3, <1>4, ConcatProperties
<1>7. ASSUME NEW m \in 1 .. Len(vector) - 1
      PROVE  (s \o t)[m] = IF m < n THEN vector[m] ELSE vector[m + 1]
  <2>1. m \in 1 .. Len(s) + Len(t) BY <1>1, <1>3, <1>4
  <2>2. (s \o t)[m] = IF m <= n - 1 THEN s[m] ELSE t[m - (n - 1)]
    BY <1>3, <1>6, <2>1
  <2>3. CASE m < n
    BY <1>1, <1>3, <2>2, <2>3
  <2>4. CASE ~(m < n)
    <3>1. m - (n - 1) \in 1 .. Len(vector) - n BY <1>1, <2>4
    <3>2. t[m - (n - 1)] = vector[n + (m - (n - 1))] BY <1>4, <3>1
    <3>3. n + (m - (n - 1)) = m + 1 BY <1>1
    <3>. QED BY <1>1, <2>2, <2>4, <3>2, <3>3
  <2>. QED BY <2>3, <2>4
<1>. QED BY <1>1, <1>3, <1>4, <1>5, <1>6, <1>7

\* Erasing keeps the order and takes one serial number away.
LEMMA RemoveInOrder ==
  ASSUME NEW vector \in Seq(Box), InOrder(vector), NEW n \in 1 .. Len(vector)
  PROVE  /\ InOrder(RemoveAt(vector, n))
         /\ Serials(RemoveAt(vector, n)) = Serials(vector) \ {vector[n].serial}
<1> DEFINE v == RemoveAt(vector, n)
<1>1. /\ Len(vector) \in Nat /\ DOMAIN vector = 1 .. Len(vector)
      /\ \A m \in 1 .. Len(vector) : vector[m].serial \in Nat
  <2>1. Len(vector) \in Nat /\ DOMAIN vector = 1 .. Len(vector)
    BY LenProperties
  <2>2. \A m \in 1 .. Len(vector) : vector[m] \in Box BY ElementOfSeq
  <2>. QED BY <2>1, <2>2 DEF Box
<1>2. /\ DOMAIN v = 1 .. Len(vector) - 1
      /\ \A m \in 1 .. Len(vector) - 1 :
           v[m] = IF m < n THEN vector[m] ELSE vector[m + 1]
  BY RemoveAtValue, LenProperties
<1> HIDE DEF v
<1>3. InOrder(v)
  <2>1. ASSUME NEW a \in DOMAIN v, NEW b \in DOMAIN v, a < b
        PROVE  v[a].serial < v[b].serial
    <3> DEFINE x == IF a < n THEN a ELSE a + 1
               y == IF b < n THEN b ELSE b + 1
    <3>1. x \in 1 .. Len(vector) /\ y \in 1 .. Len(vector) /\ x < y
      BY <1>1, <1>2, <2>1
    <3>2. v[a] = vector[x] /\ v[b] = vector[y] BY <1>2
    <3> HIDE DEF x, y
    <3>. QED BY <1>1, <3>1, <3>2 DEF InOrder
  <2>. QED BY <2>1 DEF InOrder
<1>4. \A m \in 1 .. Len(vector) :
        vector[m].serial = vector[n].serial => m = n
  <2>1. ASSUME NEW m \in 1 .. Len(vector), vector[m].serial = vector[n].serial
        PROVE  m = n
    <3>1. ~(m < n) /\ ~(n < m) BY <1>1, <2>1 DEF InOrder
    <3>. QED BY <1>1, <3>1
  <2>. QED BY <2>1
<1>5. ASSUME NEW s \in Serials(v)
      PROVE  s \in Serials(vector) \ {vector[n].serial}
  <2>1. PICK m \in DOMAIN v : s = v[m].serial BY DEF Serials
  <2> DEFINE x == IF m < n THEN m ELSE m + 1
  <2>2. x \in 1 .. Len(vector) /\ x # n /\ v[m] = vector[x]
    BY <1>1, <1>2
  <2> HIDE DEF x
  <2>. QED BY <1>1, <1>4, <2>1, <2>2 DEF Serials
<1>6. ASSUME NEW s \in Serials(vector) \ {vector[n].serial}
      PROVE  s \in Serials(v)
  <2>1. PICK m \in 1 .. Len(vector) : s = vector[m].serial
    BY <1>1 DEF Serials
  <2>2. m # n BY <2>1
  <2>3. CASE m < n
    <3>1. m \in 1 .. Len(vector) - 1 BY <1>1, <2>3
    <3>2. v[m] = vector[m] BY <1>2, <2>3, <3>1
    <3>. QED BY <1>2, <2>1, <3>1, <3>2 DEF Serials
  <2>4. CASE n < m
    <3>1. m - 1 \in 1 .. Len(vector) - 1 /\ ~(m - 1 < n) /\ m - 1 + 1 = m
      BY <1>1, <2>4
    <3>2. v[m - 1] = vector[m] BY <1>2, <3>1
    <3>. QED BY <1>2, <2>1, <3>1, <3>2 DEF Serials
  <2>. QED BY <1>1, <2>2, <2>3, <2>4
<1>. QED BY <1>3, <1>5, <1>6 DEF v

-----------------------------------------------------------------------------
(* The invariant: what the loops have done when they are at player i of    *)
(* team current, and at box k.                                             *)

Boxes0 == AsFunction(boxesBefore)

\* The loops are past the j-th player of team t.
Visited(t, j) == \/ t = "red" /\ (current = "blue" \/ j < i)
                 \/ t = "blue" /\ current = "blue" /\ j < i

\* The boxes no visited player reached.
Free == {s \in DOMAIN Boxes0 :
           \A t \in Teams : \A j \in DOMAIN teamBefore[t] :
             Visited(t, j) => ~Reaches(teamBefore[t][j], Boxes0[s])}

PartlyMoved ==
  [t \in Teams |->
    [j \in DOMAIN teamBefore[t] |->
      IF Visited(t, j) THEN MovedPlayer(teamBefore, Boxes0, t, j)
                       ELSE teamBefore[t][j]]]

LoopType ==
  /\ teamBefore \in BothTeams
  /\ boxesBefore \in Seq(Box) /\ InOrder(boxesBefore)
  /\ boxes \in Seq(Box) /\ InOrder(boxes)
  /\ current \in Teams
  /\ i \in Nat \ {0}
  /\ k \in Nat \ {0}
  /\ pc \in {"player", "boxes", "done"}

\* The boxes in the vector are boxes that were there.
BoxesKeptSo ==
  \A n \in DOMAIN boxes :
    /\ boxes[n].serial \in DOMAIN Boxes0
    /\ boxes[n].position = Boxes0[boxes[n].serial]

\* In CheckForPointBox: what is gone was in reach, what was passed was not.
Checking ==
  /\ i <= Len(teamBefore[current])
  /\ Serials(boxes) \subseteq Free
  /\ \A s \in Free \ Serials(boxes) : Reaches(teamBefore[current][i], Boxes0[s])
  /\ \A n \in DOMAIN boxes :
       n < k => ~Reaches(teamBefore[current][i], boxes[n].position)
  /\ score = POINT_BOX_VALUE * Cardinality(Free \ Serials(boxes))

LoopInv ==
  /\ LoopType
  /\ team = PartlyMoved
  /\ BoxesKeptSo
  /\ pc = "boxes" => Checking
  /\ pc # "boxes" => Serials(boxes) = Free
  /\ pc = "done" => current = "blue" /\ i > Len(teamBefore["blue"])

LEMMA SerialsFinite ==
  ASSUME NEW vector \in Seq(Box)
  PROVE  IsFiniteSet(Serials(vector))
<1> DEFINE f == [n \in 1 .. Len(vector) |-> vector[n].serial]
<1>1. Len(vector) \in Nat /\ DOMAIN vector = 1 .. Len(vector)
  BY LenProperties
<1>2. IsFiniteSet(1 .. Len(vector)) BY <1>1, FS_Interval
<1>3. f \in Surjection(1 .. Len(vector), Serials(vector))
  BY <1>1 DEF Serials, Surjection
<1>. QED BY <1>2, <1>3, FS_Surjection DEF ExistsSurjection

LEMMA ShapeOfTeams ==
  ASSUME LoopType, team = PartlyMoved, NEW t \in Teams
  PROVE  /\ Len(teamBefore[t]) \in Nat
         /\ DOMAIN teamBefore[t] = 1 .. Len(teamBefore[t])
         /\ DOMAIN team[t] = 1 .. Len(teamBefore[t])
         /\ Len(team[t]) = Len(teamBefore[t])
<1>1. /\ Len(teamBefore[t]) \in Nat
      /\ DOMAIN teamBefore[t] = 1 .. Len(teamBefore[t])
      /\ \A j \in DOMAIN teamBefore[t] : teamBefore[t][j] \in Player
  BY TeamShape DEF LoopType
<1>2. IsFiniteSet(DOMAIN Boxes0)
  BY SerialsFinite, AsFunctionValue DEF LoopType, Boxes0
<1>3. \A j \in DOMAIN teamBefore[t] :
        MovedPlayer(teamBefore, Boxes0, t, j) \in Player
  BY <1>2, MovedPlayerType DEF LoopType
<1>4. \A j \in 1 .. Len(teamBefore[t]) : team[t][j] \in Player
  BY <1>1, <1>3 DEF PartlyMoved
<1>5. team[t] \in [1 .. Len(teamBefore[t]) -> Player]
  <2>1. team[t] = [j \in 1 .. Len(teamBefore[t]) |-> team[t][j]]
    BY <1>1 DEF PartlyMoved
  <2>. QED BY <1>4, <2>1
<1>6. Len(team[t]) = Len(teamBefore[t])
  BY <1>1, <1>5, FunctionIsSeq
<1>. QED BY <1>1, <1>5, <1>6

\* The player visited has not moved yet.
LEMMA VisitedPlayer ==
  ASSUME LoopInv, pc = "boxes"
  PROVE  /\ i \in DOMAIN teamBefore[current]
         /\ team[current][i] = teamBefore[current][i]
         /\ teamBefore[current][i] \in Player
<1>1. i \in DOMAIN teamBefore[current]
  BY ShapeOfTeams DEF LoopInv, LoopType, Checking
<1>2. ~Visited(current, i)
  BY DEF Visited, LoopInv, LoopType, Teams
<1>3. team[current][i] = teamBefore[current][i]
  BY <1>1, <1>2 DEF LoopInv, LoopType, PartlyMoved
<1>. QED BY <1>1, <1>3, TeamShape DEF LoopInv, LoopType

-----------------------------------------------------------------------------
(* Each step keeps it.                                                     *)

LEMMA LoopInit == Init => LoopInv
<1> SUFFICES ASSUME Init PROVE LoopInv
  OBVIOUS
<1>1. LoopType
  BY LoopAssumption DEF Init, LoopType, BothTeams, Teams
<1>2. \A t \in Teams : DOMAIN teamBefore[t] = 1 .. Len(teamBefore[t])
                      /\ Len(teamBefore[t]) \in Nat
  BY <1>1, TeamShape DEF LoopType
<1>3. \A t \in Teams : \A j \in DOMAIN teamBefore[t] : ~Visited(t, j)
  BY <1>2 DEF Init, Visited
<1>4. team = PartlyMoved
  <2>1. team \in BothTeams BY <1>1 DEF Init, LoopType
  <2>2. PartlyMoved = [t \in Teams |-> [j \in DOMAIN teamBefore[t] |-> teamBefore[t][j]]]
    BY <1>3 DEF PartlyMoved
  <2>3. \A t \in Teams :
          teamBefore[t] = [j \in DOMAIN teamBefore[t] |-> teamBefore[t][j]]
    <3>1. \A t \in Teams : teamBefore[t] \in [1 .. Len(teamBefore[t]) -> Player]
      BY <1>1, LenProperties DEF LoopType, BothTeams
    <3>. QED BY <1>2, <3>1
  <2>. QED BY <2>1, <2>2, <2>3 DEF Init, BothTeams
<1>5. /\ DOMAIN Boxes0 = Serials(boxes)
      /\ \A n \in DOMAIN boxes : Boxes0[boxes[n].serial] = boxes[n].position
  BY <1>1, AsFunctionValue DEF LoopType, Init, Boxes0
<1>6. BoxesKeptSo
  BY <1>5 DEF BoxesKeptSo, Serials
<1>7. Serials(boxes) = Free
  BY <1>3, <1>5 DEF Free
<1>. QED BY <1>1, <1>4, <1>6, <1>7 DEF Init, LoopInv

LEMMA LoopStartPlayer == ASSUME LoopInv, StartPlayer PROVE LoopInv'
<1>1. Free' = Free /\ PartlyMoved' = PartlyMoved /\ Boxes0' = Boxes0
  BY DEF StartPlayer, Free, PartlyMoved, Boxes0, Visited
<1>2. LoopType' BY DEF LoopInv, LoopType, StartPlayer
<1>3. i <= Len(teamBefore[current])
  BY ShapeOfTeams DEF LoopInv, LoopType, StartPlayer
<1>4. Serials(boxes) = Free BY DEF LoopInv, StartPlayer
<1>5. Free \ Serials(boxes) = {} BY <1>4
<1>6. score' = POINT_BOX_VALUE * Cardinality(Free \ Serials(boxes))
  <2>1. Cardinality(Free \ Serials(boxes)) = 0 BY <1>5, FS_EmptySet
  <2>. QED BY <2>1, ScoreAssumption DEF StartPlayer
<1>7. \A n \in DOMAIN boxes : ~(n < 1)
  <2>1. DOMAIN boxes = 1 .. Len(boxes) /\ Len(boxes) \in Nat
    BY LenProperties DEF LoopInv, LoopType
  <2>. QED BY <2>1
<1>8. Checking'
  BY <1>1, <1>3, <1>4, <1>5, <1>6, <1>7 DEF Checking, StartPlayer
<1>. QED BY <1>1, <1>2, <1>8 DEF LoopInv, StartPlayer, BoxesKeptSo

LEMMA LoopPassBox == ASSUME LoopInv, PassBox PROVE LoopInv'
<1>1. Free' = Free /\ PartlyMoved' = PartlyMoved /\ Boxes0' = Boxes0
  BY DEF PassBox, Free, PartlyMoved, Boxes0, Visited
<1>2. LoopType' BY DEF LoopInv, LoopType, PassBox
<1>3. team[current][i] = teamBefore[current][i]
  BY VisitedPlayer DEF PassBox
<1>4. \A n \in DOMAIN boxes :
        n < k + 1 => ~Reaches(teamBefore[current][i], boxes[n].position)
  <2>1. DOMAIN boxes = 1 .. Len(boxes) /\ Len(boxes) \in Nat
    BY LenProperties DEF LoopInv, LoopType
  <2>2. \A n \in DOMAIN boxes : n < k + 1 => n < k \/ n = k
    BY <2>1 DEF LoopInv, LoopType
  <2>3. ~Reaches(teamBefore[current][i], boxes[k].position)
    BY <1>3 DEF PassBox, BoxReached
  <2>. QED BY <2>2, <2>3 DEF LoopInv, Checking, PassBox
<1>5. Checking'
  BY <1>1, <1>4 DEF Checking, PassBox, LoopInv
<1>. QED BY <1>1, <1>2, <1>5 DEF LoopInv, PassBox, BoxesKeptSo

LEMMA LoopCollectBox == ASSUME LoopInv, CollectBox PROVE LoopInv'
<1> DEFINE s0 == boxes[k].serial
           old == Free \ Serials(boxes)
<1>1. Free' = Free /\ PartlyMoved' = PartlyMoved /\ Boxes0' = Boxes0
  BY DEF CollectBox, Free, PartlyMoved, Boxes0, Visited
<1>2. /\ boxes \in Seq(Box) /\ InOrder(boxes)
      /\ Len(boxes) \in Nat /\ DOMAIN boxes = 1 .. Len(boxes)
      /\ k \in 1 .. Len(boxes) /\ boxes' = RemoveAt(boxes, k)
  BY LenProperties DEF LoopInv, LoopType, CollectBox
<1>3. /\ boxes' \in Seq(Box) /\ InOrder(boxes')
      /\ DOMAIN boxes' = 1 .. Len(boxes) - 1
      /\ \A m \in 1 .. Len(boxes) - 1 :
           boxes'[m] = IF m < k THEN boxes[m] ELSE boxes[m + 1]
      /\ Serials(boxes') = Serials(boxes) \ {s0}
  <2>1. InOrder(boxes') /\ Serials(boxes') = Serials(boxes) \ {s0}
    BY <1>2, RemoveInOrder
  <2>2. /\ boxes' \in Seq(Box) /\ Len(boxes') = Len(boxes) - 1
        /\ \A m \in 1 .. Len(boxes) - 1 :
             boxes'[m] = IF m < k THEN boxes[m] ELSE boxes[m + 1]
    BY <1>2, RemoveAtValue
  <2>3. DOMAIN boxes' = 1 .. Len(boxes') BY <2>2, LenProperties
  <2>. QED BY <2>1, <2>2, <2>3
<1>4. LoopType' BY <1>3 DEF LoopInv, LoopType, CollectBox
<1>5. /\ i <= Len(teamBefore[current])
      /\ Serials(boxes) \subseteq Free
      /\ \A s \in old : Reaches(teamBefore[current][i], Boxes0[s])
      /\ \A n \in DOMAIN boxes :
           n < k => ~Reaches(teamBefore[current][i], boxes[n].position)
      /\ score = POINT_BOX_VALUE * Cardinality(old)
  BY DEF LoopInv, Checking, CollectBox
<1>6. s0 \in Serials(boxes) /\ s0 \in Free
  BY <1>2, <1>5 DEF Serials
<1>7. Reaches(teamBefore[current][i], Boxes0[s0])
  <2>1. team[current][i] = teamBefore[current][i]
    BY VisitedPlayer DEF CollectBox
  <2>2. boxes[k].position = Boxes0[s0] BY <1>2 DEF LoopInv, BoxesKeptSo
  <2>. QED BY <2>1, <2>2 DEF CollectBox, BoxReached
<1>8. Free \ Serials(boxes') = old \cup {s0}
  BY <1>3, <1>6
<1>9. Cardinality(old) \in Nat /\ Cardinality(old \cup {s0}) = Cardinality(old) + 1
  <2>1. IsFiniteSet(DOMAIN Boxes0)
    BY SerialsFinite, AsFunctionValue DEF LoopInv, LoopType, Boxes0
  <2>2. old \subseteq DOMAIN Boxes0 BY DEF Free
  <2>3. IsFiniteSet(old) BY <2>1, <2>2, FS_Subset
  <2>4. s0 \notin old BY <1>6
  <2>. QED BY <2>3, <2>4, FS_AddElement, FS_CardinalityType
<1>10. score' = POINT_BOX_VALUE * Cardinality(Free \ Serials(boxes'))
  <2>1. score' = score + POINT_BOX_VALUE BY DEF CollectBox
  <2>2. POINT_BOX_VALUE \in Nat BY ScoreAssumption
  <2> HIDE DEF old, s0
  <2> DEFINE c == Cardinality(old)
  <2>3. score = POINT_BOX_VALUE * c BY <1>5
  <2>4. Cardinality(Free \ Serials(boxes')) = c + 1 /\ c \in Nat BY <1>8, <1>9
  <2> HIDE DEF c
  <2>. QED BY <2>1, <2>2, <2>3, <2>4
<1>11. \A s \in Free \ Serials(boxes') : Reaches(teamBefore[current][i], Boxes0[s])
  BY <1>5, <1>7, <1>8
<1>12. \A n \in DOMAIN boxes' :
         n < k => ~Reaches(teamBefore[current][i], boxes'[n].position)
  <2>1. \A n \in DOMAIN boxes' : n < k => n \in DOMAIN boxes /\ boxes'[n] = boxes[n]
    BY <1>2, <1>3
  <2>. QED BY <1>5, <2>1
<1>13. UNCHANGED <<teamBefore, current, i, k, pc, team>> BY DEF CollectBox
<1>14. Serials(boxes') \subseteq Free BY <1>3, <1>5
<1>15. Checking'
  BY <1>1, <1>5, <1>10, <1>11, <1>12, <1>13, <1>14 DEF Checking
<1>16. BoxesKeptSo'
  <2>1. ASSUME NEW n \in DOMAIN boxes'
        PROVE  \E m \in DOMAIN boxes : boxes'[n] = boxes[m]
    <3>1. n \in DOMAIN boxes /\ n + 1 \in DOMAIN boxes BY <1>2, <1>3
    <3>. QED BY <1>3, <3>1
  <2>. QED BY <1>1, <2>1 DEF LoopInv, BoxesKeptSo
<1>17. pc' = "boxes" BY DEF CollectBox
<1>. QED BY <1>1, <1>4, <1>13, <1>15, <1>16, <1>17 DEF LoopInv

\* Who was visited before the i-th player of team current is whoever comes
\* before in the order Collects goes by.
LEMMA VisitedIsBefore ==
  ASSUME LoopType, NEW t \in Teams, NEW j
  PROVE  Visited(t, j) <=> Before(t, j, current, i)
BY DEF LoopType, Visited, Before, Teams

LEMMA LoopEndPlayer == ASSUME LoopInv, EndPlayer PROVE LoopInv'
<1> DEFINE me == teamBefore[current][i]
<1>1. Boxes0' = Boxes0 BY DEF EndPlayer, Boxes0
<1>2. /\ i \in DOMAIN teamBefore[current]
      /\ team[current][i] = me
      /\ me \in Player
  BY VisitedPlayer DEF EndPlayer
<1>3. /\ LoopType /\ team = PartlyMoved /\ Checking /\ BoxesKeptSo
      /\ UNCHANGED <<teamBefore, boxesBefore, boxes, current, k, score>>
      /\ i' = i + 1 /\ pc' = "player"
  BY DEF LoopInv, EndPlayer
<1>4. LoopType' BY <1>3 DEF LoopType
<1>5. \A t \in Teams : \A j \in DOMAIN teamBefore[t] :
        Visited(t, j)' <=> Visited(t, j) \/ (t = current /\ j = i)
  <2> SUFFICES ASSUME NEW t \in Teams, NEW j \in DOMAIN teamBefore[t]
               PROVE  Visited(t, j)' <=> Visited(t, j) \/ (t = current /\ j = i)
    OBVIOUS
  <2>1. j \in Nat /\ i \in Nat
    BY <1>3, ShapeOfTeams DEF LoopType
  <2>2. j < i + 1 <=> j < i \/ j = i BY <2>1
  <2>3. current \in {"red", "blue"} /\ t \in {"red", "blue"}
    BY <1>3 DEF LoopType, Teams
  <2>. QED BY <1>3, <2>2, <2>3 DEF Visited
<1>6. Free' = {s \in Free : ~Reaches(me, Boxes0[s])}
  <2>1. ASSUME NEW s \in DOMAIN Boxes0
        PROVE  s \in Free' <=> s \in Free /\ ~Reaches(me, Boxes0[s])
    <3>1. s \in Free' <=>
            \A t \in Teams : \A j \in DOMAIN teamBefore[t] :
              Visited(t, j)' => ~Reaches(teamBefore[t][j], Boxes0[s])
      BY <1>1, <1>3 DEF Free
    <3>2. s \in Free <=>
            \A t \in Teams : \A j \in DOMAIN teamBefore[t] :
              Visited(t, j) => ~Reaches(teamBefore[t][j], Boxes0[s])
      BY DEF Free
    <3>3. current \in Teams BY <1>3 DEF LoopType
    <3>. QED BY <1>2, <1>5, <3>1, <3>2, <3>3
  <2>2. Free' \subseteq DOMAIN Boxes0 /\ Free \subseteq DOMAIN Boxes0
    BY <1>1 DEF Free
  <2>. QED BY <2>1, <2>2
<1>7. Serials(boxes) = Free'
  <2>1. \A n \in DOMAIN boxes : n < k
    <3>1. DOMAIN boxes = 1 .. Len(boxes) /\ Len(boxes) \in Nat /\ k \in Nat
      BY <1>3, LenProperties DEF LoopType
    <3>. QED BY <3>1 DEF EndPlayer
  <2>2. \A s \in Serials(boxes) : ~Reaches(me, Boxes0[s])
    BY <1>3, <2>1 DEF Serials, Checking, BoxesKeptSo
  <2>. QED BY <1>3, <1>6, <2>2 DEF Checking
<1>8. Free \ Serials(boxes) = Collected(teamBefore, Boxes0, current, i)
  <2>1. Free \ Serials(boxes) = {s \in Free : Reaches(me, Boxes0[s])}
    BY <1>6, <1>7
  <2>2. ASSUME NEW s \in DOMAIN Boxes0
        PROVE  (s \in Free /\ Reaches(me, Boxes0[s])) <=>
                 Collects(teamBefore, current, i, Boxes0[s])
    <3>1. s \in Free <=>
            \A t \in Teams : \A j \in DOMAIN teamBefore[t] :
              Before(t, j, current, i) => ~Reaches(teamBefore[t][j], Boxes0[s])
      BY <1>3, VisitedIsBefore DEF Free
    <3>. QED BY <3>1 DEF Collects
  <2>3. Free \subseteq DOMAIN Boxes0 BY DEF Free
  <2>. QED BY <2>1, <2>2, <2>3 DEF Collected
<1>9. team' = PartlyMoved'
  <2> DEFINE X == [me EXCEPT
                     !.points = @ + score,
                     !.distance = @ + IF me.input.move
                                      THEN Speed[me.vehicle] ELSE 0,
                     !.position = NewPosition(me)]
  <2>1. X = MovedPlayer(teamBefore, Boxes0, current, i)
    <3>1. score = POINT_BOX_VALUE
                    * Cardinality(Collected(teamBefore, Boxes0, current, i))
      BY <1>3, <1>8 DEF Checking
    <3>. QED BY <3>1 DEF MovedPlayer
  <2>2. team' = [team EXCEPT ![current][i] = X]
    BY <1>2 DEF EndPlayer
  <2> HIDE DEF X
  <2>3. DOMAIN team = Teams /\ current \in Teams
    BY <1>3 DEF PartlyMoved, LoopType
  <2>4. PartlyMoved' =
          [t \in Teams |->
            [j \in DOMAIN teamBefore[t] |->
              IF Visited(t, j)' THEN MovedPlayer(teamBefore, Boxes0, t, j)
                                ELSE teamBefore[t][j]]]
    BY <1>1, <1>3 DEF PartlyMoved
  <2>5. ASSUME NEW t \in Teams
        PROVE  team'[t] = [j \in DOMAIN teamBefore[t] |->
                 IF Visited(t, j)' THEN MovedPlayer(teamBefore, Boxes0, t, j)
                                   ELSE teamBefore[t][j]]
    <3>1. team[t] = [j \in DOMAIN teamBefore[t] |->
             IF Visited(t, j) THEN MovedPlayer(teamBefore, Boxes0, t, j)
                              ELSE teamBefore[t][j]]
      BY <1>3 DEF PartlyMoved
    <3>2. CASE t = current
      <4>1. team'[t] = [team[t] EXCEPT ![i] = X] BY <2>2, <2>3, <3>2
      <4>2. team'[t] = [j \in DOMAIN teamBefore[t] |->
                          IF j = i THEN X ELSE team[t][j]]
        BY <3>1, <4>1
      <4>3. ASSUME NEW j \in DOMAIN teamBefore[t]
            PROVE  (IF j = i THEN X ELSE team[t][j]) =
                     IF Visited(t, j)' THEN MovedPlayer(teamBefore, Boxes0, t, j)
                                       ELSE teamBefore[t][j]
        BY <1>5, <2>1, <3>1, <3>2
      <4>. QED BY <4>2, <4>3
    <3>3. CASE t # current
      <4>1. team'[t] = team[t] BY <2>2, <2>3, <3>3
      <4>2. \A j \in DOMAIN teamBefore[t] : Visited(t, j)' <=> Visited(t, j)
        BY <1>5, <3>3
      <4>. QED BY <3>1, <4>1, <4>2
    <3>. QED BY <3>2, <3>3
  <2>6. team' = [t \in Teams |-> team'[t]] BY <2>2, <2>3
  <2>. QED BY <2>4, <2>5, <2>6
<1>10. BoxesKeptSo' BY <1>1, <1>3 DEF BoxesKeptSo
<1>. QED BY <1>3, <1>4, <1>7, <1>9, <1>10 DEF LoopInv

LEMMA LoopBlueTeamNext == ASSUME LoopInv, BlueTeamNext PROVE LoopInv'
<1>1. Boxes0' = Boxes0 BY DEF BlueTeamNext, Boxes0
<1>2. LoopType' BY DEF LoopInv, LoopType, BlueTeamNext, Teams
<1>3. \A t \in Teams : \A j \in DOMAIN teamBefore[t] : Visited(t, j)' <=> Visited(t, j)
  <2>1. \A t \in Teams : DOMAIN teamBefore[t] = 1 .. Len(teamBefore[t])
                        /\ Len(teamBefore[t]) \in Nat
    BY ShapeOfTeams DEF LoopInv
  <2>2. \A j \in DOMAIN teamBefore["red"] : j < i
    <3>1. i > Len(teamBefore["red"]) /\ i \in Nat
      BY ShapeOfTeams DEF LoopInv, LoopType, BlueTeamNext, Teams
    <3>. QED BY <2>1, <3>1 DEF Teams
  <2>3. \A j \in DOMAIN teamBefore["blue"] : ~(j < 1)
    BY <2>1 DEF Teams
  <2>. QED BY <2>2, <2>3 DEF BlueTeamNext, Visited, Teams
<1>4. Free' = Free
  BY <1>1, <1>3 DEF Free, BlueTeamNext
<1>5. PartlyMoved' = PartlyMoved
  BY <1>1, <1>3 DEF PartlyMoved, BlueTeamNext
<1>. QED BY <1>1, <1>2, <1>4, <1>5 DEF LoopInv, BlueTeamNext, BoxesKeptSo

LEMMA LoopReturn == ASSUME LoopInv, Return PROVE LoopInv'
<1>1. Free' = Free /\ PartlyMoved' = PartlyMoved /\ Boxes0' = Boxes0
  BY DEF Return, Free, PartlyMoved, Boxes0, Visited
<1>2. LoopType' BY DEF LoopInv, LoopType, Return
<1>3. i > Len(teamBefore["blue"])
  BY ShapeOfTeams DEF LoopInv, LoopType, Return
<1>. QED BY <1>1, <1>2, <1>3 DEF LoopInv, Return, BoxesKeptSo

LEMMA LoopNext == LoopInv /\ [Next]_vars => LoopInv'
<1> SUFFICES ASSUME LoopInv, [Next]_vars PROVE LoopInv'
  OBVIOUS
<1>1. CASE UNCHANGED vars
  <2>1. Free' = Free /\ PartlyMoved' = PartlyMoved /\ Boxes0' = Boxes0
    BY <1>1 DEF Free, PartlyMoved, Boxes0, Visited
  <2>. QED BY <1>1, <2>1 DEF LoopInv, LoopType, BoxesKeptSo, Checking
<1>. QED BY <1>1, LoopStartPlayer, LoopPassBox, LoopCollectBox, LoopEndPlayer,
            LoopBlueTeamNext, LoopReturn DEF Next

LEMMA LoopInvHolds == Spec => []LoopInv
BY LoopInit, LoopNext, PTL DEF Spec

-----------------------------------------------------------------------------
(* The theorems.                                                           *)

\* Erasing from the vector that is being iterated over keeps the boxes in the
\* order in which they were spawned (CheckForPointBox).
THEOREM OrderKeptHolds == Spec => []OrderKept
<1>1. LoopInv => OrderKept BY DEF LoopInv, LoopType, OrderKept
<1>. QED BY <1>1, LoopInvHolds, PTL

\* Whatever the teams and the boxes, the loops of CalculateMovement return
\* with the players and the boxes of the closed form, so every theorem about
\* ticks is one about the loops.
THEOREM LoopsComputeMovementHolds == Spec => []LoopsComputeMovement
<1>1. ASSUME LoopInv, pc = "done"
      PROVE  /\ team = CalculateMovement(teamBefore, Boxes0)
             /\ AsFunction(boxes) = BoxesLeft(teamBefore, Boxes0)
  <2>1. /\ LoopType /\ team = PartlyMoved /\ BoxesKeptSo /\ Serials(boxes) = Free
        /\ current = "blue" /\ i > Len(teamBefore["blue"])
    BY <1>1 DEF LoopInv
  <2>2. \A t \in Teams : \A j \in DOMAIN teamBefore[t] : Visited(t, j)
    <3>1. \A j \in DOMAIN teamBefore["blue"] : j < i
      <4>1. /\ DOMAIN teamBefore["blue"] = 1 .. Len(teamBefore["blue"])
            /\ Len(teamBefore["blue"]) \in Nat /\ i \in Nat
        BY <2>1, ShapeOfTeams DEF LoopType, Teams
      <4>. QED BY <2>1, <4>1
    <3>. QED BY <2>1, <3>1 DEF Visited, Teams
  <2>3. team = CalculateMovement(teamBefore, Boxes0)
    BY <2>1, <2>2 DEF PartlyMoved, CalculateMovement
  <2>4. ASSUME NEW s \in DOMAIN Boxes0
        PROVE  s \in Free <=>
                 \A t \in Teams : \A j \in DOMAIN teamBefore[t] :
                   s \notin Collected(teamBefore, Boxes0, t, j)
    <3>1. s \in Free <=>
            \A t \in Teams : \A j \in DOMAIN teamBefore[t] :
              ~Reaches(teamBefore[t][j], Boxes0[s])
      BY <2>2 DEF Free
    <3>2. ASSUME NEW t \in Teams, NEW j \in DOMAIN teamBefore[t],
                 Reaches(teamBefore[t][j], Boxes0[s])
          PROVE  \E u \in Teams : \E m \in DOMAIN teamBefore[u] :
                   s \in Collected(teamBefore, Boxes0, u, m)
      <4>1. \E u \in Teams : \E m \in DOMAIN teamBefore[u] :
              Collects(teamBefore, u, m, Boxes0[s])
        BY <2>1, <3>2, CollectorExists DEF LoopType
      <4>. QED BY <4>1 DEF Collected
    <3>3. ASSUME NEW t \in Teams, NEW j \in DOMAIN teamBefore[t],
                 s \in Collected(teamBefore, Boxes0, t, j)
          PROVE  Reaches(teamBefore[t][j], Boxes0[s])
      BY <3>3 DEF Collected, Collects
    <3>. QED BY <3>1, <3>2, <3>3
  <2>5. /\ DOMAIN AsFunction(boxes) = Free
        /\ \A n \in DOMAIN boxes :
             AsFunction(boxes)[boxes[n].serial] = boxes[n].position
    BY <2>1, AsFunctionValue DEF LoopType
  <2>6. ASSUME NEW s \in Free PROVE AsFunction(boxes)[s] = Boxes0[s]
    <3>1. PICK n \in DOMAIN boxes : s = boxes[n].serial
      BY <2>1 DEF Serials
    <3>. QED BY <2>1, <2>5, <3>1 DEF BoxesKeptSo
  <2>7. AsFunction(boxes) = [s \in Free |-> Boxes0[s]]
    <3>1. AsFunction(boxes) = [s \in DOMAIN AsFunction(boxes) |-> AsFunction(boxes)[s]]
      BY DEF AsFunction
    <3>. QED BY <2>5, <2>6, <3>1
  <2>8. BoxesLeft(teamBefore, Boxes0) = [s \in Free |-> Boxes0[s]]
    <3>1. Free = {s \in DOMAIN Boxes0 :
                    \A t \in Teams : \A j \in DOMAIN teamBefore[t] :
                      s \notin Collected(teamBefore, Boxes0, t, j)}
      <4>1. Free \subseteq DOMAIN Boxes0 BY DEF Free
      <4>. QED BY <2>4, <4>1
    <3>. QED BY <3>1 DEF BoxesLeft
  <2>. QED BY <2>3, <2>7, <2>8
<1>2. LoopInv => LoopsComputeMovement
  BY <1>1 DEF LoopsComputeMovement, Boxes0
<1>. QED BY <1>2, LoopInvHolds, PTL

-----------------------------------------------------------------------------
(* The distance between a box and the way of a player.                    *)

LEMMA TimesPositive ==
  ASSUME NEW m \in Int, m > 0, NEW x \in Int, NEW y \in Int
  PROVE  m * x < m * y <=> x < y
<1>1. m * y - m * x = m * (y - x) OBVIOUS
<1>2. ASSUME NEW z \in Int PROVE m * z > 0 <=> z > 0
  <2>1. z > 0 => m * z > 0 OBVIOUS
  <2>2. z <= 0 => m * z <= 0 OBVIOUS
  <2>. QED BY <2>1, <2>2
<1>3. m * (y - x) > 0 <=> y - x > 0 BY <1>2
<1>4. m * x \in Int /\ m * y \in Int OBVIOUS
<1>. QED BY <1>1, <1>3, <1>4

LEMMA SquareNotNegative ==
  ASSUME NEW x \in Int
  PROVE  x * x >= 0
OBVIOUS

\* The square of the distance between the box and its projection, times the
\* square of the segment's length.
LEMMA ScaledSquare ==
  ASSUME NEW ax \in Int, NEW ay \in Int, NEW cx \in Int, NEW cy \in Int
  PROVE  LET L == cx * cx + cy * cy
             dot == ax * cx + ay * cy
             A == ax * ax + ay * ay
             sx == ax * L - dot * cx
             sy == ay * L - dot * cy
         IN  sx * sx + sy * sy = L * (L * A - dot * dot)
<1> DEFINE L == cx * cx + cy * cy
           dot == ax * cx + ay * cy
           A == ax * ax + ay * ay
           sx == ax * L - dot * cx
           sy == ay * L - dot * cy
<1>1. L \in Int /\ dot \in Int /\ A \in Int OBVIOUS
<1>2. ASSUME NEW l \in Int, NEW d \in Int
      PROVE  (ax * l - d * cx) * (ax * l - d * cx)
               + (ay * l - d * cy) * (ay * l - d * cy)
             = (l * l * A - 2 * (l * d * dot)) + d * d * L
  OBVIOUS
<1>3. sx * sx + sy * sy = (L * L * A - 2 * (L * dot * dot)) + dot * dot * L
  <2> HIDE DEF L, dot, A
  <2>. QED BY <1>1, <1>2
<1>4. (L * L * A - 2 * (L * dot * dot)) + dot * dot * L = L * (L * A - dot * dot)
  <2> HIDE DEF L, dot, A
  <2>. QED BY <1>1
<1>. QED BY <1>3, <1>4

\* The square of the distance between the box and the point that divides the
\* segment as n to d.
LEMMA DividedSquare ==
  ASSUME NEW ax \in Int, NEW ay \in Int, NEW cx \in Int, NEW cy \in Int,
         NEW n \in Int, NEW d \in Int
  PROVE  (d * ax - n * cx) * (d * ax - n * cx)
           + (d * ay - n * cy) * (d * ay - n * cy)
         = (d * d * (ax * ax + ay * ay) - 2 * (n * d * (ax * cx + ay * cy)))
             + n * n * (cx * cx + cy * cy)
OBVIOUS

\* A box is close to the point that divides the way from q to r as n to d.
CloseToWay(box, q, r, n, d) ==
  LET u == Difference(box, q)
      v == Difference(r, q)
      w == [x |-> d * u.x - n * v.x, y |-> d * u.y - n * v.y]
  IN  Dot(w, w) < d * d * (POINT_BOX_COLLECT_DISTANCE * POINT_BOX_COLLECT_DISTANCE)

\* The algebra of PointBoxDistance: A and L are the squares of the lengths of
\* the vectors from the old position to the box and to the new position, P is
\* their product, D the square of the distance.
LEMMA NearestPoint ==
  ASSUME NEW A \in Int, NEW P \in Int, NEW L \in Int, NEW D \in Int,
         L >= 0, L = 0 => P = 0,
         NEW d \in Nat \ {0}, NEW n \in 0 .. d,
         (d * d * A - 2 * (n * d * P)) + n * n * L < d * d * D
  PROVE  CASE L = 0 \/ P < 0 -> A < D
           [] L # 0 /\ P > L -> (A - 2 * P) + L < D
           [] OTHER -> L * (L * A - P * P) < L * L * D
<1> DEFINE G == (d * d * A - 2 * (n * d * P)) + n * n * L
           dd == d * d
<1>1. d \in Int /\ d > 0 /\ n \in Int /\ n >= 0 /\ n <= d OBVIOUS
<1>2. dd \in Int /\ dd > 0 BY <1>1
<1>3. G \in Int OBVIOUS
<1>4. CASE L = 0 \/ P < 0
  <2>1. P <= 0 BY <1>4
  <2>2. n * d >= 0 /\ n * d \in Int BY <1>1
  <2>3. n * d * P <= 0 /\ n * d * P \in Int
    <3> DEFINE nd == n * d
    <3>1. nd \in Int /\ nd >= 0 BY <2>2
    <3> HIDE DEF nd
    <3>2. nd * P <= 0 BY <2>1, <3>1
    <3>. QED BY <3>2 DEF nd
  <2>4. n * n >= 0 /\ n * n \in Int BY <1>1
  <2>5. n * n * L >= 0 /\ n * n * L \in Int
    <3> DEFINE nn == n * n
    <3>1. nn \in Int /\ nn >= 0 BY <2>4
    <3> HIDE DEF nn
    <3>2. nn * L >= 0 BY <3>1
    <3>. QED BY <3>2 DEF nn
  <2>6. dd * A <= G /\ dd * A \in Int /\ dd * D \in Int BY <1>2, <2>3, <2>5
  <2>7. G < dd * D OBVIOUS
  <2> HIDE DEF G, dd
  <2>8. dd * A < dd * D BY <1>3, <2>6, <2>7
  <2>9. A < D BY <1>2, <2>8, TimesPositive
  <2>. QED BY <1>4, <2>9
<1>5. CASE ~(L = 0 \/ P < 0) /\ P > L
  <2> DEFINE E == (A - 2 * P) + L
  <2>1. G - dd * E = (d - n) * (2 * (d * P) - L * (d + n)) BY <1>1
  <2>2. d * P >= d * L /\ d * P \in Int /\ d * L \in Int
    <3>1. L < P BY <1>5
    <3>. QED BY <1>1, <3>1, TimesPositive
  <2>3. L * (d + n) = d * L + n * L /\ n * L \in Int BY <1>1
  <2>4. n * L <= d * L
    <3>1. d * L - n * L = (d - n) * L BY <1>1
    <3>2. d - n \in Int /\ d - n >= 0 BY <1>1
    <3>3. (d - n) * L >= 0
      <4> DEFINE e == d - n
      <4>1. e \in Int /\ e >= 0 BY <3>2
      <4> HIDE DEF e
      <4>2. e * L >= 0 BY <4>1
      <4>. QED BY <4>2 DEF e
    <3>. QED BY <2>2, <2>3, <3>1, <3>3
  <2>5. 2 * (d * P) - L * (d + n) >= 0 /\ 2 * (d * P) - L * (d + n) \in Int
    BY <1>1, <2>2, <2>3, <2>4
  <2>6. (d - n) * (2 * (d * P) - L * (d + n)) >= 0
    <3> DEFINE e == d - n
               f == 2 * (d * P) - L * (d + n)
    <3>1. e \in Int /\ e >= 0 /\ f \in Int /\ f >= 0 BY <1>1, <2>5
    <3> HIDE DEF e, f
    <3>2. e * f >= 0 BY <3>1
    <3>. QED BY <3>2 DEF e, f
  <2>7. E \in Int /\ dd * E \in Int /\ dd * D \in Int BY <1>2
  <2>8. G < dd * D OBVIOUS
  <2> HIDE DEF G, E, dd
  <2>9. dd * E < dd * D BY <1>3, <2>1, <2>6, <2>7, <2>8
  <2>10. E < D BY <1>2, <2>7, <2>9, TimesPositive
  <2>. QED BY <1>5, <2>10 DEF E
<1>6. CASE ~(L = 0 \/ P < 0) /\ ~(P > L)
  <2> DEFINE S == L * A - P * P
             e == d * P - n * L
  <2>1. L > 0 BY <1>6
  <2>2. L * G = dd * S + e * e
    BY <1>1
  <2>3. e * e >= 0 /\ e * e \in Int /\ S \in Int BY <1>1, SquareNotNegative
  <2>4. G < dd * D OBVIOUS
  <2>5. dd * D \in Int BY <1>2
  <2> HIDE DEF G, S, e
  <2>6. L * G < L * (dd * D) BY <1>3, <2>1, <2>4, <2>5, TimesPositive
  <2>7. L * (dd * D) = dd * (L * D) BY <1>2
  <2>8. dd * S \in Int /\ L * D \in Int /\ dd * (L * D) \in Int /\ L * G \in Int
    BY <1>2, <1>3, <2>3
  <2>9. dd * S < dd * (L * D)
    <3> DEFINE x == dd * S
               y == dd * (L * D)
               z == L * G
    <3>1. z = x + e * e /\ z < y BY <2>2, <2>6, <2>7
    <3>2. x \in Int /\ y \in Int /\ z \in Int BY <2>8
    <3> HIDE DEF x, y, z
    <3>3. x < y BY <2>3, <3>1, <3>2
    <3>. QED BY <3>3 DEF x, y
  <2> HIDE DEF dd
  <2>10. S < L * D BY <1>2, <2>3, <2>8, <2>9, TimesPositive
  <2>11. L * S < L * (L * D) BY <2>1, <2>3, <2>8, <2>10, TimesPositive
  <2>12. L * (L * D) = L * L * D OBVIOUS
  <2>. QED BY <1>6, <2>11, <2>12 DEF S
<1>. QED BY <1>4, <1>5, <1>6

LEMMA DifferenceType ==
  ASSUME NEW p \in Place, NEW q \in Place
  PROVE  Difference(p, q).x \in Int /\ Difference(p, q).y \in Int
BY PlaceAssumption DEF Difference, LongitudeToMeters, LatitudeToMeters

\* The vectors of a triangle.
LEMMA DifferenceOfEnds ==
  ASSUME NEW p \in Place, NEW q \in Place, NEW r \in Place
  PROVE  /\ Difference(p, r).x = Difference(p, q).x - Difference(r, q).x
         /\ Difference(p, r).y = Difference(p, q).y - Difference(r, q).y
<1> DEFINE X(s) == LongitudeToMeters(s.longitude, s.latitude)
           Y(s) == LatitudeToMeters(s.latitude)
<1>1. \A s \in Place : X(s) \in Int /\ Y(s) \in Int
  BY PlaceAssumption DEF LongitudeToMeters, LatitudeToMeters
<1>2. \A s, t : Difference(s, t).x = X(s) - X(t)
             /\ Difference(s, t).y = Y(s) - Y(t)
  BY DEF Difference
<1> HIDE DEF X, Y
<1>. QED BY <1>1, <1>2

\* PointBoxDistance finds every box that is close to some point of the way: the
\* clamped projection is the nearest one.
LEMMA WayCloseIsNear ==
  ASSUME NEW box \in Place, NEW q \in Place, NEW r \in Place,
         NEW d \in Nat \ {0}, NEW n \in 0 .. d, CloseToWay(box, q, r, n, d)
  PROVE  PointBoxNear(box, q, r)
<1> DEFINE a == Difference(box, q)
           c == Difference(r, q)
           ax == a.x
           ay == a.y
           cx == c.x
           cy == c.y
           A == ax * ax + ay * ay
           P == ax * cx + ay * cy
           L == cx * cx + cy * cy
           K == POINT_BOX_COLLECT_DISTANCE
           D == K * K
           e == Difference(box, r)
           scaled == [x |-> a.x * L - P * c.x, y |-> a.y * L - P * c.y]
<1>1. ax \in Int /\ ay \in Int /\ cx \in Int /\ cy \in Int /\ K \in Int
  BY DifferenceType, PlaceAssumption
<1>2. (d * d * A - 2 * (n * d * P)) + n * n * L < d * d * D
  <2>1. (d * ax - n * cx) * (d * ax - n * cx)
           + (d * ay - n * cy) * (d * ay - n * cy) < d * d * D
    BY DEF CloseToWay, Dot
  <2> HIDE DEF ax, ay, cx, cy
  <2>2. n \in Int /\ d \in Int OBVIOUS
  <2>. QED BY <1>1, <2>1, <2>2, DividedSquare
<1>3. A \in Int /\ P \in Int /\ L \in Int /\ D \in Int
  <2> HIDE DEF ax, ay, cx, cy, K
  <2>. QED BY <1>1
<1>4. L >= 0 /\ (L = 0 => P = 0)
  <2> HIDE DEF ax, ay, cx, cy
  <2>1. cx * cx >= 0 /\ cy * cy >= 0 BY <1>1
  <2>2. L = 0 => cx = 0 /\ cy = 0 BY <1>1, <2>1
  <2>. QED BY <1>1, <2>1, <2>2
<1>5. (CASE L = 0 \/ P < 0 -> A < D
         [] L # 0 /\ P > L -> (A - 2 * P) + L < D
         [] OTHER -> L * (L * A - P * P) < L * L * D)
  <2> HIDE DEF A, P, L, D
  <2>. QED BY <1>2, <1>3, <1>4, NearestPoint
<1>6. PointBoxNear(box, q, r)
        <=> (CASE L = 0 \/ P < 0 -> Close(a)
               [] L # 0 /\ P > L -> Close(e)
               [] OTHER -> Dot(scaled, scaled) < (K * L) * (K * L))
  BY DEF PointBoxNear, Dot
<1>7. Close(a) <=> A < D
  BY DEF Close, Dot
<1>8. Close(e) <=> (A - 2 * P) + L < D
  <2>1. e.x = ax - cx /\ e.y = ay - cy BY DifferenceOfEnds
  <2>2. Close(e) <=> e.x * e.x + e.y * e.y < D BY DEF Close, Dot
  <2> HIDE DEF ax, ay, cx, cy, e
  <2>3. e.x * e.x + e.y * e.y = (A - 2 * P) + L
    <3> HIDE DEF A, P, L
    <3>1. (ax - cx) * (ax - cx) + (ay - cy) * (ay - cy) = (A - 2 * P) + L
      BY <1>1 DEF A, P, L
    <3>. QED BY <2>1, <3>1
  <2>. QED BY <2>2, <2>3
<1>9. Dot(scaled, scaled) = L * (L * A - P * P)
  <2>1. Dot(scaled, scaled)
          = (ax * L - P * cx) * (ax * L - P * cx)
              + (ay * L - P * cy) * (ay * L - P * cy)
    BY DEF Dot
  <2> HIDE DEF ax, ay, cx, cy
  <2>2. (ax * L - P * cx) * (ax * L - P * cx)
          + (ay * L - P * cy) * (ay * L - P * cy) = L * (L * A - P * P)
    BY <1>1, ScaledSquare
  <2>. QED BY <2>1, <2>2
<1>10. (K * L) * (K * L) = L * L * D
  <2> HIDE DEF L, K
  <2>. QED BY <1>1, <1>3
<1> HIDE DEF A, P, L, D, a, c, e, scaled, K
<1>. QED BY <1>5, <1>6, <1>7, <1>8, <1>9, <1>10

\* The ends of the way divide it as 0 and 1 to 1.
LEMMA EndsOfWay ==
  ASSUME NEW box \in Place, NEW q \in Place, NEW r \in Place
  PROVE  /\ Close(Difference(box, q)) => CloseToWay(box, q, r, 0, 1)
         /\ Close(Difference(box, r)) => CloseToWay(box, q, r, 1, 1)
<1> DEFINE u == Difference(box, q)
           v == Difference(r, q)
           e == Difference(box, r)
<1>1. /\ u.x \in Int /\ u.y \in Int /\ v.x \in Int /\ v.y \in Int
      /\ e.x = u.x - v.x /\ e.y = u.y - v.y
      /\ POINT_BOX_COLLECT_DISTANCE \in Int
  BY DifferenceType, DifferenceOfEnds, PlaceAssumption
<1>. QED BY <1>1 DEF CloseToWay, Close, Dot

LEMMA NearIsWayClose ==
  ASSUME NEW box \in Place, NEW q \in Place, NEW r \in Place,
         PointBoxNear(box, q, r)
  PROVE  \E d \in Nat \ {0} : \E n \in 0 .. d : CloseToWay(box, q, r, n, d)
<1> DEFINE a == Difference(box, q)
           c == Difference(r, q)
           P == Dot(a, c)
           L == Dot(c, c)
           K == POINT_BOX_COLLECT_DISTANCE
           e == Difference(box, r)
           scaled == [x |-> a.x * L - P * c.x, y |-> a.y * L - P * c.y]
<1>1. a.x \in Int /\ a.y \in Int /\ c.x \in Int /\ c.y \in Int /\ K \in Int
  BY DifferenceType, PlaceAssumption
<1>2. P \in Int /\ L \in Int BY <1>1 DEF Dot
<1>3. L >= 0
  <2>1. c.x * c.x >= 0 /\ c.y * c.y >= 0 BY <1>1
  <2>. QED BY <1>1, <2>1 DEF Dot
<1>4. (CASE L = 0 \/ P < 0 -> Close(a)
         [] L # 0 /\ P > L -> Close(e)
         [] OTHER -> Dot(scaled, scaled) < (K * L) * (K * L))
  BY DEF PointBoxNear
<1>5. 0 \in 0 .. 1 /\ 1 \in 0 .. 1 /\ 1 \in Nat \ {0} OBVIOUS
<1>6. CASE L = 0 \/ P < 0
  <2> HIDE DEF a, e, P, L, scaled
  <2>1. Close(a) BY <1>2, <1>3, <1>4, <1>6
  <2> USE DEF a
  <2>. QED BY <1>5, <2>1, EndsOfWay
<1>7. CASE ~(L = 0 \/ P < 0) /\ P > L
  <2> HIDE DEF a, e, P, L, scaled
  <2>1. Close(e) BY <1>4, <1>7
  <2> USE DEF e
  <2>. QED BY <1>5, <2>1, EndsOfWay
<1>8. CASE ~(L = 0 \/ P < 0) /\ ~(P > L)
  <2>1. Dot(scaled, scaled) < (K * L) * (K * L) BY <1>4, <1>8
  <2>2. L \in Nat \ {0} /\ P \in 0 .. L BY <1>2, <1>3, <1>8
  <2>3. (K * L) * (K * L) = L * L * (K * K)
    <3> HIDE DEF K, L
    <3>. QED BY <1>1, <1>2
  <2>4. a.x * L = L * a.x /\ a.y * L = L * a.y
    <3> HIDE DEF a, L
    <3>. QED BY <1>1, <1>2
  <2>5. CloseToWay(box, q, r, P, L)
    <3>1. CloseToWay(box, q, r, P, L)
            <=> Dot([x |-> L * a.x - P * c.x, y |-> L * a.y - P * c.y],
                    [x |-> L * a.x - P * c.x, y |-> L * a.y - P * c.y])
                  < L * L * (K * K)
      BY DEF CloseToWay
    <3> HIDE DEF a, c, P, L, K
    <3>. QED BY <2>1, <2>3, <2>4, <3>1
  <2>. QED BY <2>2, <2>5
<1>. QED BY <1>6, <1>7, <1>8

\* PointBoxDistance is the distance of the box from the way, whatever case it
\* takes: it is less than the one boxes are collected at exactly if some point
\* of the way is that close to the box.
THEOREM PointBoxNearMeansClose ==
  \A box, q, r \in Place :
    PointBoxNear(box, q, r) <=>
      \E d \in Nat \ {0} : \E n \in 0 .. d : CloseToWay(box, q, r, n, d)
BY WayCloseIsNear, NearIsWayClose

\* When CalculateMovement returns, no box is left that is close to any point of
\* the way a player went.
NothingCloseToWayLeft ==
  pc = "done" =>
    \A n \in DOMAIN boxes : \A t \in Teams : \A j \in DOMAIN team[t] :
      \A d \in Nat \ {0} : \A m \in 0 .. d :
        ~CloseToWay(boxes[n].position, teamBefore[t][j].position,
                    team[t][j].position, m, d)

LEMMA NoneInReachLeft ==
  ASSUME LoopInv, LoopsComputeMovement, pc = "done",
         NEW n \in DOMAIN boxes, NEW t \in Teams, NEW j \in DOMAIN team[t]
  PROVE  /\ boxes[n].position \in Place
         /\ teamBefore[t][j].position \in Place /\ team[t][j].position \in Place
         /\ ~PointBoxNear(boxes[n].position, teamBefore[t][j].position,
                          team[t][j].position)
<1> DEFINE me == teamBefore[t][j]
           s == boxes[n].serial
<1>1. /\ LoopType /\ team = PartlyMoved /\ BoxesKeptSo /\ Serials(boxes) = Free
      /\ current = "blue" /\ i > Len(teamBefore["blue"])
  BY DEF LoopInv
<1>2. j \in DOMAIN teamBefore[t] /\ me \in Player
  BY <1>1, ShapeOfTeams, TeamShape DEF LoopType
<1>3. boxes[n].position \in Place
  <2>1. boxes \in Seq(Box) /\ DOMAIN boxes = 1 .. Len(boxes)
    BY <1>1, LenProperties DEF LoopType
  <2>2. boxes[n] \in Box BY <2>1, ElementOfSeq
  <2>. QED BY <2>2 DEF Box
<1>4. me.position \in Place /\ NewPosition(me) \in Place
  BY <1>2, NewPositionType DEF Player
<1>5. team[t][j].position = NewPosition(me)
  <2>1. team[t][j] = MovedPlayer(teamBefore, Boxes0, t, j)
    BY <1>2 DEF LoopsComputeMovement, CalculateMovement, Boxes0
  <2>. QED BY <1>2, <2>1 DEF MovedPlayer, Player
<1>6. Visited(t, j)
  <2>1. /\ DOMAIN teamBefore[t] = 1 .. Len(teamBefore[t])
        /\ Len(teamBefore[t]) \in Nat /\ i \in Nat
    BY <1>1, ShapeOfTeams DEF LoopType
  <2>2. t = "blue" => j < i BY <1>1, <1>2, <2>1
  <2>. QED BY <1>1, <2>2 DEF Visited, Teams
<1>7. s \in Free /\ Boxes0[s] = boxes[n].position
  BY <1>1 DEF Serials, BoxesKeptSo
<1>8. ~Reaches(me, boxes[n].position)
  BY <1>2, <1>6, <1>7 DEF Free
<1>9. ~PointBoxNear(boxes[n].position, me.position, NewPosition(me))
  BY <1>3, <1>4, <1>8, PlaceAssumption DEF Reaches
<1>. QED BY <1>3, <1>4, <1>5, <1>9

\* The loops and the geometry together: whatever the teams, the boxes and the
\* movements, every box within reach of the way of any player is collected.
THEOREM NothingCloseToWayLeftHolds == Spec => []NothingCloseToWayLeft
<1>1. LoopInv /\ LoopsComputeMovement => NothingCloseToWayLeft
  BY NoneInReachLeft, PointBoxNearMeansClose DEF NothingCloseToWayLeft
<1>. QED BY <1>1, LoopInvHolds, LoopsComputeMovementHolds, PTL

\* In particular none is left at either end of it.
THEOREM NothingCloseLeftHolds == Spec => []NothingCloseLeft
<1>1. LoopInv /\ LoopsComputeMovement => NothingCloseLeft
  <2> SUFFICES ASSUME LoopInv, LoopsComputeMovement, pc = "done",
                      NEW n \in DOMAIN boxes, NEW t \in Teams,
                      NEW j \in DOMAIN team[t]
               PROVE  /\ ~Close(Difference(boxes[n].position, teamBefore[t][j].position))
                      /\ ~Close(Difference(boxes[n].position, team[t][j].position))
    BY DEF NothingCloseLeft
  <2>1. 0 \in 0 .. 1 /\ 1 \in 0 .. 1 /\ 1 \in Nat \ {0} OBVIOUS
  <2>. QED BY <2>1, NoneInReachLeft, EndsOfWay, WayCloseIsNear
<1>. QED BY <1>1, LoopInvHolds, LoopsComputeMovementHolds, PTL
=============================================================================
