----------------------------- MODULE Game_proofs -----------------------------
(***************************************************************************)
(* What the operators of Game.tla return, for all teams and boxes.         *)
(***************************************************************************)
EXTENDS Game, LeastNumber, SequenceTheorems, FiniteSetTheorems

BothTeams == [Teams -> Seq(Player)]

(***************************************************************************)
(* Sequences built element by element.                                     *)
(***************************************************************************)

LEMMA FunctionIsSeq ==
  ASSUME NEW S, NEW n \in Nat, NEW f \in [1 .. n -> S]
  PROVE  f \in Seq(S) /\ Len(f) = n
BY SeqDef

\* A team has a length and its players are players.
LEMMA TeamShape ==
  ASSUME NEW team \in BothTeams, NEW t \in Teams
  PROVE  /\ Len(team[t]) \in Nat
         /\ DOMAIN team[t] = 1 .. Len(team[t])
         /\ \A i \in DOMAIN team[t] : team[t][i] \in Player
<1>1. team[t] \in Seq(Player) BY DEF BothTeams
<1>. QED BY <1>1, LenProperties, ElementOfSeq

-----------------------------------------------------------------------------
(* Typing of the operations.                                               *)

LEMMA NewPlayerType ==
  ASSUME NEW id \in PlayerId, NEW v \in VehicleType, NEW place \in Place
  PROVE  NewPlayer(id, v, place) \in Player
BY MovementAssumption DEF NewPlayer, Player, Input

LEMMA AddPlayerType ==
  ASSUME NEW team \in BothTeams, NEW t \in Teams, NEW player \in Player
  PROVE  /\ AddPlayer(team, t, player) \in BothTeams
         /\ \A u \in Teams :
              AddPlayer(team, t, player)[u] =
                IF u = t THEN Append(team[u], player) ELSE team[u]
BY DEF AddPlayer, BothTeams

LEMMA SetPlayerInputType ==
  ASSUME NEW team \in BothTeams, NEW id \in PlayerId, NEW input \in Input
  PROVE  /\ SetPlayerInput(team, id, input) \in BothTeams
         /\ \A t \in Teams :
              /\ Len(SetPlayerInput(team, id, input)[t]) = Len(team[t])
              /\ \A i \in DOMAIN team[t] :
                   /\ SetPlayerInput(team, id, input)[t][i] \in Player
                   /\ SetPlayerInput(team, id, input)[t][i].points
                        = team[t][i].points
<1> DEFINE new == SetPlayerInput(team, id, input)
<1>1. ASSUME NEW t \in Teams
      PROVE  /\ new[t] \in Seq(Player)
             /\ Len(new[t]) = Len(team[t])
             /\ \A i \in DOMAIN team[t] :
                  new[t][i] \in Player /\ new[t][i].points = team[t][i].points
  <2> DEFINE players == team[t]
  <2>1. /\ Len(players) \in Nat
        /\ DOMAIN players = 1 .. Len(players)
        /\ \A i \in DOMAIN players : players[i] \in Player
    BY TeamShape
  <2>2. new[t] = [i \in 1 .. Len(players) |->
                   IF players[i].id = id /\ IsFirst(players, i)
                   THEN [players[i] EXCEPT !.input = input] ELSE players[i]]
    BY <2>1 DEF SetPlayerInput
  <2>3. ASSUME NEW i \in 1 .. Len(players)
        PROVE  new[t][i] \in Player /\ new[t][i].points = players[i].points
    BY <2>1, <2>2 DEF Player
  <2>4. new[t] \in [1 .. Len(players) -> Player] BY <2>2, <2>3
  <2>. QED BY <2>1, <2>3, <2>4, FunctionIsSeq
<1>2. new \in BothTeams BY <1>1 DEF SetPlayerInput, BothTeams
<1>. QED BY <1>1, <1>2

LEMMA NewPositionType ==
  ASSUME NEW player \in Player
  PROVE  NewPosition(player) \in Place
BY MovementAssumption DEF NewPosition, Player, Input

LEMMA MovedPlayerType ==
  ASSUME NEW team \in BothTeams, NEW boxes, IsFiniteSet(DOMAIN boxes),
         NEW t \in Teams, NEW i \in DOMAIN team[t]
  PROVE  /\ MovedPlayer(team, boxes, t, i) \in Player
         /\ Cardinality(Collected(team, boxes, t, i)) \in Nat
         /\ MovedPlayer(team, boxes, t, i).points
              = team[t][i].points + POINT_BOX_VALUE
                  * Cardinality(Collected(team, boxes, t, i))
         /\ MovedPlayer(team, boxes, t, i).position = NewPosition(team[t][i])
<1> DEFINE n == Cardinality(Collected(team, boxes, t, i))
<1>1. n \in Nat
  <2>1. Collected(team, boxes, t, i) \in SUBSET DOMAIN boxes
    BY DEF Collected
  <2>. QED BY <2>1, FS_Subset, FS_CardinalityType
<1>2. POINT_BOX_VALUE * n \in Nat BY <1>1, ScoreAssumption
<1>3. team[t][i] \in Player BY TeamShape
<1>4. NewPosition(team[t][i]) \in Place BY <1>3, NewPositionType
<1>5. Speed[team[t][i].vehicle] \in Nat
  BY <1>3, MovementAssumption DEF Player
<1> HIDE DEF n
<1>6. MovedPlayer(team, boxes, t, i)
        = [team[t][i] EXCEPT
             !.points = @ + POINT_BOX_VALUE * n,
             !.distance = @ + IF team[t][i].input.move
                              THEN Speed[team[t][i].vehicle] ELSE 0,
             !.position = NewPosition(team[t][i])]
  BY DEF MovedPlayer, n
<1>7. MovedPlayer(team, boxes, t, i) \in Player
  <2> DEFINE old == team[t][i]
             d == old.distance + IF old.input.move
                                 THEN Speed[old.vehicle] ELSE 0
             p == old.points + POINT_BOX_VALUE * n
             q == NewPosition(old)
  <2>1. d \in Nat BY <1>3, <1>5 DEF Player
  <2>2. p \in Nat BY <1>2, <1>3 DEF Player
  <2>3. q \in Place BY <1>4
  <2>4. MovedPlayer(team, boxes, t, i)
          = [old EXCEPT !.points = p, !.distance = d, !.position = q]
    BY <1>6
  <2> HIDE DEF d, p, q
  <2>. QED BY <1>3, <2>1, <2>2, <2>3, <2>4 DEF Player
<1>8. MovedPlayer(team, boxes, t, i).points
        = team[t][i].points + POINT_BOX_VALUE * n
  BY <1>3, <1>6 DEF Player
<1>9. MovedPlayer(team, boxes, t, i).position = NewPosition(team[t][i])
  BY <1>3, <1>6 DEF Player
<1>. QED BY <1>1, <1>7, <1>8, <1>9 DEF n

LEMMA CalculateMovementType ==
  ASSUME NEW team \in BothTeams, NEW boxes, IsFiniteSet(DOMAIN boxes)
  PROVE  /\ CalculateMovement(team, boxes) \in BothTeams
         /\ \A t \in Teams :
              /\ Len(CalculateMovement(team, boxes)[t]) = Len(team[t])
              /\ \A i \in DOMAIN team[t] :
                   CalculateMovement(team, boxes)[t][i]
                     = MovedPlayer(team, boxes, t, i)
<1> DEFINE new == CalculateMovement(team, boxes)
<1>1. ASSUME NEW t \in Teams
      PROVE  /\ new[t] \in Seq(Player)
             /\ Len(new[t]) = Len(team[t])
             /\ \A i \in DOMAIN team[t] :
                  new[t][i] = MovedPlayer(team, boxes, t, i)
  <2>1. Len(team[t]) \in Nat /\ DOMAIN team[t] = 1 .. Len(team[t])
    BY TeamShape
  <2>2. new[t] = [i \in 1 .. Len(team[t]) |-> MovedPlayer(team, boxes, t, i)]
    BY <2>1 DEF CalculateMovement
  <2>3. \A i \in 1 .. Len(team[t]) : MovedPlayer(team, boxes, t, i) \in Player
    BY <2>1, MovedPlayerType
  <2>4. new[t] \in [1 .. Len(team[t]) -> Player] BY <2>2, <2>3
  <2>. QED BY <2>1, <2>2, <2>4, FunctionIsSeq
<1>2. new \in BothTeams BY <1>1 DEF CalculateMovement, BothTeams
<1>. QED BY <1>1, <1>2

LEMMA BoxesLeftType ==
  ASSUME NEW team, NEW boxes
  PROVE  /\ DOMAIN BoxesLeft(team, boxes) \subseteq DOMAIN boxes
         /\ \A b \in DOMAIN BoxesLeft(team, boxes) :
              BoxesLeft(team, boxes)[b] = boxes[b]
         /\ \A b \in DOMAIN boxes :
              b \in DOMAIN BoxesLeft(team, boxes) <=>
                \A t \in Teams : \A i \in DOMAIN team[t] :
                  b \notin Collected(team, boxes, t, i)
BY DEF BoxesLeft

-----------------------------------------------------------------------------
(* The score of a team.  Score is a recursive function over the length of  *)
(* the team; these lemmas say that the recursion equation has a solution   *)
(* and that the sum depends on the points of the players alone.            *)

IsSum(f, players, n) ==
  f = [k \in 0 .. n |-> IF k = 0 THEN 0 ELSE f[k - 1] + players[k].points]

LEMMA SumExists ==
  ASSUME NEW players, NEW n \in Nat
  PROVE  \E f : IsSum(f, players, n)
<1> DEFINE Bad == {k \in Nat : \A f : ~IsSum(f, players, k)}
<1>1. SUFFICES ASSUME Bad # {} PROVE FALSE
  OBVIOUS
<1>2. PICK m \in Bad : \A k \in Bad : m <= k
  <2>. Bad \in SUBSET Nat OBVIOUS
  <2>. QED BY <1>1, LeastNumberExists
<1>3. CASE m = 0
  <2> DEFINE g == [k \in 0 .. 0 |-> 0]
  <2>1. IsSum(g, players, 0) BY DEF IsSum
  <2>. QED BY <2>1, <1>3
<1>4. CASE m # 0
  <2>1. m - 1 \in Nat /\ m - 1 \notin Bad BY <1>2, <1>4
  <2>2. PICK f : IsSum(f, players, m - 1) BY <2>1
  <2> DEFINE g == [k \in 0 .. m |-> IF k = m
                                    THEN f[m - 1] + players[m].points
                                    ELSE f[k]]
  <2>3. ASSUME NEW k \in 0 .. m
        PROVE  g[k] = IF k = 0 THEN 0 ELSE g[k - 1] + players[k].points
    <3>1. CASE k = m
      <4>1. g[m - 1] = f[m - 1] BY <1>4, <2>1
      <4>. QED BY <3>1, <4>1, <1>4
    <3>2. CASE k # m
      <4>1. k \in 0 .. m - 1 BY <3>2
      <4>2. f[k] = IF k = 0 THEN 0 ELSE f[k - 1] + players[k].points
        BY <4>1, <2>2 DEF IsSum
      <4>3. k # 0 => g[k - 1] = f[k - 1] BY <4>1
      <4>. QED BY <4>1, <4>2, <4>3
    <3>. QED BY <3>1, <3>2
  <2>4. IsSum(g, players, m) BY <2>3 DEF IsSum
  <2>. QED BY <2>4
<1>. QED BY <1>3, <1>4

\* The score is the last partial sum of some function of partial sums.
LEMMA ScoreIsSum ==
  ASSUME NEW players, Len(players) \in Nat
  PROVE  \E f : IsSum(f, players, Len(players)) /\ Score(players) = f[Len(players)]
<1> DEFINE s == CHOOSE f : f = [k \in 0 .. Len(players) |->
                  IF k = 0 THEN 0 ELSE f[k - 1] + players[k].points]
<1>1. IsSum(s, players, Len(players)) BY SumExists DEF IsSum
<1>2. Score(players) = s[Len(players)] BY DEF Score
<1>. QED BY <1>1, <1>2

\* Two rows of players, the second with at least the points of the first
\* among their first n players, have partial sums in the same order.
LEMMA SumsInOrder ==
  ASSUME NEW p, NEW q, NEW n \in Nat, NEW m1 \in Nat, NEW m2 \in Nat,
         n <= m1, n <= m2,
         NEW f, IsSum(f, p, m1), NEW g, IsSum(g, q, m2),
         \A k \in 1 .. n : /\ p[k].points \in Nat
                           /\ q[k].points \in Nat
                           /\ p[k].points <= q[k].points
  PROVE  f[n] \in Nat /\ g[n] \in Nat /\ f[n] <= g[n]
<1> DEFINE Good(k) == f[k] \in Nat /\ g[k] \in Nat /\ f[k] <= g[k]
           Bad == {k \in 0 .. n : ~Good(k)}
<1>1. SUFFICES ASSUME Bad # {} PROVE FALSE
  OBVIOUS
<1>2. PICK k \in Bad : \A j \in Bad : k <= j
  <2>. Bad \in SUBSET Nat OBVIOUS
  <2>. QED BY <1>1, LeastNumberExists
<1>3. /\ f[k] = IF k = 0 THEN 0 ELSE f[k - 1] + p[k].points
      /\ g[k] = IF k = 0 THEN 0 ELSE g[k - 1] + q[k].points
  BY DEF IsSum
<1>4. CASE k = 0
  BY <1>2, <1>3, <1>4
<1>5. CASE k # 0
  <2>1. k - 1 \in 0 .. n /\ k - 1 \notin Bad BY <1>2, <1>5
  <2>2. Good(k - 1) BY <2>1
  <2>3. Good(k) BY <1>3, <1>5, <2>2
  <2>. QED BY <1>2, <2>3
<1>. QED BY <1>4, <1>5

LEMMA PointsType ==
  ASSUME NEW p \in Seq(Player)
  PROVE  /\ Len(p) \in Nat
         /\ \A k \in 1 .. Len(p) : p[k] \in Player /\ p[k].points \in Nat
<1>1. Len(p) \in Nat BY LenProperties
<1>2. \A k \in 1 .. Len(p) : p[k] \in Player BY ElementOfSeq
<1>. QED BY <1>1, <1>2 DEF Player

\* A score is a natural number, and is not smaller when every player of a
\* team of the same size has at least as many points.
LEMMA ScoreOrder ==
  ASSUME NEW p \in Seq(Player), NEW q \in Seq(Player), Len(p) = Len(q),
         \A k \in 1 .. Len(p) : p[k].points <= q[k].points
  PROVE  Score(p) \in Nat /\ Score(q) \in Nat /\ Score(p) <= Score(q)
<1> DEFINE n == Len(p)
<1>1. n \in Nat BY PointsType
<1>2. \A k \in 1 .. n : /\ p[k].points \in Nat
                        /\ q[k].points \in Nat
                        /\ p[k].points <= q[k].points
  BY PointsType
<1>3. PICK f : IsSum(f, p, n) /\ Score(p) = f[n]
  BY <1>1, ScoreIsSum
<1>4. PICK g : IsSum(g, q, n) /\ Score(q) = g[n]
  BY <1>1, ScoreIsSum
<1> HIDE DEF n
<1>5. n <= n BY <1>1
<1>6. f[n] \in Nat /\ g[n] \in Nat /\ f[n] <= g[n]
  BY <1>1, <1>2, <1>3, <1>4, <1>5, SumsInOrder
<1>. QED BY <1>3, <1>4, <1>6

\* The score depends on the points of the players alone.
LEMMA ScoreSame ==
  ASSUME NEW p \in Seq(Player), NEW q \in Seq(Player), Len(p) = Len(q),
         \A k \in 1 .. Len(p) : p[k].points = q[k].points
  PROVE  Score(p) = Score(q)
<1>1. \A k \in 1 .. Len(p) : /\ p[k].points <= q[k].points
                             /\ q[k].points <= p[k].points
  BY PointsType
<1>2. Score(p) \in Nat /\ Score(q) \in Nat /\ Score(p) <= Score(q)
  BY <1>1, ScoreOrder
<1>3. Score(q) <= Score(p)
  BY <1>1, ScoreOrder
<1>. QED BY <1>2, <1>3

LEMMA ScoreType ==
  ASSUME NEW p \in Seq(Player)
  PROVE  Score(p) \in Nat
<1>1. \A k \in 1 .. Len(p) : p[k].points <= p[k].points
  BY PointsType
<1>. QED BY <1>1, ScoreOrder

LEMMA ScoreOfAppend ==
  ASSUME NEW p \in Seq(Player), NEW x \in Player
  PROVE  Score(Append(p, x)) = Score(p) + x.points
<1> DEFINE q == Append(p, x)
           n == Len(p)
<1>1. /\ n \in Nat /\ q \in Seq(Player) /\ Len(q) = n + 1
      /\ \A k \in 1 .. n : q[k] = p[k]
      /\ q[n + 1] = x
  BY LenProperties, AppendProperties
<1>2. \A k \in 1 .. n : p[k].points \in Nat
  BY PointsType
<1>3. PICK f : IsSum(f, p, n) /\ Score(p) = f[n]
  BY <1>1, ScoreIsSum
<1>4. PICK g : IsSum(g, q, n + 1) /\ Score(q) = g[n + 1]
  <2>1. Len(q) \in Nat BY <1>1
  <2>. QED BY <2>1, <1>1, ScoreIsSum
<1> HIDE DEF q, n
<1>5. f[n] = g[n]
  <2>1. n <= n + 1 /\ n + 1 \in Nat BY <1>1
  <2>2. \A k \in 1 .. n : /\ p[k].points \in Nat
                          /\ q[k].points \in Nat
                          /\ p[k].points <= q[k].points
                          /\ q[k].points <= p[k].points
    BY <1>1, <1>2
  <2>3. n <= n BY <1>1
  <2>4. f[n] \in Nat /\ g[n] \in Nat /\ f[n] <= g[n]
    BY <1>1, <1>3, <1>4, <2>1, <2>2, <2>3, SumsInOrder
  <2>5. g[n] <= f[n]
    BY <1>1, <1>3, <1>4, <2>1, <2>2, <2>3, SumsInOrder
  <2>. QED BY <2>4, <2>5
<1>6. g[n + 1] = g[n] + q[n + 1].points
  BY <1>1, <1>4 DEF IsSum
<1>. QED BY <1>1, <1>3, <1>4, <1>5, <1>6 DEF q, n

-----------------------------------------------------------------------------
(* Who collects a box.                                                     *)

\* No box is collected by two players.
LEMMA CollectorUnique ==
  ASSUME NEW team \in BothTeams, NEW boxes, NEW b,
         NEW t \in Teams, NEW i \in DOMAIN team[t],
         NEW u \in Teams, NEW j \in DOMAIN team[u],
         b \in Collected(team, boxes, t, i), b \in Collected(team, boxes, u, j)
  PROVE  t = u /\ i = j
<1>1. i \in Nat /\ j \in Nat BY TeamShape
<1>2. /\ Reaches(team[t][i], boxes[b]) /\ Reaches(team[u][j], boxes[b])
      /\ ~Before(u, j, t, i) /\ ~Before(t, i, u, j)
  BY DEF Collected, Collects
<1>. QED BY <1>1, <1>2 DEF Before, Teams

\* A box in some player's reach is collected by somebody.
LEMMA CollectorExists ==
  ASSUME NEW team \in BothTeams, NEW place,
         NEW t \in Teams, NEW i \in DOMAIN team[t], Reaches(team[t][i], place)
  PROVE  \E u \in Teams : \E j \in DOMAIN team[u] : Collects(team, u, j, place)
<1> DEFINE Reaching(u) == {j \in DOMAIN team[u] : Reaches(team[u][j], place)}
<1>1. \A u \in Teams : DOMAIN team[u] \subseteq Nat
  BY TeamShape
<1>2. ASSUME NEW u \in Teams, Reaching(u) # {},
             u = "blue" => Reaching("red") = {}
      PROVE  \E j \in DOMAIN team[u] : Collects(team, u, j, place)
  <2>1. PICK j \in Reaching(u) : \A k \in Reaching(u) : j <= k
    <3>. Reaching(u) \in SUBSET Nat BY <1>1
    <3>. QED BY <1>2, LeastNumberExists
  <2>2. ASSUME NEW w \in Teams, NEW k \in DOMAIN team[w], Before(w, k, u, j)
        PROVE  ~Reaches(team[w][k], place)
    <3>1. CASE w = "red" /\ u = "blue"
      BY <1>2, <3>1
    <3>2. CASE w = u /\ k < j
      <4>1. k \in Nat /\ j \in Nat BY <1>1, <3>2
      <4>. QED BY <2>1, <3>2, <4>1
    <3>. QED BY <2>2, <3>1, <3>2 DEF Before
  <2>. QED BY <2>1, <2>2 DEF Collects
<1>3. CASE Reaching("red") # {}
  BY <1>2, <1>3 DEF Teams
<1>4. CASE Reaching("red") = {}
  <2>1. i \in Reaching(t) OBVIOUS
  <2>2. t = "blue" BY <1>4, <2>1 DEF Teams
  <2>. QED BY <1>2, <1>4, <2>1, <2>2 DEF Teams
<1>. QED BY <1>3, <1>4
=============================================================================
