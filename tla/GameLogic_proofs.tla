-------------------------- MODULE GameLogic_proofs --------------------------
(***************************************************************************)
(* Theorems about GameLogic for every set of players, places and movement  *)
(* function, every score to win, spawn period and delay, and any number of *)
(* ticks and players.                                                      *)
(***************************************************************************)
EXTENDS GameLogic, Game_proofs

USE DEF vars, world, statistics

-----------------------------------------------------------------------------
(* Typing.                                                                 *)

LEMMA TypeInit == Init => TypeOK
<1> SUFFICES ASSUME Init PROVE TypeOK
  OBVIOUS
<1>1. /\ team \in [Teams -> Seq(Player)]
      /\ Len(team["red"]) = 0
  BY EmptySeq DEF Init, Teams
<1>2. database \in Seq(DatabaseRow)
  BY EmptySeq DEF Init
<1>3. /\ << >> \in Seq({}) /\ Len(<< >>) = 0
      /\ DOMAIN << >> = {}
  BY EmptySeq
<1>4. point_boxes \in [DOMAIN point_boxes -> Place]
  BY <1>3 DEF Init
<1>5. holder \in [1 .. spawned -> Slot \cup {Nobody}]
  BY <1>3 DEF Init
<1>6. DOMAIN point_boxes \subseteq 1 .. spawned
  BY <1>3 DEF Init
<1>7. /\ row_end \in 0 .. Len(team["red"])
      /\ row \in 0 .. row_end
      /\ clock \in Nat /\ last_point_box_spawn \in Nat
      /\ serialization_seq_num \in Nat /\ spawned \in Nat
      /\ pc \in Locations
  BY <1>1 DEF Init, Locations
<1>8. {game_started, terminate, sql_failed} \subseteq BOOLEAN
  BY DEF Init
<1>9. score \in [Teams -> Nat \cup {Garbage}] /\ disturbed \subseteq Loops
  BY DEF Init
<1>. QED BY <1>1, <1>2, <1>4, <1>5, <1>6, <1>7, <1>8, <1>9 DEF TypeOK

\* A player of the red team as a row of the database.
LEMMA RowType ==
  ASSUME TypeOK, row < row_end
  PROVE  PlayerRow(team["red"][row + 1]) \in DatabaseRow
<1>1. team["red"][row + 1] \in Player
  <2>1. team \in BothTeams BY DEF TypeOK, BothTeams
  <2>2. row + 1 \in 1 .. Len(team["red"])
    <3>1. Len(team["red"]) \in Nat BY <2>1, TeamShape DEF Teams
    <3>. QED BY <3>1 DEF TypeOK
  <2>. QED BY <2>1, <2>2, TeamShape DEF Teams
<1>. QED BY <1>1 DEF PlayerRow, DatabaseRow, Player

\* The scores written to the database.
LEMMA GameRowType ==
  ASSUME TypeOK
  PROVE  GameRow \in DatabaseRow
<1>1. /\ score["red"] \in Nat \cup {Garbage}
      /\ score["blue"] \in Nat \cup {Garbage}
  BY DEF TypeOK, Teams
<1>. QED BY <1>1 DEF GameRow, DatabaseRow

\* What the loops over the players yield.
LEMMA YieldsType ==
  ASSUME NEW value, NEW n \in Yields(value)
  PROVE  n = value \/ (n = Garbage /\ pc \in disturbed)
BY DEF Yields

\* What a tick does to the teams, the boxes and the holders.
LEMMA MovePlayersType ==
  ASSUME TypeOK, NEW n \in Nat,
         NEW boxes, DOMAIN boxes \subseteq 1 .. n,
         boxes \in [DOMAIN boxes -> Place],
         NEW h \in [1 .. n -> Slot \cup {Nobody}],
         MovePlayers(boxes, h)
  PROVE  /\ team' \in BothTeams
         /\ \A t \in Teams : Len(team'[t]) = Len(team[t])
         /\ DOMAIN point_boxes' \subseteq 1 .. n
         /\ point_boxes' \in [DOMAIN point_boxes' -> Place]
         /\ holder' \in [1 .. n -> Slot \cup {Nobody}]
<1>1. team \in BothTeams BY DEF TypeOK, BothTeams
<1>2. IsFiniteSet(DOMAIN boxes) BY FS_Interval, FS_Subset
<1>3. team' \in BothTeams /\ \A t \in Teams : Len(team'[t]) = Len(team[t])
  BY <1>1, <1>2, CalculateMovementType DEF MovePlayers
<1>4. /\ DOMAIN point_boxes' \subseteq 1 .. n
      /\ point_boxes' \in [DOMAIN point_boxes' -> Place]
  BY DEF MovePlayers, BoxesLeft
<1>5. Slots(team) \subseteq Slot
  BY <1>1, TeamShape DEF Slots, Slot
<1>6. ASSUME NEW b \in 1 .. n PROVE holder'[b] \in Slot \cup {Nobody}
  <2> DEFINE P(s) == b \in Collected(team, boxes, s[1], s[2])
  <2>1. holder'[b] = IF \E s \in Slots(team) : P(s)
                     THEN CHOOSE s \in Slots(team) : P(s) ELSE h[b]
    BY DEF MovePlayers
  <2> HIDE DEF P
  <2>2. CASE \E s \in Slots(team) : P(s)
    BY <1>5, <2>1, <2>2
  <2>3. CASE ~ \E s \in Slots(team) : P(s)
    BY <2>1, <2>3
  <2>. QED BY <2>2, <2>3
<1>7. holder' = [b \in 1 .. n |-> holder'[b]] BY DEF MovePlayers
<1>8. holder' \in [1 .. n -> Slot \cup {Nobody}] BY <1>6, <1>7
<1>. QED BY <1>3, <1>4, <1>8

\* The boxes and holders a spawning tick moves the players over.
LEMMA SpawnType ==
  ASSUME TypeOK, NEW place \in Place
  PROVE  LET boxes == GeneratePointBox(point_boxes, spawned + 1, place)
             h == Append(holder, Nobody)
         IN  /\ DOMAIN boxes = DOMAIN point_boxes \cup {spawned + 1}
             /\ DOMAIN boxes \subseteq 1 .. spawned + 1
             /\ boxes \in [DOMAIN boxes -> Place]
             /\ h \in [1 .. spawned + 1 -> Slot \cup {Nobody}]
             /\ \A b \in 1 .. spawned : h[b] = holder[b]
             /\ h[spawned + 1] = Nobody
<1> DEFINE boxes == GeneratePointBox(point_boxes, spawned + 1, place)
           h == Append(holder, Nobody)
<1>1. spawned \in Nat BY DEF TypeOK
<1>2. /\ DOMAIN boxes = DOMAIN point_boxes \cup {spawned + 1}
      /\ boxes \in [DOMAIN boxes -> Place]
  BY DEF TypeOK, GeneratePointBox
<1>3. DOMAIN boxes \subseteq 1 .. spawned + 1
  <2>1. DOMAIN point_boxes \subseteq 1 .. spawned BY DEF TypeOK
  <2>2. 1 .. spawned \subseteq 1 .. spawned + 1 BY <1>1
  <2>3. spawned + 1 \in 1 .. spawned + 1 BY <1>1
  <2> HIDE DEF boxes
  <2>. QED BY <1>2, <2>1, <2>2, <2>3
<1>4. holder \in Seq(Slot \cup {Nobody}) /\ Len(holder) = spawned
  BY <1>1, FunctionIsSeq DEF TypeOK
<1>5. /\ h \in Seq(Slot \cup {Nobody})
      /\ Len(h) = spawned + 1
      /\ \A b \in 1 .. spawned : h[b] = holder[b]
      /\ h[spawned + 1] = Nobody
  BY <1>4, AppendProperties
<1>6. h \in [1 .. spawned + 1 -> Slot \cup {Nobody}]
  BY <1>5, LenProperties
<1>. QED BY <1>2, <1>3, <1>5, <1>6

\* Every tick moves the players over some boxes: those on the map, and the
\* new one if the tick spawns one.
TickOver(boxes, h, n) ==
  /\ n \in Nat
  /\ spawned <= n
  /\ DOMAIN boxes = DOMAIN point_boxes \cup (spawned + 1 .. n)
  /\ DOMAIN boxes \subseteq 1 .. n
  /\ boxes \in [DOMAIN boxes -> Place]
  /\ h \in [1 .. n -> Slot \cup {Nobody}]
  /\ \A b \in 1 .. spawned : h[b] = holder[b]
  /\ \A b \in spawned + 1 .. n : h[b] = Nobody
  /\ spawned' = n
  /\ MovePlayers(boxes, h)

LEMMA TickMoves ==
  ASSUME TypeOK, Tick
  PROVE  /\ clock' \in Nat
         /\ last_point_box_spawn' \in Nat
         /\ \E boxes, h, n : TickOver(boxes, h, n)
<1>1. PICK d \in Delay :
        /\ clock' = clock + d
        /\ \/ TickWithoutSpawn(clock + d)
           \/ \E place \in Place : TickWithSpawn(clock + d, place)
  BY DEF Tick
<1>2. clock' \in Nat
  BY <1>1, TimeAssumption DEF TypeOK
<1>3. CASE TickWithoutSpawn(clock + d)
  <2>1. TickOver(point_boxes, holder, spawned)
    <3>1. spawned \in Nat /\ spawned + 1 .. spawned = {} BY DEF TypeOK
    <3>2. DOMAIN point_boxes = DOMAIN point_boxes \cup (spawned + 1 .. spawned)
      BY <3>1
    <3>3. spawned <= spawned BY <3>1
    <3>4. spawned' = spawned /\ MovePlayers(point_boxes, holder)
      BY <1>3 DEF TickWithoutSpawn
    <3>5. /\ DOMAIN point_boxes \subseteq 1 .. spawned
          /\ point_boxes \in [DOMAIN point_boxes -> Place]
          /\ holder \in [1 .. spawned -> Slot \cup {Nobody}]
      BY DEF TypeOK
    <3>6. \A b \in spawned + 1 .. spawned : holder[b] = Nobody
      BY <3>1
    <3>. QED BY <3>1, <3>2, <3>3, <3>4, <3>5, <3>6 DEF TickOver
  <2>2. last_point_box_spawn' \in Nat
    BY <1>3 DEF TickWithoutSpawn, TypeOK
  <2>. QED BY <1>2, <2>1, <2>2
<1>4. ASSUME NEW place \in Place, TickWithSpawn(clock + d, place)
      PROVE  /\ last_point_box_spawn' \in Nat
             /\ \E boxes, h, n : TickOver(boxes, h, n)
  <2> DEFINE boxes == GeneratePointBox(point_boxes, spawned + 1, place)
             h == Append(holder, Nobody)
  <2>1. spawned \in Nat BY DEF TypeOK
  <2>2. /\ DOMAIN boxes = DOMAIN point_boxes \cup {spawned + 1}
        /\ DOMAIN boxes \subseteq 1 .. spawned + 1
        /\ boxes \in [DOMAIN boxes -> Place]
        /\ h \in [1 .. spawned + 1 -> Slot \cup {Nobody}]
        /\ \A b \in 1 .. spawned : h[b] = holder[b]
        /\ h[spawned + 1] = Nobody
    BY SpawnType
  <2>3. MovePlayers(boxes, h) /\ spawned' = spawned + 1
    BY <1>4 DEF TickWithSpawn
  <2>4. last_point_box_spawn' \in Nat
    BY <1>1, <1>2, <1>4 DEF TickWithSpawn
  <2> HIDE DEF boxes, h
  <2>5. spawned + 1 .. spawned + 1 = {spawned + 1} BY <2>1
  <2>6. TickOver(boxes, h, spawned + 1)
    BY <2>1, <2>2, <2>3, <2>5 DEF TickOver
  <2>. QED BY <2>4, <2>6
<1>. QED BY <1>1, <1>2, <1>3, <1>4

(***************************************************************************)
(* Each action keeps the types.                                            *)
(***************************************************************************)

LEMMA TypeTick ==
  ASSUME TypeOK, Tick
  PROVE  TypeOK'
<1>1. PICK boxes, h, n : TickOver(boxes, h, n)
  BY TickMoves
<1>2. /\ team' \in BothTeams
      /\ \A t \in Teams : Len(team'[t]) = Len(team[t])
      /\ DOMAIN point_boxes' \subseteq 1 .. n
      /\ point_boxes' \in [DOMAIN point_boxes' -> Place]
      /\ holder' \in [1 .. n -> Slot \cup {Nobody}]
  BY <1>1, MovePlayersType DEF TickOver
<1>3. Len(team'["red"]) = Len(team["red"])
  BY <1>2 DEF Teams
<1>4. clock' \in Nat /\ last_point_box_spawn' \in Nat
  BY TickMoves
<1>5. spawned' = n /\ n \in Nat
  BY <1>1 DEF TickOver
<1>. QED BY <1>2, <1>3, <1>4, <1>5 DEF Tick, TypeOK, BothTeams, Locations

LEMMA TypeJoinTeam ==
  ASSUME TypeOK, NEW id \in PlayerId, NEW v \in VehicleType,
         NEW place \in Place, NEW t \in Teams, JoinTeam(id, v, place, t)
  PROVE  TypeOK'
<1>1. NewPlayer(id, v, place) \in Player
  BY NewPlayerType
<1>2. team' \in BothTeams
  BY <1>1, AddPlayerType DEF JoinTeam, TypeOK, BothTeams
<1>3. Len(team'["red"]) \in Nat /\ Len(team'["red"]) >= Len(team["red"])
  <2>1. team["red"] \in Seq(Player) BY DEF TypeOK, Teams
  <2>2. team'["red"] = IF "red" = t
                       THEN Append(team["red"], NewPlayer(id, v, place))
                       ELSE team["red"]
    BY <1>1, AddPlayerType DEF JoinTeam, TypeOK, BothTeams, Teams
  <2>. QED BY <1>1, <2>1, <2>2, AppendProperties, LenProperties
<1>4. Len(team["red"]) \in Nat
  BY LenProperties DEF TypeOK, Teams
<1>5. row_end \in 0 .. Len(team'["red"])
  BY <1>3, <1>4 DEF TypeOK
<1>6. disturbed' \subseteq Loops
  <2>1. {l \in {pc} : Iterating(t)} \subseteq Loops
    BY DEF Iterating, Loops
  <2>2. disturbed' = disturbed \cup {l \in {pc} : Iterating(t)}
    BY DEF JoinTeam
  <2>. QED BY <2>1, <2>2 DEF TypeOK
<1>. QED BY <1>2, <1>5, <1>6 DEF JoinTeam, TypeOK, BothTeams

LEMMA TypeSetPlayerMovement ==
  ASSUME TypeOK, NEW id \in PlayerId, NEW input \in Input,
         SetPlayerMovement(id, input)
  PROVE  TypeOK'
<1>1. team' \in BothTeams /\ Len(team'["red"]) = Len(team["red"])
  BY SetPlayerInputType DEF SetPlayerMovement, TypeOK, BothTeams, Teams
<1>. QED BY <1>1 DEF SetPlayerMovement, TypeOK, BothTeams

LEMMA TypeSendStatistics ==
  ASSUME TypeOK, SendStatisticsToDatabase
  PROVE  TypeOK'
<1> USE DEF Locations, Loops
<1>1. CASE WriteGameRow
  <2>1. database' \in Seq(DatabaseRow)
    BY <1>1, GameRowType, AppendProperties DEF WriteGameRow, TypeOK
  <2>. QED BY <1>1, <2>1 DEF WriteGameRow, TypeOK
<1>2. CASE WriteRedRow
  <2>1. PICK r \in Yields(PlayerRow(team["red"][row + 1])) :
          database' = Append(database, r)
    BY <1>2 DEF WriteRedRow
  <2>2. r \in DatabaseRow
    <3>1. PlayerRow(team["red"][row + 1]) \in DatabaseRow
      BY <1>2, RowType DEF WriteRedRow
    <3>2. Garbage \in DatabaseRow BY DEF DatabaseRow
    <3>. QED BY <3>1, <3>2, YieldsType
  <2>3. database' \in Seq(DatabaseRow)
    BY <2>1, <2>2, AppendProperties DEF TypeOK
  <2>4. row' \in 0 .. row_end'
    BY <1>2 DEF WriteRedRow, TypeOK
  <2>. QED BY <1>2, <2>3, <2>4 DEF WriteRedRow, TypeOK
<1>3. CASE RedRowsWritten
  BY <1>3 DEF RedRowsWritten, TypeOK
<1>4. CASE PrepareBlueRows
  BY <1>4 DEF PrepareBlueRows, TypeOK
<1>5. CASE SqlException
  BY <1>5 DEF SqlException, TypeOK
<1>6. CASE Connect
  BY <1>6 DEF Connect, TypeOK
<1>7. CASE ReadRedScore
  <2>1. PICK n \in Yields(Score(team["red"])) :
          score' = [score EXCEPT !["red"] = n]
    BY <1>7 DEF ReadRedScore
  <2>2. Score(team["red"]) \in Nat
    BY ScoreType DEF TypeOK, Teams
  <2>3. n \in Nat \cup {Garbage} BY <2>2, YieldsType
  <2>4. score' \in [Teams -> Nat \cup {Garbage}]
    BY <2>1, <2>3 DEF TypeOK
  <2>. QED BY <1>7, <2>4 DEF ReadRedScore, TypeOK
<1>8. CASE ReadBlueScore
  <2>1. PICK n \in Yields(Score(team["blue"])) :
          score' = [score EXCEPT !["blue"] = n]
    BY <1>8 DEF ReadBlueScore
  <2>2. Score(team["blue"]) \in Nat
    BY ScoreType DEF TypeOK, Teams
  <2>3. n \in Nat \cup {Garbage} BY <2>2, YieldsType
  <2>4. score' \in [Teams -> Nat \cup {Garbage}]
    BY <2>1, <2>3 DEF TypeOK
  <2>. QED BY <1>8, <2>4 DEF ReadBlueScore, TypeOK
<1>9. CASE BeginRedRows
  <2>1. Len(team["red"]) \in Nat
    BY LenProperties DEF TypeOK, Teams
  <2>. QED BY <1>9, <2>1 DEF BeginRedRows, TypeOK
<1>10. CASE Crash
  BY <1>10 DEF Crash, TypeOK
<1>. QED BY <1>1, <1>2, <1>3, <1>4, <1>5, <1>6, <1>7, <1>8, <1>9, <1>10
         DEF SendStatisticsToDatabase

LEMMA TypeNext == TypeOK /\ [Next]_vars => TypeOK'
<1> SUFFICES ASSUME TypeOK, [Next]_vars PROVE TypeOK'
  OBVIOUS
<1>1. CASE Tick
  BY <1>1, TypeTick
<1>2. CASE Repeat
  BY <1>2 DEF Repeat, TypeOK, Locations
<1>3. CASE LeaveTerminated
  BY <1>3 DEF LeaveTerminated, TypeOK, Locations
<1>4. CASE LeaveFinished
  BY <1>4 DEF LeaveFinished, TypeOK, Locations
<1>5. CASE SendStatisticsToDatabase
  BY <1>5, TypeSendStatistics
<1>6. CASE Finish
  BY <1>6 DEF Finish, TypeOK, Locations
<1>7. CASE StartGame
  BY <1>7 DEF StartGame, TypeOK, Locations
<1>8. CASE \E id \in PlayerId, v \in VehicleType, place \in Place, t \in Teams :
             JoinTeam(id, v, place, t)
  BY <1>8, TypeJoinTeam
<1>9. CASE \E id \in PlayerId, input \in Input : SetPlayerMovement(id, input)
  BY <1>9, TypeSetPlayerMovement
<1>10. CASE StopGame
  BY <1>10 DEF StopGame, TypeOK
<1>11. CASE UNCHANGED vars
  BY <1>11 DEF TypeOK
<1>. QED BY <1>1, <1>2, <1>3, <1>4, <1>5, <1>6, <1>7, <1>8, <1>9, <1>10,
            <1>11 DEF Next, GameThread, Calls, Crashed

\* Every reachable state is well typed: in particular the loop over the red
\* players' rows never reads past the team it started with.
THEOREM TypeCorrect == Spec => []TypeOK
BY TypeInit, TypeNext, PTL DEF Spec

-----------------------------------------------------------------------------
(* The supply of boxes.                                                    *)

LEMMA SpawnRateNext ==
  ASSUME TypeOK, SpawnRate, [Next]_vars
  PROVE  SpawnRate'
<1> DEFINE period == point_box_spawn_period + 1
<1>1. /\ spawned \in Nat /\ clock \in Nat /\ last_point_box_spawn \in Nat
      /\ point_box_spawn_period \in Nat
  BY TimeAssumption DEF TypeOK
<1>2. spawned * period \in Nat /\ (spawned + 1) * period = spawned * period + period
  BY <1>1
<1>3. CASE Tick
  <2>1. PICK d \in Delay :
          /\ clock' = clock + d
          /\ \/ TickWithoutSpawn(clock + d)
             \/ \E place \in Place : TickWithSpawn(clock + d, place)
    BY <1>3 DEF Tick
  <2>2. d \in Nat BY TimeAssumption
  <2>3. CASE TickWithoutSpawn(clock + d)
    BY <1>1, <2>1, <2>2, <2>3 DEF TickWithoutSpawn, SpawnRate
  <2>4. CASE \E place \in Place : TickWithSpawn(clock + d, place)
    <3>0. PICK place \in Place : TickWithSpawn(clock + d, place)
      BY <2>4
    <3>1. /\ clock + d - last_point_box_spawn > point_box_spawn_period
          /\ last_point_box_spawn' = clock + d
          /\ spawned' = spawned + 1
      BY <1>1, <2>2, <3>0 DEF TickWithSpawn
    <3>2. spawned * period <= last_point_box_spawn
      BY DEF SpawnRate
    <3> HIDE DEF period
    <3>3. spawned * period + period <= clock + d
      BY <1>1, <1>2, <2>2, <3>1, <3>2 DEF period
    <3>4. spawned' * period <= last_point_box_spawn'
      BY <1>2, <3>1, <3>3
    <3>5. last_point_box_spawn' <= clock' BY <1>1, <2>1, <2>2, <3>1
    <3>. QED BY <3>4, <3>5 DEF SpawnRate, period
  <2>. QED BY <2>1, <2>3, <2>4
<1>4. CASE ~Tick
  <2>1. UNCHANGED <<spawned, clock, last_point_box_spawn>>
    BY <1>4 DEF Next, GameThread, SendStatisticsToDatabase, Calls, Repeat,
       LeaveTerminated, LeaveFinished, Connect, ReadRedScore, ReadBlueScore,
       WriteGameRow, BeginRedRows, WriteRedRow, RedRowsWritten,
       PrepareBlueRows, SqlException, Crash, Crashed, Finish, StartGame,
       JoinTeam, SetPlayerMovement, StopGame
  <2>. QED BY <2>1 DEF SpawnRate
<1>. QED BY <1>3, <1>4

\* However the ticks are delayed, no more than one box is spawned per
\* point_box_spawn_period + 1 units of time.
THEOREM SpawnRateHolds == Spec => []SpawnRate
<1>1. Init => SpawnRate
  BY TimeAssumption DEF Init, SpawnRate
<1>2. TypeOK /\ SpawnRate /\ [Next]_vars => SpawnRate'
  BY SpawnRateNext
<1>. QED BY <1>1, <1>2, TypeCorrect, PTL DEF Spec

-----------------------------------------------------------------------------
(* The accounts of boxes and points.                                       *)

\* Held(t, i): the boxes a player has collected.
Held(t, i) == {b \in 1 .. spawned : holder[b] = <<t, i>>}

LEMMA AccountingTick ==
  ASSUME TypeOK, BoxAccounting, Tick
  PROVE  BoxAccounting'
<1>1. PICK boxes, h, n : TickOver(boxes, h, n)
  BY TickMoves
<1>2. /\ n \in Nat /\ spawned <= n /\ spawned' = n /\ spawned \in Nat
      /\ DOMAIN boxes = DOMAIN point_boxes \cup (spawned + 1 .. n)
      /\ DOMAIN boxes \subseteq 1 .. n
      /\ \A b \in 1 .. spawned : h[b] = holder[b]
      /\ \A b \in spawned + 1 .. n : h[b] = Nobody
      /\ DOMAIN h = 1 .. n
      /\ MovePlayers(boxes, h)
  BY <1>1 DEF TickOver, TypeOK
<1>3. team \in BothTeams /\ IsFiniteSet(DOMAIN boxes)
  <2>1. team \in BothTeams BY DEF TypeOK, BothTeams
  <2>2. IsFiniteSet(1 .. n) BY <1>2, FS_Interval
  <2>. QED BY <1>2, <2>1, <2>2, FS_Subset
<1>4. \A t \in Teams :
        /\ Len(team'[t]) = Len(team[t])
        /\ DOMAIN team'[t] = DOMAIN team[t]
        /\ \A i \in DOMAIN team[t] :
             team'[t][i] = MovedPlayer(team, boxes, t, i)
  <2>1. team' = CalculateMovement(team, boxes) BY <1>2 DEF MovePlayers
  <2>2. team' \in BothTeams BY <1>3, <2>1, CalculateMovementType
  <2>. QED BY <1>3, <2>1, <2>2, CalculateMovementType, TeamShape
<1>5. \A b \in 1 .. n : b \in DOMAIN boxes <=> h[b] = Nobody
  <2>1. \A b \in 1 .. spawned : b \in DOMAIN point_boxes <=> holder[b] = Nobody
    BY DEF BoxAccounting
  <2>2. \A b \in 1 .. n : b \in 1 .. spawned \/ b \in spawned + 1 .. n
    BY <1>2
  <2>3. \A b \in 1 .. spawned : b \notin spawned + 1 .. n
    BY <1>2
  <2>. QED BY <1>2, <2>1, <2>2, <2>3
<1>6. \A s \in Slots(team) : /\ s[1] \in Teams /\ s[2] \in DOMAIN team[s[1]]
                            /\ s = <<s[1], s[2]>> /\ s # Nobody
  BY DEF Slots, Nobody, Teams
<1>7. \A t \in Teams : \A i \in DOMAIN team[t] : <<t, i>> \in Slots(team)
  BY DEF Slots
\* A collected box goes to its collector, every other box keeps its holder.
<1>8. ASSUME NEW b \in 1 .. n, NEW t \in Teams, NEW i \in DOMAIN team[t],
             b \in Collected(team, boxes, t, i)
      PROVE  holder'[b] = <<t, i>> /\ b \in DOMAIN boxes /\ h[b] = Nobody
  <2> DEFINE P(s) == b \in Collected(team, boxes, s[1], s[2])
  <2>1. holder'[b] = IF \E s \in Slots(team) : P(s)
                     THEN CHOOSE s \in Slots(team) : P(s) ELSE h[b]
    BY <1>2 DEF MovePlayers
  <2>2. <<t, i>> \in Slots(team) /\ P(<<t, i>>) BY <1>7, <1>8
  <2>3. ASSUME NEW s \in Slots(team), P(s) PROVE s = <<t, i>>
    BY <1>3, <1>6, <1>8, <2>3, CollectorUnique
  <2> HIDE DEF P
  <2>4. holder'[b] = <<t, i>> BY <2>1, <2>2, <2>3
  <2>5. b \in DOMAIN boxes BY <1>8 DEF Collected
  <2>. QED BY <1>5, <2>4, <2>5
<1>9. ASSUME NEW b \in 1 .. n,
             \A t \in Teams : \A i \in DOMAIN team[t] :
               b \notin Collected(team, boxes, t, i)
      PROVE  holder'[b] = h[b]
  <2>1. ~ \E s \in Slots(team) : b \in Collected(team, boxes, s[1], s[2])
    BY <1>6, <1>9
  <2>. QED BY <1>2, <2>1 DEF MovePlayers
<1>10. ASSUME NEW b \in 1 .. spawned'
       PROVE  /\ b \in DOMAIN point_boxes' <=> holder'[b] = Nobody
              /\ holder'[b] # Nobody =>
                   holder'[b][2] \in DOMAIN team'[holder'[b][1]]
  <2>0. b \in 1 .. n BY <1>2
  <2>1. point_boxes' = BoxesLeft(team, boxes) BY <1>2 DEF MovePlayers
  <2>2. CASE \E t \in Teams : \E i \in DOMAIN team[t] :
               b \in Collected(team, boxes, t, i)
    <3>0. PICK t \in Teams : \E i \in DOMAIN team[t] :
            b \in Collected(team, boxes, t, i)
      BY <2>2
    <3>1. PICK i \in DOMAIN team[t] : b \in Collected(team, boxes, t, i)
      BY <3>0
    <3>2. holder'[b] = <<t, i>> /\ b \in DOMAIN boxes
      BY <1>8, <2>0, <3>1
    <3>3. b \notin DOMAIN point_boxes'
      BY <2>1, <3>1, <3>2, BoxesLeftType
    <3>4. <<t, i>> # Nobody BY <1>6, <1>7
    <3>. QED BY <1>4, <3>2, <3>3, <3>4
  <2>3. CASE \A t \in Teams : \A i \in DOMAIN team[t] :
               b \notin Collected(team, boxes, t, i)
    <3>1. holder'[b] = h[b] BY <1>9, <2>0, <2>3
    <3>2. b \in DOMAIN point_boxes' <=> b \in DOMAIN boxes
      BY <2>1, <2>3, BoxesLeftType
    <3>3. h[b] # Nobody => h[b][2] \in DOMAIN team[h[b][1]]
      <4>1. CASE b \in 1 .. spawned
        BY <1>2, <4>1 DEF BoxAccounting
      <4>2. CASE b \in spawned + 1 .. n
        BY <1>2, <4>2
      <4>. QED BY <1>2, <2>0, <4>1, <4>2
    <3>4. h[b] # Nobody => h[b][1] \in Teams
      <4>1. h[b] \in Slot \cup {Nobody} BY <1>1, <2>0 DEF TickOver
      <4>. QED BY <4>1 DEF Slot
    <3>. QED BY <1>4, <1>5, <2>0, <3>1, <3>2, <3>3, <3>4
  <2>. QED BY <2>2, <2>3
<1>11. ASSUME NEW t \in Teams, NEW i \in DOMAIN team'[t]
       PROVE  team'[t][i].points = POINT_BOX_VALUE * Cardinality(Held(t, i)')
  <2> DEFINE C == Collected(team, boxes, t, i)
  <2>1. i \in DOMAIN team[t] BY <1>4
  <2>2. team[t][i].points = POINT_BOX_VALUE * Cardinality(Held(t, i))
    BY <2>1 DEF BoxAccounting, Held
  <2>3. C \subseteq DOMAIN boxes BY DEF Collected
  <2>4. Held(t, i)' = Held(t, i) \cup C
    <3>1. ASSUME NEW b \in 1 .. n
          PROVE  holder'[b] = <<t, i>> <=> b \in Held(t, i) \/ b \in C
      <4>1. b \in Held(t, i) <=> h[b] = <<t, i>>
        <5>1. <<t, i>> # Nobody BY <1>6, <1>7, <2>1
        <5>2. CASE b \in 1 .. spawned BY <1>2, <5>2 DEF Held
        <5>3. CASE b \in spawned + 1 .. n
          <6>1. b \notin 1 .. spawned BY <1>2, <5>3
          <6>. QED BY <1>2, <5>1, <5>3, <6>1 DEF Held
        <5>. QED BY <1>2, <5>2, <5>3
      <4>2. CASE \E u \in Teams : \E j \in DOMAIN team[u] :
                   b \in Collected(team, boxes, u, j)
        <5>0. PICK u \in Teams : \E j \in DOMAIN team[u] :
                b \in Collected(team, boxes, u, j)
          BY <4>2
        <5>1. PICK j \in DOMAIN team[u] : b \in Collected(team, boxes, u, j)
          BY <5>0
        <5>2. holder'[b] = <<u, j>> /\ h[b] = Nobody BY <1>8, <5>1
        <5>3. b \in C => <<u, j>> = <<t, i>>
          BY <1>3, <2>1, <5>1, CollectorUnique
        <5>4. <<u, j>> = <<t, i>> => b \in C BY <5>1
        <5>5. <<t, i>> # Nobody BY <1>6, <1>7, <2>1
        <5>. QED BY <4>1, <5>2, <5>3, <5>4, <5>5
      <4>3. CASE \A u \in Teams : \A j \in DOMAIN team[u] :
                   b \notin Collected(team, boxes, u, j)
        <5>1. holder'[b] = h[b] BY <1>9, <4>3
        <5>2. b \notin C BY <2>1, <4>3
        <5>. QED BY <4>1, <5>1, <5>2
      <4>. QED BY <4>2, <4>3
    <3>2. C \subseteq 1 .. n /\ Held(t, i) \subseteq 1 .. n
      BY <1>2, <2>3 DEF Held
    <3>3. Held(t, i)' = {b \in 1 .. n : holder'[b] = <<t, i>>}
      BY <1>2 DEF Held
    <3>. QED BY <3>1, <3>2, <3>3
  <2>5. Held(t, i) \cap C = {}
    <3>1. ASSUME NEW b \in Held(t, i), b \in C PROVE FALSE
      <4>1. b \in 1 .. spawned /\ holder[b] = <<t, i>> BY DEF Held
      <4>2. b \in 1 .. n /\ h[b] = Nobody
        BY <1>2, <1>8, <2>1, <2>3, <3>1
      <4>3. <<t, i>> # Nobody BY <1>6, <1>7, <2>1
      <4>. QED BY <1>2, <4>1, <4>2, <4>3
    <3>. QED BY <3>1
  <2>6. IsFiniteSet(Held(t, i)) /\ IsFiniteSet(C)
    <3>1. Held(t, i) \subseteq 1 .. spawned BY DEF Held
    <3>2. IsFiniteSet(1 .. spawned) BY <1>2, FS_Interval
    <3>. QED BY <1>3, <2>3, <3>1, <3>2, FS_Subset
  <2>7. /\ Cardinality(Held(t, i)) \in Nat /\ Cardinality(C) \in Nat
        /\ Cardinality(Held(t, i)') = Cardinality(Held(t, i)) + Cardinality(C)
    <3>1. Cardinality(Held(t, i)) \in Nat /\ Cardinality(C) \in Nat
      BY <2>6, FS_CardinalityType
    <3>2. Cardinality(Held(t, i) \cup C)
            = Cardinality(Held(t, i)) + Cardinality(C)
                - Cardinality(Held(t, i) \cap C)
      BY <2>6, FS_Union
    <3>3. Cardinality(Held(t, i) \cap C) = 0
      BY <2>5, FS_EmptySet
    <3>. QED BY <2>4, <3>1, <3>2, <3>3
  <2>8. team'[t][i].points = team[t][i].points + POINT_BOX_VALUE * Cardinality(C)
    BY <1>3, <1>4, <2>1, MovedPlayerType
  <2> HIDE DEF C
  <2>. QED BY <2>2, <2>7, <2>8, ScoreAssumption
<1>. QED BY <1>10, <1>11 DEF BoxAccounting, Held

LEMMA AccountingJoinTeam ==
  ASSUME TypeOK, BoxAccounting,
         NEW id \in PlayerId, NEW v \in VehicleType, NEW place \in Place,
         NEW t \in Teams, JoinTeam(id, v, place, t)
  PROVE  BoxAccounting'
<1> DEFINE player == NewPlayer(id, v, place)
           n == Len(team[t])
<1>1. UNCHANGED <<point_boxes, spawned, holder>>
  BY DEF JoinTeam
<1>2. team \in BothTeams /\ player \in Player
  BY NewPlayerType DEF TypeOK, BothTeams
<1>3. \A u \in Teams : team'[u] = IF u = t THEN Append(team[u], player)
                                           ELSE team[u]
  BY <1>2, AddPlayerType DEF JoinTeam
<1>4. /\ n \in Nat /\ DOMAIN team[t] = 1 .. n
      /\ DOMAIN team'[t] = 1 .. n + 1
      /\ \A i \in 1 .. n : team'[t][i] = team[t][i]
      /\ team'[t][n + 1] = player
  <2>1. team[t] \in Seq(Player) BY <1>2 DEF BothTeams
  <2>2. team'[t] = Append(team[t], player) BY <1>3
  <2>. QED BY <1>2, <2>1, <2>2, AppendProperties, LenProperties
<1>5. \A u \in Teams : DOMAIN team[u] \subseteq DOMAIN team'[u]
  BY <1>3, <1>4
<1>6. ASSUME NEW b \in 1 .. spawned'
      PROVE  /\ b \in DOMAIN point_boxes' <=> holder'[b] = Nobody
             /\ holder'[b] # Nobody =>
                  holder'[b][2] \in DOMAIN team'[holder'[b][1]]
  <2>1. holder[b] # Nobody => holder[b][1] \in Teams
    <3>1. holder[b] \in Slot \cup {Nobody} BY <1>1 DEF TypeOK
    <3>. QED BY <3>1 DEF Slot
  <2>. QED BY <1>1, <1>5, <2>1 DEF BoxAccounting
<1>7. ASSUME NEW u \in Teams, NEW i \in DOMAIN team'[u]
      PROVE  team'[u][i].points
               = POINT_BOX_VALUE
                   * Cardinality({b \in 1 .. spawned' : holder'[b] = <<u, i>>})
  <2>1. CASE i \in DOMAIN team[u]
    <3>1. team'[u][i] = team[u][i] BY <1>3, <1>4, <2>1
    <3>2. team[u][i].points
            = POINT_BOX_VALUE
                * Cardinality({b \in 1 .. spawned : holder[b] = <<u, i>>})
      BY <2>1 DEF BoxAccounting
    <3>. QED BY <1>1, <3>1, <3>2
  <2>2. CASE i \notin DOMAIN team[u]
    <3>1. u = t /\ i = n + 1 BY <1>3, <1>4, <2>2
    <3>2. team'[u][i].points = 0 BY <1>4, <3>1 DEF NewPlayer
    <3>3. {b \in 1 .. spawned' : holder'[b] = <<u, i>>} = {}
      <4>1. ASSUME NEW b \in 1 .. spawned, holder[b] = <<u, i>> PROVE FALSE
        <5>1. holder[b] # Nobody BY <4>1 DEF Nobody, Teams
        <5>2. holder[b][2] \in DOMAIN team[holder[b][1]]
          BY <5>1 DEF BoxAccounting
        <5>. QED BY <2>2, <4>1, <5>2
      <4>. QED BY <1>1, <4>1
    <3>4. Cardinality({b \in 1 .. spawned' : holder'[b] = <<u, i>>}) = 0
      BY <3>3, FS_EmptySet
    <3>. QED BY <3>2, <3>4, ScoreAssumption
  <2>. QED BY <2>1, <2>2
<1>. QED BY <1>6, <1>7 DEF BoxAccounting

LEMMA AccountingSetPlayerMovement ==
  ASSUME TypeOK, BoxAccounting, NEW id \in PlayerId, NEW input \in Input,
         SetPlayerMovement(id, input)
  PROVE  BoxAccounting'
<1>1. UNCHANGED <<point_boxes, spawned, holder>>
  BY DEF SetPlayerMovement
<1>2. team \in BothTeams BY DEF TypeOK, BothTeams
<1>3. team' \in BothTeams BY <1>2, SetPlayerInputType DEF SetPlayerMovement
<1>4. \A t \in Teams : /\ DOMAIN team'[t] = DOMAIN team[t]
                       /\ \A i \in DOMAIN team[t] :
                            team'[t][i].points = team[t][i].points
  BY <1>2, <1>3, SetPlayerInputType, TeamShape DEF SetPlayerMovement
<1>5. \A b \in 1 .. spawned : holder[b] # Nobody => holder[b][1] \in Teams
  <2>1. \A b \in 1 .. spawned : holder[b] \in Slot \cup {Nobody} BY DEF TypeOK
  <2>. QED BY <2>1 DEF Slot
<1>6. ASSUME NEW b \in 1 .. spawned'
      PROVE  /\ b \in DOMAIN point_boxes' <=> holder'[b] = Nobody
             /\ holder'[b] # Nobody =>
                  holder'[b][2] \in DOMAIN team'[holder'[b][1]]
  BY <1>1, <1>4, <1>5 DEF BoxAccounting
<1>7. ASSUME NEW t \in Teams, NEW i \in DOMAIN team'[t]
      PROVE  team'[t][i].points
               = POINT_BOX_VALUE
                   * Cardinality({b \in 1 .. spawned' : holder'[b] = <<t, i>>})
  <2>1. i \in DOMAIN team[t] /\ team'[t][i].points = team[t][i].points
    BY <1>4
  <2>2. team[t][i].points
          = POINT_BOX_VALUE
              * Cardinality({b \in 1 .. spawned : holder[b] = <<t, i>>})
    BY <2>1 DEF BoxAccounting
  <2>. QED BY <1>1, <2>1, <2>2
<1>. QED BY <1>6, <1>7 DEF BoxAccounting

\* No other action touches the teams, the boxes or their holders.
LEMMA BoxesUntouched ==
  ASSUME [Next]_vars, ~Tick,
         ~ \E id \in PlayerId, v \in VehicleType, place \in Place, t \in Teams :
             JoinTeam(id, v, place, t),
         ~ \E id \in PlayerId, input \in Input : SetPlayerMovement(id, input)
  PROVE  UNCHANGED world
BY DEF Next, GameThread, SendStatisticsToDatabase, Calls, Repeat,
   LeaveTerminated, LeaveFinished, Connect, ReadRedScore, ReadBlueScore,
   WriteGameRow, BeginRedRows, WriteRedRow, RedRowsWritten, PrepareBlueRows,
   SqlException, Crash, Crashed, Finish, StartGame, StopGame

LEMMA AccountingNext == TypeOK /\ BoxAccounting /\ [Next]_vars => BoxAccounting'
<1> SUFFICES ASSUME TypeOK, BoxAccounting, [Next]_vars PROVE BoxAccounting'
  OBVIOUS
<1>1. CASE Tick
  BY <1>1, AccountingTick
<1>2. CASE \E id \in PlayerId, v \in VehicleType, place \in Place, t \in Teams :
             JoinTeam(id, v, place, t)
  BY <1>2, AccountingJoinTeam
<1>3. CASE \E id \in PlayerId, input \in Input : SetPlayerMovement(id, input)
  BY <1>3, AccountingSetPlayerMovement
<1>4. CASE UNCHANGED world
  BY <1>4 DEF BoxAccounting
<1>. QED BY <1>1, <1>2, <1>3, <1>4, BoxesUntouched

\* No box is lost, none is counted for two players, and no player has a
\* point that does not come from a box.
THEOREM BoxAccountingHolds == Spec => []BoxAccounting
<1>1. Init => BoxAccounting
  BY EmptySeq DEF Init, BoxAccounting, Teams
<1>. QED BY <1>1, AccountingNext, TypeCorrect, PTL DEF Spec

-----------------------------------------------------------------------------
(* Boxes in reach are collected.                                           *)

LEMMA NothingLeftByTick ==
  ASSUME TypeOK, Tick,
         NEW b \in DOMAIN point_boxes', NEW t \in Teams, NEW i \in DOMAIN team[t]
  PROVE  <<point_boxes'[b], team[t][i].position, team'[t][i].position>> \notin Near
<1>1. PICK boxes, h, n : TickOver(boxes, h, n)
  BY TickMoves
<1>2. /\ team' = CalculateMovement(team, boxes)
      /\ point_boxes' = BoxesLeft(team, boxes)
      /\ DOMAIN boxes \subseteq 1 .. n /\ n \in Nat
  BY <1>1 DEF TickOver, MovePlayers
<1>3. team \in BothTeams BY DEF TypeOK, BothTeams
<1>4. IsFiniteSet(DOMAIN boxes)
  <2>1. IsFiniteSet(1 .. n) BY <1>2, FS_Interval
  <2>. QED BY <1>2, <2>1, FS_Subset
<1>5. team'[t][i].position = NewPosition(team[t][i])
  BY <1>2, <1>3, <1>4, CalculateMovementType, MovedPlayerType
<1>6. b \in DOMAIN boxes /\ point_boxes'[b] = boxes[b]
  BY <1>2, BoxesLeftType
<1>7. \A u \in Teams : \A j \in DOMAIN team[u] :
        ~Collects(team, u, j, boxes[b])
  BY <1>2, <1>6, BoxesLeftType DEF Collected
<1>8. ~Reaches(team[t][i], boxes[b])
  BY <1>3, <1>7, CollectorExists
<1>. QED BY <1>5, <1>6, <1>8 DEF Reaches

\* Whatever the order of the players and of the boxes, a tick leaves no box
\* in reach of a player's movement.
THEOREM NoBoxLeftBehindHolds == Spec => NoBoxLeftBehind
<1> DEFINE Clean ==
      serialization_seq_num' # serialization_seq_num =>
        \A b \in DOMAIN point_boxes' :
          \A t \in Teams : \A i \in DOMAIN team[t] :
            <<point_boxes'[b], team[t][i].position, team'[t][i].position>>
              \notin Near
<1>1. TypeOK /\ [Next]_vars => [Clean]_vars
  <2> SUFFICES ASSUME TypeOK, [Next]_vars PROVE Clean
    OBVIOUS
  <2>1. CASE Tick
    BY <2>1, NothingLeftByTick
  <2>2. CASE ~Tick
    <3>1. serialization_seq_num' = serialization_seq_num
      BY <2>2, BoxesUntouched DEF JoinTeam, SetPlayerMovement
    <3>. QED BY <3>1
  <2>. QED BY <2>1, <2>2
<1>. QED BY <1>1, TypeCorrect, PTL DEF Spec, NoBoxLeftBehind

-----------------------------------------------------------------------------
(* What a step does to a player.                                           *)

\* A movement leaves the id and the input alone, takes no points away, and
\* leaves a player that stands where it is.
LEMMA TickOfPlayer ==
  ASSUME TypeOK, Tick
  PROVE  /\ team' \in BothTeams
         /\ \A t \in Teams :
              /\ Len(team'[t]) = Len(team[t])
              /\ \A i \in 1 .. Len(team[t]) :
                   /\ team'[t][i].id = team[t][i].id
                   /\ team'[t][i].input = team[t][i].input
                   /\ team[t][i].points <= team'[t][i].points
                   /\ ~team[t][i].input.move =>
                        team'[t][i].distance = team[t][i].distance
<1>1. PICK boxes, h, n : TickOver(boxes, h, n)
  BY TickMoves
<1>2. /\ team' = CalculateMovement(team, boxes)
      /\ DOMAIN boxes \subseteq 1 .. n /\ n \in Nat
  BY <1>1 DEF TickOver, MovePlayers
<1>3. team \in BothTeams BY DEF TypeOK, BothTeams
<1>4. IsFiniteSet(DOMAIN boxes)
  <2>1. IsFiniteSet(1 .. n) BY <1>2, FS_Interval
  <2>. QED BY <1>2, <2>1, FS_Subset
<1>5. /\ team' \in BothTeams
      /\ \A t \in Teams :
           /\ Len(team'[t]) = Len(team[t])
           /\ \A i \in DOMAIN team[t] :
                team'[t][i] = MovedPlayer(team, boxes, t, i)
  BY <1>2, <1>3, <1>4, CalculateMovementType
<1>6. ASSUME NEW t \in Teams, NEW i \in 1 .. Len(team[t])
      PROVE  /\ team'[t][i].id = team[t][i].id
             /\ team'[t][i].input = team[t][i].input
             /\ team[t][i].points <= team'[t][i].points
             /\ ~team[t][i].input.move =>
                  team'[t][i].distance = team[t][i].distance
  <2> DEFINE n0 == Cardinality(Collected(team, boxes, t, i))
             old == team[t][i]
             new == team'[t][i]
  <2>1. i \in DOMAIN team[t] /\ old \in Player
    BY <1>3, TeamShape
  <2>2. /\ new = MovedPlayer(team, boxes, t, i)
        /\ n0 \in Nat
        /\ new.points = old.points + POINT_BOX_VALUE * n0
    BY <1>3, <1>4, <1>5, <2>1, MovedPlayerType
  <2> HIDE DEF n0
  <2>3. old.points <= new.points
    <3>1. POINT_BOX_VALUE * n0 \in Nat BY <2>2, ScoreAssumption
    <3>2. old.points \in Nat BY <2>1 DEF Player
    <3>. QED BY <2>2, <3>1, <3>2
  <2>4. new = [old EXCEPT
                 !.points = @ + POINT_BOX_VALUE * n0,
                 !.distance = @ + IF old.input.move
                                  THEN Speed[old.vehicle] ELSE 0,
                 !.position = NewPosition(old)]
    BY <2>2 DEF MovedPlayer, n0
  <2> HIDE DEF old, new
  <2>5. new.id = old.id /\ new.input = old.input
    BY <2>1, <2>4 DEF Player
  <2>6. ~old.input.move => new.distance = old.distance
    BY <2>1, <2>4 DEF Player
  <2>. QED BY <2>3, <2>5, <2>6 DEF old, new
<1>. QED BY <1>5, <1>6

\* The team u grew by the player at its end, if u is t.
Grown(u, t, player) ==
  /\ Len(team[u]) \in Nat
  /\ Len(team'[u]) = Len(team[u]) + IF u = t THEN 1 ELSE 0
  /\ team'[u] = IF u = t THEN Append(team[u], player) ELSE team[u]
  /\ \A i \in 1 .. Len(team[u]) : team'[u][i] = team[u][i]
  /\ u = t => team'[u][Len(team[u]) + 1] = player

\* A player who joins is behind those who are there.
LEMMA JoinOfPlayer ==
  ASSUME TypeOK, NEW id \in PlayerId, NEW v \in VehicleType,
         NEW place \in Place, NEW t \in Teams, JoinTeam(id, v, place, t)
  PROVE  /\ team' \in BothTeams
         /\ NewPlayer(id, v, place) \in Player
         /\ \A u \in Teams : Grown(u, t, NewPlayer(id, v, place))
<1> DEFINE player == NewPlayer(id, v, place)
<1>1. team \in BothTeams /\ player \in Player
  BY NewPlayerType DEF TypeOK, BothTeams
<1>2. /\ team' \in BothTeams
      /\ \A u \in Teams : team'[u] = IF u = t THEN Append(team[u], player)
                                              ELSE team[u]
  BY <1>1, AddPlayerType DEF JoinTeam
<1> HIDE DEF player
<1>3. \A u \in Teams :
        /\ Len(team[u]) \in Nat
        /\ Len(team'[u]) = Len(team[u]) + IF u = t THEN 1 ELSE 0
        /\ \A i \in 1 .. Len(team[u]) : team'[u][i] = team[u][i]
        /\ u = t => team'[u][Len(team[u]) + 1] = player
  <2> TAKE u \in Teams
  <2>1. team[u] \in Seq(Player) BY <1>1 DEF BothTeams
  <2>2. Len(team[u]) \in Nat BY <2>1, LenProperties
  <2>3. CASE u = t
    <3>1. team'[u] = Append(team[u], player) BY <1>2, <2>3
    <3>2. /\ Len(Append(team[u], player)) = Len(team[u]) + 1
          /\ \A i \in 1 .. Len(team[u]) : Append(team[u], player)[i] = team[u][i]
          /\ Append(team[u], player)[Len(team[u]) + 1] = player
      BY <1>1, <2>1, AppendProperties
    <3>. QED BY <2>2, <2>3, <3>1, <3>2
  <2>4. CASE u # t
    BY <1>2, <2>2, <2>4
  <2>. QED BY <2>3, <2>4
<1>4. \A u \in Teams : Grown(u, t, player)
  BY <1>2, <1>3 DEF Grown
<1>. QED BY <1>1, <1>2, <1>4 DEF player

\* An input changes the input of the first player with the id only.
LEMMA InputOfPlayer ==
  ASSUME TypeOK, NEW id \in PlayerId, NEW input \in Input,
         SetPlayerMovement(id, input)
  PROVE  /\ team' \in BothTeams
         /\ \A t \in Teams :
              /\ Len(team'[t]) = Len(team[t])
              /\ \A i \in 1 .. Len(team[t]) :
                   /\ team'[t][i].id = team[t][i].id
                   /\ team'[t][i].points = team[t][i].points
                   /\ team'[t][i].distance = team[t][i].distance
                   /\ team'[t][i].position = team[t][i].position
                   /\ ~IsFirst(team[t], i) => team'[t][i] = team[t][i]
<1>1. team \in BothTeams BY DEF TypeOK, BothTeams
<1>2. team' = SetPlayerInput(team, id, input) BY DEF SetPlayerMovement
<1>3. team' \in BothTeams /\ \A t \in Teams : Len(team'[t]) = Len(team[t])
  BY <1>1, <1>2, SetPlayerInputType
<1>4. ASSUME NEW t \in Teams, NEW i \in 1 .. Len(team[t])
      PROVE  /\ team'[t][i].id = team[t][i].id
             /\ team'[t][i].points = team[t][i].points
             /\ team'[t][i].distance = team[t][i].distance
             /\ team'[t][i].position = team[t][i].position
             /\ ~IsFirst(team[t], i) => team'[t][i] = team[t][i]
  <2>1. i \in DOMAIN team[t] /\ team[t][i] \in Player
    BY <1>1, TeamShape
  <2>2. team'[t][i] = IF team[t][i].id = id /\ IsFirst(team[t], i)
                      THEN [team[t][i] EXCEPT !.input = input]
                      ELSE team[t][i]
    BY <1>2, <2>1 DEF SetPlayerInput
  <2>3. CASE team[t][i].id = id /\ IsFirst(team[t], i)
    BY <2>1, <2>2, <2>3 DEF Player
  <2>4. CASE ~(team[t][i].id = id /\ IsFirst(team[t], i))
    BY <2>2, <2>4
  <2>. QED BY <2>3, <2>4
<1>. QED BY <1>3, <1>4

\* Who is the first of an id depends on the ids alone.
LEMMA FirstById ==
  ASSUME NEW p, NEW q, NEW n \in Nat, NEW i \in 1 .. n,
         \A k \in 1 .. n : p[k].id = q[k].id
  PROVE  IsFirst(p, i) <=> IsFirst(q, i)
<1>1. 1 .. i - 1 \subseteq 1 .. n OBVIOUS
<1>. QED BY <1>1 DEF IsFirst

-----------------------------------------------------------------------------
(* A player announced twice.                                               *)

LEMMA DuplicateNext == TypeOK /\ DuplicateStands /\ [Next]_vars => DuplicateStands'
<1> SUFFICES ASSUME TypeOK, DuplicateStands, [Next]_vars,
                    NEW t \in Teams, NEW i \in DOMAIN team'[t],
                    ~IsFirst(team'[t], i)
             PROVE  ~team'[t][i].input.move /\ team'[t][i].distance = 0
  BY DEF DuplicateStands
<1>1. team \in BothTeams BY DEF TypeOK, BothTeams
<1>2. /\ Len(team[t]) \in Nat
      /\ DOMAIN team[t] = 1 .. Len(team[t])
  BY <1>1, TeamShape
<1>3. CASE Tick
  <2>1. /\ DOMAIN team'[t] = DOMAIN team[t]
        /\ \A k \in 1 .. Len(team[t]) : team'[t][k].id = team[t][k].id
    BY <1>2, <1>3, TickOfPlayer, TeamShape
  <2>2. ~IsFirst(team[t], i)
    BY <1>2, <2>1, FirstById
  <2>3. ~team[t][i].input.move /\ team[t][i].distance = 0
    BY <2>1, <2>2 DEF DuplicateStands
  <2>. QED BY <1>2, <1>3, <2>1, <2>3, TickOfPlayer
<1>4. ASSUME NEW id \in PlayerId, NEW v \in VehicleType, NEW place \in Place,
             NEW u \in Teams, JoinTeam(id, v, place, u)
      PROVE  ~team'[t][i].input.move /\ team'[t][i].distance = 0
  <2>1. /\ DOMAIN team'[t] = 1 .. Len(team'[t])
        /\ Len(team'[t]) = Len(team[t]) + IF t = u THEN 1 ELSE 0
        /\ \A k \in 1 .. Len(team[t]) : team'[t][k] = team[t][k]
        /\ t = u => team'[t][Len(team[t]) + 1] = NewPlayer(id, v, place)
    <3>1. team' \in BothTeams BY <1>4, JoinOfPlayer
    <3>2. DOMAIN team'[t] = 1 .. Len(team'[t]) BY <3>1, TeamShape
    <3>3. Grown(t, u, NewPlayer(id, v, place)) BY <1>4, JoinOfPlayer
    <3>. QED BY <3>2, <3>3 DEF Grown
  <2>2. CASE i \in 1 .. Len(team[t])
    <3>0. \A k \in 1 .. Len(team[t]) : team'[t][k].id = team[t][k].id
      BY <2>1
    <3>1. ~IsFirst(team[t], i)
      BY <1>2, <2>2, <3>0, FirstById
    <3>2. team'[t][i] = team[t][i] BY <2>1, <2>2
    <3>. QED BY <1>2, <2>2, <3>1, <3>2 DEF DuplicateStands
  <2>3. CASE i \notin 1 .. Len(team[t])
    <3>0. i \in 1 .. Len(team[t]) + IF t = u THEN 1 ELSE 0
      BY <2>1
    <3>1. t = u /\ i = Len(team[t]) + 1
      <4>1. CASE t = u BY <1>2, <2>3, <3>0, <4>1
      <4>2. CASE t # u BY <1>2, <2>3, <3>0, <4>2
      <4>. QED BY <4>1, <4>2
    <3>2. team'[t][i] = NewPlayer(id, v, place) BY <2>1, <3>1
    <3>. QED BY <3>2 DEF NewPlayer
  <2>. QED BY <2>2, <2>3
<1>5. ASSUME NEW id \in PlayerId, NEW input \in Input,
             SetPlayerMovement(id, input)
      PROVE  ~team'[t][i].input.move /\ team'[t][i].distance = 0
  <2>1. /\ DOMAIN team'[t] = DOMAIN team[t]
        /\ \A k \in 1 .. Len(team[t]) : team'[t][k].id = team[t][k].id
    BY <1>2, <1>5, InputOfPlayer, TeamShape
  <2>2. ~IsFirst(team[t], i)
    BY <1>2, <2>1, FirstById
  <2>3. team'[t][i] = team[t][i]
    BY <1>2, <1>5, <2>1, <2>2, InputOfPlayer
  <2>. QED BY <2>1, <2>2, <2>3 DEF DuplicateStands
<1>6. CASE UNCHANGED world
  BY <1>6 DEF DuplicateStands
<1>. QED BY <1>3, <1>4, <1>5, <1>6, BoxesUntouched

\* However inputs, joins and ticks interleave, the second player of an id is
\* never given an input (Team::SetPlayerInput returns at the first) and so
\* never covers any distance.
THEOREM DuplicateStandsHolds == Spec => []DuplicateStands
<1>1. Init => DuplicateStands
  BY EmptySeq DEF Init, DuplicateStands, Teams
<1>. QED BY <1>1, DuplicateNext, TypeCorrect, PTL DEF Spec

-----------------------------------------------------------------------------
(* Points and boxes.                                                       *)

\* The boxes that the first n players of team t hold, and the whole team.
HeldUpTo(t, n) == {b \in 1 .. spawned : \E i \in 1 .. n : holder[b] = <<t, i>>}
HeldBy(t) == {b \in 1 .. spawned : holder[b] # Nobody /\ holder[b][1] = t}

\* Two disjoint sets of boxes.
LEMMA SizesAdd ==
  ASSUME NEW n \in Nat, NEW A, NEW B, A \subseteq 1 .. n, B \subseteq 1 .. n,
         A \cap B = {}
  PROVE  /\ Cardinality(A) \in Nat /\ Cardinality(B) \in Nat
         /\ Cardinality(A \cup B) = Cardinality(A) + Cardinality(B)
<1>1. IsFiniteSet(A) /\ IsFiniteSet(B)
  <2>1. IsFiniteSet(1 .. n) BY FS_Interval
  <2>. QED BY <2>1, FS_Subset
<1>2. Cardinality(A) \in Nat /\ Cardinality(B) \in Nat
  BY <1>1, FS_CardinalityType
<1>3. Cardinality(A \cup B)
        = Cardinality(A) + Cardinality(B) - Cardinality(A \cap B)
  BY <1>1, FS_Union
<1>4. Cardinality(A \cap B) = 0 BY FS_EmptySet
<1>. QED BY <1>2, <1>3, <1>4

\* The score of a team is the value of the boxes its players hold.
LEMMA ScoreOfHolders ==
  ASSUME TypeOK, BoxAccounting, NEW t \in Teams
  PROVE  Score(team[t]) = POINT_BOX_VALUE * Cardinality(HeldBy(t))
<1> DEFINE n == Len(team[t])
           Size(k) == Cardinality(HeldUpTo(t, k))
<1>1. /\ n \in Nat /\ DOMAIN team[t] = 1 .. n
      /\ spawned \in Nat
  BY TeamShape DEF TypeOK, BothTeams
<1>2. PICK f : IsSum(f, team[t], n) /\ Score(team[t]) = f[n]
  BY <1>1, ScoreIsSum
<1> HIDE DEF n
<1>3. \A k \in 1 .. n :
        team[t][k].points = POINT_BOX_VALUE * Cardinality(Held(t, k))
  BY <1>1 DEF BoxAccounting, Held
<1>4. \A k \in 0 .. n : f[k] = POINT_BOX_VALUE * Size(k)
  <2> DEFINE Bad == {k \in 0 .. n : f[k] # POINT_BOX_VALUE * Size(k)}
  <2>1. SUFFICES ASSUME Bad # {} PROVE FALSE
    OBVIOUS
  <2>2. PICK k \in Bad : \A j \in Bad : k <= j
    <3>. Bad \in SUBSET Nat BY <1>1
    <3>. QED BY <2>1, LeastNumberExists
  <2>3. f[k] = IF k = 0 THEN 0 ELSE f[k - 1] + team[t][k].points
    BY <1>2 DEF IsSum
  <2>4. CASE k = 0
    <3>1. HeldUpTo(t, 0) = {} BY DEF HeldUpTo
    <3>2. Size(0) = 0 BY <3>1, FS_EmptySet
    <3>. QED BY <2>2, <2>3, <2>4, <3>2, ScoreAssumption
  <2>5. CASE k # 0
    <3>1. /\ k - 1 \in 0 .. n /\ k - 1 \notin Bad /\ k \in 1 .. n /\ k \in Nat
      BY <1>1, <2>2, <2>5
    <3>2. f[k - 1] = POINT_BOX_VALUE * Size(k - 1) BY <3>1
    <3>3. HeldUpTo(t, k) = HeldUpTo(t, k - 1) \cup Held(t, k)
      <4>1. \A i : i \in 1 .. k <=> i \in 1 .. k - 1 \/ i = k BY <3>1
      <4>. QED BY <4>1 DEF HeldUpTo, Held
    <3>4. HeldUpTo(t, k - 1) \cap Held(t, k) = {}
      <4>1. k \notin 1 .. k - 1 BY <3>1
      <4>. QED BY <4>1 DEF HeldUpTo, Held
    <3>5. HeldUpTo(t, k - 1) \subseteq 1 .. spawned /\ Held(t, k) \subseteq 1 .. spawned
      BY DEF HeldUpTo, Held
    <3>6. /\ Size(k - 1) \in Nat /\ Cardinality(Held(t, k)) \in Nat
          /\ Size(k) = Size(k - 1) + Cardinality(Held(t, k))
      <4> DEFINE A == HeldUpTo(t, k - 1)
                 B == Held(t, k)
      <4>1. A \subseteq 1 .. spawned /\ B \subseteq 1 .. spawned /\ A \cap B = {}
        BY <3>4, <3>5, SMTT(60)
      <4>2. HeldUpTo(t, k) = A \cup B BY <3>3
      <4> HIDE DEF A, B
      <4>3. /\ Cardinality(A) \in Nat /\ Cardinality(B) \in Nat
            /\ Cardinality(A \cup B) = Cardinality(A) + Cardinality(B)
        BY <1>1, <4>1, SizesAdd
      <4>. QED BY <4>2, <4>3 DEF A, B
    <3>7. f[k] = POINT_BOX_VALUE * Size(k - 1)
                  + POINT_BOX_VALUE * Cardinality(Held(t, k))
      BY <1>3, <2>3, <2>5, <3>1, <3>2
    <3> HIDE DEF Size
    <3>8. f[k] = POINT_BOX_VALUE * Size(k)
      BY <3>6, <3>7, ScoreAssumption
    <3>. QED BY <2>2, <3>8 DEF Size
  <2>. QED BY <2>4, <2>5
<1>5. HeldUpTo(t, n) = HeldBy(t)
  <2>1. ASSUME NEW b \in 1 .. spawned
        PROVE  (\E i \in 1 .. n : holder[b] = <<t, i>>) <=>
                 holder[b] # Nobody /\ holder[b][1] = t
    <3>1. holder[b] \in Slot \cup {Nobody} BY DEF TypeOK
    <3>2. ASSUME holder[b] # Nobody, holder[b][1] = t
          PROVE  \E i \in 1 .. n : holder[b] = <<t, i>>
      <4>1. holder[b][2] \in 1 .. n BY <1>1, <3>2 DEF BoxAccounting
      <4>2. holder[b] = <<holder[b][1], holder[b][2]>>
        <5>1. holder[b] \in Slot BY <3>1, <3>2
        <5>. QED BY <5>1 DEF Slot
      <4>. QED BY <3>2, <4>1, <4>2
    <3>3. ASSUME NEW i \in 1 .. n, holder[b] = <<t, i>>
          PROVE  holder[b] # Nobody /\ holder[b][1] = t
      <4>1. t # "nobody" BY DEF Teams
      <4>. QED BY <3>3, <4>1 DEF Nobody
    <3>. QED BY <3>2, <3>3
  <2>. QED BY <2>1 DEF HeldUpTo, HeldBy
<1>6. n \in 0 .. n BY <1>1
<1>. QED BY <1>2, <1>4, <1>5, <1>6

LEMMA PointsFollow ==
  ASSUME TypeOK, BoxAccounting
  PROVE  /\ PointsConserved
         /\ \A t \in Teams : /\ Score(team[t]) \in Nat
                             /\ Score(team[t]) <= POINT_BOX_VALUE * spawned
<1> DEFINE R == HeldBy("red")
           B == HeldBy("blue")
           M == DOMAIN point_boxes
<1>1. spawned \in Nat /\ M \subseteq 1 .. spawned BY DEF TypeOK
<1>2. R \subseteq 1 .. spawned /\ B \subseteq 1 .. spawned BY DEF HeldBy
<1>3. R \cap B = {} BY DEF HeldBy
<1>4. (R \cup B) \cap M = {} BY DEF HeldBy, BoxAccounting
<1>5. (R \cup B) \cup M = 1 .. spawned
  <2>1. ASSUME NEW b \in 1 .. spawned PROVE b \in R \/ b \in B \/ b \in M
    <3>1. holder[b] \in Slot \cup {Nobody} BY DEF TypeOK
    <3>2. holder[b] = Nobody => b \in M BY DEF BoxAccounting
    <3>3. holder[b] # Nobody => holder[b][1] \in {"red", "blue"}
      BY <3>1 DEF Slot, Teams
    <3>. QED BY <3>2, <3>3 DEF HeldBy
  <2>. QED BY <1>1, <1>2, <2>1
<1>6. /\ Cardinality(R) \in Nat /\ Cardinality(B) \in Nat
      /\ Cardinality(R \cup B) = Cardinality(R) + Cardinality(B)
  BY <1>1, <1>2, <1>3, SizesAdd
<1>7. /\ Cardinality(M) \in Nat
      /\ Cardinality(1 .. spawned) = Cardinality(R \cup B) + Cardinality(M)
  <2>1. R \cup B \subseteq 1 .. spawned BY <1>2
  <2>2. /\ Cardinality(M) \in Nat
        /\ Cardinality((R \cup B) \cup M) = Cardinality(R \cup B) + Cardinality(M)
    BY <1>1, <1>4, <2>1, SizesAdd
  <2>. QED BY <1>5, <2>2
<1>8. Cardinality(1 .. spawned) = spawned
  BY <1>1, FS_Interval
<1>9. /\ Score(team["red"]) = POINT_BOX_VALUE * Cardinality(R)
      /\ Score(team["blue"]) = POINT_BOX_VALUE * Cardinality(B)
  BY ScoreOfHolders DEF Teams
<1> HIDE DEF R, B, M
<1> DEFINE r == Cardinality(R)
           b == Cardinality(B)
           m == Cardinality(M)
<1>10. /\ r \in Nat /\ b \in Nat /\ m \in Nat /\ spawned = r + b + m
  BY <1>6, <1>7, <1>8
<1> HIDE DEF r, b, m
<1>11. /\ POINT_BOX_VALUE * spawned
            = POINT_BOX_VALUE * r + POINT_BOX_VALUE * b + POINT_BOX_VALUE * m
       /\ POINT_BOX_VALUE * r \in Nat
       /\ POINT_BOX_VALUE * b \in Nat
       /\ POINT_BOX_VALUE * m \in Nat
  BY <1>10, ScoreAssumption
<1>12. PointsConserved
  BY <1>9, <1>11 DEF PointsConserved, r, b, m, M
<1>13. \A t \in Teams : /\ Score(team[t]) \in Nat
                        /\ Score(team[t]) <= POINT_BOX_VALUE * spawned
  <2>1. /\ POINT_BOX_VALUE * r <= POINT_BOX_VALUE * spawned
        /\ POINT_BOX_VALUE * b <= POINT_BOX_VALUE * spawned
    BY <1>11
  <2>. QED BY <1>9, <1>11, <2>1 DEF r, b, Teams
<1>. QED BY <1>12, <1>13

\* The two scores and the boxes on the map always add up to what was spawned.
THEOREM PointsConservedHolds == Spec => []PointsConserved
<1>1. TypeOK /\ BoxAccounting => PointsConserved
  BY PointsFollow
<1>. QED BY <1>1, TypeCorrect, BoxAccountingHolds, PTL

\* However ticks are delayed and whoever collects, no team has more points
\* than the boxes that can have been spawned by then are worth.
THEOREM ScoreTakesTimeHolds == Spec => []ScoreTakesTime
<1>1. TypeOK /\ BoxAccounting /\ SpawnRate => ScoreTakesTime
  <2> SUFFICES ASSUME TypeOK, BoxAccounting, SpawnRate, NEW t \in Teams
               PROVE  Score(team[t]) * (point_box_spawn_period + 1)
                        <= POINT_BOX_VALUE * clock
    BY DEF ScoreTakesTime
  <2> DEFINE period == point_box_spawn_period + 1
             points == Score(team[t])
             V == POINT_BOX_VALUE
  <2>1. /\ period \in Nat /\ spawned \in Nat /\ clock \in Nat /\ V \in Nat
        /\ last_point_box_spawn \in Nat
    BY TimeAssumption, ScoreAssumption DEF TypeOK
  <2>2. points \in Nat /\ points <= V * spawned
    BY PointsFollow
  <2>3. spawned * period <= clock
    <3>1. spawned * period \in Nat BY <2>1
    <3>2. /\ spawned * period <= last_point_box_spawn
          /\ last_point_box_spawn <= clock
      BY DEF SpawnRate
    <3> HIDE DEF period
    <3>. QED BY <2>1, <3>1, <3>2
  <2> HIDE DEF period, points, V
  <2>4. points * period <= (V * spawned) * period
    BY <2>1, <2>2
  <2>5. (V * spawned) * period = V * (spawned * period)
    BY <2>1
  <2>6. V * (spawned * period) <= V * clock
    <3> DEFINE s == spawned * period
    <3>1. s \in Nat /\ s <= clock BY <2>1, <2>3
    <3> HIDE DEF s
    <3>2. V * s <= V * clock BY <2>1, <3>1
    <3>. QED BY <3>2 DEF s
  <2>7. /\ points * period \in Nat /\ (V * spawned) * period \in Nat
        /\ V * clock \in Nat
    BY <2>1, <2>2
  <2>8. points * period <= V * clock
    BY <2>4, <2>5, <2>6, <2>7
  <2>. QED BY <2>8 DEF points, period, V
<1>. QED BY <1>1, TypeCorrect, BoxAccountingHolds, SpawnRateHolds, PTL

-----------------------------------------------------------------------------
(* Between two ticks.                                                      *)

\* Only a tick changes what a player has reached, and nobody leaves.
Kept(t) ==
  /\ Len(team[t]) \in Nat
  /\ Len(team'[t]) \in Nat
  /\ Len(team[t]) <= Len(team'[t])
  /\ \A i \in 1 .. Len(team[t]) :
       /\ team'[t][i].id = team[t][i].id
       /\ team'[t][i].points = team[t][i].points
       /\ team'[t][i].distance = team[t][i].distance
       /\ team'[t][i].position = team[t][i].position
  /\ Score(team'[t]) = Score(team[t])

LEMMA PlayersKept ==
  ASSUME TypeOK, [Next]_vars, ~Tick, NEW t \in Teams
  PROVE  Kept(t)
<1>1. team[t] \in Seq(Player) /\ Len(team[t]) \in Nat
  BY LenProperties DEF TypeOK
<1>2. ASSUME NEW id \in PlayerId, NEW v \in VehicleType, NEW place \in Place,
             NEW u \in Teams, JoinTeam(id, v, place, u)
      PROVE  Kept(t)
  <2> DEFINE player == NewPlayer(id, v, place)
  <2>1. Grown(t, u, player) /\ player \in Player
    BY <1>2, JoinOfPlayer
  <2>2. player.points = 0 BY DEF NewPlayer
  <2> HIDE DEF player
  <2>3. Score(team'[t]) = Score(team[t])
    <3>1. CASE t = u
      <4>1. team'[t] = Append(team[t], player) BY <2>1, <3>1 DEF Grown
      <4>2. Score(Append(team[t], player)) = Score(team[t]) + 0
        BY <1>1, <2>1, <2>2, ScoreOfAppend
      <4>3. Score(team[t]) \in Nat BY <1>1, ScoreType
      <4>. QED BY <4>1, <4>2, <4>3
    <3>2. CASE t # u
      BY <2>1, <3>2 DEF Grown
    <3>. QED BY <3>1, <3>2
  <2>4. /\ Len(team'[t]) \in Nat /\ Len(team[t]) <= Len(team'[t])
        /\ \A i \in 1 .. Len(team[t]) : team'[t][i] = team[t][i]
    <3>1. /\ Len(team'[t]) = Len(team[t]) + IF t = u THEN 1 ELSE 0
          /\ \A i \in 1 .. Len(team[t]) : team'[t][i] = team[t][i]
      BY <2>1 DEF Grown
    <3>2. CASE t = u BY <1>1, <3>1, <3>2
    <3>3. CASE t # u BY <1>1, <3>1, <3>3
    <3>. QED BY <3>2, <3>3
  <2>. QED BY <1>1, <2>3, <2>4 DEF Kept
<1>3. ASSUME NEW id \in PlayerId, NEW input \in Input,
             SetPlayerMovement(id, input)
      PROVE  Kept(t)
  <2>1. /\ team'[t] \in Seq(Player)
        /\ Len(team'[t]) = Len(team[t])
        /\ \A i \in 1 .. Len(team[t]) :
             /\ team'[t][i].id = team[t][i].id
             /\ team'[t][i].points = team[t][i].points
             /\ team'[t][i].distance = team[t][i].distance
             /\ team'[t][i].position = team[t][i].position
    BY <1>3, InputOfPlayer DEF BothTeams
  <2>2. Score(team'[t]) = Score(team[t])
    BY <1>1, <2>1, ScoreSame
  <2>. QED BY <1>1, <2>1, <2>2 DEF Kept
<1>4. CASE UNCHANGED world
  BY <1>1, <1>4 DEF Kept
<1>. QED BY <1>2, <1>3, <1>4, BoxesUntouched

-----------------------------------------------------------------------------
(* The statistics.                                                         *)

\* The n-th row describes the player before it in the red team, unless the
\* loop over the rows was disturbed.
RowAgrees(n) ==
  \/ database[n] = Garbage /\ "red_rows" \in disturbed
  \/ /\ database[n].id = team["red"][n - 1].id
     /\ database[n].points = team["red"][n - 1].points
     /\ database[n].distance = team["red"][n - 1].distance

\* The number is the score of the team, unless the loop over it was disturbed.
ScoreAgrees(number, t, loop) ==
  \/ number = Score(team[t])
  \/ number = Garbage /\ loop \in disturbed

BeforeExecute == {"connect", "red_score", "blue_score", "execute"}

\* Where the game thread is says how much has been written.
Written ==
  /\ pc \in {"created", "tick", "check"} \cup BeforeExecute =>
       database = << >> /\ ~sql_failed /\ row = 0
  /\ pc = "created" => serialization_seq_num = 0
  /\ game_started <=> pc \notin {"created", "stopped"}
  /\ database # << >> => Len(database) = row + 1
  /\ pc = "send_players" => row = 0
  /\ pc \in {"send_players", "red_rows"} => Len(database) = row + 1
  /\ pc = "blue_rows" => Len(database) = row_end + 1
  /\ pc = "finish" /\ ~sql_failed => Len(database) = row_end + 1
  /\ pc = "stopped" /\ ~sql_failed =>
       \/ Len(database) = row_end + 1
       \/ terminate /\ database = << >>

\* What has been read and what has been written is still true.
Truthful ==
  /\ pc \in BeforeExecute \/ database # << >> => Won
  /\ pc \in {"blue_score", "execute"} =>
       ScoreAgrees(score["red"], "red", "red_score")
  /\ pc = "execute" => ScoreAgrees(score["blue"], "blue", "blue_score")
  /\ database # << >> =>
       /\ database[1].table = "game"
       /\ ScoreAgrees(database[1].red, "red", "red_score")
       /\ ScoreAgrees(database[1].blue, "blue", "blue_score")
  /\ \A n \in 2 .. Len(database) : RowAgrees(n)

LEMMA LengthOfAppend ==
  ASSUME TypeOK, NEW r \in DatabaseRow, database' = Append(database, r)
  PROVE  /\ Len(database) \in Nat
         /\ Len(database') = Len(database) + 1
         /\ database' # << >>
         /\ \A n \in 1 .. Len(database) : database'[n] = database[n]
         /\ database'[Len(database) + 1] = r
<1>1. database \in Seq(DatabaseRow) BY DEF TypeOK
<1>. QED BY <1>1, AppendProperties, LenProperties

LEMMA WrittenNext == TypeOK /\ Written /\ [Next]_vars => Written'
<1> SUFFICES ASSUME TypeOK, Written, [Next]_vars PROVE Written'
  OBVIOUS
<1> USE DEF Written, BeforeExecute
<1>0. row \in Nat /\ row_end \in Nat /\ Len(database) \in Nat /\ row <= row_end
  BY LenProperties DEF TypeOK
<1>1. CASE Tick
  BY <1>1 DEF Tick
<1>2. CASE Repeat
  BY <1>2 DEF Repeat
<1>3. CASE LeaveTerminated
  BY <1>3 DEF LeaveTerminated
<1>4. CASE LeaveFinished
  BY <1>4 DEF LeaveFinished
<1>5. CASE WriteGameRow
  <2>1. Len(database') = 1
    <3>1. Len(database) = 0 BY <1>5, EmptySeq DEF WriteGameRow
    <3>2. Len(database') = Len(database) + 1
      BY <1>5, GameRowType, LengthOfAppend DEF WriteGameRow
    <3>. QED BY <3>1, <3>2
  <2>. QED BY <1>5, <2>1 DEF WriteGameRow
<1>6. CASE WriteRedRow
  <2>1. PICK r \in Yields(PlayerRow(team["red"][row + 1])) :
          database' = Append(database, r)
    BY <1>6 DEF WriteRedRow
  <2>2. r \in DatabaseRow
    <3>1. PlayerRow(team["red"][row + 1]) \in DatabaseRow
      BY <1>6, RowType DEF WriteRedRow
    <3>. QED BY <3>1, YieldsType DEF DatabaseRow
  <2>3. Len(database') = Len(database) + 1
    BY <2>1, <2>2, LengthOfAppend
  <2>. QED BY <1>0, <1>6, <2>3 DEF WriteRedRow
<1>7. CASE RedRowsWritten
  BY <1>7 DEF RedRowsWritten
<1>8. CASE PrepareBlueRows
  BY <1>8 DEF PrepareBlueRows
<1>9. CASE SqlException
  BY <1>9 DEF SqlException
<1>10. CASE Finish
  BY <1>10 DEF Finish
<1>11. CASE StartGame
  BY <1>11 DEF StartGame
<1>12. ASSUME NEW id \in PlayerId, NEW v \in VehicleType, NEW place \in Place,
              NEW t \in Teams, JoinTeam(id, v, place, t)
       PROVE  Written'
  BY <1>12 DEF JoinTeam
<1>13. ASSUME NEW id \in PlayerId, NEW input \in Input,
              SetPlayerMovement(id, input)
       PROVE  Written'
  BY <1>13 DEF SetPlayerMovement
<1>14. CASE StopGame
  BY <1>14 DEF StopGame
<1>15. CASE UNCHANGED vars
  BY <1>15
<1>16. CASE Connect
  BY <1>16 DEF Connect
<1>17. CASE ReadRedScore
  BY <1>17 DEF ReadRedScore
<1>18. CASE ReadBlueScore
  BY <1>18 DEF ReadBlueScore
<1>19. CASE BeginRedRows
  BY <1>19 DEF BeginRedRows
<1>20. CASE Crash
  <2>1. pc \in Loops BY <1>20 DEF Crash, TypeOK
  <2>. QED BY <1>20, <2>1 DEF Crash, Loops
<1>. QED BY <1>1, <1>2, <1>3, <1>4, <1>5, <1>6, <1>7, <1>8, <1>9, <1>10,
            <1>11, <1>12, <1>13, <1>14, <1>15, <1>16, <1>17, <1>18, <1>19,
            <1>20
         DEF Next, GameThread, SendStatisticsToDatabase, Calls, Crashed

LEMMA WrittenHolds == Spec => []Written
<1>1. Init => Written
  BY DEF Init, Written, BeforeExecute
<1>. QED BY <1>1, WrittenNext, TypeCorrect, PTL DEF Spec

\* main() sees Running() false only after the game thread wrote everything it
\* ever writes, unless it was told to stop or the database failed.
THEOREM RecordedBeforeStopHolds == Spec => []RecordedBeforeStop
<1>1. TypeOK /\ Written => RecordedBeforeStop
  BY DEF TypeOK, Locations, Loops, Written, BeforeExecute, RecordedBeforeStop
<1>. QED BY <1>1, WrittenHolds, TypeCorrect, PTL

\* A step without a tick that neither reads a score nor writes a row leaves
\* true what there is.
LEMMA TruthKept ==
  ASSUME TypeOK, Written, Truthful, [Next]_vars, ~Tick,
         UNCHANGED <<database, score>>, disturbed \subseteq disturbed',
         pc' \in BeforeExecute => pc \in BeforeExecute \/ Won,
         pc' \in {"blue_score", "execute"} => pc \in {"blue_score", "execute"},
         pc' = "execute" => pc = "execute"
  PROVE  Truthful'
<1>1. Kept("red") /\ Kept("blue")
  BY PlayersKept DEF Teams
<1>2. Won' <=> Won
  BY <1>1 DEF Kept, Won, TeamWon, Teams
<1>3. /\ Score(team'["red"]) = Score(team["red"])
      /\ Score(team'["blue"]) = Score(team["blue"])
  BY <1>1 DEF Kept
<1>4. ASSUME NEW n \in 2 .. Len(database)
      PROVE  RowAgrees(n)'
  <2>1. RowAgrees(n) BY <1>4 DEF Truthful
  <2>2. n - 1 \in 1 .. Len(team["red"])
    <3>1. /\ row \in Nat /\ row_end \in Nat /\ row <= row_end
          /\ row_end <= Len(team["red"]) /\ Len(team["red"]) \in Nat
      BY <1>1 DEF Kept, TypeOK
    <3>2. Len(database) \in Nat BY LenProperties DEF TypeOK
    <3>3. database # << >> BY <3>2, <1>4, EmptySeq
    <3>4. Len(database) = row + 1 BY <3>3 DEF Written
    <3>. QED BY <1>4, <3>1, <3>4
  <2>3. /\ team'["red"][n - 1].id = team["red"][n - 1].id
        /\ team'["red"][n - 1].points = team["red"][n - 1].points
        /\ team'["red"][n - 1].distance = team["red"][n - 1].distance
    BY <1>1, <2>2 DEF Kept
  <2>. QED BY <2>1, <2>3 DEF RowAgrees
<1>5. pc' \in {"blue_score", "execute"} =>
        ScoreAgrees(score["red"], "red", "red_score")'
  BY <1>3 DEF Truthful, ScoreAgrees
<1>6. pc' = "execute" => ScoreAgrees(score["blue"], "blue", "blue_score")'
  BY <1>3 DEF Truthful, ScoreAgrees
<1>7. database' # << >> =>
        /\ database'[1].table = "game"
        /\ ScoreAgrees(database[1].red, "red", "red_score")'
        /\ ScoreAgrees(database[1].blue, "blue", "blue_score")'
  BY <1>3 DEF Truthful, ScoreAgrees
<1>8. pc' \in BeforeExecute \/ database' # << >> => Won'
  BY <1>2 DEF Truthful
<1>. QED BY <1>4, <1>5, <1>6, <1>7, <1>8 DEF Truthful

\* What the loop over the red players yields is a row of the database.
LEMMA RowWritten ==
  ASSUME TypeOK, WriteRedRow
  PROVE  \E r \in DatabaseRow :
           /\ r = PlayerRow(team["red"][row + 1])
                \/ (r = Garbage /\ "red_rows" \in disturbed)
           /\ database' = Append(database, r)
<1>1. PICK r \in Yields(PlayerRow(team["red"][row + 1])) :
        database' = Append(database, r)
  BY DEF WriteRedRow
<1>2. PlayerRow(team["red"][row + 1]) \in DatabaseRow
  BY RowType DEF WriteRedRow
<1>3. r = PlayerRow(team["red"][row + 1])
        \/ (r = Garbage /\ "red_rows" \in disturbed)
  BY YieldsType DEF WriteRedRow
<1>. QED BY <1>1, <1>2, <1>3 DEF DatabaseRow

LEMMA TruthNext == TypeOK /\ Written /\ Truthful /\ [Next]_vars => Truthful'
<1> SUFFICES ASSUME TypeOK, Written, Truthful, [Next]_vars PROVE Truthful'
  OBVIOUS
<1>1. CASE Tick
  <2>1. database' = << >> /\ pc' = "check"
    BY <1>1 DEF Tick, Written
  <2>2. 2 .. Len(database') = {} BY <2>1, EmptySeq
  <2>. QED BY <2>1, <2>2 DEF Truthful, BeforeExecute
<1>2. CASE ReadRedScore
  <2>1. database' = << >> /\ UNCHANGED <<team, disturbed>> /\ Won
    BY <1>2 DEF ReadRedScore, Written, Truthful, BeforeExecute
  <2>2. 2 .. Len(database') = {} BY <2>1, EmptySeq
  <2>3. PICK n \in Yields(Score(team["red"])) :
          score' = [score EXCEPT !["red"] = n]
    BY <1>2 DEF ReadRedScore
  <2>4. score'["red"] = n BY <2>3 DEF TypeOK, Teams
  <2>5. n = Score(team["red"]) \/ (n = Garbage /\ "red_score" \in disturbed)
    BY <1>2, YieldsType DEF ReadRedScore
  <2>6. ScoreAgrees(score["red"], "red", "red_score")'
    BY <2>1, <2>4, <2>5 DEF ScoreAgrees
  <2>7. Won' /\ pc' = "blue_score"
    BY <1>2, <2>1 DEF Won, ReadRedScore
  <2>. QED BY <2>1, <2>2, <2>6, <2>7 DEF Truthful
<1>3. CASE ReadBlueScore
  <2>1. database' = << >> /\ UNCHANGED <<team, disturbed>> /\ Won
    BY <1>3 DEF ReadBlueScore, Written, Truthful, BeforeExecute
  <2>2. 2 .. Len(database') = {} BY <2>1, EmptySeq
  <2>3. PICK n \in Yields(Score(team["blue"])) :
          score' = [score EXCEPT !["blue"] = n]
    BY <1>3 DEF ReadBlueScore
  <2>4. score'["blue"] = n /\ score'["red"] = score["red"]
    BY <2>3 DEF TypeOK, Teams
  <2>5. n = Score(team["blue"]) \/ (n = Garbage /\ "blue_score" \in disturbed)
    BY <1>3, YieldsType DEF ReadBlueScore
  <2>6. ScoreAgrees(score["blue"], "blue", "blue_score")'
    BY <2>1, <2>4, <2>5 DEF ScoreAgrees
  <2>7. ScoreAgrees(score["red"], "red", "red_score")'
    BY <1>3, <2>1, <2>4 DEF ScoreAgrees, ReadBlueScore, Truthful
  <2>8. Won' /\ pc' = "execute"
    BY <1>3, <2>1 DEF Won, ReadBlueScore
  <2>. QED BY <2>1, <2>2, <2>6, <2>7, <2>8 DEF Truthful
<1>4. CASE WriteGameRow
  <2>1. database = << >> /\ Len(database) = 0
    BY <1>4, EmptySeq DEF WriteGameRow, Written, BeforeExecute
  <2>2. Len(database') = 1 /\ database'[1] = GameRow
    BY <1>4, <2>1, GameRowType, LengthOfAppend DEF WriteGameRow
  <2>3. 2 .. Len(database') = {} BY <2>2
  <2>4. UNCHANGED <<team, disturbed>> /\ pc' = "send_players"
    BY <1>4 DEF WriteGameRow
  <2>5. Won /\ Won' = Won
    BY <1>4, <2>4 DEF Won, WriteGameRow, Truthful, BeforeExecute
  <2>6. /\ ScoreAgrees(score["red"], "red", "red_score")
        /\ ScoreAgrees(score["blue"], "blue", "blue_score")
    BY <1>4 DEF WriteGameRow, Truthful
  <2>7. /\ database'[1].table = "game"
        /\ database'[1].red = score["red"]
        /\ database'[1].blue = score["blue"]
    BY <2>2 DEF GameRow
  <2>8. /\ ScoreAgrees(database[1].red, "red", "red_score")'
        /\ ScoreAgrees(database[1].blue, "blue", "blue_score")'
    BY <2>4, <2>6, <2>7 DEF ScoreAgrees
  <2>. QED BY <2>3, <2>4, <2>5, <2>7, <2>8 DEF Truthful, BeforeExecute
<1>5. CASE WriteRedRow
  <2>1. PICK r \in DatabaseRow :
          /\ r = PlayerRow(team["red"][row + 1])
               \/ (r = Garbage /\ "red_rows" \in disturbed)
          /\ database' = Append(database, r)
    BY <1>5, RowWritten
  <2>2. /\ Len(database) \in Nat /\ Len(database') = Len(database) + 1
        /\ \A n \in 1 .. Len(database) : database'[n] = database[n]
        /\ database'[Len(database) + 1] = r
    BY <2>1, LengthOfAppend
  <2>3. Len(database) = row + 1 /\ row \in Nat
    <3>1. Len(database) = row + 1 BY <1>5 DEF WriteRedRow, Written
    <3>. QED BY <3>1 DEF TypeOK
  <2>4. database # << >> BY <2>3, EmptySeq
  <2>5. UNCHANGED <<team, disturbed>> /\ pc' = "red_rows"
    BY <1>5 DEF WriteRedRow
  <2>6. Won' /\ database'[1] = database[1]
    BY <2>2, <2>3, <2>4, <2>5 DEF Truthful, Won
  <2>7. /\ database'[1].table = "game"
        /\ ScoreAgrees(database[1].red, "red", "red_score")'
        /\ ScoreAgrees(database[1].blue, "blue", "blue_score")'
    BY <2>4, <2>5, <2>6 DEF Truthful, ScoreAgrees
  <2>8. ASSUME NEW n \in 2 .. Len(database')
        PROVE  RowAgrees(n)'
    <3>1. CASE n \in 2 .. Len(database)
      <4>1. RowAgrees(n) BY <3>1 DEF Truthful
      <4>2. database'[n] = database[n] BY <2>2, <3>1
      <4>. QED BY <2>5, <4>1, <4>2 DEF RowAgrees
    <3>2. CASE n \notin 2 .. Len(database)
      <4>1. n = row + 2 BY <2>2, <2>3, <3>2
      <4>2. n - 1 = row + 1 BY <2>3, <4>1
      <4>3. database'[n] = r BY <2>2, <2>3, <4>1
      <4>4. CASE r = Garbage /\ "red_rows" \in disturbed
        BY <2>5, <4>3, <4>4 DEF RowAgrees
      <4>5. CASE r = PlayerRow(team["red"][row + 1])
        <5>1. database'[n] = PlayerRow(team["red"][n - 1])
          BY <4>2, <4>3, <4>5
        <5>. QED BY <2>5, <5>1 DEF RowAgrees, PlayerRow
      <4>. QED BY <2>1, <4>4, <4>5
    <3>. QED BY <3>1, <3>2
  <2>. QED BY <2>5, <2>6, <2>7, <2>8 DEF Truthful, BeforeExecute
<1>6. CASE ~Tick /\ ~ReadRedScore /\ ~ReadBlueScore /\ ~WriteGameRow
           /\ ~WriteRedRow
  <2>1. /\ UNCHANGED <<database, score>>
        /\ pc' \in BeforeExecute => pc \in BeforeExecute \/ Won
        /\ pc' \in {"blue_score", "execute"} =>
             pc \in {"blue_score", "execute"}
        /\ pc' = "execute" => pc = "execute"
    BY <1>6 DEF Next, GameThread, SendStatisticsToDatabase, Calls, Repeat,
       LeaveTerminated, LeaveFinished, Connect, BeginRedRows, RedRowsWritten,
       PrepareBlueRows, SqlException, Crash, Crashed, Finish, StartGame,
       JoinTeam, SetPlayerMovement, StopGame, BeforeExecute
  <2>2. ASSUME NEW id \in PlayerId, NEW v \in VehicleType,
               NEW place \in Place, NEW t \in Teams, JoinTeam(id, v, place, t)
        PROVE  disturbed \subseteq disturbed'
    <3>1. disturbed' = disturbed \cup {l \in {pc} : Iterating(t)}
      BY <2>2 DEF JoinTeam
    <3>. QED BY <3>1
  <2>3. ASSUME ~ \E id \in PlayerId, v \in VehicleType, place \in Place,
                    t \in Teams : JoinTeam(id, v, place, t)
        PROVE  UNCHANGED disturbed
    BY <1>6, <2>3 DEF Next, GameThread, SendStatisticsToDatabase, Calls,
       Repeat, LeaveTerminated, LeaveFinished, Connect, BeginRedRows,
       RedRowsWritten, PrepareBlueRows, SqlException, Crash, Crashed, Finish,
       StartGame, SetPlayerMovement, StopGame
  <2>4. disturbed \subseteq disturbed'
    BY <2>2, <2>3, Zenon
  <2>. QED BY <1>6, <2>1, <2>4, TruthKept
<1>. QED BY <1>1, <1>2, <1>3, <1>4, <1>5, <1>6

\* SendStatisticsToDatabase reads the teams without mutex_.  Whatever the
\* number of players and whenever they join, each score and each row written
\* is that of the game that was won, unless somebody joined the team while
\* the loop that read it was under way.
THEOREM StatisticsAgreeHolds == Spec => []StatisticsAgree
<1>1. Init => Truthful
  <2>1. 2 .. Len(<< >>) = {} BY EmptySeq
  <2>. QED BY <2>1 DEF Init, Truthful, BeforeExecute
<1>2. Spec => []Truthful
  BY <1>1, TruthNext, WrittenHolds, TypeCorrect, PTL DEF Spec
<1>3. Truthful => StatisticsAgree
  BY DEF Truthful, StatisticsAgree, RowAgrees, ScoreAgrees, Won, TeamWon
<1>. QED BY <1>2, <1>3, PTL

-----------------------------------------------------------------------------
(* The statuses the clients are sent.                                      *)

\* No step takes points away from a team.
LEMMA ScoreGrows ==
  ASSUME TypeOK, [Next]_vars, NEW t \in Teams
  PROVE  /\ Score(team[t]) \in Nat /\ Score(team'[t]) \in Nat
         /\ Score(team[t]) <= Score(team'[t])
<1>1. team[t] \in Seq(Player) BY DEF TypeOK
<1>2. Score(team[t]) \in Nat BY <1>1, ScoreType
<1>3. CASE Tick
  <2>1. /\ team'[t] \in Seq(Player) /\ Len(team'[t]) = Len(team[t])
        /\ \A i \in 1 .. Len(team[t]) : team[t][i].points <= team'[t][i].points
    BY <1>3, TickOfPlayer DEF BothTeams
  <2>. QED BY <1>1, <2>1, ScoreOrder
<1>4. CASE ~Tick
  BY <1>2, <1>4, PlayersKept DEF Kept
<1>. QED BY <1>3, <1>4

\* One sequence starts with all of another.
StartsAlike(f, n, g, m, S) ==
  /\ n \in Nat /\ m \in Nat /\ n <= m
  /\ f \in [1 .. n -> S] /\ g \in [1 .. m -> S]
  /\ \A i \in 1 .. n : f[i] = g[i]

LEMMA PrefixByElements ==
  ASSUME NEW S, NEW n, NEW m, NEW f, NEW g, StartsAlike(f, n, g, m, S)
  PROVE  IsPrefix(f, g)
<1> USE DEF StartsAlike
<1>1. f \in Seq(S) /\ Len(f) = n /\ g \in Seq(S) /\ Len(g) = m
  BY FunctionIsSeq
<1>2. SubSeq(f, 1, n) = SubSeq(g, 1, n)
  <2>1. SubSeq(f, 1, n) = [i \in 1 .. n |-> f[i]] BY <1>1
  <2>2. SubSeq(g, 1, n) = [i \in 1 .. n |-> g[i]] BY <1>1
  <2>. QED BY <2>1, <2>2
<1>. QED BY <1>1, <1>2 DEF IsPrefix

\* Without a tick a status shows each team as the one before did, with those
\* who joined behind.
LEMMA StatusKept ==
  ASSUME TypeOK, [Next]_vars, ~Tick, NEW t \in Teams
  PROVE  IsPrefix(GameStatus.teams[t], GameStatus'.teams[t])
<1> DEFINE Shown(player) == [id |-> player.id, points |-> player.points,
                             position |-> player.position]
           n == Len(team[t])
           m == Len(team'[t])
           f == [i \in 1 .. n |-> Shown(team[t][i])]
           g == [i \in 1 .. m |-> Shown(team'[t][i])]
<1>1. Kept(t) BY PlayersKept
<1>2. n \in Nat /\ m \in Nat /\ n <= m BY <1>1 DEF Kept
<1>3. \A i \in 1 .. n : f[i] = g[i]
  <2>1. 1 .. n \subseteq 1 .. m BY <1>2
  <2>2. \A i \in 1 .. n : Shown(team[t][i]) = Shown(team'[t][i])
    BY <1>1 DEF Kept
  <2>. QED BY <2>1, <2>2
<1>4. DOMAIN team[t] = 1 .. n /\ DOMAIN team'[t] = 1 .. m
  <2>1. TypeOK' BY TypeNext
  <2>2. team[t] \in Seq(Player) /\ team'[t] \in Seq(Player)
    BY <2>1 DEF TypeOK
  <2>. QED BY <2>2, LenProperties
<1>5. GameStatus.teams[t] = f /\ GameStatus'.teams[t] = g
  BY <1>4 DEF GameStatus
<1> DEFINE S == {Shown(team'[t][i]) : i \in 1 .. m}
<1>6. f \in [1 .. n -> S] /\ g \in [1 .. m -> S]
  <2>1. \A i \in 1 .. m : g[i] \in S OBVIOUS
  <2>2. \A i \in 1 .. n : i \in 1 .. m BY <1>2
  <2>3. \A i \in 1 .. n : f[i] \in S BY <1>3, <2>1, <2>2
  <2>. QED BY <2>1, <2>3
<1> HIDE DEF n, m, f, g, S
<1>7. StartsAlike(f, n, g, m, S) BY <1>2, <1>3, <1>6 DEF StartsAlike
<1>8. IsPrefix(f, g) BY <1>7, PrefixByElements
<1>. QED BY <1>5, <1>8

LEMMA WonKept ==
  ASSUME TypeOK, [Next]_vars
  PROVE  /\ Won => Won'
         /\ ~Tick => (Won' <=> Won)
<1>1. points_to_win \in Nat BY ScoreAssumption
<1>2. Won => Won'
  BY <1>1, ScoreGrows DEF Won, TeamWon
<1>3. ~Tick => (Won' <=> Won)
  <2>1. ~Tick => \A t \in Teams : Score(team'[t]) = Score(team[t])
    BY PlayersKept DEF Kept
  <2>. QED BY <2>1 DEF Won, TeamWon
<1>. QED BY <1>2, <1>3

\* A client may sort the statuses by their number: the world it shows with
\* one number is one world, a later number is a later world, and a game once
\* finished stays finished (GetGameStatus, RunGame).
THEOREM StatusOrderHolds == Spec => StatusOrder
<1> DEFINE Ordered ==
      /\ GameStatus.sequence <= GameStatus'.sequence
      /\ GameStatus.finished => GameStatus'.finished
      /\ GameStatus.sequence = GameStatus'.sequence =>
           /\ \A t \in Teams :
                IsPrefix(GameStatus.teams[t], GameStatus'.teams[t])
           /\ GameStatus.point_boxes = GameStatus'.point_boxes
           /\ GameStatus.finished = GameStatus'.finished
<1>1. TypeOK /\ [Next]_vars => [Ordered]_vars
  <2> SUFFICES ASSUME TypeOK, [Next]_vars PROVE Ordered
    OBVIOUS
  <2>1. /\ GameStatus.sequence = serialization_seq_num
        /\ GameStatus'.sequence = serialization_seq_num'
        /\ GameStatus.point_boxes = point_boxes
        /\ GameStatus'.point_boxes = point_boxes'
    BY DEF GameStatus
  <2>2. GameStatus.finished = Won /\ GameStatus'.finished = Won'
    BY DEF GameStatus
  <2>3. serialization_seq_num \in Nat BY DEF TypeOK
  <2>4. GameStatus.finished => GameStatus'.finished
    BY <2>2, WonKept
  <2>5. CASE Tick
    <3>1. serialization_seq_num' = serialization_seq_num + 1
      BY <2>5 DEF Tick
    <3>. QED BY <2>1, <2>3, <2>4, <3>1
  <2>6. CASE ~Tick
    <3>1. UNCHANGED <<serialization_seq_num, point_boxes>>
      BY <2>6, BoxesUntouched DEF JoinTeam, SetPlayerMovement
    <3>2. \A t \in Teams :
            IsPrefix(GameStatus.teams[t], GameStatus'.teams[t])
      BY <2>6, StatusKept
    <3>3. Won' \in BOOLEAN /\ Won \in BOOLEAN BY DEF Won
    <3>4. GameStatus.finished = GameStatus'.finished
      BY <2>2, <2>6, <3>3, WonKept
    <3>. QED BY <2>1, <2>3, <2>4, <3>1, <3>2, <3>4
  <2>. QED BY <2>5, <2>6
<1>. QED BY <1>1, TypeCorrect, PTL DEF Spec, StatusOrder
=============================================================================
