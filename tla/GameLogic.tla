------------------------------ MODULE GameLogic ------------------------------
(***************************************************************************)
(* GameLogic (game_logic/game_logic.cpp): the game thread with its tick    *)
(* loop, and the calls other threads make on the game while it runs: the   *)
(* main-process thread adds players, the client thread sets inputs and     *)
(* reads the status, and the owner stops the game.  Every call except      *)
(* SendStatisticsToDatabase and StopGame holds mutex_ for its whole        *)
(* effect, so each of them is one action.                                  *)
(***************************************************************************)
EXTENDS Game, SequencesExt

CONSTANTS
  point_box_spawn_period,
  Delay,           \* by how much the clock may advance between two ticks
  Garbage,         \* a number or a row read from memory the teams gave up
  MaxTicks,        \* bound: ticks after which the thread sleeps for good
  MaxPlayers       \* bound: players the main process announces

ASSUME TimeAssumption ==
  /\ point_box_spawn_period \in Nat
  /\ Delay \subseteq Nat
  /\ MaxTicks \in Nat
  /\ MaxPlayers \in Nat

VARIABLES
  team,                  \* red_team_ and blue_team_
  point_boxes,           \* point_boxes_: serial number of a box -> its place
  clock,                 \* system_clock::now() as of the last tick
  last_point_box_spawn,
  serialization_seq_num,
  game_started,
  terminate,
  pc,                    \* where the game thread is
  score,                 \* the parameters of the game's statement
  row,                   \* red players whose row is written
  row_end,               \* the end() the loop over red players started with
  disturbed,             \* loops whose players a push_back may have moved
  database,              \* rows the database has accepted
  sql_failed,            \* a statement or the connection threw SQLException
  spawned,               \* history: number of boxes spawned so far
  holder                 \* history: who collected which box

world == <<team, point_boxes, clock, last_point_box_spawn,
           serialization_seq_num, spawned, holder>>
statistics == <<score, row, row_end, disturbed, database, sql_failed>>
vars == <<world, statistics, game_started, terminate, pc>>

-----------------------------------------------------------------------------
(* Where the game thread is.  "created": StartGame has not been called;    *)
(* "tick": about to tick; "check": asleep or evaluating the loop condition;*)
(* from "connect" to "blue_rows": in SendStatisticsToDatabase, in the four *)
(* Loops iterating over the players of a team; "finish": about to clear    *)
(* game_started_; "stopped": it has returned; "crashed": a read of freed   *)
(* memory has ended the process.                                           *)

Loops == {"red_score", "blue_score", "red_rows", "blue_rows"}

Locations == {"created", "tick", "check", "connect", "execute",
              "send_players", "finish", "stopped", "crashed"} \cup Loops

Nobody == <<"nobody", 0>>
Slot == Teams \X (Nat \ {0})

\* Seeded fault: the scores are bound in the wrong order.
GameRowSwapped == [table |-> "game", red |-> score["blue"],
                   blue |-> score["red"]]

GameRow == [table |-> "game", red |-> score["red"], blue |-> score["blue"]]

PlayerRow(player) ==
  [table |-> "player", team |-> "red", id |-> player.id,
   points |-> player.points, vehicle |-> player.vehicle,
   distance |-> player.distance]

Won == \E t \in Teams : TeamWon(team[t])

\* What GetGameStatus serializes for the clients, under one lock.
GameStatus ==
  [sequence |-> serialization_seq_num,
   teams |-> [t \in Teams |->
     [i \in DOMAIN team[t] |->
       [id |-> team[t][i].id, points |-> team[t][i].points,
        position |-> team[t][i].position]]],
   point_boxes |-> point_boxes,
   finished |-> Won]

Init ==
  /\ team = [t \in Teams |-> << >>]
  /\ point_boxes = << >>
  /\ clock = 0
  /\ last_point_box_spawn = 0
  /\ serialization_seq_num = 0
  /\ game_started = FALSE
  /\ terminate = FALSE
  /\ pc = "created"
  /\ score = [t \in Teams |-> 0]
  /\ row = 0
  /\ row_end = 0
  /\ disturbed = {}
  /\ database = << >>
  /\ sql_failed = FALSE
  /\ spawned = 0
  /\ holder = << >>

-----------------------------------------------------------------------------
(* Calls made by other threads.                                            *)

StartGame ==
  /\ pc = "created"
  /\ ~game_started
  /\ game_started' = TRUE
  /\ terminate' = FALSE
  /\ pc' = "tick"
  /\ UNCHANGED <<world, statistics>>

\* The game thread is in a loop over the players of team t.
Iterating(t) ==
  \/ t = "red" /\ (pc = "red_score" \/ (pc = "red_rows" /\ row < row_end))
  \/ t = "blue" /\ pc \in {"blue_score", "blue_rows"}

\* AddPlayer holds mutex_, the loops of the statistics do not: a push_back
\* under one of them may move the players it iterates over to new storage.
JoinTeam(id, vehicle, place, t) ==
  /\ Len(team["red"]) + Len(team["blue"]) < MaxPlayers
  /\ team' = AddPlayer(team, t, NewPlayer(id, vehicle, place))
  /\ disturbed' = disturbed \cup {l \in {pc} : Iterating(t)}
  /\ UNCHANGED <<point_boxes, clock, last_point_box_spawn,
                 serialization_seq_num, spawned, holder, score, row, row_end,
                 database, sql_failed, game_started, terminate, pc>>

SetPlayerMovement(id, input) ==
  /\ team' = SetPlayerInput(team, id, input)
  /\ UNCHANGED <<point_boxes, clock, last_point_box_spawn,
                 serialization_seq_num, spawned, holder, statistics,
                 game_started, terminate, pc>>

\* StopGame then joins the thread: it returns once pc is "stopped".
StopGame ==
  /\ terminate' = TRUE
  /\ UNCHANGED <<world, statistics, game_started, pc>>

-----------------------------------------------------------------------------
(* The game loop.                                                          *)

\* All players move; h names who holds which box before the movement.
MovePlayers(boxes, h) ==
  /\ team' = CalculateMovement(team, boxes)
  /\ point_boxes' = BoxesLeft(team, boxes)
  /\ holder' =
       [b \in DOMAIN h |->
         IF \E s \in Slots(team) : b \in Collected(team, boxes, s[1], s[2])
         THEN CHOOSE s \in Slots(team) :
                b \in Collected(team, boxes, s[1], s[2])
         ELSE h[b]]

\* Seeded fault: the time of the spawn is not kept.
SpawnEveryTick(now, place) ==
  /\ now - last_point_box_spawn > point_box_spawn_period
  /\ UNCHANGED last_point_box_spawn
  /\ spawned' = spawned + 1
  /\ MovePlayers(GeneratePointBox(point_boxes, spawned + 1, place),
                 Append(holder, Nobody))

\* Seeded fault: >= instead of >.
SpawnEarly(now, place) ==
  /\ now - last_point_box_spawn >= point_box_spawn_period
  /\ last_point_box_spawn' = now
  /\ spawned' = spawned + 1
  /\ MovePlayers(GeneratePointBox(point_boxes, spawned + 1, place),
                 Append(holder, Nobody))

TickWithSpawn(now, place) ==
  /\ now - last_point_box_spawn > point_box_spawn_period
  /\ last_point_box_spawn' = now
  /\ spawned' = spawned + 1
  /\ MovePlayers(GeneratePointBox(point_boxes, spawned + 1, place),
                 Append(holder, Nobody))

TickWithoutSpawn(now) ==
  /\ now - last_point_box_spawn <= point_box_spawn_period
  /\ UNCHANGED <<last_point_box_spawn, spawned>>
  /\ MovePlayers(point_boxes, holder)

\* Seeded fault: the sequence number is not incremented.
TickUnnumbered ==
  /\ pc = "tick"
  /\ \E d \in Delay :
       /\ clock' = clock + d
       /\ \/ TickWithoutSpawn(clock + d)
          \/ \E place \in Place : TickWithSpawn(clock + d, place)
  /\ pc' = "check"
  /\ UNCHANGED <<serialization_seq_num, statistics, game_started, terminate>>

Tick ==
  /\ pc = "tick"
  /\ \E d \in Delay :
       /\ clock' = clock + d
       /\ \/ TickWithoutSpawn(clock + d)
          \/ \E place \in Place : TickWithSpawn(clock + d, place)
  /\ serialization_seq_num' = serialization_seq_num + 1
  /\ pc' = "check"
  /\ UNCHANGED <<statistics, game_started, terminate>>

\* The condition reads GameFinished() and terminate_ one after the other.
\* Only Tick changes a score, so both reads can be taken as of the second.
Repeat ==
  /\ pc = "check"
  /\ ~Won
  /\ ~terminate
  /\ serialization_seq_num < MaxTicks
  /\ pc' = "tick"
  /\ UNCHANGED <<world, statistics, game_started, terminate>>

\* Seeded fault: terminate_ is looked at only after the game was won.
LeaveTerminatedWon ==
  /\ pc = "check"
  /\ Won
  /\ terminate
  /\ game_started' = FALSE
  /\ pc' = "stopped"
  /\ UNCHANGED <<world, statistics, terminate>>

LeaveTerminated ==
  /\ pc = "check"
  /\ terminate
  /\ game_started' = FALSE
  /\ pc' = "stopped"
  /\ UNCHANGED <<world, statistics, terminate>>

\* Seeded fault: game_started_ is cleared before the statistics are sent.
LeaveFinishedEarly ==
  /\ pc = "check"
  /\ Won
  /\ ~terminate
  /\ game_started' = FALSE
  /\ pc' = "connect"
  /\ UNCHANGED <<world, statistics, terminate>>

LeaveFinished ==
  /\ pc = "check"
  /\ Won
  /\ ~terminate
  /\ pc' = "connect"
  /\ UNCHANGED <<world, statistics, game_started, terminate>>

-----------------------------------------------------------------------------
(* SendStatisticsToDatabase, run by the game thread without mutex_.        *)

\* What a loop over the players yields: value, or anything if the storage it
\* iterates over was freed under it.
Yields(value) == {value} \cup {g \in {Garbage} : pc \in disturbed}

\* The connection is made and the first parameters of the statement are set.
Connect ==
  /\ pc = "connect"
  /\ pc' = "red_score"
  /\ UNCHANGED <<world, statistics, game_started, terminate>>

ReadRedScore ==
  /\ pc = "red_score"
  /\ \E n \in Yields(Score(team["red"])) :
       score' = [score EXCEPT !["red"] = n]
  /\ pc' = "blue_score"
  /\ UNCHANGED <<world, row, row_end, disturbed, database, sql_failed,
                 game_started, terminate>>

ReadBlueScore ==
  /\ pc = "blue_score"
  /\ \E n \in Yields(Score(team["blue"])) :
       score' = [score EXCEPT !["blue"] = n]
  /\ pc' = "execute"
  /\ UNCHANGED <<world, row, row_end, disturbed, database, sql_failed,
                 game_started, terminate>>

WriteGameRow ==
  /\ pc = "execute"
  /\ database' = Append(database, GameRow)
  /\ pc' = "send_players"
  /\ UNCHANGED <<world, score, row, row_end, disturbed, sql_failed,
                 game_started, terminate>>

\* Seeded fault: the loop over the players starts at 1.
BeginRedRowsFromOne ==
  /\ pc = "send_players"
  /\ row' = 1
  /\ row_end' = Len(team["red"])
  /\ pc' = "red_rows"
  /\ UNCHANGED <<world, score, disturbed, database, sql_failed, game_started,
                 terminate>>

\* Who joined since the scores were read is in the loop, who joins after
\* this step is not.
BeginRedRows ==
  /\ pc = "send_players"
  /\ row' = 0
  /\ row_end' = Len(team["red"])
  /\ pc' = "red_rows"
  /\ UNCHANGED <<world, score, disturbed, database, sql_failed, game_started,
                 terminate>>

WriteRedRow ==
  /\ pc = "red_rows"
  /\ row < row_end
  /\ \E r \in Yields(PlayerRow(team["red"][row + 1])) :
       database' = Append(database, r)
  /\ row' = row + 1
  /\ UNCHANGED <<world, score, row_end, disturbed, sql_failed, game_started,
                 terminate, pc>>

RedRowsWritten ==
  /\ pc = "red_rows"
  /\ row = row_end
  /\ pc' = "blue_rows"
  /\ UNCHANGED <<world, statistics, game_started, terminate>>

\* The loop over the blue players prepares each statement and never
\* executes it.
PrepareBlueRows ==
  /\ pc = "blue_rows"
  /\ pc' = "finish"
  /\ UNCHANGED <<world, statistics, game_started, terminate>>

\* Connecting, preparing, setting a parameter or executing throws
\* sql::SQLException.
SqlException ==
  /\ \/ pc \in {"connect", "blue_score", "execute"}
     \/ pc = "red_rows" /\ row < row_end
     \/ pc = "blue_rows" /\ team["blue"] # << >>
  /\ sql_failed' = TRUE
  /\ pc' = "finish"
  /\ UNCHANGED <<world, score, row, row_end, disturbed, database,
                 game_started, terminate>>

\* Reading the storage that was freed ends the process.
Crash ==
  /\ pc \in disturbed
  /\ pc = "red_rows" => row < row_end
  /\ pc' = "crashed"
  /\ UNCHANGED <<world, statistics, game_started, terminate>>

\* Seeded fault: game_started_ stays set.
FinishSilently ==
  /\ pc = "finish"
  /\ pc' = "stopped"
  /\ UNCHANGED <<world, statistics, game_started, terminate>>

Finish ==
  /\ pc = "finish"
  /\ game_started' = FALSE
  /\ pc' = "stopped"
  /\ UNCHANGED <<world, statistics, terminate>>

SendStatisticsToDatabase ==
  \/ Connect
  \/ ReadRedScore
  \/ ReadBlueScore
  \/ WriteGameRow
  \/ BeginRedRows
  \/ WriteRedRow
  \/ RedRowsWritten
  \/ PrepareBlueRows
  \/ SqlException
  \/ Crash

GameThread ==
  \/ Tick
  \/ Repeat
  \/ LeaveTerminated
  \/ LeaveFinished
  \/ SendStatisticsToDatabase
  \/ Finish

Calls ==
  \/ StartGame
  \/ \E id \in PlayerId, v \in VehicleType, place \in Place, t \in Teams :
       JoinTeam(id, v, place, t)
  \/ \E id \in PlayerId, input \in Input : SetPlayerMovement(id, input)
  \/ StopGame

\* Nothing happens in a process that has ended.
Crashed == pc = "crashed" /\ UNCHANGED vars

Next ==
  \/ GameThread
  \/ pc # "crashed" /\ Calls
  \/ Crashed

Spec == Init /\ [][Next]_vars

\* The operating system keeps scheduling the game thread, its sleep ends,
\* and a database call returns or throws.
FairSpec == Spec /\ WF_vars(GameThread)

-----------------------------------------------------------------------------
(* Properties.                                                             *)

DatabaseRow ==
  [table : {"game"}, red : Nat \cup {Garbage}, blue : Nat \cup {Garbage}]
    \cup [table : {"player"}, team : {"red"}, id : PlayerId, points : Nat,
          vehicle : VehicleType, distance : Nat]
    \cup {Garbage}

\* Every variable has the type the class declarations give it.
TypeOK ==
  /\ team \in [Teams -> Seq(Player)]
  /\ spawned \in Nat
  /\ DOMAIN point_boxes \subseteq 1 .. spawned
  /\ point_boxes \in [DOMAIN point_boxes -> Place]
  /\ holder \in [1 .. spawned -> Slot \cup {Nobody}]
  /\ clock \in Nat
  /\ last_point_box_spawn \in Nat
  /\ serialization_seq_num \in Nat
  /\ score \in [Teams -> Nat \cup {Garbage}]
  /\ row_end \in 0 .. Len(team["red"])
  /\ row \in 0 .. row_end
  /\ disturbed \subseteq Loops
  /\ {game_started, terminate, sql_failed} \subseteq BOOLEAN
  /\ pc \in Locations
  /\ database \in Seq(DatabaseRow)

\* Every box ever spawned is either on the map or was collected by exactly
\* one player, and a player has POINT_BOX_VALUE for each box collected and
\* nothing else (CheckForPointBox adds the values of the boxes it erases).
BoxAccounting ==
  /\ \A b \in 1 .. spawned :
       b \in DOMAIN point_boxes <=> holder[b] = Nobody
  /\ \A b \in 1 .. spawned :
       holder[b] # Nobody => holder[b][2] \in DOMAIN team[holder[b][1]]
  /\ \A t \in Teams : \A i \in DOMAIN team[t] :
       team[t][i].points
         = POINT_BOX_VALUE
             * Cardinality({b \in 1 .. spawned : holder[b] = <<t, i>>})

\* The two scores and the boxes still on the map add up to everything that
\* was spawned: no tick, join or input creates or loses points.
PointsConserved ==
  Score(team["red"]) + Score(team["blue"])
    + POINT_BOX_VALUE * Cardinality(DOMAIN point_boxes)
      = POINT_BOX_VALUE * spawned

\* After a tick no box is left that some player passed on the way, whatever
\* the order in which the players moved and the boxes were erased.
NoBoxLeftBehind ==
  [][serialization_seq_num' # serialization_seq_num =>
       \A b \in DOMAIN point_boxes' :
         \A t \in Teams : \A i \in DOMAIN team[t] :
           <<point_boxes'[b], team[t][i].position, team'[t][i].position>>
             \notin Near]_vars

\* Clients order the status messages by their sequence number.  Two statuses
\* with the same number show the same world, except that a player may have
\* joined; a status with the finished flag is never followed by one without.
StatusOrder ==
  [][/\ GameStatus.sequence <= GameStatus'.sequence
     /\ GameStatus.finished => GameStatus'.finished
     /\ GameStatus.sequence = GameStatus'.sequence =>
          /\ \A t \in Teams :
               IsPrefix(GameStatus.teams[t], GameStatus'.teams[t])
          /\ GameStatus.point_boxes = GameStatus'.point_boxes
          /\ GameStatus.finished = GameStatus'.finished]_vars

\* Boxes are spawned more than point_box_spawn_period apart, however the
\* ticks are delayed, so the clock bounds how many there have been.
SpawnRate ==
  /\ spawned * (point_box_spawn_period + 1) <= last_point_box_spawn
  /\ last_point_box_spawn <= clock

\* No team wins faster than the boxes are spawned.
ScoreTakesTime ==
  \A t \in Teams :
    Score(team[t]) * (point_box_spawn_period + 1) <= POINT_BOX_VALUE * clock

\* When the main process announces an id twice for one team, the second
\* player of that id never receives an input and never leaves its place.
DuplicateStands ==
  \A t \in Teams : \A i \in DOMAIN team[t] :
    ~IsFirst(team[t], i) =>
      ~team[t][i].input.move /\ team[t][i].distance = 0

\* The statistics are read without mutex_, a loop at a time, while players
\* may join between any two steps.  They still show one game that some team
\* won: each score is the team's score when the thread returns, and each row
\* of a player the red player of its position.  What a loop wrote can be
\* anything else only if a player joined the very team that loop was
\* iterating over; a join between two loops spoils neither.
StatisticsAgree ==
  database # << >> =>
    /\ database[1].table = "game"
    /\ \/ database[1].red = Score(team["red"])
       \/ database[1].red = Garbage /\ "red_score" \in disturbed
    /\ \/ database[1].blue = Score(team["blue"])
       \/ database[1].blue = Garbage /\ "blue_score" \in disturbed
    /\ \E t \in Teams : Score(team[t]) >= points_to_win
    /\ \A n \in 2 .. Len(database) :
         LET player == team["red"][n - 1]
         IN  \/ database[n] = Garbage /\ "red_rows" \in disturbed
             \/ /\ database[n].id = player.id
                /\ database[n].points = player.points
                /\ database[n].distance = player.distance

\* main() tears the process down as soon as Running() is false.  By then the
\* statistics are complete as far as the code writes any, unless the game
\* was stopped from outside or the database failed.
RecordedBeforeStop ==
  (~game_started /\ serialization_seq_num > 0 /\ ~sql_failed) =>
     \/ terminate /\ database = << >>
     \/ Len(database) = 1 + row_end

\* "Send players' statistics to remote MySQL database" (game.cpp:256): every
\* blue player who scored has a row when the thread has finished normally.
BluePlayersRecorded ==
  (pc = "stopped" /\ database # << >> /\ ~sql_failed) =>
    \A i \in DOMAIN team["blue"] :
      team["blue"][i].points > 0 =>
        \E n \in 2 .. Len(database) :
          database[n] # Garbage /\ database[n].id = team["blue"][i].id

\* A won game is over: Running() becomes false and main() can go on, unless
\* the process crashed in the statistics.
GameEnds == Won ~> (~game_started \/ pc = "crashed")

\* The join in StopGame returns, if the process does not crash.
StopReturns == terminate ~> pc \in {"created", "stopped", "crashed"}
=============================================================================
