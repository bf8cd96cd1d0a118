-------------------------------- MODULE Game --------------------------------
(***************************************************************************)
(* The game world: two teams of players and the point boxes on the map     *)
(* (classes Game, Team and Player under game_logic/).  The module is pure: *)
(* it defines what one call of Game does to the teams and the boxes, and   *)
(* GameLogic.tla decides when the calls happen.                            *)
(*                                                                         *)
(* Coordinates are doubles in the code.  Here they are members of Place,   *)
(* and the three pieces of arithmetic the game depends on are parameters:  *)
(* where a movement of one tick ends, how far it is, and whether a box is  *)
(* closer than POINT_BOX_COLLECT_DISTANCE to a movement segment.           *)
(***************************************************************************)
EXTENDS Integers, Sequences, FiniteSets

CONSTANTS
  PlayerId,          \* uint32_t ids given by the main process
  VehicleType,       \* PEDESTRIAN, CYCLIST, CAR
  Place,             \* coordinates on the map
  Direction,         \* direction of a movement input
  ZeroDirection,     \* the direction 0.0 a fresh input has
  Move,              \* Move[p, v, d]: where vehicle v is one tick after p
  Speed,             \* Speed[v]: meters vehicle v travels in one tick
  Near,              \* <<b, p, q>>: a box at b is collected on the way p to q
  POINT_BOX_VALUE,
  points_to_win

ASSUME MovementAssumption ==
  /\ ZeroDirection \in Direction
  /\ Move \in [Place \X VehicleType \X Direction -> Place]
  /\ Speed \in [VehicleType -> Nat]
  /\ Near \subseteq Place \X Place \X Place

ASSUME ScoreAssumption ==
  /\ POINT_BOX_VALUE \in Nat \ {0}
  /\ points_to_win \in Nat

-----------------------------------------------------------------------------
(* Teams and players.                                                      *)

Teams == {"red", "blue"}

Input == [move : BOOLEAN, direction : Direction]

Player == [id : PlayerId, vehicle : VehicleType, points : Nat,
           distance : Nat, position : Place, input : Input]

\* A new player stands still at a random place.
NewPlayer(id, vehicle, place) ==
  [id |-> id, vehicle |-> vehicle, points |-> 0, distance |-> 0,
   position |-> place, input |-> [move |-> FALSE, direction |-> ZeroDirection]]

\* <<t, i>> names the i-th player of team t.
Slots(team) == UNION {{t} \X DOMAIN team[t] : t \in Teams}

AddPlayer(team, t, player) == [team EXCEPT ![t] = Append(@, player)]

\* Team::SetPlayerInput stops at the first player of the team with the id.
IsFirst(players, i) ==
  \A j \in 1 .. i - 1 : players[j].id # players[i].id

\* Seeded fault: the loop does not return after the first player.
SetInputOfAll(team, id, input) ==
  [t \in Teams |->
    [i \in DOMAIN team[t] |->
      IF team[t][i].id = id THEN [team[t][i] EXCEPT !.input = input]
                            ELSE team[t][i]]]

SetPlayerInput(team, id, input) ==
  [t \in Teams |->
    [i \in DOMAIN team[t] |->
      IF team[t][i].id = id /\ IsFirst(team[t], i)
      THEN [team[t][i] EXCEPT !.input = input]
      ELSE team[t][i]]]

\* The sum of the points of a team's players.
Score(players) ==
  LET sum[n \in 0 .. Len(players)] ==
        IF n = 0 THEN 0 ELSE sum[n - 1] + players[n].points
  IN  sum[Len(players)]

TeamWon(players) == Score(players) >= points_to_win

-----------------------------------------------------------------------------
(* Movement and the collection of point boxes.  A box lying within reach   *)
(* of several players goes to the first of them in the order in which the  *)
(* code visits players: the red team, then the blue team, each in order of *)
(* arrival.  MovementLoop.tla checks that this is what the nested loops of *)
(* the code, which erase from the vector they iterate over, compute.       *)

NewPosition(player) ==
  IF player.input.move
  THEN Move[player.position, player.vehicle, player.input.direction]
  ELSE player.position

\* Seeded fault: the box is compared with the old position only.
ReachesFromStart(player, place) ==
  <<place, player.position, player.position>> \in Near

Reaches(player, place) ==
  <<place, player.position, NewPosition(player)>> \in Near

Before(u, j, t, i) == \/ u = "red" /\ t = "blue"
                      \/ u = t /\ j < i

\* Seeded fault: everybody in reach collects the box.
CollectsToo(team, t, i, place) == Reaches(team[t][i], place)

Collects(team, t, i, place) ==
  /\ Reaches(team[t][i], place)
  /\ \A u \in Teams : \A j \in DOMAIN team[u] :
       Before(u, j, t, i) => ~Reaches(team[u][j], place)

\* boxes is a function from the boxes on the map to their places.
Collected(team, boxes, t, i) ==
  {b \in DOMAIN boxes : Collects(team, t, i, boxes[b])}

MovedPlayer(team, boxes, t, i) ==
  LET player == team[t][i]
  IN  [player EXCEPT
        !.points   = @ + POINT_BOX_VALUE
                           * Cardinality(Collected(team, boxes, t, i)),
        !.distance = @ + IF player.input.move
                         THEN Speed[player.vehicle] ELSE 0,
        !.position = NewPosition(player)]

CalculateMovement(team, boxes) ==
  [t \in Teams |->
    [i \in DOMAIN team[t] |-> MovedPlayer(team, boxes, t, i)]]

\* Seeded fault: collected boxes are not erased.
BoxesKept(team, boxes) == boxes

BoxesLeft(team, boxes) ==
  LET left == {b \in DOMAIN boxes :
                 \A t \in Teams : \A i \in DOMAIN team[t] :
                   b \notin Collected(team, boxes, t, i)}
  IN  [b \in left |-> boxes[b]]

GeneratePointBox(boxes, b, place) ==
  [c \in DOMAIN boxes \cup {b} |-> IF c = b THEN place ELSE boxes[c]]
=============================================================================
