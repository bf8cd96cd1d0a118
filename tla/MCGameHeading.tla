---------------------------- MODULE MCGameHeading ----------------------------
(***************************************************************************)
(* GameLogic on a small torus of longitudes and latitudes with quarter     *)
(* turns as directions, for which cos and sin are exact.                   *)
(***************************************************************************)
EXTENDS GameLogic

CONSTANTS p1, MCLength

MCDirection == 0 .. 3     \* direction / (M_PI / 2)

Cosine == [d \in MCDirection |-> CASE d = 0 -> 1 [] d = 2 -> -1 [] OTHER -> 0]
Sine   == [d \in MCDirection |-> CASE d = 1 -> 1 [] d = 3 -> -1 [] OTHER -> 0]

MCPlace == [longitude : 0 .. MCLength - 1, latitude : 0 .. MCLength - 1]
MCSpeed == [v \in VehicleType |-> 1]

\* CalculatePlayerMovement: dx = distance * cos(direction) is added to the
\* longitude, dy = distance * sin(direction) to the latitude.
QuarterTurnMove(place, v, d) ==
  [longitude |-> (place.longitude + MCSpeed[v] * Cosine[d]) % MCLength,
   latitude  |-> (place.latitude  + MCSpeed[v] * Sine[d]) % MCLength]

MCMove == [m \in MCPlace \X VehicleType \X MCDirection |->
             QuarterTurnMove(m[1], m[2], m[3])]

\* "direction in radians (0 is north)" (inc/player_input.h:12): a player
\* whose input has direction 0 keeps its longitude and gains latitude.
ZeroIsNorth ==
  [][serialization_seq_num' # serialization_seq_num =>
       \A t \in Teams : \A i \in DOMAIN team[t] :
         LET before == team[t][i].position
             after  == team'[t][i].position
         IN  (team[t][i].input.move /\ team[t][i].input.direction = 0) =>
               /\ after.longitude = before.longitude
               /\ after.latitude = (before.latitude + 1) % MCLength]_vars
=============================================================================
