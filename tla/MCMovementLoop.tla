--------------------------- MODULE MCMovementLoop ---------------------------
(***************************************************************************)
(* All teams of at most two red and one blue player and all vectors of at  *)
(* most three boxes on four places of two latitudes, with the geometry of  *)
(* PointBoxDistance.  Movements go east, back across the places in between,*)
(* and from one latitude to the other.                                     *)
(***************************************************************************)
EXTENDS BoxCollection

CONSTANT p1

At(longitude, latitude) == [longitude |-> longitude, latitude |-> latitude]

MCPlace == {At(0, 0), At(1, 0), At(2, 0), At(1, 1)}
MCMetersPerLongitude == [latitude \in {0, 1} |-> IF latitude = 0 THEN 3 ELSE 2]
MCSpeed == [v \in VehicleType |-> 1]
MCMove ==
  [m \in MCPlace \X VehicleType \X Direction |->
     CASE m[1] = At(0, 0) -> At(1, 0) [] m[1] = At(1, 0) -> At(1, 1)
       [] m[1] = At(1, 1) -> At(2, 0) [] m[1] = At(2, 0) -> At(0, 0)]

MCNear == {n \in MCPlace \X MCPlace \X MCPlace :
             PointBoxNear(n[1], n[2], n[3])}

MCPlayer ==
  {[NewPlayer(p1, v, place) EXCEPT !.input.move = m] :
     v \in VehicleType, place \in MCPlace, m \in BOOLEAN}

MCStartTeam ==
  {[t \in Teams |-> IF t = "red" THEN r ELSE b] :
     r \in BoundedSeq(MCPlayer, 2), b \in BoundedSeq(MCPlayer, 1)}

MCStartBoxes ==
  {[n \in 1 .. Len(s) |-> [serial |-> n, position |-> s[n]]] :
     s \in BoundedSeq(MCPlace, 3)}
=============================================================================
