---------------------------- MODULE BoxCollection ----------------------------
(***************************************************************************)
(* The loops over players and boxes with the geometry of PointBoxDistance: *)
(* what Game.tla leaves open as Near is computed here.                     *)
(***************************************************************************)
EXTENDS MovementLoop, Geometry

ASSUME PlaceAssumption ==
  /\ \A p \in Place : /\ {p.longitude, p.latitude} \subseteq Int
                      /\ MetersPerLongitude[p.latitude] \in Int
  /\ MetersPerLatitude \in Int
  /\ POINT_BOX_COLLECT_DISTANCE \in Nat
  /\ Near = {n \in Place \X Place \X Place : PointBoxNear(n[1], n[2], n[3])}

\* Whatever way a movement takes, no box is left that is close to where a
\* player was or to where it is now (PointBoxDistance clamps the projection
\* to the segment, and has a case of its own for a player who stands still).
NothingCloseLeft ==
  pc = "done" =>
    \A n \in DOMAIN boxes : \A t \in Teams : \A j \in DOMAIN team[t] :
      /\ ~Close(Difference(boxes[n].position, teamBefore[t][j].position))
      /\ ~Close(Difference(boxes[n].position, team[t][j].position))
=============================================================================
