------------------------------- MODULE Geometry -------------------------------
(***************************************************************************)
(* When a box is close enough to a movement to be collected:               *)
(* PointBoxDistance and the conversions to meters of game_logic/game.cpp,  *)
(* on integers.  The code compares the root of a quotient with a constant; *)
(* here both sides are squared and multiplied by the divisor, which is the *)
(* same for real numbers.  Rounding is left out.                           *)
(***************************************************************************)
EXTENDS Integers

CONSTANTS
  POINT_BOX_COLLECT_DISTANCE,
  MetersPerLatitude,     \* 111320.0
  MetersPerLongitude     \* EARTH_CIRCUMFERENCE * cos(latitude) / 360, by latitude

LatitudeToMeters(latitude) == latitude * MetersPerLatitude

LongitudeToMeters(longitude, latitude) == MetersPerLongitude[latitude] * longitude

\* The vector from q to p in meters.
Difference(p, q) ==
  [x |-> LongitudeToMeters(p.longitude, p.latitude)
           - LongitudeToMeters(q.longitude, q.latitude),
   y |-> LatitudeToMeters(p.latitude) - LatitudeToMeters(q.latitude)]

Dot(u, v) == u.x * v.x + u.y * v.y

\* The distance of two points is less than the one at which boxes are
\* collected.
Close(u) == Dot(u, u) < POINT_BOX_COLLECT_DISTANCE * POINT_BOX_COLLECT_DISTANCE

\* Seeded fault: the ends of the segment are confused.
PointBoxNearEndsSwapped(box, old_position, new_position) ==
  LET a == Difference(box, old_position)
      c == Difference(new_position, old_position)
      len_sq == Dot(c, c)
      dot == Dot(a, c)
      scaled == [x |-> a.x * len_sq - dot * c.x, y |-> a.y * len_sq - dot * c.y]
      d == POINT_BOX_COLLECT_DISTANCE * len_sq
  IN  CASE len_sq = 0 \/ dot < 0 -> Close(Difference(box, new_position))
        [] len_sq # 0 /\ dot > len_sq -> Close(Difference(box, old_position))
        [] OTHER -> Dot(scaled, scaled) < d * d

\* PointBoxDistance < POINT_BOX_COLLECT_DISTANCE: the nearest point of the
\* segment is one of its ends or the projection of the box onto it.  A
\* player who stands still has a segment of length 0, and then the quotient
\* is not computed.
PointBoxNear(box, old_position, new_position) ==
  LET a == Difference(box, old_position)
      c == Difference(new_position, old_position)
      len_sq == Dot(c, c)
      dot == Dot(a, c)
      scaled == [x |-> a.x * len_sq - dot * c.x, y |-> a.y * len_sq - dot * c.y]
      d == POINT_BOX_COLLECT_DISTANCE * len_sq
  IN  CASE len_sq = 0 \/ dot < 0 -> Close(a)
        [] len_sq # 0 /\ dot > len_sq -> Close(Difference(box, new_position))
        [] OTHER -> Dot(scaled, scaled) < d * d
=============================================================================
