----------------------------- MODULE MCGameLogic -----------------------------
(***************************************************************************)
(* Small instances of GameLogic: a ring of MCLength places, on which a     *)
(* vehicle advances by its speed, and a box is collected by whoever passes *)
(* or stands on its place.                                                 *)
(***************************************************************************)
EXTENDS GameLogic

CONSTANTS p1, p2, MCLength

MCSymmetry == Permutations(PlayerId)

MCPlace == 0 .. MCLength - 1
MCSpeed == [v \in VehicleType |-> IF v = "car" THEN 2 ELSE 1]

MCMove == [m \in MCPlace \X VehicleType \X Direction |->
             (m[1] + MCSpeed[m[2]]) % MCLength]

\* The places a vehicle comes past on its way from p to q, both included.
MCPassed(p, q) == {(p + k) % MCLength : k \in 0 .. (q - p) % MCLength}

MCNear == {n \in MCPlace \X MCPlace \X MCPlace : n[1] \in MCPassed(n[2], n[3])}
=============================================================================
