------------------------ MODULE MCClientCommunication ------------------------
(***************************************************************************)
(* One or two clients behind one address.                                  *)
(***************************************************************************)
EXTENDS ClientCommunication

CONSTANTS p1, p2

MCMove == [m \in Place \X VehicleType \X Direction |-> m[1]]
MCSpeed == [v \in VehicleType |-> 0]

MCClient(id, t) == [id |-> id, ip |-> "nat", port |-> 1,
                    vehicle |-> "bike", team |-> t]

\* The announced port is 1; what lies between shows another one for p1.
MCSources ==
  [id \in PlayerId |->
    {[ip |-> "nat", port |-> IF id = p1 THEN 2 ELSE 1]}]

MCOneClient == {<<MCClient(p1, "red")>>}
MCTwoClients == {<<MCClient(p1, "red"), MCClient(p2, "blue")>>}

\* A list may announce one more client of a team, or one again, and may come
\* first or last.
MCAnyList == MCTwoClients \cup {<<MCClient(p2, "red")>>}
=============================================================================
