---------------------------- MODULE MovementLoop ----------------------------
(***************************************************************************)
(* The nested loops of Game::CalculateMovement, CalculatePlayerMovement    *)
(* and CheckForPointBox, one iteration per step.  The code erases boxes    *)
(* from the vector it iterates over and steps the index back.  Game.tla    *)
(* states in closed form what the loops compute; this module checks it.    *)
(***************************************************************************)
EXTENDS Game, SequencesExt

CONSTANTS
  StartTeam,     \* the pairs of teams a movement may start from
  StartBoxes     \* the vectors of boxes it may start from

\* A box and its serial number, which point_boxes_ keeps in order: boxes are
\* spawned at its end.
Box == [serial : Nat, position : Place]

InOrder(vector) ==
  \A m, n \in DOMAIN vector : m < n => vector[m].serial < vector[n].serial

ASSUME LoopAssumption ==
  /\ StartTeam \subseteq [Teams -> Seq(Player)]
  /\ \A vector \in StartBoxes : vector \in Seq(Box) /\ InOrder(vector)

VARIABLES
  teamBefore,    \* the teams when CalculateMovement was called
  boxesBefore,   \* point_boxes_ when it was called
  team,
  boxes,         \* point_boxes_, a vector of [serial, position]
  current,       \* team whose players are visited
  i,             \* player visited
  k,             \* box visited
  score,         \* points the visited player has collected so far
  pc

vars == <<teamBefore, boxesBefore, team, boxes, current, i, k, score, pc>>

Init ==
  /\ teamBefore \in StartTeam
  /\ boxesBefore \in StartBoxes
  /\ team = teamBefore
  /\ boxes = boxesBefore
  /\ current = "red"
  /\ i = 1
  /\ k = 1
  /\ score = 0
  /\ pc = "player"

-----------------------------------------------------------------------------

\* CheckForPointBox starts with the first box and no points.
StartPlayer ==
  /\ pc = "player"
  /\ i <= Len(team[current])
  /\ k' = 1
  /\ score' = 0
  /\ pc' = "boxes"
  /\ UNCHANGED <<teamBefore, boxesBefore, team, boxes, current, i>>

BoxReached == Reaches(team[current][i], boxes[k].position)

\* Seeded fault: no i-- after the erase.
CollectBoxSkipping ==
  /\ pc = "boxes"
  /\ k <= Len(boxes)
  /\ BoxReached
  /\ score' = score + POINT_BOX_VALUE
  /\ boxes' = RemoveAt(boxes, k)
  /\ k' = k + 1
  /\ UNCHANGED <<teamBefore, boxesBefore, team, current, i, pc>>

\* Seeded fault: the last box takes the place of the one removed.
CollectBoxSwapping ==
  /\ pc = "boxes"
  /\ k <= Len(boxes)
  /\ BoxReached
  /\ score' = score + POINT_BOX_VALUE
  /\ boxes' = Front([boxes EXCEPT ![k] = Last(boxes)])
  /\ k' = k
  /\ UNCHANGED <<teamBefore, boxesBefore, team, current, i, pc>>

\* erase(begin() + i); i--; and then the i++ of the loop.
CollectBox ==
  /\ pc = "boxes"
  /\ k <= Len(boxes)
  /\ BoxReached
  /\ score' = score + POINT_BOX_VALUE
  /\ boxes' = RemoveAt(boxes, k)
  /\ k' = k
  /\ UNCHANGED <<teamBefore, boxesBefore, team, current, i, pc>>

\* Seeded fault: the i-- is outside the condition.
PassBoxStuck ==
  /\ pc = "boxes"
  /\ k <= Len(boxes)
  /\ ~BoxReached
  /\ k' = k
  /\ UNCHANGED <<teamBefore, boxesBefore, team, boxes, current, i, score, pc>>

PassBox ==
  /\ pc = "boxes"
  /\ k <= Len(boxes)
  /\ ~BoxReached
  /\ k' = k + 1
  /\ UNCHANGED <<teamBefore, boxesBefore, team, boxes, current, i, score, pc>>

\* AddDistanceTraveled, AddPoints and SetPosition, then the next player.
EndPlayer ==
  /\ pc = "boxes"
  /\ k > Len(boxes)
  /\ team' = [team EXCEPT ![current][i] =
       [team[current][i] EXCEPT
          !.points = @ + score,
          !.distance = @ + IF team[current][i].input.move
                           THEN Speed[team[current][i].vehicle] ELSE 0,
          !.position = NewPosition(team[current][i])]]
  /\ i' = i + 1
  /\ pc' = "player"
  /\ UNCHANGED <<teamBefore, boxesBefore, boxes, current, k, score>>

BlueTeamNext ==
  /\ pc = "player"
  /\ i > Len(team[current])
  /\ current = "red"
  /\ current' = "blue"
  /\ i' = 1
  /\ UNCHANGED <<teamBefore, boxesBefore, team, boxes, k, score, pc>>

Return ==
  /\ pc = "player"
  /\ i > Len(team[current])
  /\ current = "blue"
  /\ pc' = "done"
  /\ UNCHANGED <<teamBefore, boxesBefore, team, boxes, current, i, k, score>>

Next ==
  \/ StartPlayer
  \/ CollectBox
  \/ PassBox
  \/ EndPlayer
  \/ BlueTeamNext
  \/ Return

Spec == Init /\ [][Next]_vars /\ WF_vars(Next)

-----------------------------------------------------------------------------
(* Properties.                                                             *)

\* A vector of boxes as the function the operators of Game.tla take.
AsFunction(vector) ==
  [s \in {vector[n].serial : n \in DOMAIN vector} |->
    (CHOOSE b \in ToSet(vector) : b.serial = s).position]

\* The loops compute what CalculateMovement and BoxesLeft say: erasing while
\* iterating skips no box and counts none twice, and players are served in
\* order, the red team first.
LoopsComputeMovement ==
  pc = "done" =>
    /\ team = CalculateMovement(teamBefore, AsFunction(boxesBefore))
    /\ AsFunction(boxes) = BoxesLeft(teamBefore, AsFunction(boxesBefore))

\* The boxes that are left keep the order in which they were spawned, which
\* is the order in which the status lists them.
OrderKept == InOrder(boxes)

\* The index is int64_t so that stepping back from the first box is legal,
\* and it never runs past the shrinking vector: the loops end.
LoopsEnd == <>(pc = "done")
=============================================================================
