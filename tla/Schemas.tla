------------------------------- MODULE Schemas -------------------------------
(***************************************************************************)
(* The FlatBuffers tables of the messages (the *_generated.h under inc/).  *)
(* A finished table is the function from the fields it holds to their      *)
(* values: a scalar equal to its default is not written, and its accessor  *)
(* returns the default.  How a table becomes bytes is the library's:       *)
(* Serialize and GetRoot are parameters.                                   *)
(***************************************************************************)
EXTENDS Integers, Sequences

CONSTANTS
  INT32_MODULUS,      \* 2^32: what remains of an integer in an int32_t
  Tables,             \* the root tables that are serialized
  Serialize(_)        \* FlatBufferBuilder: the bytes of a finished table

ASSUME SerializeAssumption ==
  /\ INT32_MODULUS \in Nat \ {0}
  /\ \A t, u \in Tables : Serialize(t) = Serialize(u) => t = u

\* A FlatBufferBuilder makes no buffer of 2^31 bytes.
FLATBUFFERS_MAX_BUFFER_SIZE == 2147483647

GetRoot(bytes) == CHOOSE t \in Tables : Serialize(t) = bytes

\* The integer of 32 bits with a sign that an integer is converted to.
Int32(n) ==
  ((n + (INT32_MODULUS \div 2)) % INT32_MODULUS) - (INT32_MODULUS \div 2)

Empty == << >>

With(table, field, value) ==
  [f \in DOMAIN table \cup {field} |-> IF f = field THEN value ELSE table[f]]

AddElement(table, field, value, default) ==
  IF value = default THEN table ELSE With(table, field, value)

GetField(table, field, default) ==
  IF field \in DOMAIN table THEN table[field] ELSE default

\* Strings, structs, vectors and other tables, which every writer here adds.
AddOffset(table, field, child) == With(table, field, child)
GetPointer(table, field) == table[field]

-----------------------------------------------------------------------------
(* game.fbs: the player list that the main process sends.                  *)

FVehicleType == [Pedestrian |-> 0, Cyclist |-> 1, Car |-> 2]

CreateFVehicle(vehicleType) ==
  AddElement(Empty, "vehicleType", vehicleType, FVehicleType.Pedestrian)

FVehicle(table) == [vehicleType |-> GetField(table, "vehicleType", 0)]

CreateFClient(name, id, ipAddress, port, vehicle) ==
  LET t1 == AddOffset(Empty, "vehicle", vehicle)
      t2 == AddElement(t1, "port", port, 0)
      t3 == AddOffset(t2, "ipAddress", ipAddress)
      t4 == AddElement(t3, "id", id, 0)
  IN  AddOffset(t4, "name", name)

FClient(table) ==
  [name |-> GetPointer(table, "name"), id |-> GetField(table, "id", 0),
   ipAddress |-> GetPointer(table, "ipAddress"),
   port |-> GetField(table, "port", 0),
   vehicle |-> FVehicle(GetPointer(table, "vehicle"))]

CreateFTeam(clients) == AddOffset(Empty, "clients", clients)

FTeam(table) ==
  LET clients == GetPointer(table, "clients")
  IN  [clients |-> [i \in DOMAIN clients |-> FClient(clients[i])]]

CreateFGame(id, teams) ==
  AddElement(AddOffset(Empty, "teams", teams), "id", id, 0)

FGame(table) ==
  LET teams == GetPointer(table, "teams")
  IN  [id |-> GetField(table, "id", 0),
       teams |-> [i \in DOMAIN teams |-> FTeam(teams[i])]]

-----------------------------------------------------------------------------
(* game_id.fbs and game_ended.fbs: what the game process tells the main    *)
(* process.                                                                *)

CreateFGameId(id) == AddElement(Empty, "id", Int32(id), 0)
FGameId(table) == [id |-> GetField(table, "id", 0)]

CreateFGameEnded(ended) == AddElement(Empty, "ended", ended, FALSE)
FGameEnded(table) == [ended |-> GetField(table, "ended", FALSE)]

-----------------------------------------------------------------------------
(* player_input.fbs: what a client application sends.                      *)

CreateInput(sequence, id, disconnect, direction, move) ==
  LET t1 == AddElement(Empty, "sequence", sequence, 0)
      t2 == AddElement(t1, "direction", direction, 0)
      t3 == AddElement(t2, "id", id, 0)
      t4 == AddElement(t3, "move", move, FALSE)
  IN  AddElement(t4, "disconnect", disconnect, FALSE)

Input(table) ==
  [sequence |-> GetField(table, "sequence", 0),
   id |-> GetField(table, "id", 0),
   disconnect |-> GetField(table, "disconnect", FALSE),
   direction |-> GetField(table, "direction", 0),
   move |-> GetField(table, "move", FALSE)]

-----------------------------------------------------------------------------
(* game_status.fbs: what the game process sends to every client.           *)

Vehicle == [Pedestrian |-> 0, Cyclist |-> 1, Car |-> 2]

CreatePlayer(name, id, points, position, vehicle) ==
  LET t1 == AddOffset(Empty, "position", position)
      t2 == AddElement(t1, "points", Int32(points), 0)
      t3 == AddElement(t2, "id", id, 0)
      t4 == AddOffset(t3, "name", name)
  IN  AddElement(t4, "vehicle", vehicle, 0)

PlayerOf(table) ==
  [name |-> GetPointer(table, "name"), id |-> GetField(table, "id", 0),
   points |-> GetField(table, "points", 0),
   position |-> GetPointer(table, "position"),
   vehicle |-> GetField(table, "vehicle", 0)]

CreateTeam(points, players) ==
  AddElement(AddOffset(Empty, "players", players), "points", Int32(points), 0)

TeamOf(table) ==
  LET players == GetPointer(table, "players")
  IN  [points |-> GetField(table, "points", 0),
       players |-> [i \in DOMAIN players |-> PlayerOf(players[i])]]

CreatePointBox(position, value) ==
  AddElement(AddOffset(Empty, "position", position), "value", Int32(value), 0)

PointBoxOf(table) ==
  [position |-> GetPointer(table, "position"),
   value |-> GetField(table, "value", 0)]

\* Seeded fault: the flag is written as if it were TRUE by default.
CreateGameOver(sequence, teams, boxes, finished) ==
  LET t1 == AddElement(Empty, "sequence", sequence, 0)
      t2 == AddOffset(t1, "boxes", boxes)
      t3 == AddOffset(t2, "teams", teams)
  IN  AddElement(t3, "finished", finished, TRUE)

CreateGame(sequence, teams, boxes, finished) ==
  LET t1 == AddElement(Empty, "sequence", sequence, 0)
      t2 == AddOffset(t1, "boxes", boxes)
      t3 == AddOffset(t2, "teams", teams)
  IN  AddElement(t3, "finished", finished, FALSE)

GameOf(table) ==
  LET teams == GetPointer(table, "teams")
      boxes == GetPointer(table, "boxes")
  IN  [sequence |-> GetField(table, "sequence", 0),
       teams |-> [i \in DOMAIN teams |-> TeamOf(teams[i])],
       boxes |-> [i \in DOMAIN boxes |-> PointBoxOf(boxes[i])],
       finished |-> GetField(table, "finished", FALSE)]
=============================================================================
