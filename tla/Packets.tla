------------------------------- MODULE Packets -------------------------------
(***************************************************************************)
(* One message on its way to one receiver: the input of a client           *)
(* application and the game status over UDP, the id of the game and its    *)
(* end over TCP.  The writer fills a table and packs it into a datagram;   *)
(* the receiver has a buffer of some size, loads the datagram and reads    *)
(* the table.  UDP cuts off what the buffer has no room for, and a         *)
(* datagram may reach a receiver it was not meant for.                     *)
(***************************************************************************)
EXTENDS Datagram, Schemas

CONSTANTS
  Message,            \* what may be sent
  UdpClient,          \* the ClientUdp objects an input may meet
  points_to_win

VARIABLES
  message,            \* what the sender means
  packet,             \* the bytes it sent
  receiver,
  room,               \* bytes the receiver's buffer has room for
  understood          \* what the receiver made of them

packetVars == <<message, packet, receiver, room, understood>>

DATAGRAM_PLAYER_INPUT_VER == 101
GAME_STATUS_VER == 100
GAME_ID_VER == 12
GAME_ENDED_VER == 11

Refused == [kind |-> "refused"]
Pending == [kind |-> "pending"]

Receivers == [kind : {"application", "main process"}]
               \cup [kind : {"game process"}, client : UdpClient]

-----------------------------------------------------------------------------
(* The writers.                                                            *)

PlayerGenerateFlatbuffers(player) ==
  LET vehicle == CASE player.vehicle = "CYCLIST" -> Vehicle.Cyclist
                   [] player.vehicle = "CAR" -> Vehicle.Car
                   [] OTHER -> Vehicle.Pedestrian
  IN  CreatePlayer(player.name, player.id, player.points, player.position,
                   vehicle)

TeamScore(players) ==
  MapThenSumSet(LAMBDA i : players[i].points, DOMAIN players)

TeamGenerateFlatbuffers(players) ==
  CreateTeam(TeamScore(players),
             [i \in DOMAIN players |-> PlayerGenerateFlatbuffers(players[i])])

GameGenerateFlatbuffers(m) ==
  LET Won(players) == TeamScore(players) >= points_to_win
  IN  CreateGame(m.sequence,
                 <<TeamGenerateFlatbuffers(m.red),
                   TeamGenerateFlatbuffers(m.blue)>>,
                 [n \in DOMAIN m.boxes |->
                    CreatePointBox(m.boxes[n].position, m.boxes[n].value)],
                 Won(m.red) \/ Won(m.blue))

Table(m) ==
  CASE m.kind = "input" ->
         CreateInput(m.sequence, m.id, FALSE, m.direction, m.move)
    [] m.kind = "status"  -> GameGenerateFlatbuffers(m)
    [] m.kind = "game id" -> CreateFGameId(m.id)
    [] m.kind = "ended"   -> CreateFGameEnded(TRUE)

MockInputDatagram(m) == NewDatagram(101, FALSE, Serialize(Table(m)))
GetGameStatus(m) == NewDatagram(GAME_STATUS_VER, TRUE, Serialize(Table(m)))
TransmitGameId(m) == NewDatagram(12, FALSE, Serialize(Table(m)))
SendGameFinished(m) == NewDatagram(11, FALSE, Serialize(Table(m)))

Written(m) ==
  CASE m.kind = "input"   -> MockInputDatagram(m)
    [] m.kind = "status"  -> GetGameStatus(m)
    [] m.kind = "game id" -> TransmitGameId(m)
    [] m.kind = "ended"   -> SendGameFinished(m)

-----------------------------------------------------------------------------
(* The readers, given a datagram that Load accepts.                        *)

\* ClientUdp::DecodeDatagram of the client c.
DecodeDatagram(c, datagram) ==
  LET input == Input(GetRoot(datagram.payload))
  IN  IF /\ Version(datagram) = DATAGRAM_PLAYER_INPUT_VER
         /\ input.sequence > c.last_sequence
         /\ input.id = c.id
      THEN [kind |-> "input", move |-> input.move,
            direction |-> input.direction, last_sequence |-> input.sequence]
      ELSE Refused

\* DecodeGameStatus prints a summary of what an application would show.
DecodeGameStatus(datagram) ==
  IF Version(datagram) = GAME_STATUS_VER
  THEN [kind |-> "status", game |-> GameOf(GetRoot(datagram.payload))]
  ELSE Refused

\* The main process, which tells the two messages apart by their version.
DecodeReport(datagram) ==
  CASE Version(datagram) = GAME_ID_VER ->
         [kind |-> "game id", id |-> FGameId(GetRoot(datagram.payload)).id]
    [] Version(datagram) = GAME_ENDED_VER ->
         [kind |-> "ended", ended |-> FGameEnded(GetRoot(datagram.payload)).ended]
    [] OTHER -> Refused

Decode(r, datagram) ==
  CASE r.kind = "application"  -> DecodeGameStatus(datagram)
    [] r.kind = "main process" -> DecodeReport(datagram)
    [] r.kind = "game process" -> DecodeDatagram(r.client, datagram)

-----------------------------------------------------------------------------
(* What is sent.                                                           *)

IsSequence(s) == s \in Seq({s[n] : n \in DOMAIN s})

\* The points of players, teams and boxes are integers of 32 bits.
Fits(n) == Int32(n) = n

TeamFits(players) ==
  /\ IsSequence(players)
  /\ Fits(TeamScore(players))
  /\ \A n \in DOMAIN players : Fits(players[n].points)

BoxesFit(boxes) ==
  /\ IsSequence(boxes)
  /\ \A box \in {boxes[n] : n \in DOMAIN boxes} :
       /\ box = [position |-> box.position, value |-> box.value]
       /\ Fits(box.value)

StatusFits(m) == TeamFits(m.red) /\ TeamFits(m.blue) /\ BoxesFit(m.boxes)

ASSUME MessageAssumption ==
  /\ \A m \in Message :
       /\ m.kind \in {"input", "status", "game id", "ended"}
       /\ m.kind = "status" => StatusFits(m)
       /\ m.kind = "game id" => m.id \in 0 .. INT32_MODULUS - 1
       /\ Table(m) \in Tables
  /\ \A t \in Tables :
       LET payload == Serialize(t)
       IN  /\ payload \in Seq(Byte)
           /\ Len(payload) + HeaderLengthOf(TRUE) < LENGTH_MODULUS
           /\ Len(payload) <= FLATBUFFERS_MAX_BUFFER_SIZE

-----------------------------------------------------------------------------

PacketSent(m) ==
  /\ message = m
  /\ packet = Get(Written(m))
  /\ receiver \in Receivers
  /\ room \in DOMAIN packet
  /\ understood = Pending

ReceivePacket ==
  /\ understood = Pending
  /\ LET bytes == SubSeq(packet, 1, room)
     IN  understood' = IF Loads(bytes) THEN Decode(receiver, Load(bytes))
                                       ELSE Refused
  /\ UNCHANGED <<message, packet, receiver, room>>

PacketSpec ==
  (\E m \in Message : PacketSent(m)) /\ [][ReceivePacket]_packetVars

-----------------------------------------------------------------------------
(* Properties.                                                             *)

SameVehicle(shown, vehicle) ==
  shown = CASE vehicle = "CYCLIST" -> 1 [] vehicle = "CAR" -> 2 [] OTHER -> 0

TeamShown(shown, players) ==
  /\ Len(shown.players) = Len(players)
  /\ shown.points = TeamScore(players)
  /\ \A i \in DOMAIN players :
       LET s == shown.players[i]
       IN  /\ s.id = players[i].id /\ s.name = players[i].name
           /\ s.points = players[i].points
           /\ s.position = players[i].position
           /\ SameVehicle(s.vehicle, players[i].vehicle)

StatusShown(shown, m) ==
  /\ shown.sequence = m.sequence
  /\ TeamShown(shown.teams[1], m.red) /\ TeamShown(shown.teams[2], m.blue)
  /\ shown.boxes = m.boxes
  /\ shown.finished <=>
       \E t \in {1, 2} : shown.teams[t].points >= points_to_win

MeantFor(m, r) ==
  CASE r.kind = "application"  -> m.kind = "status"
    [] r.kind = "main process" -> m.kind \in {"game id", "ended"}
    [] r.kind = "game process" -> /\ m.kind = "input"
                                  /\ m.id = r.client.id
                                  /\ m.sequence > r.client.last_sequence

AsMeant(m, u) ==
  /\ u.kind = m.kind
  /\ CASE u.kind = "input"   -> /\ u.last_sequence = m.sequence
                                /\ u.move = m.move
                                /\ u.direction = m.direction
       [] u.kind = "status"  -> StatusShown(u.game, m)
       [] u.kind = "game id" -> u.id % INT32_MODULUS = m.id
       [] u.kind = "ended"   -> u.ended

\* A receiver takes a datagram exactly when it is meant for it and has
\* arrived as a whole: one that was cut off, a game status larger than the
\* buffer of the application, is refused and never read in part, and so is
\* the datagram of another version or client.  What it reads is what the
\* sender meant, fields that equal their default and are not sent included,
\* and a game id that has become negative on the way names the same game.
PacketsUnderstood ==
  understood # Pending =>
    IF MeantFor(message, receiver) /\ room = Len(packet)
    THEN understood # Refused /\ AsMeant(message, understood)
    ELSE understood = Refused
=============================================================================
