--------------------------- MODULE MainProcessLink ---------------------------
(***************************************************************************)
(* The way of a player list from the main process to LoadClients           *)
(* (main_process_comm/main_process_comm.cpp): serialized, packed into a    *)
(* datagram, sent over TCP amid other bytes, read in chunks, found by      *)
(* DatagramStream, checked and read.  This is DatagramStream with the real *)
(* header, composed with the code on both sides of it.  The sender is the  *)
(* one of main_process_communication_mocker; a bit of a datagram may be    *)
(* damaged on the way, which is what the checksums are there for.          *)
(***************************************************************************)
EXTENDS Datagram, Schemas

CONSTANTS
  PlayerList,         \* the lists the main process may announce
  Before, After,      \* bytes it sends around a datagram
  DamagedBit,         \* which bit of a byte may be damaged
  ReadSize,           \* how many bytes one read may return
  MaxBytes            \* bound: length of the stream

VARIABLES
  wire,               \* bytes sent and not yet read
  announced,          \* history: what each list sent means
  loaded,             \* history: the calls LoadClients made for each list
  state, buffer, header_length, payload_length, handler, received, skipped,
  delivered           \* the variables of DatagramStream

linkVars == <<wire, announced, loaded, state, buffer, header_length,
              payload_length, handler, received, skipped, delivered>>
streamVars == <<state, buffer, header_length, payload_length, handler,
                received, skipped, delivered>>

GAME_CLIENTS_VERSION == 10

Stream == INSTANCE DatagramStream WITH
  LOWER         <- BEGIN_SEQUENCE[1],
  UPPER         <- BEGIN_SEQUENCE[2],
  HEADER_SHORT  <- HeaderLengthOf(FALSE),
  HEADER_LONG   <- HeaderLengthOf(TRUE),
  IsLong        <- ChecksumIncluded,
  PayloadLength <- LengthField,
  ChecksumOk    <- HeaderChecksumCorrect,
  Chunk         <- Seq(Byte) \ {<< >>}

-----------------------------------------------------------------------------
(* The main process.                                                       *)

PlayerListTable(list) ==
  LET client(c) == CreateFClient(c.name, c.id, c.ip, c.port,
                                 CreateFVehicle(c.vehicle))
      team(t) == CreateFTeam([i \in DOMAIN t |-> client(t[i])])
  IN  CreateFGame(55555, [k \in DOMAIN list.teams |-> team(list.teams[k])])

MockPlayerListDatagram(list) ==
  NewDatagram(list.version, TRUE, Serialize(PlayerListTable(list)))

VehicleTypeOf(vehicle) ==
  CASE vehicle = FVehicleType.Cyclist -> "CYCLIST"
    [] vehicle = FVehicleType.Car -> "CAR"
    [] OTHER -> "PEDESTRIAN"

Datagrams == [list \in PlayerList |-> Get(MockPlayerListDatagram(list))]

\* The calls a list asks for: the first team plays red, the second blue.
Meant(list) ==
  LET player(c, is_red) ==
        [name |-> c.name, id |-> c.id, vehicle |-> VehicleTypeOf(c.vehicle),
         ip |-> c.ip, port |-> c.port, is_red |-> is_red]
      team(k) == [i \in DOMAIN list.teams[k] |->
                    player(list.teams[k][i], k = 1)]
  IN  team(1) \o team(2)

Loadable(list) ==
  list.version = GAME_CLIENTS_VERSION /\ Len(list.teams) >= 2

Flip(bytes, n, bit) == [bytes EXCEPT ![n] = Xor(@, {bit})]

Send(list, datagram, damaged) ==
  /\ wire' = wire \o Before \o datagram \o After
  /\ announced' =
       IF Loadable(list)
       THEN Append(announced, [list |-> Meant(list), damaged |-> damaged])
       ELSE announced
  /\ UNCHANGED <<loaded, streamVars>>

Sent == Len(received) + Len(wire)

SendPlayerList(list) ==
  LET datagram == Datagrams[list]
  IN  /\ Sent + Len(Before) + Len(datagram) + Len(After) <= MaxBytes
      /\ \/ Send(list, datagram, FALSE)
         \/ /\ \A k \in DOMAIN announced : ~announced[k].damaged
            /\ Loadable(list)
            /\ \E n \in DOMAIN datagram, bit \in DamagedBit :
                 Send(list, Flip(datagram, n, bit), TRUE)

-----------------------------------------------------------------------------
(* What is assumed of the parameters.                                      *)

IsList(s) == s \in Seq({s[n] : n \in DOMAIN s})

ASSUME LinkAssumption ==
  /\ MaxBytes \in Nat /\ ReadSize \subseteq Nat \ {0}
  /\ DamagedBit \subseteq 0 .. CHAR_BIT - 1

\* Version and length of a list fit their fields.
ASSUME PlayerListAssumption ==
  \A list \in PlayerList :
    /\ list.version \in 0 .. 255 /\ IsList(list.teams)
    /\ PlayerListTable(list) \in Tables
    /\ LET payload == Serialize(PlayerListTable(list))
       IN  /\ payload \in Seq(Byte)
           /\ Len(payload) + HeaderLengthOf(TRUE) < LENGTH_MODULUS
           /\ Len(payload) <= FLATBUFFERS_MAX_BUFFER_SIZE

\* The bytes around datagrams hold no begin sequence and begin none.
ASSUME AroundAssumption ==
  /\ Before \in Seq(Byte) /\ After \in Seq(Byte)
  /\ LET around == After \o Before \o <<BEGIN_SEQUENCE[2]>>
     IN  \A n \in 1 .. Len(around) - 1 :
           ~(around[n] = BEGIN_SEQUENCE[1] /\ around[n + 1] = BEGIN_SEQUENCE[2])

\* What the checksum of 16 bits cannot exclude: a damaged header makes the
\* stream look for the next one inside the datagram, and without its flag it
\* is taken for a shorter one.  Nothing found so may pass for a header.
HeaderAt(bytes, m) ==
  LET rest == SubSeq(bytes, m, Len(bytes))
  IN  /\ Len(rest) >= HeaderLengthOf(FALSE)
      /\ Stream!BeginsDatagram(rest)
      /\ Len(rest) >= Stream!HeaderLength(rest)
      /\ Stream!HeaderCorrect(rest, Stream!HeaderLength(rest))

ASSUME DamageAssumption ==
  \A list \in PlayerList : Loadable(list) =>
    \A n \in 1 .. HeaderLengthOf(TRUE), bit \in DamagedBit :
      LET damaged == Flip(Datagrams[list], n, bit)
          seen == damaged \o After \o Before
      IN  \A next \in {<< >>} \cup {Datagrams[l] : l \in PlayerList} :
            \A m \in 1 .. Len(seen) :
              (m = 1 => ~ChecksumIncluded(damaged)) => ~HeaderAt(seen \o next, m)

-----------------------------------------------------------------------------
(* The game process: StartReceive, its handler, and LoadClients.           *)

\* The players of one datagram, in the order of AddClient and AddPlayer.
ClientsIn(game) ==
  LET player(c, i) ==
        [name |-> c.name, id |-> c.id,
         vehicle |-> VehicleTypeOf(c.vehicle.vehicleType),
         ip |-> c.ipAddress, port |-> c.port, is_red |-> i = 1]
      team(i) == [k \in DOMAIN game.teams[i].clients |->
                    player(game.teams[i].clients[k], i)]
  IN  team(1) \o team(2)

\* Seeded fault: the version is not looked at.
LoadClientsOfAny(datagram) ==
  \E game \in {FGame(GetRoot(datagram.payload))} :
      IF Len(game.teams) < 2
      THEN UNCHANGED loaded
      ELSE loaded' = Append(loaded, ClientsIn(game))

LoadClients(datagram) ==
  \E game \in {FGame(GetRoot(datagram.payload))} :
      IF Version(datagram) # GAME_CLIENTS_VERSION \/ Len(game.teams) < 2
      THEN UNCHANGED loaded
      ELSE loaded' = Append(loaded, ClientsIn(game))

ReadSome(n) ==
  LET k == Min({n, Len(wire)})
  IN  /\ wire # << >>
      /\ Stream!AddData(SubSeq(wire, 1, k))
      /\ wire' = SubSeq(wire, k + 1, Len(wire))
      /\ UNCHANGED <<announced, loaded>>

\* FlushData returned true: the handler looks at the datagram it loaded.
HandleDatagram ==
  /\ Stream!LoadDatagram
  /\ \E bytes \in {delivered'[Len(delivered')]} :
       \E datagram \in {Load(bytes)} :
         IF PayloadCorrectness(datagram) THEN LoadClients(datagram)
                                         ELSE UNCHANGED loaded
  /\ UNCHANGED <<wire, announced>>

SearchDatagram ==
  /\ \/ Stream!Incomplete
     \/ Stream!ScanFound \/ Stream!ScanNotFound \/ Stream!ScanEmpty
     \/ Stream!ReadFlag \/ Stream!AcceptHeader \/ Stream!RejectHeader
  /\ UNCHANGED <<wire, announced, loaded>>

Receive == (\E n \in ReadSize : ReadSome(n)) \/ SearchDatagram \/ HandleDatagram

LinkInit ==
  /\ wire = << >>
  /\ announced = << >>
  /\ loaded = << >>
  /\ Stream!Init

LinkNext == Receive \/ \E list \in PlayerList : SendPlayerList(list)

\* What was sent arrives, and the handler runs until it reads again: weak
\* fairness of Receive, what enables it written out, so that TLC need not
\* compute checksums to find out.
LinkFairness ==
  []<>~(handler = "flushing" \/ wire # << >>) \/ []<><<Receive>>_linkVars

-----------------------------------------------------------------------------
(* Properties.                                                             *)

Lists == INSTANCE PlayerLists WITH
  List <- {Meant(list) : list \in {l \in PlayerList : Loadable(l)}}

\* The main process announces the players over a byte stream that is cut
\* anywhere and carries other bytes too (StartReceive, FlushData, Load,
\* LoadClients).  Each list is loaded, once, in order, with the players,
\* teams and vehicles it was meant to have, however it is cut; one damaged
\* bit costs at most the list it is in, never the next one, and never gives
\* a player nobody announced.
ListsLoaded == Lists!Spec
=============================================================================
