------------------------- MODULE ClientCommunication -------------------------
(***************************************************************************)
(* ClientCommunication and ClientUdp (client_communication/) between the   *)
(* UDP network, the main-process thread that announces clients, and the    *)
(* players of the game.                                                    *)
(*                                                                         *)
(* The client thread runs one handler at a time, and the receive handler   *)
(* holds clients_mutex_ throughout, so it is one action: only AddPlayer    *)
(* may come between two of its calls of SetPlayerMovement, and then the    *)
(* result is that of AddPlayer coming first.  The transmit handler takes   *)
(* the two mutexes one after the other and is two actions.  Ticks of the   *)
(* game change neither the inputs nor who plays and are left out.          *)
(***************************************************************************)
EXTENDS Game

CONSTANTS
  Address, Port,
  Sources,         \* the endpoints each application may send from
  Announcements,   \* the lists of clients the main process may send
  MaxAnnounced,    \* bound: clients in the lists sent
  MaxSequence,     \* bound: inputs a client numbers
  MaxRestarts      \* bound: restarts of client applications

Endpoint == [ip : Address, port : Port]

\* FClient in the order of FGame: the clients of the red team come first.
Announced == [id : PlayerId, ip : Address, port : Port,
              vehicle : VehicleType, team : Teams]

ASSUME ClientAssumption ==
  /\ Announcements \subseteq Seq(Announced)
  /\ Sources \in [PlayerId -> SUBSET Endpoint]
  /\ {MaxAnnounced, MaxSequence, MaxRestarts} \subseteq Nat

VARIABLES
  clients,           \* clients_
  team,              \* red_team_ and blue_team_ of the game
  to_load,           \* clients LoadClients has not dealt with yet
  added,             \* AddClient was called for the first of them
  transmit_buffer,   \* ids of the players in transmit_buffer_
  transmitting,      \* the transmit handler is between its two mutexes
  network,           \* every input datagram sent so far
  counter,           \* sequence counter of each client application
  restarts,
  announced,         \* history: the clients of all lists, one after the other
  applied,           \* history: sequence number of the input a player has
  missed,            \* history: ids whose newest input found no player
  served             \* history: clients sent a status that lists them

status == <<transmit_buffer, transmitting>>
vars == <<clients, team, to_load, added, status, network, counter, restarts,
          announced, applied, missed, served>>
environment == <<network, counter, restarts>>
loading == <<to_load, added, announced>>

-----------------------------------------------------------------------------

Datagram == [source : Endpoint, id : PlayerId, sequence : Nat, input : Input]

ClientUdp == [id : PlayerId, ip : Address, input : Input,
              last_sequence : Nat, remote_endpoint : Endpoint]

NewClientUdp(c) ==
  [id |-> c.id, ip |-> c.ip,
   input |-> [move |-> FALSE, direction |-> ZeroDirection],
   last_sequence |-> 0,
   remote_endpoint |-> [ip |-> c.ip, port |-> c.port]]

Playing(t) == {team[t][i].id : i \in DOMAIN team[t]}
Players == UNION {Playing(t) : t \in Teams}

Init ==
  /\ clients = << >>
  /\ team = [t \in Teams |-> << >>]
  /\ to_load = << >>
  /\ added = FALSE
  /\ transmit_buffer = {}
  /\ transmitting = FALSE
  /\ network = {}
  /\ counter = [id \in PlayerId |-> 0]
  /\ restarts = 0
  /\ announced = << >>
  /\ applied = [id \in PlayerId |-> 0]
  /\ missed = {}
  /\ served = {}

-----------------------------------------------------------------------------
(* The main-process thread: LoadClients.                                   *)

ListIds(list) == {list[n].id : n \in DOMAIN list}

\* Nothing keeps the main process from announcing an id it has announced
\* before, and AddClient does not look whether a client is there already.
ReceiveList(list) ==
  /\ to_load = << >>
  /\ Len(announced) + Len(list) <= MaxAnnounced
  /\ to_load' = list
  /\ announced' = announced \o list
  /\ UNCHANGED <<clients, team, added, status, environment, applied,
                 missed, served>>

AddClient ==
  /\ to_load # << >>
  /\ ~added
  /\ clients' = Append(clients, NewClientUdp(Head(to_load)))
  /\ added' = TRUE
  /\ UNCHANGED <<team, to_load, announced, status, environment, applied,
                 missed, served>>

\* Seeded fault: a player joins the team of whoever is announced last.
AddPlayerToLastTeam ==
  /\ added
  /\ LET c == Head(to_load)
         t == announced[Len(announced)].team
     IN  \E place \in Place :
           team' = AddPlayer(team, t, NewPlayer(c.id, c.vehicle, place))
  /\ to_load' = Tail(to_load)
  /\ added' = FALSE
  /\ UNCHANGED <<clients, announced, status, environment, applied,
                 missed, served>>

\* Seeded fault: the player is added without its client.
AddPlayerAgain ==
  /\ added
  /\ LET c == Head(to_load)
     IN  \E place \in Place :
           team' = AddPlayer(team, c.team, NewPlayer(c.id, c.vehicle, place))
  /\ to_load' = Tail(to_load)
  /\ UNCHANGED <<clients, added, announced, status, environment, applied,
                 missed, served>>

AddPlayerOfClient ==
  /\ added
  /\ LET c == Head(to_load)
     IN  \E place \in Place :
           team' = AddPlayer(team, c.team, NewPlayer(c.id, c.vehicle, place))
  /\ to_load' = Tail(to_load)
  /\ added' = FALSE
  /\ UNCHANGED <<clients, announced, status, environment, applied,
                 missed, served>>

LoadClients == AddClient \/ AddPlayerOfClient

-----------------------------------------------------------------------------
(* The client thread.                                                      *)

\* Seeded fault: the order of the inputs is ignored.
GoodReadUnordered(k, m) ==
  /\ m.source.ip = clients[k].ip
  /\ m.id = clients[k].id

\* Seeded fault: an input is accepted for every client of the address.
GoodReadForAll(k, m) ==
  /\ m.source.ip = clients[k].ip
  /\ m.sequence > clients[k].last_sequence

\* DecodeDatagram returns true for client k.
GoodRead(k, m) ==
  /\ m.source.ip = clients[k].ip
  /\ m.sequence > clients[k].last_sequence
  /\ m.id = clients[k].id

\* Seeded fault: datagrams are counted instead.
DecodeCounting(client, m) ==
  [client EXCEPT !.input = m.input, !.last_sequence = @ + 1,
                 !.remote_endpoint = m.source]

\* What a client is after a good read.
DecodeDatagram(client, m) ==
  [client EXCEPT !.input = m.input, !.last_sequence = m.sequence,
                 !.remote_endpoint = m.source]

\* The handler of async_receive_from, for all clients with the address.  It
\* never runs in the middle of a transmission: both have the same thread.
Receive(m) ==
  LET readers == {k \in DOMAIN clients : GoodRead(k, m)}
  IN  /\ ~transmitting
      /\ clients' =
           [k \in DOMAIN clients |->
             IF k \in readers
             THEN DecodeDatagram(clients[k], m) ELSE clients[k]]
      /\ IF readers # {}
         THEN /\ team' = SetPlayerInput(team, m.id, m.input)
              /\ applied' = IF m.id \in Players
                            THEN [applied EXCEPT ![m.id] = m.sequence]
                            ELSE applied
              /\ missed' = IF m.id \in Players THEN missed \ {m.id}
                                               ELSE missed \cup {m.id}
         ELSE UNCHANGED <<team, applied, missed>>
      /\ UNCHANGED <<loading, status, environment, served>>

GetGameStatusIntoTransmitBuffer ==
  /\ ~transmitting
  /\ transmit_buffer' = Players
  /\ transmitting' = TRUE
  /\ UNCHANGED <<clients, team, loading, environment, applied, missed, served>>

\* Seeded fault: only the first client is sent the status.
SendToFirst ==
  /\ transmitting
  /\ served' = served \cup
       ({clients[k].id : k \in DOMAIN clients \cap {1}} \cap transmit_buffer)
  /\ transmitting' = FALSE
  /\ UNCHANGED <<clients, team, loading, transmit_buffer, environment,
                 applied, missed>>

\* async_send_to for every client, under clients_mutex_.
SendGameStatus ==
  /\ transmitting
  /\ served' = served \cup
       ({clients[k].id : k \in DOMAIN clients} \cap transmit_buffer)
  /\ transmitting' = FALSE
  /\ UNCHANGED <<clients, team, loading, transmit_buffer, environment,
                 applied, missed>>

StartTransmit == GetGameStatusIntoTransmitBuffer \/ SendGameStatus

-----------------------------------------------------------------------------
(* Client applications and the network.  The applications number their     *)
(* inputs as the one of client_communication_mocker does.  A datagram      *)
(* stays in network and may be received never, once, or often, and in any  *)
(* order.                                                                  *)

SendInput(id, source, input) ==
  /\ counter[id] < MaxSequence
  /\ counter' = [counter EXCEPT ![id] = @ + 1]
  /\ network' = network \cup
       {[source |-> source, id |-> id, sequence |-> counter[id] + 1,
         input |-> input]}
  /\ UNCHANGED <<clients, team, loading, status, restarts, applied,
                 missed, served>>

\* A new process of the application starts to count from the beginning.
RestartApplication(id) ==
  /\ restarts < MaxRestarts
  /\ counter[id] > 0
  /\ counter' = [counter EXCEPT ![id] = 0]
  /\ restarts' = restarts + 1
  /\ UNCHANGED <<clients, team, loading, status, network, applied,
                 missed, served>>

-----------------------------------------------------------------------------

Next ==
  \/ \E list \in Announcements : ReceiveList(list)
  \/ LoadClients
  \/ \E m \in network : Receive(m)
  \/ StartTransmit
  \/ \E id \in PlayerId : \E source \in Sources[id], input \in Input :
       SendInput(id, source, input)
  \/ \E id \in PlayerId : RestartApplication(id)

Spec == Init /\ [][Next]_vars

\* Neither thread waits for anything but a mutex, which is given back at
\* once, and the transmit timer expires again and again.
FairSpec == Spec /\ WF_vars(LoadClients)
                 /\ WF_vars(GetGameStatusIntoTransmitBuffer)
                 /\ WF_vars(SendGameStatus)

-----------------------------------------------------------------------------
(* Properties.                                                             *)

TypeOK ==
  /\ clients \in Seq(ClientUdp)
  /\ team \in [Teams -> Seq(Player)]
  /\ {to_load, announced} \subseteq Seq(Announced)
  /\ added \in BOOLEAN /\ (added => to_load # << >>)
  /\ transmit_buffer \subseteq PlayerId
  /\ transmitting \in BOOLEAN
  /\ network \subseteq Datagram
  /\ counter \in [PlayerId -> Nat]
  /\ applied \in [PlayerId -> Nat]
  /\ missed \subseteq PlayerId
  /\ served \subseteq PlayerId
  /\ restarts \in Nat

\* Input, sequence number and endpoint of a client are written at different
\* places, yet they always come from one datagram that the client sent.
OneDatagram ==
  \A k \in DOMAIN clients :
    clients[k].last_sequence > 0 =>
      [source |-> clients[k].remote_endpoint, id |-> clients[k].id,
       sequence |-> clients[k].last_sequence, input |-> clients[k].input]
        \in network

Loaded == Len(announced) - Len(to_load)

\* The k-th client announced is the Turn(k)-th of its team.
Turn(k) == Cardinality({j \in 1 .. k : announced[j].team = announced[k].team})

\* clients_ holds the clients loaded so far and, between AddClient and
\* AddPlayer, the next one, in the order they were announced.
ClientsInOrder ==
  /\ Len(clients) = Loaded + (IF added THEN 1 ELSE 0)
  /\ \A k \in DOMAIN clients :
       clients[k].id = announced[k].id /\ clients[k].ip = announced[k].ip

\* Each team holds the players loaded so far that were announced for it, with
\* their id and vehicle, in the order they were announced.
PlayersInOrder ==
  /\ \A t \in Teams :
       Len(team[t])
         = Cardinality({k \in 1 .. Loaded : announced[k].team = t})
  /\ \A k \in 1 .. Loaded :
       LET players == team[announced[k].team]
       IN  /\ Turn(k) \in DOMAIN players
           /\ players[Turn(k)].id = announced[k].id
           /\ players[Turn(k)].vehicle = announced[k].vehicle

\* However the inputs of other clients come in between, every client loaded
\* has its player and every player its client; in the window between
\* AddClient and AddPlayer exactly the client being loaded has none yet.
ClientsPlay == ClientsInOrder /\ PlayersInOrder

\* AddClient may give an id two entries in clients_, each with an order of
\* sequence numbers of its own; what follows is promised of the other ids.
Once(id) ==
  \A j, k \in DOMAIN announced :
    announced[j].id = id /\ announced[k].id = id => j = k

\* Both kinds of state agree once a client is loaded: the player does what
\* the newest input that its client accepted says, unless that input came
\* between AddClient and AddPlayer, and then the player stands.
InputAgrees ==
  \A k \in DOMAIN clients : \A t \in Teams : \A i \in DOMAIN team[t] :
    (Once(clients[k].id) /\ team[t][i].id = clients[k].id
       /\ IsFirst(team[t], i)) =>
      IF clients[k].id \in missed
      THEN team[t][i].input = [move |-> FALSE, direction |-> ZeroDirection]
      ELSE team[t][i].input = clients[k].input

\* Datagrams are reordered and duplicated, the input of a player only ever
\* moves on: what SetPlayerMovement is given is newer than what was given
\* before ("newer input", client_udp.cpp:44).
InputNeverOlder ==
  [][\A id \in PlayerId : Once(id) => applied[id] <= applied'[id]]_vars

\* "Assign game logic handler which will be used to get game status from as
\* well as to give players' input." (client_communication.cpp:145-146): once
\* its client is loaded a player has the newest input the client accepted.
AcceptedInputGiven ==
  to_load = << >> =>
    \A k \in DOMAIN clients : \A t \in Teams : \A i \in DOMAIN team[t] :
      (team[t][i].id = clients[k].id /\ IsFirst(team[t], i)) =>
        team[t][i].input = clients[k].input

\* Whoever the main process announces is eventually sent a status in which
\* its player is listed, although the status is taken before and sent after
\* the client may have been added.
AnnouncedServed ==
  \A id \in PlayerId : id \in ListIds(to_load) ~> id \in served
=============================================================================
