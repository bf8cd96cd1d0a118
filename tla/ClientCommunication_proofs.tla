---------------------- MODULE ClientCommunication_proofs ----------------------
(***************************************************************************)
(* Theorems about ClientCommunication for any clients, any applications    *)
(* and any network.                                                        *)
(***************************************************************************)
EXTENDS ClientCommunication, Game_proofs, TLAPS

StandingStill == [move |-> FALSE, direction |-> ZeroDirection]

-----------------------------------------------------------------------------
(* The inductive invariant.                                                *)

\* The clients still to be loaded are the last ones announced.
Queue ==
  /\ Len(to_load) <= Len(announced)
  /\ \A n \in 1 .. Len(to_load) : to_load[n] = announced[Loaded + n]

\* Every player was announced and loaded.
PlayersLoaded ==
  \A t \in Teams : \A i \in DOMAIN team[t] :
    \E k \in 1 .. Loaded : announced[k].id = team[t][i].id

\* A player was given no input its client has not read.
Applied ==
  /\ \A k \in DOMAIN clients :
       Once(clients[k].id) =>
         applied[clients[k].id] <= clients[k].last_sequence
  /\ \A id \in PlayerId :
       (\A k \in DOMAIN clients : clients[k].id # id) => applied[id] = 0

\* The input of a client without a player is remembered as missed.
Unplayed ==
  \A k \in DOMAIN clients :
    \/ clients[k].id \in Players
    \/ clients[k].id \in missed
    \/ clients[k].input = StandingStill

Inv == /\ TypeOK
       /\ OneDatagram
       /\ InputAgrees
       /\ Queue
       /\ ClientsPlay
       /\ PlayersLoaded
       /\ Applied
       /\ Unplayed

USE DEF status, environment, loading

-----------------------------------------------------------------------------
(* Lemmas on the state.                                                    *)

LEMMA StateShape ==
  ASSUME TypeOK
  PROVE  /\ Len(clients) \in Nat
         /\ DOMAIN clients = 1 .. Len(clients)
         /\ \A k \in DOMAIN clients : clients[k] \in ClientUdp
         /\ Len(to_load) \in Nat
         /\ DOMAIN to_load = 1 .. Len(to_load)
         /\ \A n \in DOMAIN to_load : to_load[n] \in Announced
         /\ Len(announced) \in Nat
         /\ DOMAIN announced = 1 .. Len(announced)
         /\ \A n \in DOMAIN announced : announced[n] \in Announced
         /\ team \in BothTeams
<1>1. clients \in Seq(ClientUdp) /\ to_load \in Seq(Announced)
  BY DEF TypeOK
<1>2. announced \in Seq(Announced)
  BY DEF TypeOK
<1>. QED BY <1>1, <1>2, LenProperties, ElementOfSeq DEF TypeOK, BothTeams

\* How far the loading is, seen from the announcements.
LEMMA LoadedShape ==
  ASSUME Inv
  PROVE  /\ Loaded \in Nat
         /\ Loaded + Len(to_load) = Len(announced)
         /\ \A k \in 1 .. Loaded : k \in DOMAIN announced
         /\ Len(clients) = Loaded + (IF added THEN 1 ELSE 0)
         /\ \A k \in 1 .. Loaded : k \in DOMAIN clients
         /\ \A k \in DOMAIN clients : /\ k \in DOMAIN announced
                                      /\ clients[k].id = announced[k].id
<1>1. TypeOK BY DEF Inv
<1>2. Len(to_load) <= Len(announced) BY DEF Inv, Queue
<1>3. /\ Len(to_load) \in Nat /\ Len(announced) \in Nat
      /\ DOMAIN announced = 1 .. Len(announced)
      /\ Len(clients) \in Nat /\ DOMAIN clients = 1 .. Len(clients)
  BY <1>1, StateShape
<1>4. Loaded \in Nat /\ Loaded + Len(to_load) = Len(announced)
  BY <1>2, <1>3 DEF Loaded
<1>5. /\ Len(clients) = Loaded + (IF added THEN 1 ELSE 0)
      /\ \A k \in DOMAIN clients : clients[k].id = announced[k].id
  BY DEF Inv, ClientsPlay, ClientsInOrder
<1>6. added => Len(to_load) >= 1
  <2>1. added => to_load # << >> BY <1>1 DEF TypeOK
  <2>2. to_load # << >> => Len(to_load) # 0
    BY <1>1, EmptySeq DEF TypeOK
  <2>. QED BY <1>3, <2>1, <2>2
<1>7. Len(clients) <= Len(announced)
  <2>1. CASE added BY <1>3, <1>4, <1>5, <1>6, <2>1
  <2>2. CASE ~added BY <1>3, <1>4, <1>5, <2>2
  <2>. QED BY <2>1, <2>2
<1>8. Loaded <= Len(clients)
  <2>1. CASE added BY <1>3, <1>4, <1>5, <2>1
  <2>2. CASE ~added BY <1>3, <1>4, <1>5, <2>2
  <2>. QED BY <2>1, <2>2
<1>9. \A k \in 1 .. Loaded : k \in DOMAIN announced /\ k \in DOMAIN clients
  BY <1>2, <1>3, <1>4, <1>8
<1>10. \A k \in DOMAIN clients : k \in DOMAIN announced
  BY <1>3, <1>7
<1>. QED BY <1>4, <1>5, <1>9, <1>10

\* An id announced once has one entry in clients_.
LEMMA OneEntry ==
  ASSUME Inv, NEW j \in DOMAIN clients, NEW k \in DOMAIN clients,
         clients[j].id = clients[k].id, Once(clients[k].id)
  PROVE  j = k
BY LoadedShape DEF Once

LEMMA NewClientUdpType ==
  ASSUME NEW c \in Announced
  PROVE  NewClientUdp(c) \in ClientUdp
BY MovementAssumption DEF NewClientUdp, Announced, ClientUdp, Input, Endpoint

\* Which players the input reaches, and what it leaves alone.
LEMMA InputReaches ==
  ASSUME NEW players \in BothTeams, NEW id \in PlayerId, NEW input \in Input
  PROVE  \A t \in Teams :
           /\ DOMAIN SetPlayerInput(players, id, input)[t] = DOMAIN players[t]
           /\ \A i \in DOMAIN players[t] :
                /\ SetPlayerInput(players, id, input)[t][i].id
                     = players[t][i].id
                /\ SetPlayerInput(players, id, input)[t][i].input
                     = IF players[t][i].id = id /\ IsFirst(players[t], i)
                       THEN input ELSE players[t][i].input
                /\ IsFirst(SetPlayerInput(players, id, input)[t], i)
                     <=> IsFirst(players[t], i)
<1> DEFINE new == SetPlayerInput(players, id, input)
<1> SUFFICES ASSUME NEW t \in Teams
    PROVE  /\ DOMAIN new[t] = DOMAIN players[t]
           /\ \A i \in DOMAIN players[t] :
                /\ new[t][i].id = players[t][i].id
                /\ new[t][i].input
                     = IF players[t][i].id = id /\ IsFirst(players[t], i)
                       THEN input ELSE players[t][i].input
                /\ IsFirst(new[t], i) <=> IsFirst(players[t], i)
  OBVIOUS
<1>1. /\ Len(players[t]) \in Nat
      /\ DOMAIN players[t] = 1 .. Len(players[t])
      /\ \A i \in DOMAIN players[t] : players[t][i] \in Player
  BY TeamShape
<1>2. new[t] = [i \in DOMAIN players[t] |->
                 IF players[t][i].id = id /\ IsFirst(players[t], i)
                 THEN [players[t][i] EXCEPT !.input = input]
                 ELSE players[t][i]]
  BY DEF SetPlayerInput
<1>3. \A i \in DOMAIN players[t] :
        /\ new[t][i].id = players[t][i].id
        /\ new[t][i].input
             = IF players[t][i].id = id /\ IsFirst(players[t], i)
               THEN input ELSE players[t][i].input
  BY <1>1, <1>2 DEF Player
<1>4. \A i \in DOMAIN players[t] :
        IsFirst(new[t], i) <=> IsFirst(players[t], i)
  <2> TAKE i \in DOMAIN players[t]
  <2>1. \A j \in 1 .. i - 1 : j \in DOMAIN players[t]
    BY <1>1
  <2>. QED BY <1>3, <2>1 DEF IsFirst
<1>. QED BY <1>2, <1>3, <1>4

LEMMA PlayersAre ==
  ASSUME NEW id
  PROVE  id \in Players <=> \E t \in Teams : \E i \in DOMAIN team[t] :
                              team[t][i].id = id
BY DEF Players, Playing

LEMMA PlayersAreNext ==
  ASSUME NEW id
  PROVE  (id \in Players)' <=> \E t \in Teams : \E i \in DOMAIN team'[t] :
                                 team'[t][i].id = id
BY DEF Players, Playing

-----------------------------------------------------------------------------

LEMMA InvInit == Init => Inv
<1> SUFFICES ASSUME Init PROVE Inv
  OBVIOUS
<1>1. /\ clients = << >> /\ to_load = << >> /\ ~added /\ network = {}
      /\ \A t \in Teams : team[t] = << >>
      /\ \A id \in PlayerId : applied[id] = 0
  BY DEF Init
<1>2. TypeOK
  <2>1. /\ clients \in Seq(ClientUdp) /\ to_load \in Seq(Announced)
        /\ announced \in Seq(Announced)
    BY EmptySeq DEF Init
  <2>2. team \in [Teams -> Seq(Player)]
    BY EmptySeq DEF Init
  <2>3. counter \in [PlayerId -> Nat] /\ applied \in [PlayerId -> Nat]
    BY DEF Init
  <2>4. /\ added = FALSE /\ transmitting = FALSE
        /\ transmit_buffer = {} /\ network = {} /\ missed = {} /\ served = {}
        /\ restarts = 0
    BY DEF Init
  <2>5. added \in BOOLEAN /\ (added => to_load # << >>)
    BY <2>4
  <2>6. network \subseteq Datagram /\ transmitting \in BOOLEAN
    BY <2>4
  <2>7. /\ transmit_buffer \subseteq PlayerId /\ missed \subseteq PlayerId
        /\ served \subseteq PlayerId
    BY <2>4
  <2>8. restarts \in Nat
    BY <2>4
  <2>. QED BY <2>1, <2>2, <2>3, <2>5, <2>6, <2>7, <2>8 DEF TypeOK
<1>3. OneDatagram /\ InputAgrees /\ Unplayed
  BY <1>1 DEF OneDatagram, InputAgrees, Unplayed
<1>4. Queue /\ Loaded = 0
  BY <1>1, EmptySeq DEF Queue, Loaded, Init
<1>5. ClientsPlay /\ PlayersLoaded
  <2>1. 1 .. Loaded = {} BY <1>4
  <2>2. ClientsInOrder BY <1>1, <1>4, EmptySeq DEF ClientsInOrder
  <2>3. \A t \in Teams : Len(team[t]) = 0 /\ DOMAIN team[t] = {}
    BY <1>1, EmptySeq
  <2>4. \A t \in Teams : {k \in 1 .. Loaded : announced[k].team = t} = {}
    BY <2>1
  <2>5. PlayersInOrder
    BY <2>1, <2>3, <2>4, FS_EmptySet DEF PlayersInOrder
  <2>. QED BY <2>2, <2>3, <2>5 DEF ClientsPlay, PlayersLoaded
<1>6. Applied
  BY <1>1 DEF Applied
<1>. QED BY <1>2, <1>3, <1>4, <1>5, <1>6 DEF Inv

LEMMA ReceiveListStep ==
  ASSUME Inv, NEW list \in Announcements, ReceiveList(list)
  PROVE  Inv'
<1>1. /\ to_load = << >> /\ to_load' = list
      /\ announced' = announced \o list
      /\ UNCHANGED <<clients, team, added, network, applied, missed>>
  BY DEF ReceiveList
<1>2. TypeOK BY DEF Inv
<1>3. list \in Seq(Announced) /\ announced \in Seq(Announced)
  BY <1>2, ClientAssumption DEF TypeOK
<1>4. /\ announced' \in Seq(Announced)
      /\ Len(list) \in Nat /\ Len(announced) \in Nat
      /\ Len(announced') = Len(announced) + Len(list)
      /\ \A k \in 1 .. Len(announced) : announced'[k] = announced[k]
      /\ \A n \in 1 .. Len(list) :
           announced'[Len(announced) + n] = list[n]
  <2>1. /\ announced \o list \in Seq(Announced)
        /\ Len(announced \o list) = Len(announced) + Len(list)
        /\ \A i \in 1 .. Len(announced) + Len(list) :
             (announced \o list)[i] = IF i <= Len(announced)
                                      THEN announced[i]
                                      ELSE list[i - Len(announced)]
    BY <1>3, ConcatProperties
  <2>2. Len(list) \in Nat /\ Len(announced) \in Nat
    BY <1>3, LenProperties
  <2>3. ASSUME NEW k \in 1 .. Len(announced)
        PROVE  announced'[k] = announced[k]
    BY <1>1, <2>1, <2>2
  <2>4. ASSUME NEW n \in 1 .. Len(list)
        PROVE  announced'[Len(announced) + n] = list[n]
    <3>1. /\ Len(announced) + n \in 1 .. Len(announced) + Len(list)
          /\ ~(Len(announced) + n <= Len(announced))
          /\ Len(announced) + n - Len(announced) = n
      BY <2>2
    <3>. QED BY <1>1, <2>1, <3>1
  <2>. QED BY <1>1, <2>1, <2>2, <2>3, <2>4
<1>5. TypeOK'
  BY <1>1, <1>2, <1>3, <1>4 DEF TypeOK, ReceiveList
<1>6. Loaded = Len(announced) /\ Loaded' = Len(announced)
  <2>1. Len(to_load) = 0 BY <1>1, EmptySeq
  <2>. QED BY <1>1, <1>4, <2>1 DEF Loaded
<1>7. /\ ~added
      /\ \A k \in DOMAIN clients : k \in 1 .. Len(announced)
      /\ \A k \in 1 .. Loaded : k \in 1 .. Len(announced)
  <2>1. ~added BY <1>1, <1>2 DEF TypeOK
  <2>2. DOMAIN announced = 1 .. Len(announced) BY <1>2, StateShape
  <2>. QED BY <1>6, <2>1, <2>2, LoadedShape
<1>8. \A id : Once(id)' => Once(id)
  <2>1. DOMAIN announced = 1 .. Len(announced) BY <1>2, StateShape
  <2>2. \A k \in 1 .. Len(announced) : k \in DOMAIN announced'
    <3>1. DOMAIN announced' = 1 .. Len(announced') BY <1>4, LenProperties
    <3>. QED BY <1>4, <3>1
  <2>. QED BY <1>4, <2>1, <2>2 DEF Once
<1>9. OneDatagram' BY <1>1 DEF Inv, OneDatagram
<1>10. InputAgrees'
  <2> SUFFICES ASSUME NEW k \in DOMAIN clients', NEW t \in Teams,
                      NEW i \in DOMAIN team'[t], Once(clients[k].id)',
                      team'[t][i].id = clients'[k].id, IsFirst(team'[t], i)
      PROVE  IF clients'[k].id \in missed'
             THEN team'[t][i].input
                    = [move |-> FALSE, direction |-> ZeroDirection]
             ELSE team'[t][i].input = clients'[k].input
    BY DEF InputAgrees
  <2>1. Once(clients[k].id)
    <3>1. Once(clients'[k].id) BY <1>8
    <3>. QED BY <1>1, <3>1
  <2>2. clients' = clients /\ team' = team /\ missed' = missed BY <1>1
  <2>3. (Once(clients[k].id) /\ team[t][i].id = clients[k].id
           /\ IsFirst(team[t], i)) =>
          IF clients[k].id \in missed
          THEN team[t][i].input
                 = [move |-> FALSE, direction |-> ZeroDirection]
          ELSE team[t][i].input = clients[k].input
    BY <2>2 DEF Inv, InputAgrees
  <2>. QED BY <2>1, <2>2, <2>3
<1>11. Applied' BY <1>1, <1>8 DEF Inv, Applied
<1>12. Unplayed' BY <1>1 DEF Inv, Unplayed, Players, Playing
<1>13. Queue'
  BY <1>1, <1>4, <1>6 DEF Queue
<1>14. ClientsInOrder'
  BY <1>1, <1>4, <1>6, <1>7 DEF Inv, ClientsPlay, ClientsInOrder
<1>15. PlayersInOrder'
  <2>1. \A t \in Teams : {k \in 1 .. Loaded : announced[k].team = t}
                       = {k \in 1 .. Loaded' : announced'[k].team = t}
    BY <1>4, <1>6
  <2>2. ASSUME NEW k \in 1 .. Loaded' PROVE Turn(k)' = Turn(k)
    <3>1. k \in 1 .. Len(announced)
          /\ \A j \in 1 .. k : j \in 1 .. Len(announced)
      BY <1>4, <1>6
    <3>2. {j \in 1 .. k : announced'[j].team = announced'[k].team}
            = {j \in 1 .. k : announced[j].team = announced[k].team}
      BY <1>4, <3>1
    <3>. QED BY <3>2 DEF Turn
  <2>3. \A k \in 1 .. Loaded' : announced'[k] = announced[k]
    BY <1>4, <1>6
  <2>4. Loaded' = Loaded BY <1>6
  <2>. QED BY <1>1, <2>1, <2>2, <2>3, <2>4 DEF Inv, ClientsPlay, PlayersInOrder
<1>16. PlayersLoaded'
  BY <1>1, <1>4, <1>6 DEF Inv, PlayersLoaded
<1>. QED BY <1>5, <1>9, <1>10, <1>11, <1>12, <1>13, <1>14, <1>15, <1>16
         DEF Inv, ClientsPlay

\* A new client has no player, and its input is that of a new player.
LEMMA AddClientStep ==
  ASSUME Inv, AddClient
  PROVE  Inv'
<1> DEFINE c == NewClientUdp(Head(to_load))
           n == Len(clients)
<1>1. /\ to_load # << >> /\ ~added /\ added' = TRUE
      /\ clients' = Append(clients, c)
      /\ UNCHANGED <<team, to_load, network, counter, restarts, announced,
                     applied, missed, served, transmit_buffer, transmitting>>
  BY DEF AddClient
<1>2. TypeOK
  BY DEF Inv
<1>3. Head(to_load) = to_load[1] /\ to_load[1] \in Announced /\ 1 \in DOMAIN to_load
  BY <1>1, <1>2, StateShape DEF TypeOK
<1>4. c \in ClientUdp
  BY <1>3, NewClientUdpType
<1>5. /\ n \in Nat /\ DOMAIN clients = 1 .. n
      /\ clients' \in Seq(ClientUdp) /\ Len(clients') = n + 1
      /\ DOMAIN clients' = 1 .. n + 1
      /\ \A k \in 1 .. n : clients'[k] = clients[k]
      /\ clients'[n + 1] = c
  BY <1>1, <1>2, <1>4, StateShape, AppendProperties DEF TypeOK
<1>6. /\ c.id = to_load[1].id /\ c.last_sequence = 0
      /\ c.input = StandingStill /\ c.ip = to_load[1].ip
  BY <1>3 DEF NewClientUdp, StandingStill
<1>7. /\ n = Loaded /\ Loaded' = Loaded /\ n + 1 \in DOMAIN announced
      /\ announced[n + 1] = to_load[1]
  <2>1. n = Loaded /\ Loaded \in Nat /\ Loaded + Len(to_load) = Len(announced)
    BY <1>1, LoadedShape DEF n
  <2>2. /\ DOMAIN announced = 1 .. Len(announced) /\ Len(to_load) \in Nat
        /\ 1 \in 1 .. Len(to_load)
    BY <1>2, <1>3, StateShape
  <2>3. announced[Loaded + 1] = to_load[1]
    BY <2>2 DEF Inv, Queue
  <2>4. Loaded' = Loaded BY <1>1 DEF Loaded
  <2>. QED BY <2>1, <2>2, <2>3, <2>4
<1>8. Once(c.id) =>
        /\ \A k \in 1 .. n : clients[k].id # c.id
        /\ \A t \in Teams : \A i \in DOMAIN team[t] : team[t][i].id # c.id
  <2> SUFFICES ASSUME Once(c.id), NEW k \in 1 .. n PROVE announced[k].id # c.id
    <3>1. \A k \in 1 .. n : clients[k].id = announced[k].id
      BY <1>5, LoadedShape
    <3>2. \A t \in Teams : \A i \in DOMAIN team[t] :
            \E k \in 1 .. n : announced[k].id = team[t][i].id
      BY <1>7 DEF Inv, PlayersLoaded
    <3>. QED BY <3>1, <3>2
  <2>1. k \in DOMAIN announced /\ k # n + 1
    BY <1>5, <1>7, LoadedShape
  <2>. QED BY <1>6, <1>7, <2>1 DEF Once
<1>9. c.id \in PlayerId
  BY <1>4 DEF ClientUdp
<1> HIDE DEF c, n
<1>10. TypeOK'
  BY <1>1, <1>2, <1>5 DEF TypeOK
<1>11. OneDatagram'
  BY <1>1, <1>5, <1>6 DEF Inv, OneDatagram
<1>12. InputAgrees'
  <2> SUFFICES ASSUME NEW k \in DOMAIN clients', NEW t \in Teams,
                      NEW i \in DOMAIN team'[t],
                      Once(clients[k].id)',
                      team'[t][i].id = clients'[k].id, IsFirst(team'[t], i)
      PROVE  IF clients'[k].id \in missed'
             THEN team'[t][i].input
                    = [move |-> FALSE, direction |-> ZeroDirection]
             ELSE team'[t][i].input = clients'[k].input
    BY DEF InputAgrees
  <2>1. Once(clients'[k].id) BY <1>1 DEF Once
  <2>2. k \in 1 .. n
    <3>1. CASE k = n + 1 BY <1>1, <1>5, <1>8, <2>1, <3>1
    <3>. QED BY <1>5, <3>1
  <2>3. Once(clients[k].id) /\ clients'[k] = clients[k] /\ k \in DOMAIN clients
    BY <1>5, <2>1, <2>2
  <2>4. team'[t] = team[t] /\ missed' = missed BY <1>1
  <2>5. (Once(clients[k].id) /\ team[t][i].id = clients[k].id
           /\ IsFirst(team[t], i)) =>
          IF clients[k].id \in missed
          THEN team[t][i].input
                 = [move |-> FALSE, direction |-> ZeroDirection]
          ELSE team[t][i].input = clients[k].input
    BY <2>3, <2>4 DEF Inv, InputAgrees
  <2>. QED BY <2>3, <2>4, <2>5
<1>13. ClientsPlay'
  <2>1. ClientsInOrder'
    <3>1. Len(clients') = Loaded' + (IF added' THEN 1 ELSE 0)
      BY <1>1, <1>5, <1>7
    <3>2. \A k \in 1 .. n : /\ clients'[k].id = announced[k].id
                            /\ clients'[k].ip = announced[k].ip
      BY <1>5 DEF Inv, ClientsPlay, ClientsInOrder
    <3>3. /\ clients'[n + 1].id = announced[n + 1].id
          /\ clients'[n + 1].ip = announced[n + 1].ip
      BY <1>5, <1>6, <1>7
    <3>. QED BY <1>1, <1>5, <3>1, <3>2, <3>3 DEF ClientsInOrder
  <2>2. PlayersInOrder' = PlayersInOrder
    BY <1>1, <1>7 DEF PlayersInOrder, Turn
  <2>. QED BY <2>1, <2>2 DEF Inv, ClientsPlay
<1>14. Queue' /\ PlayersLoaded'
  BY <1>1, <1>7 DEF Inv, Queue, PlayersLoaded
<1>15. Applied'
  <2>0. ASSUME Once(c.id) PROVE applied[c.id] = 0
    BY <1>5, <1>8, <1>9, <2>0 DEF Inv, Applied
  <2>1. ASSUME NEW k \in DOMAIN clients', Once(clients'[k].id)
        PROVE  applied[clients'[k].id] <= clients'[k].last_sequence
    <3>1. CASE k = n + 1
      BY <1>5, <1>6, <2>0, <2>1, <3>1
    <3>2. CASE k \in 1 .. n
      BY <1>5, <2>1, <3>2 DEF Inv, Applied
    <3>. QED BY <1>5, <3>1, <3>2
  <2>2. \A id \in PlayerId :
          (\A k \in DOMAIN clients' : clients'[k].id # id) => applied[id] = 0
    BY <1>5 DEF Inv, Applied
  <2>3. \A id : Once(id)' => Once(id) BY <1>1 DEF Once
  <2>. QED BY <1>1, <2>1, <2>2, <2>3 DEF Applied
<1>16. Unplayed'
  BY <1>1, <1>5, <1>6 DEF Inv, Unplayed, Players, Playing
<1>. QED BY <1>10, <1>11, <1>12, <1>13, <1>14, <1>15, <1>16 DEF Inv

\* A new player stands, and so it should: its client's input came too early
\* or not at all.
LEMMA AddPlayerStep ==
  ASSUME Inv, AddPlayerOfClient
  PROVE  Inv'
<1> DEFINE n == Len(clients)
           c == to_load[1]
<1>1. TypeOK
  BY DEF Inv
<1>2. /\ added /\ added' = FALSE /\ to_load # << >> /\ to_load' = Tail(to_load)
      /\ UNCHANGED <<clients, announced, transmit_buffer, transmitting,
                     network, counter, restarts, applied, missed, served>>
  BY <1>1 DEF AddPlayerOfClient, TypeOK
<1>3. c \in Announced /\ Head(to_load) = c
  BY <1>1, <1>2, StateShape
<1>4. PICK place \in Place :
        team' = AddPlayer(team, c.team, NewPlayer(c.id, c.vehicle, place))
  BY <1>3 DEF AddPlayerOfClient
<1> DEFINE player == NewPlayer(c.id, c.vehicle, place)
<1>5. /\ player \in Player /\ player.id = c.id
      /\ player.vehicle = c.vehicle
      /\ player.input = StandingStill
      /\ c.team \in Teams
  BY <1>3, NewPlayerType DEF Announced, NewPlayer, StandingStill
<1>6. /\ n \in Nat /\ n \in DOMAIN clients /\ DOMAIN clients = 1 .. n
      /\ n = Loaded + 1 /\ Loaded \in Nat
      /\ n \in DOMAIN announced /\ announced[n] = c
      /\ clients[n].id = c.id
  <2>1. n \in Nat /\ DOMAIN clients = 1 .. n BY <1>1, StateShape
  <2>2. n = Loaded + 1 /\ Loaded \in Nat
    BY <1>2, LoadedShape
  <2>3. n \in DOMAIN clients BY <2>1, <2>2
  <2>4. n \in DOMAIN announced /\ clients[n].id = announced[n].id
    BY <2>3, LoadedShape
  <2>5. 1 \in 1 .. Len(to_load)
    <3>1. Len(to_load) # 0 BY <1>1, <1>2, EmptySeq DEF TypeOK
    <3>2. Len(to_load) \in Nat BY <1>1, StateShape
    <3>. QED BY <3>1, <3>2
  <2>6. announced[n] = c BY <2>2, <2>5 DEF Inv, Queue
  <2>. QED BY <2>1, <2>2, <2>3, <2>4, <2>6
<1>7. team \in BothTeams
  BY <1>1, StateShape
<1> HIDE DEF n, c, player
<1>8. /\ team' \in BothTeams
      /\ \A t \in Teams : team'[t] = IF t = c.team THEN Append(team[t], player)
                                                   ELSE team[t]
  BY <1>4, <1>5, <1>7, AddPlayerType DEF player
<1>9. \A t \in Teams :
        /\ Len(team[t]) \in Nat /\ DOMAIN team[t] = 1 .. Len(team[t])
        /\ \A i \in DOMAIN team[t] : i \in DOMAIN team'[t]
                                     /\ team'[t][i] = team[t][i]
        /\ t # c.team => Len(team'[t]) = Len(team[t])
                         /\ DOMAIN team'[t] = DOMAIN team[t]
        /\ t = c.team => /\ Len(team'[t]) = Len(team[t]) + 1
                         /\ DOMAIN team'[t] = 1 .. Len(team[t]) + 1
                         /\ team'[t][Len(team[t]) + 1] = player
  <2> TAKE t \in Teams
  <2>1. team[t] \in Seq(Player) BY <1>7 DEF BothTeams
  <2>2. /\ Len(team[t]) \in Nat /\ DOMAIN team[t] = 1 .. Len(team[t])
    BY <2>1, LenProperties
  <2>3. CASE t = c.team
    <3>1. team'[t] = Append(team[t], player) BY <1>8, <2>3
    <3>2. /\ team'[t] \in Seq(Player) /\ Len(team'[t]) = Len(team[t]) + 1
          /\ \A i \in 1 .. Len(team[t]) : team'[t][i] = team[t][i]
          /\ team'[t][Len(team[t]) + 1] = player
      BY <1>5, <2>1, <3>1, AppendProperties
    <3>3. DOMAIN team'[t] = 1 .. Len(team[t]) + 1
      BY <3>2, LenProperties
    <3>. QED BY <2>2, <2>3, <3>2, <3>3
  <2>4. CASE t # c.team
    BY <2>1, <2>2, <2>4, <1>8
  <2>. QED BY <2>2, <2>3, <2>4
<1>10. \A t \in Teams : \A i \in DOMAIN team'[t] :
         i \in DOMAIN team[t] \/ team'[t][i] = player
  <2> TAKE t \in Teams
  <2> TAKE i \in DOMAIN team'[t]
  <2>1. CASE t = c.team BY <1>9, <2>1
  <2>2. CASE t # c.team BY <1>9, <2>2
  <2>. QED BY <2>1, <2>2
<1>11. Once(c.id) =>
         \A t \in Teams : \A i \in DOMAIN team[t] : team[t][i].id # c.id
  <2> SUFFICES ASSUME Once(c.id), NEW t \in Teams, NEW i \in DOMAIN team[t]
      PROVE team[t][i].id # c.id
    OBVIOUS
  <2>1. PICK k \in 1 .. Loaded : announced[k].id = team[t][i].id
    BY DEF Inv, PlayersLoaded
  <2>2. k \in DOMAIN announced /\ k # n BY <1>6, LoadedShape
  <2>. QED BY <1>6, <2>1, <2>2 DEF Once
<1>12. Once(c.id) =>
         clients[n].id \in missed \/ clients[n].input = StandingStill
  <2> SUFFICES ASSUME Once(c.id)
      PROVE  clients[n].id \in missed \/ clients[n].input = StandingStill
    OBVIOUS
  <2>1. c.id \notin Players BY <1>11, PlayersAre
  <2>. QED BY <1>6, <2>1 DEF Inv, Unplayed
<1>13. /\ to_load' \in Seq(Announced)
       /\ Len(to_load') = Len(to_load) - 1
       /\ \A m \in DOMAIN to_load' : /\ m \in Nat /\ m + 1 # 1
                                     /\ m + 1 \in DOMAIN to_load
                                     /\ to_load'[m] = to_load[m + 1]
  <2>1. to_load \in Seq(Announced) BY <1>1 DEF TypeOK
  <2>2. /\ Tail(to_load) \in Seq(Announced)
        /\ Len(Tail(to_load)) = Len(to_load) - 1
        /\ \A m \in 1 .. Len(Tail(to_load)) : Tail(to_load)[m] = to_load[m + 1]
    BY <1>2, <2>1, HeadTailProperties
  <2>3. Len(to_load) \in Nat /\ DOMAIN to_load = 1 .. Len(to_load)
    BY <2>1, LenProperties
  <2>4. DOMAIN Tail(to_load) = 1 .. Len(to_load) - 1
    BY <2>2, LenProperties
  <2>. QED BY <1>2, <2>2, <2>3, <2>4
<1>14. TypeOK'
  BY <1>1, <1>2, <1>8, <1>13 DEF TypeOK, BothTeams
<1>15. OneDatagram'
  BY <1>2 DEF Inv, OneDatagram
<1>16. InputAgrees'
  <2> SUFFICES ASSUME NEW k \in DOMAIN clients', NEW t \in Teams,
                      NEW i \in DOMAIN team'[t],
                      Once(clients[k].id)',
                      team'[t][i].id = clients'[k].id, IsFirst(team'[t], i)
      PROVE  IF clients'[k].id \in missed'
             THEN team'[t][i].input
                    = [move |-> FALSE, direction |-> ZeroDirection]
             ELSE team'[t][i].input = clients'[k].input
    BY DEF InputAgrees
  <2>0. Once(clients[k].id) /\ clients'[k] = clients[k] /\ k \in DOMAIN clients
    BY <1>2 DEF Once
  <2>1. CASE i \in DOMAIN team[t]
    <3>1. \A j \in 1 .. i : j \in DOMAIN team[t] /\ team'[t][j] = team[t][j]
      BY <1>9, <2>1
    <3>2. i \in 1 .. i BY <1>9, <2>1
    <3>3. IsFirst(team[t], i)
      <4>1. \A j \in 1 .. i - 1 : j \in 1 .. i BY <3>2
      <4>. QED BY <3>1, <3>2, <4>1 DEF IsFirst
    <3>4. /\ team'[t][i] = team[t][i] /\ clients'[k] = clients[k]
          /\ k \in DOMAIN clients /\ missed' = missed
      BY <1>2, <3>1, <3>2
    <3>5. IF clients[k].id \in missed
          THEN team[t][i].input
                 = [move |-> FALSE, direction |-> ZeroDirection]
          ELSE team[t][i].input = clients[k].input
      BY <2>0, <2>1, <3>3, <3>4 DEF Inv, InputAgrees
    <3>. QED BY <3>4, <3>5
  <2>2. CASE team'[t][i] = player
    <3>1. k = n
      BY <1>2, <1>5, <1>6, <2>0, <2>2, OneEntry
    <3>. QED BY <1>2, <1>5, <1>6, <1>12, <2>0, <2>2, <3>1 DEF StandingStill
  <2>. QED BY <1>10, <2>1, <2>2
<1>17. Queue' /\ Loaded' = n
  <2>1. /\ Len(to_load) \in Nat /\ Len(announced) \in Nat
        /\ DOMAIN to_load = 1 .. Len(to_load)
        /\ DOMAIN to_load' = 1 .. Len(to_load')
    BY <1>1, <1>13, StateShape, LenProperties
  <2>2. Loaded' = n
    BY <1>2, <1>6, <1>13, <2>1, LoadedShape DEF Loaded
  <2>3. Len(to_load') <= Len(announced')
    BY <1>2, <1>13, <2>1 DEF Inv, Queue
  <2>4. ASSUME NEW m \in 1 .. Len(to_load')
        PROVE  to_load'[m] = announced'[Loaded' + m]
    <3>1. to_load'[m] = to_load[m + 1] /\ m + 1 \in 1 .. Len(to_load)
      BY <1>13, <2>1
    <3>2. to_load[m + 1] = announced[Loaded + (m + 1)]
      BY <3>1 DEF Inv, Queue
    <3>3. Loaded + (m + 1) = n + m BY <1>6, <2>4
    <3>. QED BY <1>2, <2>2, <3>1, <3>2, <3>3
  <2>. QED BY <2>2, <2>3, <2>4 DEF Queue
<1>18. ClientsPlay' /\ PlayersLoaded'
  <2>1. ClientsInOrder'
    BY <1>2, <1>6, <1>17 DEF Inv, ClientsPlay, ClientsInOrder, n
  <2>2. \A t \in Teams :
          Len(team'[t]) = Cardinality({k \in 1 .. n : announced[k].team = t})
    <3> TAKE t \in Teams
    <3>1. PICK L : L = {k \in 1 .. Loaded : announced[k].team = t}
      OBVIOUS
    <3>2. IsFiniteSet(L) /\ n \notin L
      <4>1. IsFiniteSet(1 .. Loaded) BY <1>6, FS_Interval
      <4>2. L \in SUBSET (1 .. Loaded) BY <3>1
      <4>3. IsFiniteSet(L) BY <4>1, <4>2, FS_Subset
      <4>4. n \notin 1 .. Loaded BY <1>6
      <4>. QED BY <4>2, <4>3, <4>4
    <3>3. Len(team[t]) = Cardinality(L)
      BY <3>1 DEF Inv, ClientsPlay, PlayersInOrder
    <3>4. CASE t = c.team
      <4>1. {k \in 1 .. n : announced[k].team = t} = L \cup {n}
        BY <1>6, <3>1, <3>4
      <4>2. Cardinality(L \cup {n}) = Cardinality(L) + 1
        BY <3>2, FS_AddElement
      <4>. QED BY <1>9, <3>3, <3>4, <4>1, <4>2
    <3>5. CASE t # c.team
      <4>1. {k \in 1 .. n : announced[k].team = t} = L
        BY <1>6, <3>1, <3>5
      <4>. QED BY <1>9, <3>3, <3>5, <4>1
    <3>. QED BY <3>4, <3>5
  <2>3. ASSUME NEW k \in 1 .. Loaded
        PROVE  LET players == team'[announced[k].team]
               IN  /\ Turn(k) \in DOMAIN players
                   /\ players[Turn(k)].id = announced[k].id
                   /\ players[Turn(k)].vehicle = announced[k].vehicle
    <3>1. /\ Turn(k) \in DOMAIN team[announced[k].team]
          /\ team[announced[k].team][Turn(k)].id = announced[k].id
          /\ team[announced[k].team][Turn(k)].vehicle = announced[k].vehicle
      BY DEF Inv, ClientsPlay, PlayersInOrder
    <3>2. announced[k].team \in Teams
      BY <1>1, StateShape, LoadedShape DEF Announced
    <3>3. /\ Turn(k) \in DOMAIN team'[announced[k].team]
          /\ team'[announced[k].team][Turn(k)]
               = team[announced[k].team][Turn(k)]
      BY <1>9, <3>1, <3>2
    <3>. QED BY <3>1, <3>3
  <2>4. /\ Turn(n) \in DOMAIN team'[c.team]
        /\ team'[c.team][Turn(n)] = player
    <3>1. Turn(n) = Len(team'[c.team])
      BY <1>5, <1>6, <2>2 DEF Turn
    <3>. QED BY <1>5, <1>9, <3>1
  <2>5. \A k : Turn(k)' = Turn(k)
    BY <1>2 DEF Turn
  <2>6. PlayersInOrder'
    <3>1. \A k \in 1 .. n : k \in 1 .. Loaded \/ k = n BY <1>6
    <3>2. ASSUME NEW k \in 1 .. n
          PROVE  LET players == team'[announced[k].team]
                 IN  /\ Turn(k) \in DOMAIN players
                     /\ players[Turn(k)].id = announced[k].id
                     /\ players[Turn(k)].vehicle = announced[k].vehicle
      <4>1. CASE k \in 1 .. Loaded BY <2>3, <4>1
      <4>2. CASE k = n BY <1>5, <1>6, <2>4, <4>2
      <4>. QED BY <3>1, <4>1, <4>2
    <3>. QED BY <1>2, <1>17, <2>2, <2>5, <3>2 DEF PlayersInOrder
  <2>7. PlayersLoaded'
    <3> SUFFICES ASSUME NEW t \in Teams, NEW i \in DOMAIN team'[t]
        PROVE  \E k \in 1 .. n : announced[k].id = team'[t][i].id
      BY <1>2, <1>17 DEF PlayersLoaded
    <3>1. CASE i \in DOMAIN team[t]
      <4>1. PICK k \in 1 .. Loaded : announced[k].id = team[t][i].id
        BY <3>1 DEF Inv, PlayersLoaded
      <4>2. k \in 1 .. n BY <1>6
      <4>. QED BY <1>9, <3>1, <4>1, <4>2
    <3>2. CASE team'[t][i] = player
      <4>1. n \in 1 .. n BY <1>6
      <4>. QED BY <1>5, <1>6, <3>2, <4>1
    <3>. QED BY <1>10, <3>1, <3>2
  <2>. QED BY <2>1, <2>6, <2>7 DEF ClientsPlay
<1>19. Applied'
  BY <1>2 DEF Inv, Applied, Once
<1>20. Unplayed'
  <2>1. \A id : id \in Players => (id \in Players)'
    BY <1>9, PlayersAre, PlayersAreNext
  <2>. QED BY <1>2, <2>1 DEF Inv, Unplayed
<1>. QED BY <1>14, <1>15, <1>16, <1>17, <1>18, <1>19, <1>20 DEF Inv

\* Steps that leave the clients and the players alone.
LEMMA QuietStep ==
  ASSUME Inv, TypeOK', network \subseteq network',
         UNCHANGED <<clients, team, to_load, added, announced, applied, missed>>
  PROVE  Inv'
<1>1. OneDatagram'
  BY DEF Inv, OneDatagram
<1>2. InputAgrees' = InputAgrees
  BY DEF InputAgrees, IsFirst, Once
<1>3. Queue' = Queue /\ PlayersLoaded' = PlayersLoaded
  BY DEF Queue, PlayersLoaded, Loaded
<1>4. ClientsPlay' = ClientsPlay
  BY DEF ClientsPlay, ClientsInOrder, PlayersInOrder, Turn, Loaded
<1>5. Applied'
  BY DEF Inv, Applied, Once
<1>6. Unplayed'
  BY DEF Inv, Unplayed, Players, Playing
<1>. QED BY <1>1, <1>2, <1>3, <1>4, <1>5, <1>6 DEF Inv

\* What a good read does to the clients.
LEMMA ReadClients ==
  ASSUME TypeOK, NEW m \in network, Receive(m)
  PROVE  /\ m \in Datagram
         /\ clients' \in Seq(ClientUdp)
         /\ Len(clients') = Len(clients)
         /\ DOMAIN clients' = DOMAIN clients
         /\ \A k \in DOMAIN clients :
              /\ clients'[k].id = clients[k].id
              /\ clients'[k].ip = clients[k].ip
              /\ GoodRead(k, m) =>
                   /\ clients'[k].input = m.input
                   /\ clients'[k].last_sequence = m.sequence
                   /\ clients'[k].remote_endpoint = m.source
              /\ ~GoodRead(k, m) => clients'[k] = clients[k]
<1>1. m \in Datagram
  BY DEF TypeOK
<1>2. /\ Len(clients) \in Nat /\ DOMAIN clients = 1 .. Len(clients)
      /\ \A k \in DOMAIN clients : clients[k] \in ClientUdp
  BY StateShape
<1>3. clients' = [k \in DOMAIN clients |->
                    IF GoodRead(k, m)
                    THEN DecodeDatagram(clients[k], m) ELSE clients[k]]
  BY DEF Receive
<1>4. \A k \in DOMAIN clients :
        /\ DecodeDatagram(clients[k], m) \in ClientUdp
        /\ DecodeDatagram(clients[k], m).id = clients[k].id
        /\ DecodeDatagram(clients[k], m).ip = clients[k].ip
        /\ DecodeDatagram(clients[k], m).input = m.input
        /\ DecodeDatagram(clients[k], m).last_sequence = m.sequence
        /\ DecodeDatagram(clients[k], m).remote_endpoint = m.source
  BY <1>1, <1>2 DEF DecodeDatagram, ClientUdp, Datagram
<1>5. clients' \in [1 .. Len(clients) -> ClientUdp]
  BY <1>2, <1>3, <1>4
<1>6. clients' \in Seq(ClientUdp) /\ Len(clients') = Len(clients)
  BY <1>2, <1>5, FunctionIsSeq
<1>. QED BY <1>1, <1>2, <1>3, <1>4, <1>6

LEMMA ReceiveStep ==
  ASSUME Inv, NEW m \in network, Receive(m)
  PROVE  Inv'
<1>1. TypeOK
  BY DEF Inv
<1>2. UNCHANGED <<to_load, added, announced, transmit_buffer, transmitting,
                  network, counter, restarts, served>>
  BY DEF Receive
<1>3. /\ m \in Datagram
      /\ clients' \in Seq(ClientUdp)
      /\ Len(clients') = Len(clients)
      /\ DOMAIN clients' = DOMAIN clients
      /\ \A k \in DOMAIN clients :
           /\ clients'[k].id = clients[k].id
           /\ clients'[k].ip = clients[k].ip
           /\ GoodRead(k, m) =>
                /\ clients'[k].input = m.input
                /\ clients'[k].last_sequence = m.sequence
                /\ clients'[k].remote_endpoint = m.source
           /\ ~GoodRead(k, m) => clients'[k] = clients[k]
  BY <1>1, ReadClients
<1>4. CASE \A k \in DOMAIN clients : ~GoodRead(k, m)
  <2>1. UNCHANGED <<team, applied, missed>>
    BY <1>4 DEF Receive
  <2>2. clients' = clients
    <3>1. \A k \in 1 .. Len(clients) : clients'[k] = clients[k]
      BY <1>1, <1>3, <1>4, StateShape
    <3>. QED BY <1>1, <1>3, <3>1, SeqEqual DEF TypeOK
  <2>3. TypeOK'
    BY <1>1, <1>2, <2>1, <2>2 DEF TypeOK
  <2>. QED BY <1>2, <2>1, <2>2, <2>3, QuietStep
<1>5. CASE \E k \in DOMAIN clients : GoodRead(k, m)
  <2>1. PICK r \in DOMAIN clients : GoodRead(r, m)
    BY <1>5
  <2>2. /\ m.id = clients[r].id /\ m.id \in PlayerId /\ m.sequence \in Nat
        /\ m.input \in Input
        /\ m.sequence > clients[r].last_sequence
    BY <1>3, <2>1 DEF GoodRead, Datagram
  <2>3. \A k \in DOMAIN clients :
          Once(clients[k].id) /\ clients[k].id = m.id => k = r
    BY <2>2, OneEntry
  <2>4. \A k \in DOMAIN clients :
          clients[k].id # m.id => clients'[k] = clients[k]
    BY <1>3 DEF GoodRead
  <2>5. /\ clients'[r].input = m.input /\ clients'[r].last_sequence = m.sequence
        /\ clients'[r].remote_endpoint = m.source
        /\ clients'[r].id = m.id
    BY <1>3, <2>1, <2>2
  <2>6. /\ team' = SetPlayerInput(team, m.id, m.input)
        /\ m.id \in Players => /\ applied' = [applied EXCEPT ![m.id] = m.sequence]
                               /\ missed' = missed \ {m.id}
        /\ m.id \notin Players => /\ applied' = applied
                                  /\ missed' = missed \cup {m.id}
    BY <2>1 DEF Receive
  <2>7. team \in BothTeams
    BY <1>1, StateShape
  <2>8. /\ team' \in BothTeams
        /\ \A t \in Teams : Len(team'[t]) = Len(team[t])
    BY <2>2, <2>6, <2>7, SetPlayerInputType
  <2>9. \A t \in Teams :
          /\ DOMAIN team'[t] = DOMAIN team[t]
          /\ \A i \in DOMAIN team[t] :
               /\ team'[t][i].id = team[t][i].id
               /\ team'[t][i].input
                    = IF team[t][i].id = m.id /\ IsFirst(team[t], i)
                      THEN m.input ELSE team[t][i].input
               /\ IsFirst(team'[t], i) <=> IsFirst(team[t], i)
    BY <2>2, <2>6, <2>7, InputReaches
  <2>10. \A id : (id \in Players)' <=> id \in Players
    BY <2>9, PlayersAre, PlayersAreNext
  <2>11. applied \in [PlayerId -> Nat] /\ applied' \in [PlayerId -> Nat]
    BY <1>1, <2>2, <2>6 DEF TypeOK
  <2>12. \A id \in PlayerId : id # m.id => applied'[id] = applied[id]
    BY <2>6, <2>11
  <2>13. applied'[m.id] = applied[m.id] \/ applied'[m.id] = m.sequence
    BY <2>2, <2>6, <2>11
  <2>14. /\ \A k \in DOMAIN clients : /\ clients[k].id \in PlayerId
                                      /\ clients[k].last_sequence \in Nat
    BY <1>1, StateShape DEF ClientUdp
  <2>15. TypeOK'
    <3>1. missed' \subseteq PlayerId BY <1>1, <2>2, <2>6 DEF TypeOK
    <3>. QED BY <1>1, <1>2, <1>3, <2>8, <2>11, <3>1 DEF TypeOK, BothTeams
  <2>16. OneDatagram'
    <3> SUFFICES ASSUME NEW k \in DOMAIN clients, clients'[k].last_sequence > 0
        PROVE  [source |-> clients'[k].remote_endpoint, id |-> clients'[k].id,
                sequence |-> clients'[k].last_sequence,
                input |-> clients'[k].input] \in network
      BY <1>2, <1>3 DEF OneDatagram
    <3>1. CASE GoodRead(k, m)
      <4>1. m = [source |-> m.source, id |-> m.id, sequence |-> m.sequence,
                 input |-> m.input]
        BY <1>3 DEF Datagram
      <4>2. clients'[k].id = m.id BY <1>3, <3>1 DEF GoodRead
      <4>. QED BY <1>3, <3>1, <4>1, <4>2
    <3>2. CASE ~GoodRead(k, m) BY <1>3, <3>2 DEF Inv, OneDatagram
    <3>. QED BY <3>1, <3>2
  <2>17. InputAgrees'
    <3> SUFFICES ASSUME NEW k \in DOMAIN clients', NEW t \in Teams,
                        NEW i \in DOMAIN team'[t],
                        Once(clients[k].id)',
                        team'[t][i].id = clients'[k].id, IsFirst(team'[t], i)
        PROVE  IF clients'[k].id \in missed'
               THEN team'[t][i].input
                      = [move |-> FALSE, direction |-> ZeroDirection]
               ELSE team'[t][i].input = clients'[k].input
      BY DEF InputAgrees
    <3>0. /\ k \in DOMAIN clients /\ i \in DOMAIN team[t]
          /\ clients'[k].id = clients[k].id
          /\ team[t][i].id = clients[k].id /\ IsFirst(team[t], i)
          /\ Once(clients[k].id)
      BY <1>2, <1>3, <2>9 DEF Once
    <3>1. CASE clients[k].id = m.id
      <4>0. k = r BY <2>3, <3>0, <3>1
      <4>1. m.id \in Players BY <2>2, <3>0, <3>1, PlayersAre
      <4>2. team'[t][i].input = m.input BY <2>2, <2>9, <3>0, <3>1
      <4>. QED BY <2>2, <2>5, <2>6, <3>0, <3>1, <4>0, <4>1, <4>2
    <3>2. CASE clients[k].id # m.id
      <4>1. clients[k].id # m.id BY <3>2
      <4>2. team'[t][i].input = team[t][i].input BY <2>9, <3>0, <4>1
      <4>3. clients[k].id \in missed' <=> clients[k].id \in missed
        BY <2>6, <4>1
      <4>4. IF clients[k].id \in missed
            THEN team[t][i].input
                   = [move |-> FALSE, direction |-> ZeroDirection]
            ELSE team[t][i].input = clients[k].input
        BY <3>0 DEF Inv, InputAgrees
      <4>. QED BY <2>4, <3>0, <3>2, <4>2, <4>3, <4>4
    <3>. QED BY <3>1, <3>2
  <2>18. Queue' /\ Loaded' = Loaded
    BY <1>2 DEF Inv, Queue, Loaded
  <2>19. ClientsPlay' /\ PlayersLoaded'
    <3>1. ClientsInOrder'
      BY <1>2, <1>3, <2>18 DEF Inv, ClientsPlay, ClientsInOrder
    <3>2. ASSUME NEW t \in Teams, NEW i \in DOMAIN team[t]
          PROVE  team'[t][i].vehicle = team[t][i].vehicle
      <4>1. team'[t] = [j \in DOMAIN team[t] |->
                          IF team[t][j].id = m.id /\ IsFirst(team[t], j)
                          THEN [team[t][j] EXCEPT !.input = m.input]
                          ELSE team[t][j]]
        BY <2>6 DEF SetPlayerInput
      <4>2. team[t][i] \in Player BY <2>7, TeamShape
      <4>. QED BY <4>1, <4>2 DEF Player
    <3>3. \A k \in 1 .. Loaded : announced[k].team \in Teams
      BY <1>1, StateShape, LoadedShape DEF Announced
    <3>4. \A k : Turn(k)' = Turn(k) BY <1>2 DEF Turn
    <3>5. \A t \in Teams :
            Len(team'[t])
              = Cardinality({k \in 1 .. Loaded : announced[k].team = t})
      BY <2>8 DEF Inv, ClientsPlay, PlayersInOrder
    <3>6. ASSUME NEW k \in 1 .. Loaded
          PROVE  LET players == team'[announced[k].team]
                 IN  /\ Turn(k) \in DOMAIN players
                     /\ players[Turn(k)].id = announced[k].id
                     /\ players[Turn(k)].vehicle = announced[k].vehicle
      <4>1. /\ Turn(k) \in DOMAIN team[announced[k].team]
            /\ team[announced[k].team][Turn(k)].id = announced[k].id
            /\ team[announced[k].team][Turn(k)].vehicle = announced[k].vehicle
        BY DEF Inv, ClientsPlay, PlayersInOrder
      <4>. QED BY <2>9, <3>2, <3>3, <4>1
    <3>7. PlayersInOrder'
      BY <1>2, <2>18, <3>4, <3>5, <3>6 DEF PlayersInOrder
    <3>8. PlayersLoaded'
      BY <1>2, <2>9, <2>18 DEF Inv, PlayersLoaded
    <3>. QED BY <3>1, <3>7, <3>8 DEF ClientsPlay
  <2>20. Applied'
    <3>1. ASSUME NEW k \in DOMAIN clients, Once(clients[k].id)
          PROVE  applied'[clients'[k].id] <= clients'[k].last_sequence
      <4>1. CASE clients[k].id = m.id
        <5>0. k = r BY <2>3, <3>1, <4>1
        <5>1. applied[m.id] <= clients[r].last_sequence
          BY <2>2, <3>1, <4>1, <5>0 DEF Inv, Applied
        <5>2. applied[m.id] \in Nat BY <2>2, <2>11
        <5>. QED BY <2>2, <2>5, <2>13, <2>14, <5>0, <5>1, <5>2
      <4>2. CASE clients[k].id # m.id
        BY <2>4, <2>12, <2>14, <3>1, <4>2 DEF Inv, Applied
      <4>. QED BY <4>1, <4>2
    <3>2. \A id \in PlayerId :
            (\A k \in DOMAIN clients : clients'[k].id # id) => applied'[id] = 0
      BY <1>3, <2>5, <2>12 DEF Inv, Applied
    <3>3. \A k \in DOMAIN clients' :
            Once(clients[k].id)' =>
              applied'[clients'[k].id] <= clients'[k].last_sequence
      BY <1>2, <1>3, <3>1 DEF Once
    <3>. QED BY <1>3, <3>2, <3>3 DEF Applied
  <2>21. Unplayed'
    <3>1. \A k \in DOMAIN clients : \/ clients'[k].id \in Players
                                    \/ clients'[k].id \in missed'
                                    \/ clients'[k].input = StandingStill
      <4> TAKE k \in DOMAIN clients
      <4>1. CASE clients[k].id = m.id BY <1>3, <2>6, <4>1
      <4>2. CASE clients[k].id # m.id
        <5>2. clients[k].id \in missed' <=> clients[k].id \in missed
          BY <2>6, <4>2
        <5>. QED BY <2>4, <4>2, <5>2 DEF Inv, Unplayed
      <4>. QED BY <4>1, <4>2
    <3>. QED BY <1>3, <2>10, <3>1 DEF Unplayed
  <2>. QED BY <2>15, <2>16, <2>17, <2>18, <2>19, <2>20, <2>21 DEF Inv
<1>. QED BY <1>4, <1>5

-----------------------------------------------------------------------------

LEMMA InvStep ==
  ASSUME Inv, [Next]_vars
  PROVE  Inv'
<1>1. TypeOK
  BY DEF Inv
<1>2. ASSUME NEW list \in Announcements, ReceiveList(list) PROVE Inv'
  BY <1>2, ReceiveListStep
<1>3. CASE AddClient
  BY <1>3, AddClientStep
<1>4. CASE AddPlayerOfClient
  BY <1>4, AddPlayerStep
<1>5. ASSUME NEW m \in network, Receive(m) PROVE Inv'
  BY <1>5, ReceiveStep
<1>6. CASE GetGameStatusIntoTransmitBuffer
  <2>1. /\ UNCHANGED <<clients, team, to_load, added, announced, applied, missed, network,
                       counter, restarts, served>>
        /\ transmit_buffer' = Players /\ transmitting' = TRUE
    BY <1>6 DEF GetGameStatusIntoTransmitBuffer
  <2>2. Players \subseteq PlayerId
    <3>1. \A t \in Teams : \A i \in DOMAIN team[t] : team[t][i].id \in PlayerId
      BY <1>1, StateShape, TeamShape DEF Player
    <3>. QED BY <3>1 DEF Players, Playing
  <2>3. TypeOK'
    BY <1>1, <2>1, <2>2 DEF TypeOK
  <2>. QED BY <2>1, <2>3, QuietStep
<1>7. CASE SendGameStatus
  <2>1. /\ UNCHANGED <<clients, team, to_load, added, announced, applied, missed, network,
                       counter, restarts, transmit_buffer>>
        /\ transmitting' = FALSE
        /\ served' \subseteq served \cup transmit_buffer
    BY <1>7 DEF SendGameStatus
  <2>2. TypeOK'
    BY <1>1, <2>1 DEF TypeOK
  <2>. QED BY <2>1, <2>2, QuietStep
<1>8. ASSUME NEW id \in PlayerId, NEW source \in Sources[id],
             NEW input \in Input, SendInput(id, source, input)
      PROVE Inv'
  <2>1. /\ UNCHANGED <<clients, team, to_load, added, announced, applied, missed,
                       restarts, transmit_buffer, transmitting, served>>
        /\ counter' = [counter EXCEPT ![id] = @ + 1]
        /\ network' = network \cup
             {[source |-> source, id |-> id, sequence |-> counter[id] + 1,
               input |-> input]}
    BY <1>8 DEF SendInput
  <2>2. counter \in [PlayerId -> Nat] /\ source \in Endpoint
    BY <1>1, ClientAssumption DEF TypeOK
  <2>3. counter' \in [PlayerId -> Nat] /\ counter[id] + 1 \in Nat
    BY <2>1, <2>2
  <2>4. network' \subseteq Datagram
    <3>1. network \subseteq Datagram BY <1>1 DEF TypeOK
    <3>. QED BY <2>1, <2>2, <2>3, <3>1 DEF Datagram
  <2>5. TypeOK'
    BY <1>1, <2>1, <2>3, <2>4 DEF TypeOK
  <2>6. network \subseteq network' BY <2>1
  <2>. QED BY <2>1, <2>5, <2>6, QuietStep
<1>9. ASSUME NEW id \in PlayerId, RestartApplication(id) PROVE Inv'
  <2>1. /\ UNCHANGED <<clients, team, to_load, added, announced, applied, missed, network,
                       transmit_buffer, transmitting, served>>
        /\ counter' = [counter EXCEPT ![id] = 0] /\ restarts' = restarts + 1
    BY <1>9 DEF RestartApplication
  <2>2. counter \in [PlayerId -> Nat] /\ restarts \in Nat
    BY <1>1 DEF TypeOK
  <2>3. counter' \in [PlayerId -> Nat] /\ restarts' \in Nat
    BY <2>1, <2>2
  <2>4. TypeOK'
    BY <1>1, <2>1, <2>3 DEF TypeOK
  <2>. QED BY <2>1, <2>4, QuietStep
<1>10. CASE UNCHANGED vars
  <2>1. UNCHANGED <<clients, team, to_load, added, announced, applied, missed, network>>
    BY <1>10 DEF vars
  <2>2. TypeOK'
    BY <1>1, <1>10 DEF TypeOK, vars
  <2>. QED BY <2>1, <2>2, QuietStep
<1>. QED BY <1>2, <1>3, <1>4, <1>5, <1>6, <1>7, <1>8, <1>9, <1>10
         DEF Next, LoadClients, StartTransmit

LEMMA InvHolds == Spec => []Inv
BY InvInit, InvStep, PTL DEF Spec

-----------------------------------------------------------------------------
(* The theorems.                                                           *)

\* Types, for any lists, inputs and restarts.
THEOREM TypeOKHolds == Spec => []TypeOK
<1>1. Inv => TypeOK BY DEF Inv
<1>. QED BY <1>1, InvHolds, PTL

\* The input, the sequence number and the endpoint of a client come from one
\* datagram that the client's application sent.
THEOREM OneDatagramHolds == Spec => []OneDatagram
<1>1. Inv => OneDatagram BY DEF Inv
<1>. QED BY <1>1, InvHolds, PTL

\* For any lists, of any length and with any repetition of ids: clients_ and
\* the teams hold exactly the clients announced, with their id, address, team
\* and vehicle and in their order, up to the one being loaded.
THEOREM ClientsPlayHolds == Spec => []ClientsPlay
<1>1. Inv => ClientsPlay BY DEF Inv
<1>. QED BY <1>1, InvHolds, PTL

\* A player whose id was announced once does what the newest input its client
\* accepted says, or stands when that input came before the player.
THEOREM InputAgreesHolds == Spec => []InputAgrees
<1>1. Inv => InputAgrees BY DEF Inv
<1>. QED BY <1>1, InvHolds, PTL

\* However datagrams are reordered, repeated or lost, what a player announced
\* once is given is never older than what it was given before.
THEOREM InputNeverOlderHolds == Spec => InputNeverOlder
<1> DEFINE Newer == \A id \in PlayerId : Once(id) => applied[id] <= applied'[id]
<1>1. ASSUME Inv, [Next]_vars PROVE Newer
  <2>1. applied \in [PlayerId -> Nat]
    BY <1>1 DEF Inv, TypeOK
  <2>2. CASE applied' = applied
    BY <2>1, <2>2
  <2>3. ASSUME NEW m \in network, Receive(m), applied' # applied PROVE Newer
    <3>1. PICK k \in DOMAIN clients : GoodRead(k, m)
      BY <2>3 DEF Receive
    <3>2. applied' = [applied EXCEPT ![m.id] = m.sequence]
      BY <2>3, <3>1 DEF Receive
    <3>3. /\ m.id \in PlayerId /\ m.sequence \in Nat
          /\ clients[k].last_sequence \in Nat
      BY <1>1, StateShape DEF Inv, TypeOK, Datagram, ClientUdp
    <3>4. ASSUME Once(m.id) PROVE applied[m.id] <= m.sequence
      <4>1. applied[m.id] <= clients[k].last_sequence
        BY <1>1, <3>1, <3>4 DEF Inv, Applied, GoodRead
      <4>2. applied[m.id] \in Nat BY <2>1, <3>3
      <4>. QED BY <3>1, <3>3, <4>1, <4>2 DEF GoodRead
    <3>. QED BY <2>1, <3>2, <3>3, <3>4
  <2>4. (\A m \in network : ~Receive(m)) => applied' = applied
    BY <1>1 DEF Next, LoadClients, AddClient, AddPlayerOfClient, ReceiveList,
         StartTransmit, GetGameStatusIntoTransmitBuffer, SendGameStatus,
         SendInput, RestartApplication, vars
  <2>. QED BY <2>2, <2>3, <2>4
<1>2. Inv /\ [Next]_vars => [Newer]_vars
  BY <1>1
<1>. QED BY <1>2, InvHolds, PTL DEF Spec, InputNeverOlder
=============================================================================
