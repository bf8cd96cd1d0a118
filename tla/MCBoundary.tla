------------------------------ MODULE MCBoundary ------------------------------
(***************************************************************************)
(* Everything the game process exchanges with others, on small inputs: one *)
(* behaviour follows one program start (arguments), one CRC, one packet,   *)
(* or the TCP stream of player lists (leg says which; the other variables  *)
(* stay as they are).                                                      *)
(*                                                                         *)
(* A serialized table is the begin sequence and its number among the       *)
(* tables of the run, so that a begin sequence also occurs in payloads and *)
(* no other byte of a payload is a begin sequence by accident.             *)
(***************************************************************************)
EXTENDS CrcCalculation, SubProcessSettings, MainProcessLink, Packets

VARIABLE leg

mcVars == <<leg, crcVars, settingsVars, linkVars, packetVars>>

-----------------------------------------------------------------------------
(* Program arguments.                                                      *)

MCValues == [n \in {"300", "-1", "12", "2.5", "x"} |->
               CASE n = "300" -> {300} [] n = "-1" -> {-1}
                 [] n = "12" -> {12} [] n = "2.5" -> {2} [] n = "x" -> {}]
MCText == {Option[f] : f \in Field} \cup DOMAIN MCValues
MCStoi == [t \in MCText |-> IF t \in DOMAIN MCValues THEN MCValues[t] ELSE {}]
MCStod == [t \in MCText |-> IF MCStoi[t] = {} THEN {} ELSE {t}]

Program == <<"game_process">>
Arguments ==
  {Program \o a : a \in UNION {[1 .. n -> MCText] : n \in 0 .. 3}}
    \cup {Program \o a : a \in [1 .. 5 -> {"--udp", "--map", "12", "x"}]}

-----------------------------------------------------------------------------
(* Player lists and packets.                                               *)

Client(id, vehicle) ==
  [name |-> "name", id |-> id, ip |-> "127.0.0.1", port |-> 5100 * id,
   vehicle |-> vehicle]

\* Two teams; another version; one team; a third team and a vehicle that
\* this version of the game process does not know.
MCPlayerList ==
  {[version |-> 10, teams |-> <<<<Client(1, 1)>>, <<Client(0, 0), Client(2, 2)>>>>],
   [version |-> 11, teams |-> <<<<Client(3, 1)>>, <<>>>>],
   [version |-> 10, teams |-> <<<<Client(4, 1)>>>>],
   [version |-> 10, teams |-> <<<<>>, <<Client(5, 3)>>, <<Client(6, 0)>>>>]}

Characters(codes) == [n \in DOMAIN codes |-> Low(WordOf(codes[n]), CHAR_BIT)]
MCBefore == Characters(<<116, 101, 115, 116>>)
MCAfter == Characters(<<116, 101, 115, 116, 171>>)

MCClient == [id : {0, 7}, last_sequence : {0, 1}]

MCInput == [kind : {"input"}, sequence : 0 .. 2, id : {0, 7},
            move : BOOLEAN, direction : {0, 3}]

MCPlayer(id, points, vehicle) ==
  [name |-> "name", id |-> id, points |-> points, position |-> "place",
   vehicle |-> vehicle]

MCStatus ==
  [kind : {"status"}, sequence : {0, 9},
   red : {<<>>, <<MCPlayer(0, 0, "PEDESTRIAN"), MCPlayer(1, 100, "CAR")>>},
   blue : {<<MCPlayer(2, 100, "CYCLIST"), MCPlayer(3, 100, "PEDESTRIAN")>>,
           <<MCPlayer(2, 0, "CAR")>>},
   boxes : {<<>>, <<[position |-> "place", value |-> 100],
                    [position |-> "place", value |-> 0]>>}]

MCMessage ==
  MCInput \cup MCStatus \cup [kind : {"game id"}, id : {0, 1, 511, 512, 1023}]
    \cup {[kind |-> "ended"]}

MCTables == {PlayerListTable(l) : l \in MCPlayerList}
              \cup {Table(m) : m \in MCMessage}

Numbered == FoldSet(LAMBDA t, s : Append(s, t), << >>, MCTables)

MCSerialize(t) ==
  BEGIN_SEQUENCE \o BytesOf(WordOf(CHOOSE n \in DOMAIN Numbered :
                                     Numbered[n] = t), 1)

-----------------------------------------------------------------------------

Idle == [kind |-> "ended"]

Init ==
  /\ leg \in {"arguments", "crc", "link", "packet"}
  /\ \E p \in IF leg = "crc" THEN Catalogue ELSE {CRC_32} :
       BeginCrc(p, CheckInput)
  /\ \E a \in IF leg = "arguments" THEN Arguments ELSE {Program} :
       LoadBegins(a)
  /\ LinkInit
  /\ \E m \in IF leg = "packet" THEN Message ELSE {Idle} : PacketSent(m)
  /\ leg # "packet" => receiver.kind = "application" /\ room = 1

CrcStep ==
  /\ leg = "crc"
  /\ CrcNext
  /\ UNCHANGED <<leg, settingsVars, linkVars, packetVars>>

SettingsStep ==
  /\ leg = "arguments"
  /\ LoadArgument
  /\ UNCHANGED <<leg, crcVars, linkVars, packetVars>>

PacketStep ==
  /\ leg = "packet"
  /\ ReceivePacket
  /\ UNCHANGED <<leg, crcVars, settingsVars, linkVars>>

LinkStep ==
  /\ leg = "link"
  /\ LinkNext
  /\ UNCHANGED <<leg, crcVars, settingsVars, packetVars>>

Next == CrcStep \/ SettingsStep \/ PacketStep \/ LinkStep

Spec == Init /\ [][Next]_mcVars /\ LinkFairness
=============================================================================
