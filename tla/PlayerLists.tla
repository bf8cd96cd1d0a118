---------------------------- MODULE PlayerLists ----------------------------
(***************************************************************************)
(* What the main process may rely on: the player lists it announces are    *)
(* loaded one after the other, each once and as it was meant; only a list  *)
(* that was damaged on the way is left out.                                *)
(***************************************************************************)
EXTENDS Sequences, Naturals

CONSTANT List              \* what a player list can mean

VARIABLES announced, loaded

playerListVars == <<announced, loaded>>

\* The lists announced and not damaged, in their order.
Intact ==
  LET among[n \in 0 .. Len(announced)] ==
        IF n = 0 THEN << >>
        ELSE IF announced[n].damaged THEN among[n - 1]
        ELSE Append(among[n - 1], announced[n].list)
  IN  among[Len(announced)]

Init ==
  /\ announced = << >>
  /\ loaded = << >>

Announce(list, damaged) ==
  /\ announced' = Append(announced, [list |-> list, damaged |-> damaged])
  /\ UNCHANGED loaded

LoadNext ==
  /\ Len(loaded) < Len(Intact)
  /\ loaded' = Append(loaded, Intact[Len(loaded) + 1])
  /\ UNCHANGED announced

Next ==
  \/ \E list \in List, damaged \in BOOLEAN : Announce(list, damaged)
  \/ LoadNext

Spec == Init /\ [][Next]_playerListVars /\ WF_playerListVars(LoadNext)
=============================================================================
