-------------------------- MODULE GameProcess_proofs --------------------------
(***************************************************************************)
(* Theorems about GameProcess, with and without addresses that make        *)
(* AddClient throw, for any number of clients.                             *)
(***************************************************************************)
EXTENDS GameProcess, TLAPS

USE DEF vars, flags, mainProcess

-----------------------------------------------------------------------------
(* The inductive invariant: who holds which mutex, and what main's place   *)
(* says about the other threads.                                           *)

\* The two functions, whatever their values.
Shape ==
  /\ pc = [t \in Threads |-> pc[t]]
  /\ owner = [m \in Mutexes |-> owner[m]]
  /\ game_started \in BOOLEAN

\* A thread has not begun before main starts it.
StartOrder ==
  /\ pc["main"] = "construct" => pc["game"] = "none" /\ pc["mp"] = "none"
  /\ pc["main"] \in {"construct", "start_mp"} => pc["mp"] = "none"
  /\ pc["main"] \in {"construct", "start_mp", "start_cl"} => pc["cl"] = "none"
  /\ pc["main"] \in {"start_mp", "start_cl", "poll", "running"} =>
       pc["game"] # "none"

\* Tearing down, main has waited for those it went past.
StopOrder ==
  /\ pc["main"] \in {"stop_cl", "join_cl", "destroy"} => pc["mp"] = "ended"
  /\ pc["main"] = "destroy" => pc["cl"] = "ended"

\* The end of the game comes before the teardown.
GameOrder ==
  /\ game_started \/ pc["game"] \in {"none", "ended"}
  /\ pc["main"] \in {"finished", "stop_mp", "join_mp", "stop_cl", "join_cl",
                     "destroy"} => pc["game"] = "ended"

Order ==
  /\ StartOrder
  /\ StopOrder
  /\ GameOrder
  /\ NoThreadLeft
  /\ StatisticsBeforeStop

Inv == Shape /\ LockOrder /\ Order

-----------------------------------------------------------------------------

LEMMA InvInit == Init => Inv
<1> SUFFICES ASSUME Init PROVE Inv
  OBVIOUS
<1>1. Shape
  BY DEF Init, Shape
<1>2. LockOrder
  BY DEF Init, LockOrder, Threads, Mutexes, Sections, Abandoned, Nobody
<1>3. Order
  BY DEF Init, Order, StartOrder, StopOrder, GameOrder, NoThreadLeft,
         StatisticsBeforeStop, Threads
<1>. QED BY <1>1, <1>2, <1>3 DEF Inv

-----------------------------------------------------------------------------
(* A step of one thread from one place to another: what it does to the     *)
(* types and to the order of the mutexes.                                  *)

LEMMA LockStep ==
  ASSUME Inv, NEW t \in Threads, NEW m \in Mutexes,
         NEW from, NEW to, Lock(t, from, m, to),
         <<t, to>> \in Sections[m],
         \A n \in Mutexes : n # m =>
           (<<t, from>> \in Sections[n] <=> <<t, to>> \in Sections[n]),
         from \notin {"ending", "ended"}, to \notin {"ending", "ended"}
  PROVE  LockOrder'
<1>1. /\ pc' = [pc EXCEPT ![t] = to] /\ pc[t] = from
      /\ owner[m] = Nobody /\ owner' = [owner EXCEPT ![m] = t]
  BY DEF Lock, Goto
<1>2. \A u \in Threads : owner[m] # u
  BY <1>1 DEF Threads, Nobody
<1>. SUFFICES ASSUME NEW n \in Mutexes, NEW u \in Threads
     PROVE (owner[n] = u <=> \/ <<u, pc[u]>> \in Sections[n]
                             \/ Abandoned /\ <<u, n>> = <<"mp", "clients_mutex">>)'
  BY DEF LockOrder
<1>3. owner[n] = u <=> \/ <<u, pc[u]>> \in Sections[n]
                       \/ Abandoned /\ <<u, n>> = <<"mp", "clients_mutex">>
  BY DEF Inv, LockOrder
<1>4. Sections' = Sections
  BY DEF Sections
<1>5. CASE n = m /\ u = t
  BY <1>1, <1>4, <1>5 DEF Inv, Shape
<1>6. CASE n = m /\ u # t
  BY <1>1, <1>2, <1>3, <1>4, <1>6 DEF Inv, Shape, Abandoned
<1>7. CASE n # m
  BY <1>1, <1>3, <1>4, <1>7 DEF Inv, Shape, Abandoned
<1>. QED BY <1>5, <1>6, <1>7

LEMMA UnlockStep ==
  ASSUME Inv, NEW t \in Threads, NEW m \in Mutexes,
         NEW from, NEW to, pc[t] = from,
         Unlock(t, from, m, to),
         <<t, from>> \in Sections[m], <<t, to>> \notin Sections[m],
         \A n \in Mutexes : n # m =>
           (<<t, from>> \in Sections[n] <=> <<t, to>> \in Sections[n]),
         from \notin {"ending", "ended"}, to \notin {"ending", "ended"}
  PROVE  LockOrder'
<1>1. /\ pc' = [pc EXCEPT ![t] = to]
      /\ owner' = [owner EXCEPT ![m] = Nobody]
  BY DEF Unlock, Goto
<1>2. owner[m] = t
  BY DEF Inv, LockOrder
<1>. SUFFICES ASSUME NEW n \in Mutexes, NEW u \in Threads
     PROVE (owner[n] = u <=> \/ <<u, pc[u]>> \in Sections[n]
                             \/ Abandoned /\ <<u, n>> = <<"mp", "clients_mutex">>)'
  BY DEF LockOrder
<1>3. owner[n] = u <=> \/ <<u, pc[u]>> \in Sections[n]
                       \/ Abandoned /\ <<u, n>> = <<"mp", "clients_mutex">>
  BY DEF Inv, LockOrder
<1>4. Sections' = Sections
  BY DEF Sections
<1>5. Nobody \notin Threads
  BY DEF Threads, Nobody
<1>6. CASE n = m /\ u = t
  BY <1>1, <1>4, <1>5, <1>6 DEF Inv, Shape, Abandoned, Nobody
<1>7. CASE n = m /\ u # t
  BY <1>1, <1>2, <1>3, <1>4, <1>5, <1>7 DEF Inv, Shape, Abandoned, Nobody
<1>8. CASE n # m
  BY <1>1, <1>3, <1>4, <1>8 DEF Inv, Shape, Abandoned
<1>. QED BY <1>6, <1>7, <1>8

\* A step that leaves the mutexes alone and stays in or out of all sections.
LEMMA MoveStep ==
  ASSUME Inv, NEW t \in Threads, NEW from, NEW to,
         Goto(t, from, to), UNCHANGED owner,
         \A n \in Mutexes :
           (<<t, from>> \in Sections[n] <=> <<t, to>> \in Sections[n]),
         from \in {"ending", "ended"} <=> to \in {"ending", "ended"}
  PROVE  LockOrder'
<1>. SUFFICES ASSUME NEW n \in Mutexes, NEW u \in Threads
     PROVE (owner[n] = u <=> \/ <<u, pc[u]>> \in Sections[n]
                             \/ Abandoned /\ <<u, n>> = <<"mp", "clients_mutex">>)'
  BY DEF LockOrder
<1>1. owner[n] = u <=> \/ <<u, pc[u]>> \in Sections[n]
                       \/ Abandoned /\ <<u, n>> = <<"mp", "clients_mutex">>
  BY DEF Inv, LockOrder
<1>2. pc' = [pc EXCEPT ![t] = to] /\ pc[t] = from /\ owner' = owner
  BY DEF Goto
<1>3. Sections' = Sections
  BY DEF Sections
<1>4. Abandoned' <=> Abandoned
  BY <1>2 DEF Abandoned, Inv, Shape, Threads
<1>. QED BY <1>1, <1>2, <1>3, <1>4 DEF Inv, Shape

LEMMA ShapeStep ==
  ASSUME Inv, Next
  PROVE  Shape'
<1>. USE DEF Inv, Shape, Goto, Lock, Unlock
<1>1. CASE Main
  <2>1. CASE ConstructFails \/ StartGame
    BY <2>1 DEF ConstructFails, StartGame
  <2>2. CASE \/ Start("mp", "start_mp", "connect", "start_cl")
             \/ Start("cl", "start_cl", "run", "poll")
    BY <2>2 DEF Start
  <2>3. CASE PollLock \/ PollUnlock
    BY <2>3 DEF PollLock, PollUnlock
  <2>4. CASE SendGameFinished \/ Stop("mp", "stop_mp", "join_mp")
               \/ Stop("cl", "stop_cl", "join_cl")
    BY <2>4 DEF SendGameFinished, Stop
  <2>5. CASE \/ Join("mp", "join_mp", "stop_cl")
             \/ Join("cl", "join_cl", "destroy")
             \/ Join("game", "destroy", "exited")
    BY <2>5 DEF Join
  <2>6. CASE CancelThrows
    BY <2>6 DEF CancelThrows, Terminate
  <2>. QED BY <1>1, <2>1, <2>2, <2>3, <2>4, <2>5, <2>6 DEF Main
<1>2. CASE Game
  <2>1. CASE TickLock \/ TickUnlock
    BY <2>1 DEF TickLock, TickUnlock
  <2>2. CASE GameFinishedLock \/ GameFinishedUnlock
    BY <2>2 DEF GameFinishedLock, GameFinishedUnlock
  <2>3. CASE Finish
    BY <2>3 DEF Finish
  <2>4. CASE Crash
    BY <2>4 DEF Crash, Terminate
  <2>. QED BY <1>2, <2>1, <2>2, <2>3, <2>4 DEF Game
<1>3. CASE MainProcessComm
  BY <1>3 DEF MainProcessComm, Connect, ReceiveClients, AddClientLock,
              AddClientUnlock, AddClientThrows, AddPlayerLock,
              AddPlayerUnlock, LeaveRun, End
<1>4. CASE ClientCommunication
  BY <1>4 DEF ClientCommunication, NextHandler, ReceiveLock, SetMovementLock,
              SetMovementUnlock, ReceiveUnlock, StatusLock, StatusUnlock,
              SendLock, SendUnlock, LeaveRun, End
<1>5. CASE ConnectionEnds \/ Exited
  BY <1>5 DEF ConnectionEnds, Exited
<1>. QED BY <1>1, <1>2, <1>3, <1>4, <1>5 DEF Next

LEMMA LockOrderStep ==
  ASSUME Inv, Next
  PROVE  LockOrder'
<1>1. CASE \/ ConstructFails
          \/ SendGameFinished
          \/ Stop("mp", "stop_mp", "join_mp")
          \/ Stop("cl", "stop_cl", "join_cl")
          \/ Join("mp", "join_mp", "stop_cl")
          \/ Join("cl", "join_cl", "destroy")
          \/ Join("game", "destroy", "exited")
  <2>1. CASE Goto("main", "construct", "exited") /\ UNCHANGED owner
    BY <2>1, MoveStep DEF Threads, Mutexes, Sections
  <2>2. CASE Goto("main", "finished", "stop_mp") /\ UNCHANGED owner
    BY <2>2, MoveStep DEF Threads, Mutexes, Sections
  <2>3. CASE Goto("main", "stop_mp", "join_mp") /\ UNCHANGED owner
    BY <2>3, MoveStep DEF Threads, Mutexes, Sections
  <2>4. CASE Goto("main", "stop_cl", "join_cl") /\ UNCHANGED owner
    BY <2>4, MoveStep DEF Threads, Mutexes, Sections
  <2>5. CASE Goto("main", "join_mp", "stop_cl") /\ UNCHANGED owner
    BY <2>5, MoveStep DEF Threads, Mutexes, Sections
  <2>6. CASE Goto("main", "join_cl", "destroy") /\ UNCHANGED owner
    BY <2>6, MoveStep DEF Threads, Mutexes, Sections
  <2>7. CASE Goto("main", "destroy", "exited") /\ UNCHANGED owner
    BY <2>7, MoveStep DEF Threads, Mutexes, Sections
  <2>. QED BY <1>1, <2>1, <2>2, <2>3, <2>4, <2>5, <2>6, <2>7 DEF ConstructFails, SendGameFinished, Stop, Join
<1>2. CASE \/ StartGame
          \/ Start("mp", "start_mp", "connect", "start_cl")
          \/ Start("cl", "start_cl", "run", "poll")
  BY <1>2 DEF StartGame, Start, Inv, Shape, Order, StartOrder, LockOrder,
              Threads, Mutexes, Sections, Abandoned
<1>3. CASE PollLock
  <2>1. Lock("main", "poll", "mutex", "running")
    BY <1>3 DEF PollLock
  <2>. QED BY <2>1, LockStep DEF Threads, Mutexes, Sections
<1>4. CASE PollUnlock
  <2>1. CASE Unlock("main", "running", "mutex", "poll")
    <3>1. pc["main"] = "running"
      BY <2>1 DEF Unlock, Goto
    <3>. QED BY <2>1, <3>1, UnlockStep DEF Threads, Mutexes, Sections
  <2>2. CASE Unlock("main", "running", "mutex", "finished")
    <3>1. pc["main"] = "running"
      BY <2>2 DEF Unlock, Goto
    <3>. QED BY <2>2, <3>1, UnlockStep DEF Threads, Mutexes, Sections
  <2>. QED BY <1>4, <2>1, <2>2 DEF PollUnlock
<1>5. CASE TickLock
  <2>1. Lock("game", "tick", "mutex", "ticking")
    BY <1>5 DEF TickLock
  <2>. QED BY <2>1, LockStep DEF Threads, Mutexes, Sections
<1>6. CASE TickUnlock
  <2>1. pc["game"] = "ticking" /\ Unlock("game", "ticking", "mutex", "check")
    BY <1>6 DEF TickUnlock, Unlock, Goto
  <2>. QED BY <2>1, UnlockStep DEF Threads, Mutexes, Sections
<1>7. CASE GameFinishedLock
  <2>1. Lock("game", "check", "mutex", "checking")
    BY <1>7 DEF GameFinishedLock
  <2>. QED BY <2>1, LockStep DEF Threads, Mutexes, Sections
<1>8. CASE GameFinishedUnlock
  <2>1. CASE Unlock("game", "checking", "mutex", "statistics")
    <3>1. pc["game"] = "checking"
      BY <2>1 DEF Unlock, Goto
    <3>. QED BY <2>1, <3>1, UnlockStep DEF Threads, Mutexes, Sections
  <2>2. CASE Unlock("game", "checking", "mutex", "tick")
    <3>1. pc["game"] = "checking"
      BY <2>2 DEF Unlock, Goto
    <3>. QED BY <2>2, <3>1, UnlockStep DEF Threads, Mutexes, Sections
  <2>. QED BY <1>8, <2>1, <2>2 DEF GameFinishedUnlock
<1>9. CASE Finish
  BY <1>9 DEF Finish, Goto, Inv, Shape, LockOrder, Threads, Mutexes, Sections,
              Abandoned
<1>10. CASE \/ AddClientThrows
          \/ LeaveRun("mp")
  BY <1>10 DEF AddClientThrows, LeaveRun, Goto, Inv, Shape, LockOrder,
              Threads, Mutexes, Sections, Abandoned
<1>11. CASE \/ ReceiveClients
          \/ End("mp")
  <2>1. CASE Goto("mp", "run", "add_client") /\ UNCHANGED owner
    BY <2>1, MoveStep DEF Threads, Mutexes, Sections
  <2>2. CASE Goto("mp", "ending", "ended") /\ UNCHANGED owner
    BY <2>2, MoveStep DEF Threads, Mutexes, Sections
  <2>. QED BY <1>11, <2>1, <2>2 DEF ReceiveClients, End
<1>12. CASE Connect
  BY <1>12 DEF Connect, Goto, Inv, Shape, LockOrder, Threads, Mutexes, Sections,
              Abandoned
<1>13. CASE AddClientLock
  <2>1. Lock("mp", "add_client", "clients_mutex", "adding_client")
    BY <1>13 DEF AddClientLock
  <2>. QED BY <2>1, LockStep DEF Threads, Mutexes, Sections
<1>14. CASE AddClientUnlock
  <2>1. pc["mp"] = "adding_client" /\ Unlock("mp", "adding_client", "clients_mutex", "add_player")
    BY <1>14 DEF AddClientUnlock, Unlock, Goto
  <2>. QED BY <2>1, UnlockStep DEF Threads, Mutexes, Sections
<1>15. CASE AddPlayerLock
  <2>1. Lock("mp", "add_player", "mutex", "adding_player")
    BY <1>15 DEF AddPlayerLock
  <2>. QED BY <2>1, LockStep DEF Threads, Mutexes, Sections
<1>16. CASE AddPlayerUnlock
  <2>1. CASE Unlock("mp", "adding_player", "mutex", "run")
    <3>1. pc["mp"] = "adding_player"
      BY <2>1 DEF Unlock, Goto
    <3>. QED BY <2>1, <3>1, UnlockStep DEF Threads, Mutexes, Sections
  <2>2. CASE Unlock("mp", "adding_player", "mutex", "add_client")
    <3>1. pc["mp"] = "adding_player"
      BY <2>2 DEF Unlock, Goto
    <3>. QED BY <2>2, <3>1, UnlockStep DEF Threads, Mutexes, Sections
  <2>. QED BY <1>16, <2>1, <2>2 DEF AddPlayerUnlock
<1>17. CASE LeaveRun("cl")
  BY <1>17 DEF LeaveRun, Goto, Inv, Shape, LockOrder, Threads, Mutexes, Sections,
              Abandoned
<1>18. CASE \/ NextHandler
          \/ End("cl")
  <2>1. CASE Goto("cl", "run", "receive") /\ UNCHANGED owner
    BY <2>1, MoveStep DEF Threads, Mutexes, Sections
  <2>2. CASE Goto("cl", "run", "status") /\ UNCHANGED owner
    BY <2>2, MoveStep DEF Threads, Mutexes, Sections
  <2>3. CASE Goto("cl", "ending", "ended") /\ UNCHANGED owner
    BY <2>3, MoveStep DEF Threads, Mutexes, Sections
  <2>. QED BY <1>18, <2>1, <2>2, <2>3 DEF NextHandler, End
<1>19. CASE ReceiveLock
  <2>1. Lock("cl", "receive", "clients_mutex", "receiving")
    BY <1>19 DEF ReceiveLock
  <2>. QED BY <2>1, LockStep DEF Threads, Mutexes, Sections
<1>20. CASE SetMovementLock
  <2>1. Lock("cl", "receiving", "mutex", "setting")
    BY <1>20 DEF SetMovementLock
  <2>. QED BY <2>1, LockStep DEF Threads, Mutexes, Sections
<1>21. CASE SetMovementUnlock
  <2>1. pc["cl"] = "setting" /\ Unlock("cl", "setting", "mutex", "received")
    BY <1>21 DEF SetMovementUnlock, Unlock, Goto
  <2>. QED BY <2>1, UnlockStep DEF Threads, Mutexes, Sections
<1>22. CASE ReceiveUnlock
  <2>1. CASE Unlock("cl", "receiving", "clients_mutex", "run")
    <3>1. pc["cl"] = "receiving"
      BY <2>1 DEF Unlock, Goto
    <3>. QED BY <2>1, <3>1, UnlockStep DEF Threads, Mutexes, Sections
  <2>2. CASE Unlock("cl", "received", "clients_mutex", "run")
    <3>1. pc["cl"] = "received"
      BY <2>2 DEF Unlock, Goto
    <3>. QED BY <2>2, <3>1, UnlockStep DEF Threads, Mutexes, Sections
  <2>. QED BY <1>22, <2>1, <2>2 DEF ReceiveUnlock
<1>23. CASE StatusLock
  <2>1. Lock("cl", "status", "mutex", "serializing")
    BY <1>23 DEF StatusLock
  <2>. QED BY <2>1, LockStep DEF Threads, Mutexes, Sections
<1>24. CASE StatusUnlock
  <2>1. pc["cl"] = "serializing" /\ Unlock("cl", "serializing", "mutex", "send")
    BY <1>24 DEF StatusUnlock, Unlock, Goto
  <2>. QED BY <2>1, UnlockStep DEF Threads, Mutexes, Sections
<1>25. CASE SendLock
  <2>1. Lock("cl", "send", "clients_mutex", "sending")
    BY <1>25 DEF SendLock
  <2>. QED BY <2>1, LockStep DEF Threads, Mutexes, Sections
<1>26. CASE SendUnlock
  <2>1. pc["cl"] = "sending" /\ Unlock("cl", "sending", "clients_mutex", "run")
    BY <1>26 DEF SendUnlock, Unlock, Goto
  <2>. QED BY <2>1, UnlockStep DEF Threads, Mutexes, Sections
<1>27. CASE ConnectionEnds \/ Exited
  BY <1>27 DEF ConnectionEnds, Exited, Inv, LockOrder, Abandoned, Sections
<1>28. CASE CancelThrows \/ Crash
  BY <1>28 DEF CancelThrows, Crash, Terminate, Inv, Shape, LockOrder, Threads,
               Mutexes, Sections, Abandoned, Nobody
<1>29. CASE Main
  BY <1>29, <1>1, <1>2, <1>3, <1>4, <1>28 DEF Main
<1>30. CASE Game
  BY <1>30, <1>5, <1>6, <1>7, <1>8, <1>9, <1>28 DEF Game
<1>31. CASE MainProcessComm
  BY <1>31, <1>10, <1>11, <1>12, <1>13, <1>14, <1>15, <1>16 DEF MainProcessComm
<1>32. CASE ClientCommunication
  BY <1>32, <1>17, <1>18, <1>19, <1>20, <1>21, <1>22, <1>23, <1>24, <1>25, <1>26
     DEF ClientCommunication
<1>. QED BY <1>27, <1>29, <1>30, <1>31, <1>32 DEF Next

\* Main's place against the places of the others: only main's own steps and
\* the last one of the game thread disturb it.
LEMMA OrderStep ==
  ASSUME Inv, Next
  PROVE  Order'
<1>. USE DEF Inv, Shape, Order, StartOrder, StopOrder, GameOrder,
             NoThreadLeft, StatisticsBeforeStop, Threads, Goto, Lock, Unlock
<1>1. CASE Main
  <2>1. CASE ConstructFails
    BY <2>1 DEF ConstructFails
  <2>2. CASE StartGame
    BY <2>2 DEF StartGame
  <2>3. CASE \/ Start("mp", "start_mp", "connect", "start_cl")
             \/ Start("cl", "start_cl", "run", "poll")
    BY <2>3 DEF Start
  <2>4. CASE PollLock
    BY <2>4 DEF PollLock
  <2>5. CASE PollUnlock
    BY <2>5 DEF PollUnlock
  <2>6. CASE SendGameFinished
    BY <2>6 DEF SendGameFinished
  <2>7. CASE \/ Stop("mp", "stop_mp", "join_mp")
             \/ Stop("cl", "stop_cl", "join_cl")
    BY <2>7 DEF Stop
  <2>8. CASE \/ Join("mp", "join_mp", "stop_cl")
             \/ Join("cl", "join_cl", "destroy")
             \/ Join("game", "destroy", "exited")
    BY <2>8 DEF Join
  <2>9. CASE CancelThrows
    BY <2>9 DEF CancelThrows, Terminate
  <2>. QED BY <1>1, <2>1, <2>2, <2>3, <2>4, <2>5, <2>6, <2>7, <2>8, <2>9 DEF Main
<1>2. CASE Game
  <2>1. CASE TickLock \/ TickUnlock
    BY <2>1 DEF TickLock, TickUnlock
  <2>2. CASE GameFinishedLock \/ GameFinishedUnlock
    BY <2>2 DEF GameFinishedLock, GameFinishedUnlock
  <2>3. CASE Finish
    BY <2>3 DEF Finish
  <2>4. CASE Crash
    BY <2>4 DEF Crash, Terminate
  <2>. QED BY <1>2, <2>1, <2>2, <2>3, <2>4 DEF Game
<1>3. CASE MainProcessComm
  BY <1>3 DEF MainProcessComm, Connect, ReceiveClients, AddClientLock,
              AddClientUnlock, AddClientThrows, AddPlayerLock,
              AddPlayerUnlock, LeaveRun, End
<1>4. CASE ClientCommunication
  BY <1>4 DEF ClientCommunication, NextHandler, ReceiveLock, SetMovementLock,
              SetMovementUnlock, ReceiveUnlock, StatusLock, StatusUnlock,
              SendLock, SendUnlock, LeaveRun, End
<1>5. CASE ConnectionEnds \/ Exited
  BY <1>5 DEF ConnectionEnds, Exited
<1>. QED BY <1>1, <1>2, <1>3, <1>4, <1>5 DEF Next

LEMMA InvStep ==
  ASSUME Inv, [Next]_vars
  PROVE  Inv'
<1>1. CASE Next
  BY <1>1, ShapeStep, LockOrderStep, OrderStep DEF Inv
<1>2. CASE UNCHANGED vars
  BY <1>2 DEF Inv, Shape, LockOrder, Abandoned, Sections, Order, StartOrder,
              StopOrder, GameOrder, NoThreadLeft, StatisticsBeforeStop
<1>. QED BY <1>1, <1>2

-----------------------------------------------------------------------------
(* The theorems.                                                           *)

LEMMA InvHolds == Spec => []Inv
  BY InvInit, InvStep, PTL DEF Spec

\* mutex_ is the last mutex a thread takes and clients_mutex_ the first: a
\* mutex is held exactly by the thread inside one of its sections, and the
\* exception in AddClient is the only way to leave one without giving it back
\* (AddClient, StartReceive, GetGameStatusIntoTransmitBuffer, Tick, ...).
THEOREM LockOrderHolds == Spec => []LockOrder
<1>1. Inv => LockOrder
  BY DEF Inv
<1>. QED BY <1>1, InvHolds, PTL

\* When main returns every thread it started has ended (Stop of the two
\* communications and ~GameLogic join them), also after an exception.
THEOREM NoThreadLeftHolds == Spec => []NoThreadLeft
<1>1. Inv => NoThreadLeft
  BY DEF Inv, Order
<1>. QED BY <1>1, InvHolds, PTL

\* main stops the communication only after the game thread has ended, although
\* the flag Running() reads is written outside mutex_.
THEOREM StatisticsBeforeStopHolds == Spec => []StatisticsBeforeStop
<1>1. Inv => StatisticsBeforeStop
  BY DEF Inv, Order
<1>. QED BY <1>1, InvHolds, PTL

\* No two threads are ever in sections of the same mutex.
THEOREM MutualExclusion ==
  Spec => [](\A m \in Mutexes : \A t, u \in Threads :
               (<<t, pc[t]>> \in Sections[m] /\ <<u, pc[u]>> \in Sections[m])
                 => t = u)
<1>1. Inv => \A m \in Mutexes : \A t, u \in Threads :
               (<<t, pc[t]>> \in Sections[m] /\ <<u, pc[u]>> \in Sections[m])
                 => t = u
  BY DEF Inv, LockOrder
<1>. QED BY <1>1, InvHolds, PTL

\* Where a thread waits for a mutex.
Waiting ==
  [clients_mutex |-> {"add_client", "receive", "send"},
   mutex |-> {"poll", "tick", "check", "add_player", "receiving", "status"}]

\* A thread that waits for mutex_ does not hold it, and one that waits for
\* clients_mutex_ holds neither mutex: so no circle of waiting threads can
\* form (StartReceive of ClientCommunication takes mutex_ under
\* clients_mutex_, nothing takes them the other way round).
THEOREM NoCircularWait ==
  Spec => [](\A t \in Threads :
               /\ pc[t] \in Waiting.mutex => owner["mutex"] # t
               /\ pc[t] \in Waiting.clients_mutex =>
                    \A m \in Mutexes : owner[m] # t)
<1>1. Inv => \A t \in Threads :
               /\ pc[t] \in Waiting.mutex => owner["mutex"] # t
               /\ pc[t] \in Waiting.clients_mutex =>
                    \A m \in Mutexes : owner[m] # t
  BY DEF Inv, LockOrder, Waiting, Threads, Mutexes, Sections, Abandoned
<1>. QED BY <1>1, InvHolds, PTL
=============================================================================
