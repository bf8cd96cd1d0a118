----------------------------- MODULE GameProcess -----------------------------
(***************************************************************************)
(* The process: main() (main.cpp) and the threads of GameLogic,            *)
(* MainProcessComm and ClientCommunication, with the two mutexes they      *)
(* share.  The module has the control flow of the threads only; what the   *)
(* sections guarded by the mutexes do is in GameLogic.tla and              *)
(* ClientCommunication.tla.                                                *)
(***************************************************************************)
EXTENDS Naturals, Sequences

CONSTANTS
  BadAddresses,    \* may a client have an address make_address rejects?
  MaxClients       \* bound: clients the main process announces

ASSUME ProcessAssumption ==
  /\ BadAddresses \in BOOLEAN
  /\ MaxClients \in Nat

VARIABLES
  pc,             \* where each thread is
  owner,          \* who holds clients_mutex_ and mutex_
  game_started,   \* written by the game thread without mutex_
  won,            \* a team has points_to_win
  running,        \* running_ of MainProcessComm and ClientCommunication
  stopped,        \* whose io_context was stopped
  connection,     \* TCP connection to the main process
  announced,      \* clients announced so far
  told            \* the main process was sent the game finished message

vars == <<pc, owner, game_started, won, running, stopped, connection,
          announced, told>>

Threads == {"main", "game", "mp", "cl"}
Communications == {"mp", "cl"}
Mutexes == {"clients_mutex", "mutex"}
Nobody == "nobody"

-----------------------------------------------------------------------------

Goto(t, from, to) ==
  /\ pc[t] = from
  /\ pc' = [pc EXCEPT ![t] = to]

Lock(t, from, m, to) ==
  /\ owner[m] = Nobody
  /\ owner' = [owner EXCEPT ![m] = t]
  /\ Goto(t, from, to)

Unlock(t, from, m, to) ==
  /\ owner' = [owner EXCEPT ![m] = Nobody]
  /\ Goto(t, from, to)

flags == <<game_started, won, running, stopped>>
mainProcess == <<connection, announced, told>>

Init ==
  /\ pc = [t \in Threads |-> IF t = "main" THEN "construct" ELSE "none"]
  /\ owner = [m \in Mutexes |-> Nobody]
  /\ game_started = FALSE
  /\ won = FALSE
  /\ running = [c \in Communications |-> FALSE]
  /\ stopped = {}
  /\ connection = "none"
  /\ announced = 0
  /\ told = FALSE

\* The process is terminated: its threads and mutexes are gone.
Terminate ==
  /\ pc' = [t \in Threads |-> IF pc[t] = "ended" THEN "ended"
                                                ELSE "terminated"]
  /\ owner' = [m \in Mutexes |-> Nobody]
  /\ UNCHANGED <<flags, mainProcess>>

-----------------------------------------------------------------------------
(* main().                                                                 *)

\* The constructor of ClientCommunication opens the UDP port and may throw;
\* main returns -1, and no thread was started.
ConstructFails ==
  /\ Goto("main", "construct", "exited")
  /\ UNCHANGED <<owner, flags, mainProcess>>

StartGame ==
  /\ pc["main"] = "construct"
  /\ pc' = [pc EXCEPT !["main"] = "start_mp", !["game"] = "tick"]
  /\ game_started' = TRUE
  /\ UNCHANGED <<owner, won, running, stopped, mainProcess>>

\* MainProcessComm::Start, ClientCommunication::Start.
Start(c, from, first, to) ==
  /\ pc["main"] = from
  /\ pc' = [pc EXCEPT !["main"] = to, ![c] = first]
  /\ running' = [running EXCEPT ![c] = TRUE]
  /\ UNCHANGED <<owner, game_started, won, stopped, mainProcess>>

PollLock ==
  /\ Lock("main", "poll", "mutex", "running")
  /\ UNCHANGED <<flags, mainProcess>>

\* Running() returned; on true main sleeps for five seconds.
PollUnlock ==
  /\ \/ game_started  /\ Unlock("main", "running", "mutex", "poll")
     \/ ~game_started /\ Unlock("main", "running", "mutex", "finished")
  /\ UNCHANGED <<flags, mainProcess>>

\* Seeded fault: nothing is sent once the thread has ended.
SendIfRunning ==
  /\ Goto("main", "finished", "stop_mp")
  /\ told' = (connection = "open" /\ running["mp"])
  /\ UNCHANGED <<owner, flags, connection, announced>>

\* The write is attempted by the call itself; it needs no handler thread.
SendGameFinished ==
  /\ Goto("main", "finished", "stop_mp")
  /\ told' = (connection = "open")
  /\ UNCHANGED <<owner, flags, connection, announced>>

\* Seeded fault: the context is not stopped.
StopWithoutContext(c, from, to) ==
  /\ Goto("main", from, to)
  /\ connection' = IF c = "mp" /\ running[c] THEN "closed" ELSE connection
  /\ UNCHANGED <<owner, flags, announced, told>>

\* Stop of MainProcessComm and ClientCommunication, up to the join.  cancel()
\* and close() let the thread leave run() just as stop() does, so that the
\* three are one step.
Stop(c, from, to) ==
  /\ Goto("main", from, to)
  /\ IF running[c] THEN stopped' = stopped \cup {c} ELSE UNCHANGED stopped
  /\ connection' = IF c = "mp" /\ running[c] THEN "closed" ELSE connection
  /\ UNCHANGED <<owner, game_started, won, running, announced, told>>

\* cancel() throws if Connect has not opened the socket yet, and main() does
\* not catch it.
CancelThrows ==
  /\ pc["main"] = "stop_mp"
  /\ running["mp"]
  /\ pc["mp"] = "connect"
  /\ Terminate

\* Seeded fault: the thread is not joined.
JoinNothing(t, from, to) ==
  /\ Goto("main", from, to)
  /\ UNCHANGED <<owner, flags, mainProcess>>

Join(t, from, to) ==
  /\ pc[t] = "ended"
  /\ Goto("main", from, to)
  /\ UNCHANGED <<owner, flags, mainProcess>>

Main ==
  \/ ConstructFails
  \/ StartGame
  \/ Start("mp", "start_mp", "connect", "start_cl")
  \/ Start("cl", "start_cl", "run", "poll")
  \/ PollLock
  \/ PollUnlock
  \/ SendGameFinished
  \/ Stop("mp", "stop_mp", "join_mp")
  \/ CancelThrows
  \/ Join("mp", "join_mp", "stop_cl")
  \/ Stop("cl", "stop_cl", "join_cl")
  \/ Join("cl", "join_cl", "destroy")
  \/ Join("game", "destroy", "exited")    \* StopGame of ~GameLogic

-----------------------------------------------------------------------------
(* The game thread.                                                        *)

TickLock ==
  /\ Lock("game", "tick", "mutex", "ticking")
  /\ UNCHANGED <<flags, mainProcess>>

TickUnlock ==
  /\ Unlock("game", "ticking", "mutex", "check")
  /\ won' \in {won, TRUE}
  /\ UNCHANGED <<game_started, running, stopped, mainProcess>>

GameFinishedLock ==
  /\ Lock("game", "check", "mutex", "checking")
  /\ UNCHANGED <<flags, mainProcess>>

\* Seeded fault: game_started_ is cleared before the statistics are sent.
GameFinishedEarly ==
  /\ \/ won  /\ Unlock("game", "checking", "mutex", "statistics")
     \/ ~won /\ Unlock("game", "checking", "mutex", "tick")
  /\ game_started' = ~won
  /\ UNCHANGED <<won, running, stopped, mainProcess>>

GameFinishedUnlock ==
  /\ \/ won  /\ Unlock("game", "checking", "mutex", "statistics")
     \/ ~won /\ Unlock("game", "checking", "mutex", "tick")
  /\ UNCHANGED <<flags, mainProcess>>

\* SendStatisticsToDatabase has returned.
Finish ==
  /\ Goto("game", "statistics", "ended")
  /\ game_started' = FALSE
  /\ UNCHANGED <<owner, won, running, stopped, mainProcess>>

\* A player was added under a loop of the statistics (Crash of GameLogic).
Crash ==
  /\ pc["game"] = "statistics"
  /\ announced > 0
  /\ Terminate

Game ==
  \/ TickLock
  \/ TickUnlock
  \/ GameFinishedLock
  \/ GameFinishedUnlock
  \/ Finish
  \/ Crash

-----------------------------------------------------------------------------
(* The thread of MainProcessComm.                                          *)

Connect ==
  /\ \/ Goto("mp", "connect", "run")    /\ connection' = "open"
     \/ Goto("mp", "connect", "ending") /\ UNCHANGED connection
  /\ UNCHANGED <<owner, flags, announced, told>>

\* A list arrives; LoadClients begins with its first client.
ReceiveClients ==
  /\ connection = "open"
  /\ "mp" \notin stopped
  /\ announced < MaxClients
  /\ Goto("mp", "run", "add_client")
  /\ UNCHANGED <<owner, flags, mainProcess>>

AddClientLock ==
  /\ Lock("mp", "add_client", "clients_mutex", "adding_client")
  /\ announced' = announced + 1
  /\ UNCHANGED <<flags, connection, told>>

\* Seeded fault: the unlock is forgotten.
AddClientKeepsLock ==
  /\ Goto("mp", "adding_client", "add_player")
  /\ UNCHANGED <<owner, flags, mainProcess>>

AddClientUnlock ==
  /\ Unlock("mp", "adding_client", "clients_mutex", "add_player")
  /\ UNCHANGED <<flags, mainProcess>>

\* emplace_back constructs a ClientUdp, whose constructor throws.  AddClient
\* does not reach its unlock, and the exception leaves context_.run().
AddClientThrows ==
  /\ BadAddresses
  /\ Goto("mp", "adding_client", "ending")
  /\ UNCHANGED <<owner, flags, mainProcess>>

AddPlayerLock ==
  /\ Lock("mp", "add_player", "mutex", "adding_player")
  /\ UNCHANGED <<flags, mainProcess>>

AddPlayerUnlock ==
  /\ \/ Unlock("mp", "adding_player", "mutex", "run")
     \/ announced < MaxClients
          /\ Unlock("mp", "adding_player", "mutex", "add_client")
  /\ UNCHANGED <<flags, mainProcess>>

\* context_.run() returns: it was stopped, or the connection ended and the
\* handler did not start another read.
LeaveRun(c) ==
  /\ \/ c \in stopped
     \/ c = "mp" /\ connection = "closed"
  /\ Goto(c, "run", "ending")
  /\ UNCHANGED <<owner, flags, mainProcess>>

End(c) ==
  /\ Goto(c, "ending", "ended")
  /\ running' = [running EXCEPT ![c] = FALSE]
  /\ UNCHANGED <<owner, game_started, won, stopped, mainProcess>>

MainProcessComm ==
  \/ Connect
  \/ ReceiveClients
  \/ AddClientLock
  \/ AddClientUnlock
  \/ AddClientThrows
  \/ AddPlayerLock
  \/ AddPlayerUnlock
  \/ LeaveRun("mp")
  \/ End("mp")

\* The main process ends the connection, or it breaks.
ConnectionEnds ==
  /\ connection = "open"
  /\ connection' = "closed"
  /\ UNCHANGED <<pc, owner, flags, announced, told>>

-----------------------------------------------------------------------------
(* The thread of ClientCommunication.                                      *)

\* A datagram was received, or the transmit timer has expired.
NextHandler ==
  /\ "cl" \notin stopped
  /\ \/ Goto("cl", "run", "receive")
     \/ Goto("cl", "run", "status")
  /\ UNCHANGED <<owner, flags, mainProcess>>

ReceiveLock ==
  /\ Lock("cl", "receive", "clients_mutex", "receiving")
  /\ UNCHANGED <<flags, mainProcess>>

\* SetPlayerMovement takes mutex_ while clients_mutex_ is held.
SetMovementLock ==
  /\ Lock("cl", "receiving", "mutex", "setting")
  /\ UNCHANGED <<flags, mainProcess>>

SetMovementUnlock ==
  /\ Unlock("cl", "setting", "mutex", "received")
  /\ UNCHANGED <<flags, mainProcess>>

\* Seeded fault: a datagram nobody accepts returns from the handler.
ReceiveReturnsEarly ==
  /\ \/ Goto("cl", "receiving", "run") /\ UNCHANGED owner
     \/ Unlock("cl", "received", "clients_mutex", "run")
  /\ UNCHANGED <<flags, mainProcess>>

\* Without a good read the loop calls nothing.
ReceiveUnlock ==
  /\ \/ Unlock("cl", "receiving", "clients_mutex", "run")
     \/ Unlock("cl", "received", "clients_mutex", "run")
  /\ UNCHANGED <<flags, mainProcess>>

StatusLock ==
  /\ Lock("cl", "status", "mutex", "serializing")
  /\ UNCHANGED <<flags, mainProcess>>

StatusUnlock ==
  /\ Unlock("cl", "serializing", "mutex", "send")
  /\ UNCHANGED <<flags, mainProcess>>

SendLock ==
  /\ Lock("cl", "send", "clients_mutex", "sending")
  /\ UNCHANGED <<flags, mainProcess>>

SendUnlock ==
  /\ Unlock("cl", "sending", "clients_mutex", "run")
  /\ UNCHANGED <<flags, mainProcess>>

ClientCommunication ==
  \/ NextHandler
  \/ ReceiveLock
  \/ SetMovementLock
  \/ SetMovementUnlock
  \/ ReceiveUnlock
  \/ StatusLock
  \/ StatusUnlock
  \/ SendLock
  \/ SendUnlock
  \/ LeaveRun("cl")
  \/ End("cl")

-----------------------------------------------------------------------------

Exited == pc["main"] \in {"exited", "terminated"} /\ UNCHANGED vars

Next ==
  \/ Main
  \/ Game
  \/ MainProcessComm
  \/ ClientCommunication
  \/ ConnectionEnds
  \/ Exited

Spec == Init /\ [][Next]_vars

\* Every thread that can go on does.  A mutex a thread waits for is free
\* again and again, because the others sleep between their sections; that
\* the waiting thread gets it then is strong fairness.
FairSpec == Spec /\ SF_vars(Main) /\ SF_vars(Game)
                 /\ SF_vars(MainProcessComm) /\ SF_vars(ClientCommunication)

-----------------------------------------------------------------------------
(* Properties.                                                             *)

\* The sections of each mutex.
Sections ==
  [clients_mutex |-> {<<"mp", "adding_client">>, <<"cl", "receiving">>,
                      <<"cl", "setting">>, <<"cl", "received">>,
                      <<"cl", "sending">>},
   mutex |-> {<<"main", "running">>, <<"game", "ticking">>,
              <<"game", "checking">>, <<"mp", "adding_player">>,
              <<"cl", "setting">>, <<"cl", "serializing">>}]

\* An exception has left AddClient with clients_mutex_ locked for good.
Abandoned ==
  /\ owner["clients_mutex"] = "mp"
  /\ pc["mp"] \in {"ending", "ended"}

\* mutex_ is always taken last: no thread waits for a mutex while it holds
\* mutex_, and a thread outside every section holds nothing, unless it has
\* left one by the exception.
LockOrder ==
  \A m \in Mutexes : \A t \in Threads :
    owner[m] = t <=> \/ <<t, pc[t]>> \in Sections[m]
                     \/ Abandoned /\ <<t, m>> = <<"mp", "clients_mutex">>

\* No thread outlives main: a joinable thread destroyed with its object
\* would abort the process, a running one would use freed objects.
NoThreadLeft ==
  pc["main"] = "exited" =>
    \A t \in Threads \ {"main"} : pc[t] \in {"none", "ended"}

\* main stops the communication only after the game thread is done with the
\* statistics, although game_started_ is read while that thread still runs.
StatisticsBeforeStop ==
  stopped # {} => pc["game"] = "ended"

\* Every section ends, whichever thread is in it, but the abandoned one: in
\* particular the threads never wait for each other in a circle.
MutexReturned ==
  \A m \in Mutexes :
    owner[m] # Nobody ~> owner[m] = Nobody \/ (m = "clients_mutex" /\ Abandoned)

\* A won game ends the process: main sees the end of the game, both
\* communication threads stop and are joined, or the process is terminated
\* before.  Only the exception in AddClient, which StopReturns is about, may
\* keep it from that.
ProcessEnds == won ~> pc["main"] \in {"exited", "terminated"} \/ Abandoned

\* The main process learns that the game is over as long as the connection
\* holds and the process does not crash, even when an exception has ended the
\* thread that serves it.
ResultReported ==
  (/\ won
   /\ connection = "open"
   /\ pc["main"] \in {"poll", "running", "finished"})
     ~> told \/ connection # "open" \/ pc["main"] = "terminated"

\* "Stop the client communication." (client_communication.cpp:156): the call
\* main makes returns.
StopReturns == pc["main"] = "stop_cl" ~> pc["main"] = "destroy"
=============================================================================
