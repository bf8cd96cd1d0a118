# UPZP game sub-process: specification and proofs

TLA+ modules for the game sub-process (`UPZP-GameProcess/`): one process per
game, with four threads, that takes a list of players from a main process over
TCP, takes their inputs and sends them the state of the game over UDP, moves
the players twenty times a second, and writes statistics to a database when one
team has won.

## 1. The system

| Component | State | Operations | Module |
| --- | --- | --- | --- |
| `Game`, `Team`, `Player` (`game_logic/game.cpp`, `team.cpp`, `player.cpp`) | two vectors of players (points, distance, position, input), a vector of point boxes | add a player, set an input, spawn a box, move everybody and collect boxes, serialize, write player rows | `Game`, `MovementLoop`, `Geometry`, `Packets` |
| `GameLogic` (`game_logic/game_logic.cpp`) | `game_started_`, `terminate_`, `last_point_box_spawn_`, `serialization_seq_num_`, `mutex_`, the game thread | start, stop, tick, status, statistics | `GameLogic` |
| `DatagramStream` (`datagram/datagram_stream.cpp`) | receive state, buffer, two lengths | add bytes, flush a datagram | `DatagramHeader`, `DatagramStream`, `DatagramReader` |
| `Datagram` (`datagram/datagram.cpp`) | version, payload, flags | load, get, setters, check the payload | `Datagram` |
| CRC (`inc/CRC.h`, a header-only library kept with the source) | none | calculate, whole or in parts, with or without a table | `Crc`, `CrcCatalogue`, `CrcCalculation` |
| Messages (`inc/*_generated.h`) | none | builders and accessors of five tables | `Schemas`, `Packets` |
| `MainProcessComm` (`main_process_comm/`) | TCP socket, io_context thread, stream | connect, send the game id, read, load clients, send game finished, stop | `GameProcess`, `ClientCommunication`, `MainProcessLink`, `PlayerLists`, `Packets` |
| `ClientCommunication`, `ClientUdp` (`client_communication/`) | clients (endpoint, last sequence, input), buffers, `clients_mutex_`, io_context thread | add a client, receive an input, send the status, stop | `ClientCommunication`, `GameProcess`, `Packets` |
| `SubProcessSettings` (`sub_process_settings.cpp`) | nine settings | load the program's arguments | `SubProcessSettings` |
| `main` (`main.cpp`) | the objects above | start everything, poll `Running()`, tear down | `GameProcess` |
| The two mockers (`*_mocker/`) | | send player lists and inputs, print what they receive | environment of `MainProcessLink`, `Packets`, `ClientCommunication` |
| `Maps` (`inc/maps.h`) | two constant tables nothing uses | | |

How they interact: `MainProcessComm` calls `ClientCommunication::AddClient`
(under `clients_mutex_`) and then `GameLogic::AddPlayer` (under `mutex_`).
The client thread calls `SetPlayerMovement` while it holds `clients_mutex_`,
and `GetGameStatus` while it does not. The game thread ticks under `mutex_` and
writes the statistics without it. `main` polls `Running()` every five seconds
and, when it is false, sends the game finished message, and stops and joins both
communication threads.

What is hard about it, and where the properties aim: two calls that belong
together but hold different mutexes (`AddClient`/`AddPlayer`, status/send); the
statistics and `game_started_` outside `mutex_`; UDP that loses, duplicates and
reorders; TCP that cuts datagrams anywhere; loops that erase what they iterate
over; delayed ticks; exceptions while a mutex is held; the teardown; damaged
bytes, versions and lengths that are narrowed, packets cut off by a buffer.
`PROJECT.json` lists each of these hazards at its line.

## 2. The modules

**`Game.tla`** is pure. A player and the boxes are what the class declarations
say; `AddPlayer`, `SetPlayerInput`, `Score`, `CalculateMovement`, `BoxesLeft` and
`GeneratePointBox` are the methods. Floating-point geometry is a parameter:
`Move` is where a vehicle is one tick later, `Near` is when a box is closer than
`POINT_BOX_COLLECT_DISTANCE` to the way travelled. So every result holds for
any geometry, also for the one the code has (which distorts distances, see 6).
Boxes have serial numbers, which the code does not have, to tell them apart.

**`MovementLoop.tla`** has the loops of `CalculateMovement`,
`CalculatePlayerMovement` and `CheckForPointBox` one iteration per step, with
the erase and the index that steps back, and checks that they compute the closed
form of `Game.tla`. **`Geometry.tla`** is `PointBoxDistance`, the point of a
segment nearest to a box, on integers: instead of a root and a quotient it
compares squares. `BoxCollection.tla` puts the two together (`Near` is
`PointBoxNear`) and is what the run of the loops instantiates.

**`GameLogic.tla`** has one action per call on `GameLogic` and one per step of
the game thread. Calls under `mutex_` are one action each. The statistics hold no
mutex and are split at every loop over a team and at every statement: the red score
is read, then the blue score, then the game's row is written, then the end of the
loop over the red players is fixed, then their rows are written one by one, and
players may join anywhere in between. `disturbed` has the loops (`Loops`) that
`AddPlayer` pushed a player under, to the team being iterated over (`Iterating`):
the vector may have moved, so what such a loop yields may be anything (`Garbage`,
see `Yields`) or end the process (`Crash`). `Garbage` stands for every wrong value;
that a wrong address could be written to is not modelled, the loops only read.
`spawned` and `holder` are history variables. `MCGameLogic.tla` gives it a ring of places,
`MCGameHeading.tla` a torus with quarter turns.

**`DatagramStream.tla`** has one action per block of `FlushData`, and the empty
buffer as an action of its own (`ScanEmpty`): there the code reads behind the end
of the vector, where the datagram just erased still is. `DatagramReader.tla` is
the abstract specification: a reader of the whole stream. `DatagramHeader.tla`
has what both know about a header; the lengths 12 and 16, the flag, the payload
length and the checksum are parameters, so that a run can use lengths 4 and 5.

**`ClientCommunication.tla`** composes the client list, the players of `Game.tla`
and the main-process thread's `LoadClients` with a network of datagrams that
stay in it, and so are received never, once or often, and in any order.
`announced`, `applied`, `missed` and `served` are history variables. The main
process may announce an id as often as it likes. `AddClient` does not look for it,
so `clients_` may hold two entries for one id, and the second accepts inputs that
the first refuses as old. Nothing in the repository says what should happen then:
`InputAgrees` and `InputNeverOlder` are stated for ids announced `Once`,
`ClientsPlay`, `OneDatagram` and `AnnouncedServed` for all, and `DuplicateStands` of
`GameLogic.tla` says what becomes of the second player. The applications number
their inputs as `client_communication_mocker` does, from one in each process.

**`Crc.tla`** is the computation of `CRC.h`: bit by bit, with a lookup table, and
resumed from a finished CRC. A word is the set of the positions of its bits, so a
shift moves a set, an exclusive or is a symmetric difference, and a word of 64
bits costs TLC no more than one of 8. `CrcCatalogue.tla` has the definitions of
the library, each with the check value of its comment; `CrcCalculation.tla` runs
the loops one byte per step.

**`Datagram.tla`** is the codec on bytes that are such words: `Get`, the checks of
`Load` (with the sum it takes modulo 2^32), what `Load` keeps, and
`PayloadCorrectness`. The checksums are computed, not assumed.

**`Schemas.tla`** has the builders and accessors of the five FlatBuffers tables. A
table is the function from the fields it holds to their values, since a field that
equals its default is not written. The bytes of a table are the library's and are
a parameter of which only injectivity is assumed, and that there are fewer than
2^31 of them, as the library sees to.

**`Packets.tla`** follows one message from its writer to one receiver, whose buffer
may be too small for it or whom it may not be meant for.

**`MainProcessLink.tla`** composes `Datagram.tla`, `Schemas.tla` and
`DatagramStream.tla` (`INSTANCE ... WITH` the real header and checksums) with the
main process and `LoadClients`, from the bytes on the wire to the calls of
`AddClient` and `AddPlayer`; one bit of a list may be damaged. `PlayerLists.tla`
is what the main process may rely on, and the property of the run.

**`SubProcessSettings.tla`** is the loop over the arguments, an argument per step.
What `std::stoi` and `std::stod` read is a parameter; the cut to the type of a
setting is modelled.

**`GameProcess.tla`** has the control flow of all four threads with both
mutexes, from `main()` to its end, without the data. A section under a mutex is a
lock and an unlock step, so that the order of the locks is there to be checked.
Connecting may fail, the connection may end, `AddClient` may throw. Two things
terminate the process (`Terminate`): the crash in the statistics, when a client was
announced, and `socket_.cancel()` in `MainProcessComm::Stop`, which throws if
`Connect` has not opened the socket yet and which `main()` does not catch
(`CancelThrows`). Otherwise the three calls of `Stop`, cancel, close and stop, are one
step, since each lets the thread leave `run()`.

Definitions that start with "Seeded fault" are variants of the definition that
follows them, each with one plausible bug; no specification uses them. With one
of them put in place of the original, the property named in `PROJECT.json` fails.

## 3. The runs

| Run | Checks | Bounds |
| --- | --- | --- |
| `game_accounting` | `TypeOK`, `BoxAccounting`, `PointsConserved`, `DuplicateStands`, `StatisticsAgree`, `RecordedBeforeStop`, `NoBoxLeftBehind`, `StatusOrder` | 2 ids, 2 players, 3 places, 3 ticks, 2 boxes win |
| `game_time` | `SpawnRate`, `ScoreTakesTime`, `GameEnds`, `StopReturns` | delays 1 to 3 around the period 2, 2 places, 4 ticks, 2 players, 2 boxes win |
| `blue_rows` | `BluePlayersRecorded`: violated | 1 player |
| `heading` | `ZeroIsNorth`: violated | 3 by 3 torus |
| `movement_loop` | `LoopsComputeMovement`, `OrderKept`, `NothingCloseLeft`, `LoopsEnd` | all of at most 2 + 1 players and 3 boxes on 4 places of two latitudes |
| `datagram_stream` | `TypeOK`, `HeaderStillCurrent`, `BufferBounded`, `FragmentationIndependent`, `BytesConserved`, `HandlerReturns`, `ReadsStream` (refinement) | all streams of 10 bytes of 3 values, reads of 1 or 2 bytes, headers of 4 and 5 |
| `datagram_scan` | `CompleteIsLoaded`: violated | 9 bytes, headers of 4 and 6 |
| `clients` | `TypeOK`, `OneDatagram`, `InputAgrees`, `ClientsPlay`, `InputNeverOlder`, `AnnouncedServed` | lists of 1 or 2 clients behind one address, 3 clients announced in all (`MaxAnnounced`), so that each id may come twice, 2 inputs each, 1 restart |
| `client_window` | `AcceptedInputGiven`: violated | 1 client, 1 input |
| `boundary` | `CheckValueReached`, `TableAgrees`, `LastReadableValueCounts`, `PacketsUnderstood`, `ListsLoaded` (refinement) | see below |
| `process` | `LockOrder`, `NoThreadLeft`, `StatisticsBeforeStop`, `MutexReturned`, `ProcessEnds`, `ResultReported` | 2 clients, with or without bad addresses |
| `process_stop` | `StopReturns`: violated | 1 client, bad addresses |

`boundary` is four small systems that do not interact, one per behaviour (`leg`):

* arguments: all command lines of up to 3 arguments out of the nine options and
  five values, and those of 5 out of two options and two values;
* crc: each of the catalogue's CRCs over the nine characters of its check value,
  with a cut before any byte;
* packet: the inputs, statuses and reports of `MCMessage`, each cut off at every
  length and at every receiver, the wrong ones among them;
* link: four player lists (two teams, another version, one team, three teams and
  an unknown vehicle) in streams of up to 56 bytes, enough for two of them, read
  in parts of 9 bytes or whole, with "test" around them as the mocker sends it,
  and one list of them with one of its lowest or highest bits damaged at any byte.

`UINT16_MODULUS`, `UINT32_MODULUS`, `INT32_MODULUS` and `LENGTH_MODULUS` are small
there, so that a few numbers reach them. A table's bytes are the begin sequence and
a number: a payload then also looks like the start of a datagram.

Why the bounds are enough. A dispute over a box needs two players and an order
over teams and within one; three ticks let a box be spawned, passed by and
collected, and a second one decide the game. Erasing while iterating goes wrong
with two or three boxes in a row; the four places lie before, at the ends of,
beside and behind the movements, and one movement has length zero. Ten bytes hold two
short datagrams, or one with garbage before it, or one whose payload begins like
another; reads of one byte cut them everywhere, and reads of two put the end of
one and the start of the next in one read. Several whole datagrams in one read are
in `boundary`, whose reads go up to the whole stream, and in the proofs, which
bound neither reads nor stream. Two inputs of a client can overtake each
other, and after a restart the first one comes again with other content; one of
the two applications sends from another port than the announced one. `GameProcess`
has few states, and its loops come back to where they were. A CRC treats one byte
after the other alike, and nine are what the check values are defined for.

`CHECK_DEADLOCK FALSE` is set where the system stops by design of the bound (the
stream, the lists, the arguments or the bytes are used up), when the loops of
`MovementLoop` have returned, and in the runs of `GameProcess`, where `AddClient`
may throw and the code then really waits for ever. `Abandoned` says that this
happened, and `LockOrder`, `MutexReturned` and `ProcessEnds` except that case and
no other: any other circle of threads would break `MutexReturned`. A process that
exited stutters.

Fairness. `GameLogic`: the game thread goes on (its sleep ends, a database call
returns or throws); no call of another thread is fair. `DatagramStream`: a handler
that was called runs to its end; that bytes arrive is not assumed.
`ClientCommunication`: `LoadClients` goes on and the transmit timer expires again
and again; that datagrams arrive is not assumed. `MainProcessLink`: what was sent
over TCP arrives and its handler runs (`LinkFairness`, weak fairness of `Receive`
with what enables it written out); that anything is sent is not assumed.
`GameProcess`: strong fairness for each thread, since a mutex is free again and
again while others sleep between their sections (50 ms, 5 s), and the thread that
waits is woken; handing over a mutex is more than weak fairness of taking it gives.

## 4. What the runs showed

The five violated properties, each with the line of the code that says otherwise:

* The rows of the blue players are never executed (`game.cpp:291-314`).
* Direction 0 is east, not north (`game.cpp:108`, `inc/player_input.h:12`).
* After a datagram that filled the buffer the scan of the empty buffer finds the
  begin sequence of the datagram just erased and takes the next bytes for a header
  (`datagram_stream.cpp:34`). With two or three bytes of garbage before it, a
  complete datagram without payload then waits for more bytes (`CompleteIsLoaded`).
  No message of this system is affected: a FlatBuffers payload begins with an
  offset of four bytes, so every datagram has the 16 bytes of a long header
  (`PayloadsFillHeader`), and then `FragmentationIndependent` holds, by proof.
* An input accepted between `AddClient` and `AddPlayer` is lost
  (`main_process_comm.cpp:96-99`). `InputAgrees` shows that the next one heals it.
* An exception in `AddClient` leaves `clients_mutex_` locked; the client thread
  and the join in `Stop` wait for ever (`client_communication.cpp:30-32`).

## 5. Proofs

`tlapm` checks them for every value of the constants that satisfies the assumptions
named with them. None is an assumption about a run: TLC evaluates each on the runs.

* `LeastNumber.tla`: a nonempty set of naturals has a least element. From it,
  facts about sums and about "the first player who ..." are proved without
  induction over data; the other modules argue with least counterexamples too.
* `Game_proofs.tla` (`MovementAssumption`, `ScoreAssumption`): types of the
  operators of `Game.tla`; the score is a natural number, grows with its terms,
  and is that of the old team when a player without points joins (`ScoreOfAppend`);
  a box in reach of somebody has exactly one collector (`CollectorExists`,
  `CollectorUnique`).
* `GameLogic_proofs.tla` (`TimeAssumption` besides):
  * `TypeCorrect`. `TypeOK` is inductive: it has the ranges of `row` and `row_end`,
    which make `team["red"][row + 1]` a player.
  * `SpawnRateHolds`: inductive with `TypeOK`; only `TickWithSpawn` changes it.
  * `BoxAccountingHolds`: inductive with `TypeOK`. Its first two conjuncts are what
    makes it so: a box on the map has no holder, so the boxes a player collects
    in a tick are disjoint from those held, and the sizes of the two sets add up.
  * `NoBoxLeftBehindHolds`: a box in reach has a collector (`CollectorExists`), so
    it is not in `BoxesLeft`.
  * `PointsConservedHolds`: every spawned box is on the map or has one holder, and
    a player's points are its boxes' values, so the scores count disjoint sets
    (`ScoreOfHolders`). `ScoreTakesTimeHolds` adds `SpawnRate`.
  * `RecordedBeforeStopHolds`: `Written` ties the game thread's place to the number
    of rows in the database. `StatisticsAgreeHolds`: each score and row that was read
    without the mutex is that of the won game, unless somebody joined the team while
    the loop that read it was under way. `Truthful` says so of what has been read,
    and not yet written, and of what has been written; no tick comes any more, a
    player who joins has no points and comes last, and an input changes none
    (`PlayersKept`), so what was read before a join between two loops stays true.
  * `StatusOrderHolds`, an action property: no step outside a tick changes what a
    status shows, scores never fall, and a tick raises the sequence number.
  * `DuplicateStandsHolds`: an input goes to the first player with its id.
* `MovementLoop_proofs.tla` (`LoopAssumption`): `LoopInv` says which players have
  been served (`PartlyMoved`), that the boxes left are those nobody served has
  reached (`Free`) and, within the loop over the boxes, which of them the current player
  has passed or taken (`Checking`). With it `LoopsComputeMovementHolds` and
  `OrderKeptHolds`: the loops compute the closed form the theorems on ticks use.
  Then the geometry of the code, for all integer places (`PlaceAssumption`):
  * `PointBoxNearMeansClose`: `PointBoxNear`, with its three cases and no root,
    holds exactly if some point of the way, at any fraction of it, is close to the
    box. The case in the middle is the least value of a quadratic.
  * `NothingCloseToWayLeftHolds` and `NothingCloseLeftHolds`: when the loops return,
    no box is close to a point of a way, nor to where a player was or is.
* `DatagramStream_proofs.tla` (`HeaderAssumption`, `FieldAssumption`,
  `ReadAssumption`): `HeaderInv` strengthens `TypeOK` and `HeaderStillCurrent` by
  what each state says of the buffer (`Incompleteness`); `BufferBounded` follows.
  `StreamInv` adds `BytesConserved` and `ReadAlike`: the reader of the whole stream
  finds what was delivered and then what it finds behind it. From these
  `FragmentationIndependentHolds`, under `PayloadsFillHeader`, and
  `ImplementsReader`, the safety half of the refinement. Then what the reader of a
  stream finds when datagrams lie amid other bytes (`DatagramTaken`, `NoisePassed`,
  `BytesPassed`, `NothingFound`), and that a handler that waits has delivered all of it
  (`WaitingHasAll`).
* `ClientCommunication_proofs.tla` (`ClientAssumption`, types only): `Inv` is
  `TypeOK`, `OneDatagram`, `ClientsPlay` and `InputAgrees` with `Queue` (the clients
  to be loaded are the last ones announced), `PlayersLoaded` (every player was
  announced and loaded), `Applied` (a player was given no input its client has not
  read) and `Unplayed` (an input of a client without a player is remembered as
  missed). An id announced `Once` has one entry in `clients_` (`OneEntry`).
  `InputNeverOlderHolds` is an action property of it.
* `GameProcess_proofs.tla` (`ProcessAssumption`): `Inv` is `LockOrder` with `Order`,
  which threads exist at each place of `main`. From it `LockOrderHolds`,
  `NoThreadLeftHolds`, `StatisticsBeforeStopHolds`, and two consequences of
  `LockOrder`: `MutualExclusion` and `NoCircularWait`.
* `Boundary_proofs.tla`, on what the process exchanges with others:
  * CRC, for all parameters the templates admit (`WellFormed`), those of the
    catalogue among them (`CatalogueWellFormed`). A word is a set; the loop body is
    linear for the symmetric difference (`EightRightLinear`,
    `EightLeftLinear`), and a byte of the table is what eight passes make of a byte
    alone. `CrcInvariant`: the two remainders agree in the bits that count (`Alike`;
    an unreflected CRC narrower than its type keeps rubbish above them, so they
    are not equal). From it `TableAgreesAlways`, and `PartsMakeWholeAlways`.
  * Arguments: `SettingsInv` says that the loop has treated the arguments before
    `i`, each option with the one after it. `LastReadableValueCountsAlways` follows,
    for any arguments and whatever `std::stoi` and `std::stod` read.
  * Packets (`SerializeAssumption`, `MessageAssumption`, `LengthAssumption`):
    `PacketsUnderstoodAlways`. Numbers survive the way to bytes and back
    (`NumberBack`, `VersionBack`), `GetLaidOut` says where each part of a datagram
    is, a whole datagram loads and no proper prefix of it does (`WholeAndPart`),
    and a table gives back what was put into it, fields left out because they equal
    their default included (`InputBack`, `StatusGenerated`). The invariant is only
    that the receiver makes of its part of the packet what the code says.
  * Damage: `SentIsAccepted` and `OneByteErrorFound`, from which
    `DamagedDatagramRefused`. One pass of the loop never maps two remainders to one
    (`BitRightApart`: the polynomials of both CRCs end in one), so a byte that
    differs makes a difference that the equal bytes behind it never take back
    (`RemaindersApart`). One damaged byte, in any of its bits, is found by the
    checksum of the header or of the payload. Two things are outside: a byte of a
    payload that has no checksum (the inputs), and the flag that says whether it has
    one. A datagram that loses the flag has a shorter header, whose checksum
    is looked for among the bytes of the payload's checksum; that it does not
    happen to be there is not guaranteed by the code (see `DamageAssumption` below).
  * Player lists, from the main process to `LoadClients`. `ListsLoadedAsMeant`: every
    step of the link is a step of `PlayerLists` or a stutter, the safety half of
    `ListsLoaded`, for all lists and cuts, for all bytes between datagrams that hold no
    begin sequence, and for every damaged bit that lets nothing in its datagram pass
    for a header (the assumptions below).
    `NoListHeldBack`: when all that was sent has been read and the handler waits,
    every intact list has been loaded. The liveness half then says no more than that
    the handler gets there, which is TLC's part.

    The inductive invariant `LinkInv` has three parts: `StreamInv` of the stream, with
    its header made the real one; `ListsRead`, that the datagrams which a reader of
    everything sent finds, `received` and `wire`, call for the intact lists of
    `announced`; and that `loaded` is what the datagrams in `delivered` call for.
    Only `SendPlayerList` changes what was sent, only `LoadDatagram` what was
    delivered, and `StreamInv` makes that the next datagram the reader finds.

    `ListsRead` survives a send because `ReadsAs` says what the reader finds in the
    bytes so far *whatever follows them*: bytes without a begin sequence are passed over
    (`NoiseSkipped`), a whole datagram is found and calls for its list (`WholeSent`,
    `ListCalled`, where the table is read back field by field, `ListBack`), and of a
    damaged one nothing is called and the next one is still found (`DamagedSent`). For
    the last, damage behind the header leaves a datagram that is found and refused
    (`DamagedPayload`, from `OneByteErrorFound`), and damage in the header leaves one
    that is passed over byte by byte (`DamagedHeader`). After damage what
    follows must be something the main process sends (`MayFollow`), since arbitrary
    bytes could complete a header that begins inside the damaged datagram.

    Assumptions. `PlayerListAssumption`: a list's version and length fit their fields.
    `AroundAssumption`: the bytes around datagrams contain no begin sequence.
    `DamageAssumption`: no header begins inside a datagram whose header is damaged,
    unless it is its own with the flag kept, which is proved not to pass. It is the only
    place where the checksums are trusted, and it has to be an assumption: they have 16
    bits, and for some list and bit the bytes of a payload may look like a
    header. It speaks of single datagrams and not of a run, and TLC evaluates it for
    the lists and bits of `boundary`.

The recursive function `CalculateRemainder` is unfolded by showing that it exists,
with the least number of bytes for which it would not (`LoopRuns`).

Checked by TLC only: everything about liveness under fairness (`GameEnds`,
`StopReturns`, `LoopsEnd`, `HandlerReturns`, `ReadsStream` in its liveness half,
`AnnouncedServed`, `MutexReturned`, `ProcessEnds`, `ResultReported`, `ListsLoaded`
in its liveness half), which is out of the prover's reach; and `CheckValueReached`,
which is about some fifty concrete values: it needs the loop evaluated 72 times for
each, which the provers do not do.

## 6. Not modelled

* Floating-point rounding, and that `LongitudeToMeters` takes the cosine of degrees:
  `Geometry.tla` has meters per degree as a parameter. Boxes are placed by a normal
  distribution that may leave the map.
* The layout of a FlatBuffers table in memory (an external library), and the
  functions of the generated headers that nothing calls: `Verify`, the variants with a
  size prefix, the `CreateDirect` shortcuts.
* The database and its statements beyond their order.
* Timing beyond order: that a sleep of 500 ms is enough for a send to complete.
  Sends that wait for room in a socket's buffer, and writes that are only partly done.
* The data race on `game_started_`, `terminate_` and `running_` beyond interleaving:
  a read sees the old or the new value.
* Reconnecting and timeouts of silent clients: the code has none.
* The command lines of the mockers, and `Maps`.

## 7. Plan

Done: every component but `Maps`, which nothing uses; a proof of every safety
property the runs check, the safety halves of both refinements included, but for
`CheckValueReached`, which section 5 leaves to TLC.

Left:

1. `CheckValueReached` for the two CRCs in use, if a prover that evaluates nine
   bytes is at hand.
2. More than one damaged list. `ListsRead` allows one, as `SendPlayerList` does;
   a second one needs `ReadsAs` for two damaged datagrams in a row.
