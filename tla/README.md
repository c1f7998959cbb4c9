# openSNAP in TLA+

openSNAP is a Python re-implementation of the SN@P game servers: consoles log in
at a *bootstrap* server, are handed over to a *game* server, and play in lobbies
and rooms over a reliable UDP protocol. These modules model the parts of it where
order, loss, restarts and shared state decide whether it works, model-check them
with TLC, and prove the central results with TLAPS. File and line references are to
`src/`; `PROJECT.json` maps every definition to its lines.

Contents: [inventory](#inventory) · [modules](#modules) ·
[runs](#runs-and-bounds) · [fairness](#fairness) · [proofs](#proofs) ·
[divergences](#divergences) · [assumptions](#assumptions) ·
[not modelled](#not-modelled) · [plan](#plan)

## Inventory

| component | state | operations | what makes it correct |
|---|---|---|---|
| reliable receive window (`core/sessions.py`, `core/engine.py`) | per session `last_incoming_sequence`, `held_reliable` | accept (deliver, duplicate, hold), hand on the held run, restart at KICS | every packet handled once and in order; an ACK stands for a packet that is kept |
| reliable send window (`udp_server.py`) | `_reliable_pending`, `_deferred_reliable`, `request_number` | number, send or defer, ACK, resend, time out, drop, forget at KICS | no number is lost, order is kept, the client's window is never overrun, no deferred packet waits for ever |
| session registry (`core/sessions.py`) | `_by_id`, `_id_by_endpoint` | adopt, rebind, remove, look up | the two tables agree; one session's change does not disturb another's |
| receive loop (`udp_server.py` `run`) | all of the above over every session | datagram, tick, resend pass | transport state follows its session through port changes, logins, timeouts |
| login and handoff (`core/bootstrap`, `core/game`, `storage/sql.py`) | `session_handoffs` rows, the registries of two processes, counters | bootstrap login and check, KICS login, idle end, timeout, restarts | who logs in gets in, as itself, with the numbering its console expects |
| engine ticks (`core/engine.py`) | `last_activity`, `last_keepalive` | idle end, keepalive, bootstrap forget | a live console is not ended, a dead one is |
| framed link (`udp_server.py` `_FramedLink`) | paced queue, folded ACK, awaited sends | queue, send one per interval, drop | a waiting packet is queued once, an ACK leaves once |
| lobbies and rooms (`core/rooms.py`, `core/sessions.py`, `plugins/common.py`) | lobby and room words, rooms, members, hosts | create, join, leave, prune, list, remove | words and members agree through every end and login |
| Auto Modellista, Beta1 | room game state, post-game reports | race start, reports, transition, chat, relays, counts | all members leave the race together; nobody is invisible; answers agree and acknowledge the right number |
| Monster Hunter (three builds) | `_players`, departures, Town aliases | Areas, Towns, quests, departures, returns, profiles, searches | a hunter is listed exactly where it can be met, and nothing is sent into a quest |
| Outbreak, beta, File#2 | `_players`, pending leaves | Areas, rooms, scenarios, deferred leaves, list updates, counts | members see each other; nothing is sent into a scenario; lists are fresh |
| accounts and sign-up (`core/accounts.py`, `opensnap_web/signup.py`) | users, recovery codes, login keys | create, log in, recover | a recovered account keeps no old credential; a code is used once |
| record store and rankings | record rows, boards | submit, top, entry | a row tells its history; rank and top agree |
| online players | rows per session | log in, set Area, log out, clear | who is listed is online |
| Capcom app services (`opensnap_app`) | flow tracker, connection threads, published pages | attribute, report, page, chunk, World and Land lists | a report acknowledged is stored; a page is whole |
| lap rankings (`opensnap_web/games/automodellista`) | none of its own | upload, announce | every course record is announced, and was stored |
| webhooks | queue, worker thread, day timer | send, post, retry, check | order is kept, a day is announced once |
| codec, configuration, SQL backends, DNS, tools | none or plain data | | |

How they interact. `run` (one thread per server process) takes at most one datagram:
its ACKs are applied by the *source port*, the session is resolved by *id, else by
port*, follows its client to that port, and its messages go through the receive
window to the engine's handlers, whose output is numbered and passes the send window.
Then at most one tick ends idle sessions and lets plugins send, and a resend pass
walks every packet in flight, may drop it (its session is gone or elsewhere), resend
it, or time it out, which ends the session: plugin, room, registry, handoff. Bootstrap
and game server are processes of their own that share only the SQL store; a login
crosses from one to the other as a row of `session_handoffs`. The web and app services
share the store too.

What is hard. The network loses, repeats, delays and reorders; several consoles sit
behind one NAT and swap its ports; a console crashes and logs in again while its old
session lives on (same session id: it is a digest of host and account); two server
processes restart independently; an ACK, a move, a login and a timeout of the same
session meet in one pass. `PROJECT.json` `hazards` lists the places, each with the
properties that would catch it, or the reason there is none yet.

## Modules

| module | models | composes |
|---|---|---|
| `ReliableDelivery` | abstract: numbers are delivered 0, 1, 2, … once each; a KICS login starts over | |
| `ReceiveWindow` | the engine's receive side of one session, with a client and the network | implements `ReliableDelivery` |
| `SendWindow` | the UDP server's send side of one session, with a client and the network | implements `ReliableDelivery` |
| `SessionRegistry` | the two tables and the engine operations on them | |
| `SessionTransport` | the receive loop over all sessions | extends `SessionRegistry` |
| `Login` | consoles, bootstrap, store and game server | `INSTANCE SessionRegistry` for each server |
| `ReceiveWindowProofs`, `SendWindowProofs`, `SessionTransportProofs` (registry, loop and timing), `ServiceProofs` (login and companions), `AutoModellistaProofs`, `MonsterHunterProofs`, `OutbreakProofs` | the theorems | extend the modules they are about |
| `RoomsProofs` | lemmas about the operators of `Rooms` and about reading its lists | extended by the proofs of the plugins |
| `SessionTiming` | time in one session: resends, silence rule, keepalives, idle limit, framed link | |
| `Rooms` | the sessions' places and the room table as operators; list pages | |
| `AutoModellista` / `AutoModellistaBeta1` | the plugin's rooms and races / the pushed user counts | `Rooms` / extends the release |
| `LobbyAnswers` | what both answer: counts, lists, chat, relays, ACKs of a datagram's requests | extends `AutoModellistaBeta1` |
| `MonsterHunter` / `TownAnswers` | Areas, Towns, quests, departures / the answers | `Rooms` / extends it |
| `Outbreak`, `Outbreak2` / `OutbreakAnswers` | both games' rooms and scenarios / the answers | `Rooms` / extends them |
| `Accounts`, `OnlinePlayers`, `Records` | the shared store's tables and who changes them | |
| `Listings` | rows in the order of an index, kept elements, sums | used by `Records`, `AppFlows`, `Directory`, `CapcomApp` |
| `AppFlows`, `Directory`, `CapcomApp`, `LapRankings`, `Webhooks` | the services around the game servers | `OnlinePlayers`, `Records` |
| `MCSessionRegistry`, `MCSessionTransport`, `MCLogin`, `MCAutoModellista`, `MCMonsterHunter`, `MCOutbreak` | constants and symmetry for TLC | |
| `MCCompanions` | one behaviour per service, beside the writers of its tables | all of the companions |

**ReceiveWindow.** `last` and `held` are `last_incoming_sequence` and the keys of
`held_reliable`. `Receive(s)` is one reliable datagram through `handle_datagram`:
`Receipt` is `accept_incoming`; `Deliver` runs the handler and then every held datagram
that comes next (`_handle_in_order`); `Hold` stores and ACKs; `Duplicate` ACKs again.
A handler that returns nothing gives no ACK, which is why `Deliver` ACKs any subset.
Any number the client ever used may arrive at any time, which covers loss, delay,
repetition and reordering; `acks` holds ACKs that may be lost. `FirstAlone` says whether
the client waits for the ACK of packet 0 before it sends packet 1.

**SendWindow.** `pending` and `deferred` are the session's part of `_reliable_pending` and
`_deferred_reliable`. Every action is a pass of the loop: `Serve` and `ServeAck` send what
handlers produced after the deferred ones (`SendMessages`), `Resend`, `Timeout`,
`EndSession` and `DropMissing` are the resend pass and the end of a session, `Kics` the
login that restarts the numbers. The client has a receive window of the same size, as
the comment at `udp_server.py:243-249` describes it.

**SessionRegistry.** The registry is one record of two functions and the source's methods are
operators on it (`Adopt`, `Rebind`, `Remove`, `GetByEndpoint`), so `SessionTransport` and
`Login` apply them to registries of their own. `LoggedIn` is the registry's part of the
KICS login, with its order: end the session found at the port, adopt, rebind. `Follow` is
`_follow_port_change`, which runs before any handler and so also before a KICS login whose
header names a known session (`Kics`, `HeadersFrom`).

**SessionTransport.** A packet in flight is its key (port, session, number), as in
`_reliable_pending`, plus the numbering it belongs to, which the code does not record.
`phase` walks the loop: a datagram (`Datagram`, `BootstrapLogin`, `KicsLogin`) or none,
`EndIdle` and `TickSends`, then `ResendPass(k)` for each key in flight when the pass
began. `Datagram` is the whole pass: ACK at the source port, registry move, `Followed`
(`_move_session_transport`), then new packets for any sessions the handler addresses.

**Login.** One action per request *and* its answer, which may be lost (`received`), in
which case the console asks again. `SqlSessionHandoffStore.issue` commits its DELETE
before its INSERT, so it is two actions (`IssueDelete`, `IssueInsert`) with everything
that happens elsewhere between them. `find_handoff` is `Found`, after the engine has let the session
of the header follow (`Followed`) and replaced an unknown session word by the session that the
port stands for (`Header`, `_normalize_session_for_message`); the KICS login ends the session
at its port, adopts or keeps the runtime session by the handoff's serial and continues
the unreliable counter handed over by the bootstrap.

**SessionTiming.** Times are ages counted in passes, each up to the value beyond which nothing
depends on it. `Pass` is one pass of the loop in the code's order: tick (idle end,
keepalive), resends, framed link. `calm` marks behaviours in which nothing is lost and the client ACKs in time.

**Rooms and the plugins.** `places` is one record (live sessions, lobby and room words, rooms),
so that a handler is a composition of operators: `Act` in `AutoModellista` is everything a handler does to the
rooms and what follows for reports and the host's table. Each plugin module has one action per
handler, the engine's ends (`End`), the logout and the KICS login with its silent room reset. What clients show (`slots`,
`shown`, `roster`, `table`, `count`) changes only by the callbacks the handler sends; it is what the
properties compare the server's tables with. `ghosts` are the members a KICS login took out without a callback.

**Answers.** Handlers that change nothing are operators (`QueryUser(s, channel, id)` and so on), and
invariants say that the answers of different handlers tell one story in every reachable state.
Lists go through `ListPages` and are read as the client does (`RowsRead`).
`LobbyAnswers` follows a datagram from `Decode` (only the head of a bundle has a number) to
the packets each request is answered with (`Reply`, `Direct`), for both plugins.

**Companions.** A request of a web or app thread takes one step per SQL statement or lock, with
what it read before in hand (`Accounts` `todo`, `Records` `jobs`). `Records` applies the update of an upsert in
both orders the backends use: all assignments at once, or left to right.
The parts share tables, not memory, so `MCCompanions` explores each by itself; `part` names it. Loops over rows are recursive functions
(`Listings`; `Forgotten`, `Armed`, `ReadLands`), because the prover has no induction for the folds of the community modules but has it for these.

A definition whose comment begins "a fault" or "two faults" is not part of the model: it
is the form the definition above or below it would have with a plausible bug, and
`PROJECT.json` `mutants` names the property that detects it.

## Runs and bounds

| run | question | bounds |
|---|---|---|
| `receive_window` | order, ACK promise, refinement, liveness for a client that sends packet 0 alone | numbers 0–4, one KICS restart |
| `send_window` | nothing lost, order, client window, no lost wake-up, refinement, everything delivered and retired | window 2, numbers 0–3, bursts of 3, one restart |
| `session_registry` | bindings of two clients behind one NAT and one on a host of its own | 3 sessions, 4 shared ports, 2 own |
| `session_transport` | live packets survive everything others do; the loop uses the registry's operations only | 2 sessions, 2 shared ports, 2 numbers, 2 logins each |
| `session_transport_own_hosts` | nothing obsolete outlives a pass; nothing of an old numbering outlives a login | 2 sessions, 2 ports each, same bounds |
| `login` | handoff survives, numbering continues, the newest login is served, a login completes | one account, 3 ports, 3 logins, counters to 3 |
| `login_shared_host` | one handoff per port | two accounts on 2 ports, 2 logins, a restart of the game server |
| `auto_modellista` | tables agree, host sees everybody, transition is a barrier and comes, answers agree and acknowledge one number | 3 sessions, 1 room, capacities 2 and 3, 3 lobbies of which one is entered; `CountsOrRaces` |
| `monster_hunter` | hunters are listed once and meet, returns find their Town, nothing reaches a started quest, answers agree | 3 hunters, 1 Area, 2 rooms ever, Areas of 2, 1 row per page; `ThirdFindsAreaFull` |
| `outbreak` | both games: rooms agree, members and packets meet, lists fresh, nothing reaches a scenario, answers agree | 3 players, 2 Areas and 1 room, or 2 players, 1 Area and 2 rooms; Areas of 2, 1 row per page; `TwoAreasOrTwoRooms` |
| `session_timing` | calm clients are kept, gone ones ended, keepalives only resent, ACKs ride once | 2 packets, 2 requests, queue of 2, keepalive after 6, silence limit 14, idle limit 33 (`CalmTiming` holds) |
| `companions` | accounts, flows, reports, pages, laps, lists, webhooks | 2 requests side by side, 3 codes; 2 logins of one client with 2 connections, a third with 1; 2 writers, 2 users, 2 times, 3 commits (2 for reports and pages); 3 Worlds; 2 days |

A run that checks a conjunction checks each of its named parts, which are defined and explained one by one:

| checked | parts |
|---|---|
| `TransportInv` | `TypeOK`, `LivePacketsKept` |
| `LoginInv` | `TypeOK`, `LoginKeepsHandoff`, `NumbersContinue`, `OwnLoginServed` |
| `RaceRoomsSound` | `BetaTypeOK`, `SessionsRoomHasIt`, `NobodyInvisible`, `FinishedRaceReturns`, `CountNeverShort` |
| `TownsSound` | `TypeOK`, `SessionsRoomHasIt`, `ListedOnce`, `HuntersMeet`, `PlaceKept`, `TownTableFresh`, `AreaNotOverfull` |
| `HunterSteps` | `QuestHearsNothing`, `ReturnForgetsDeparted` (action properties) |
| `TownAnswersSound` | `RoomNamesMeet`, `QueriesAgree`, `FriendStatusHasName`, `SendersAreShown` |
| `PlayersSound` | `BothTypeOK`, `RoomsAgree`, `MembersMeet`, `RoomListFresh`, `CapacityKept`, `CountNeverShort` |
| `OutbreakAnswersSound` | `RelaysMeet`, `RelaysMeet2`, `QueriesAgree`, `FriendFound`, `PacketsMeet` |
| `TimingSound` | `TimingTypeOK`, `CalmClientKept`, `GoneClientEnded`, `AcksRideOnce`, `WaitingIsQueued` |
| `AccountsSound` | `AccountsTypeOK`, `OneRecoveryPerCode`, `AgreeOnPassword`, `KeyIsPassword` |
| `FlowsSound` | `FlowsTypeOK`, `TrackedHasFlow`, `FlowsDisjoint` |
| `RecordsSound` | `RecordsTypeOK`, `BackendsAgree`, `RowTellsHistory`, `RankAgrees`, `CompletedIsListed`, `AnnouncedWasStored` |
| `ReportsSound` | `CapcomTypeOK`, `PageWhole`, `OwnRowOnce` |
| `DirectorySound` | `DirectoryTypeOK`, `AreaIdsUnique`, `ListsComplete` |
| `WebhooksSound` | `WebhooksTypeOK`, `TakenInOrder`, `DayAnnouncedOnce` |
| `CompanionSteps` | `ReloginKeepsPhase`, `AckedIsStored`, `CourseRecordAnnounced`, `PopulationsAddUp` (action properties) |

Of the two windows the runs check the inductive invariants `FirstAloneInv` and `SendInv` and the
strongest of what follows from them; `TypeOK`, `ConsecutiveOnceStarted`, `HeldWaitsForGap`, `GapNeverSkipped` and
`DeferredInOrder` are conjuncts of these or are proved.

Why these are enough to show the interesting cases. Five numbers give the receive window
a gap, a held run and a packet after the run, before and after a login. A window of
two with four numbers and bursts of three fills it, defers, and lets an ACK in the middle
open it only when the oldest is gone. Two sessions on four shared ports make every order
of take-over, move and end reachable; the theorems below remove these bounds altogether.
Two sessions and two ports are the smallest NAT where a port changes hands while
packets are in flight; two numbers per numbering keep an ACKed and an unACKed one. Three
logins give an old, a current and a next one. Three
sessions are the fewest where two members of a room see a third one's end; one room shows joins, closes and
prunes, two a Town and its quest. A page of one row makes every list of two a paged one. The limits of `session_timing`
are the smallest that satisfy the hypothesis of its theorem and let a silence outlast the silence limit before a keepalive is ACKed. Two threads
are the fewest that race, two times the fewest that tie or not. Further bounds (`MaxRoomId`, `MaxCommits`, `MaxCodes`,
`MaxDay`, `MaxNews`, `MaxLogins`, `MaxWorlds`, `MaxTries`, `MaxQueue`, `MaxFallback`, `CountCap`) are named where they are declared;
Three state
constraints keep the room runs small; a state beyond one is checked and not continued. `CountsOrRaces`: in rooms of three a race
runs while no pushed count is out of date (in rooms of two it runs with any counts), as races and counts share nothing but the members.
`ThirdFindsAreaFull`: the third session is there to be refused by an Area of two; once a second room exists there are two
sessions, of which one that ends makes way for the other identity. `TwoAreasOrTwoRooms`: the third
Outbreak player and the second Area are there until a second room exists. Bounds (`MaxSeq`, `MaxRestarts`, `MaxNumbering`,
`MaxSerial`, `MaxNumber`, `Burst`, `MaxGameRestarts`) are in the guards; no property
relies on a bound being reached, except that `LoginCompletes` excuses a login that reached one.

Deadlock is checked everywhere but in `companions`, whose parts come to rest when everybody has
been served (a stopped web server, lists read, all commits made). Symmetry is used only where no liveness property
is checked: clients and ports in `session_transport`, the sessions in the three game runs.

## Fairness

- `ReceiveWindow!Fairness`: weak fairness on the arrival of a packet the client still
  resends, strong fairness on the arrival of an ACK: clients resend until ACKed, over a network
  that loses any one copy but not all of them.
- `SendWindow!Fairness`: weak fairness on `Resend` and `DropMissing`, because `run` calls
  `_retransmit_due` in every pass and it walks every key; strong fairness on the arrival
  of copies and ACKs, for the same network. Nothing is assumed of handlers, timeouts or logins.
- `Login!Fairness`: the console repeats its request until answered and not all of its
  requests and answers are lost (strong fairness on the steps that reach the console);
  an INSERT follows its DELETE unless the bootstrap restarts. Restarts, idle ends and
  crashes are never fair and never excluded, except as `EndsDuringLogin` says below.

## Proofs

`Spec => []P` for every window size, number of packets, sessions, ports and hosts.

**Receive window** (`ReceiveWindowProofs`). The order property is not inductive: it does not
say where the window stands. `WindowInv` adds that `last` is the last number handled, that
nothing is held before the first packet, and that every held number is at least
`last + 2` and was sent. With it `NeverSkipsOnceStarted` and `HeldIsNeverReady` hold for *every*
client. `FirstAloneInv` adds, for a client that sends packet 0 alone, that the handled
numbers are exactly `0 .. last` and that every ACK under way stands for a kept packet;
it is invariant (`FirstAloneInvariant`), and `NeverSkipsAGap`, `AckIsAPromise` and
`WindowImplementsDelivery` follow. `FirstAlone` is a hypothesis of these four theorems and is
needed: the divergences name the counterexample without it.

**Send window** (`SendWindowProofs`). `SendInv` is the argument: the deferred numbers are exactly
those from `Launched` on, in order; everything below `Launched` is with the client or in
flight while the session lives or has anything deferred; what is in flight spans less than one window; every ACK
is for something received. From it follow `ClientNeverBuried` (the receiver's window is
never overrun although the server never learns the client's position: what the client
misses is in flight, so it is at least the oldest number in flight), `DeferralKeepsOrder`,
`NoNumberIsLost`, `DeferredOnlyWhileShut` and `WindowImplementsDelivery`. The run of stored packets is a
`CHOOSE` of the end of a run; `RunEndProperties` shows that it exists.

**Session registry** (`SessionTransportProofs`). `TypeCorrect` and `BindingsAreSound` for any
assignment of ports to clients; `TablesMirror`: every session stays at
its host, and a client on a host of its own is always found at its port, whatever the others do
(`OwnHost`). Each operation has its lemma (`AdoptSound`, `RebindSound`,
`RemoveSound`, `LoggedInSound`), so the proofs carry over to whatever else uses the operations.

**Receive loop** (`SessionTransportProofs`). `TransportInv` is inductive: a session's numbers not yet ACKed are in
flight at the port the registry has for it. The steps that could break it are the ones in which another session is
acted on, so the argument is about keys: what an ACK, a move, a forget or a timeout of one session removes
(`Of`, the packets of one port and session) never holds a packet of a live session elsewhere, and a session that is
looked up by its port is the one bound there (`ResolvedIsKnown`). `LivePacketsStay` follows, and from the same case analysis
`LoopImplementsRegistry`: each step of the loop is a step of `SessionRegistry` or leaves the registry alone. Through it
`TablesMirror` holds of the loop's registry, which the other direction needs: `CurrentInv` says of every packet
in flight that it is at a port of its own host, has its session's present numbering, and is live or
among the keys that the resend pass under way has still to visit (`SoonDropped`). `PassDropsWhatIsObsolete` and
`OldNumberingIsForgotten` follow where clients share no ports (`OwnHosts`); the divergences say what happens where they do.

**Timing** (`SessionTransportProofs`). `LinkInv` says what the link's queue holds: a packet once where it waits, an ACK once, nothing of an
ended session. It needs no hypothesis, and `GoneClientEnded`, `AcksRideOnce`, `WaitingIsQueued` and
`KeepalivesArePatient` follow. `CalmClientKept`, the other part of `TimingIsSound`, depends on how the limits relate to the link:
`CalmTiming` asks that the silence limit exceeds the time until a full queue has drained (`Drain`, one `Gap` per
message) and the ACK is back, and the idle limit also the silence before a keepalive (`CalmLimit`). It is needed: with a shorter limit a
client that answers at once is given up while its packet waits for its turn. `CalmInv` is the argument: with each pass a packet's turn comes nearer or its ACK does
(`OnItsWay`), and a silence is short, or a packet in flight began in it (`Awaited`), or a keepalive is to come (`Upcoming`).
In the code a keepalive comes after 20 s, the silence limit is 60 s (300 s in Beta1, the only game with a framed link), the idle limit 5 minutes or more, and a message
takes the time its length needs on the line, at least 17 ms: the hypothesis fails only when the link has of the order of a thousand messages queued. The code does not bound that
queue, so `MaxQueue` is part of the hypothesis and not of the code.

**Login** (`ServiceProofs`). `OneHandoffPerPort` is not inductive, as the DELETE and the INSERT of `issue` are two steps.
`HandoffInv` adds that between the two the port of the login is free of rows; it survives because the bootstrap is one
thread, and everybody else only takes rows out or writes their number (`RemovalKeepsHandoffs`). `PortStandsForOneLogin` follows.
`LoginInv` needs what both servers believe: `ServedInv` adds that the sessions of a host are at the ports of that host in both
registries (`AtHome`), that a console whose handoff is between DELETE and INSERT has not got beyond its request (`IssuedWaits`), which login
the row and the game server's session are of in each phase of the console (`SerialsKnown`), and where each counter stands
while the console waits (`NumbersKnown`). `LoginsAreServed` assumes hosts of their own and
`~EndsDuringLogin`; `NumberingContinues` (all of `LoginInv`) also `MaxGameRestarts = 0`. Both hypotheses
are needed: `EndKeepsNewerHandoff`, `OwnSession` and `NumbersContinue` of the divergences are what happens without them.

**Accounts** (`ServiceProofs`). `OneRecoveryPerCode` says nothing of the requests still to be accepted. `RecoveryInv` adds that
codes are fresh (no two accounts and no two requests have the same one), so a request that finds its new code when it
reads the account again is the one whose update took place, and that a code that can still be used (an account's, a request's new one) has
not been (`Unused`). `CodesAreUsedOnce` follows, for any number of requests and a stop of the web server at any statement.
`PasswordInv` adds what an accepted request says of a password: `Vouched(n)` are the code and password of the requests accepted for
a name and of those a login still has to store; they agree with each other and with the account where they name
its code (`Agreed`). Hence `AccountsAreSound`: whoever was told "accepted" has that password unless somebody
with the code changed it later, and the login key is the password's.

**Webhooks** (`ServiceProofs`). The queue, the worker's hand and what the receiver has taken in are one sequence,
`sent`, cut in three; `HookInv` says where the cuts are (`Waiting`, `InHand`, `TakenIn`) and that the
sequence has no event twice (`SentOnce`). `AnnouncementsAreSound` is the order and the once of it, with refusals, lost answers and restarts.

**Records, laps and reports** (`ServiceProofs`). `RecordsInv` adds to `CompletedIsListed` and `AnnouncedWasStored` that every row tells its history
(`RowsTold`) and that what a thread has stored, its board still to be listed, is in that history (`JobsStored`). It is kept by one upsert of any ranking in
either order of assignments, and it gives ranks and tops by an argument about orders: `Before` is total on the rows of a board, so
`Ordered` exists, and a row's place in it is one more than the number of rows ahead. Whoever stores through `Records` keeps it: `LapRecordsAreSound`
for uploads, `ReportRecordsAreSound` for the Capcom connections. An announcement compares a lap with a best that was read
*before* the lap was stored; `BestKnown` (in `LapsInv`) says that best times only improve, so what was read is no better than what is stored later, and
`CourseRecordsAreAnnounced` follows. `CapcomInv` adds what a thread holds in each stage (`Fits`: the page that is being read has each user once,
and a row of the viewer's own is read for a known viewer) and that a report's submissions that no longer wait have their row and their
board (`StoredSoFar`): `ReportsAreSound`, `AckedReportsAreStored`.

**Menus** (`ServiceProofs`). Only the Areas of the World served here use numbers up; those of other Worlds may repeat them. `Numbering` says what the Lands read so far have used of the numbers from a start on, `Menus` the same for Worlds:
until a World is served here the next number is 1 (`FromOne`). It is kept by each Land and each World that is read, by induction along the file. A
list that is being read is a prefix of the configured one (`DirectoryInv`). `DirectoriesAreSound` follows, and `PopulationsAreCounted` because
the Lands' numbers are `Apart` and together are those of the World, so sums over Lands count each player once.

**Connection kinds** (`ServiceProofs`). `Sound` is an invariant of the tracker's table: of each client the pending logins are its own, tracked, each
once and none of them active (`QueueOK`), one phase is remembered of each client (`FallbackOK`), and, if no client's phase is ever
pushed out, a tracked login is active, pending or remembered (`Covered`); `FlowsDisjoint` and `TrackedHasFlow` are what claims see of it. Each operation of the tracker has
its lemma (`ForgetIs`, `ArmIs`, `ClaimedIs`, `AdvancedIs`, `ReleasedIs`), and `SyncedIs` carries two of them along the logged-out and the new sessions. A list may be
older than what another thread has caught up with, so all that is known of it is that login serials are distinct (`Numbered`). `FlowsAreSound` and `FlowsAreNotRewound` follow.

These theorems are about each part's own specification (`LapsSpec`, `CapcomSpec`, `DirectorySpec`, `FlowsSpec`), of which `companions` is the
alternative; the four parts of `CompanionSteps` are theorems of their own.

**Rooms** (`RoomsProofs`). Each operator of `Rooms` has its lemma: what it makes of the places is well typed, no room holds
more than its size (`FewerFit`, `OneMoreFits`), and room words agree with the room table. A handler takes a session out of a room in
two changes and is out of step in between, so `InStep(w, X)` leaves out the sessions `X` it is in the middle of. `Shrinks` is what
all of them but a join and a create have in common: rooms close, sessions leave, no host changes. `ListingIsRead` and `EnumerationIsRead`
say that a list cut into pages of any size and read page by page gives the set that was listed, which the answers of all plugins need.

**Auto Modellista** (`AutoModellistaProofs`). `RoomsInv` has, besides the places, what the reports mean: in an open room they are among
what was reported since the race began (`ReportsKept`; the reports of a room that has gone may stay until the next tick, harmless as
its number is never given out again), and while a race has its members they are exactly that and not complete (`RacesRun`). So
`TransitionWaitsForAll` and its converse `FinishedRacesReturn`. `Shown` is about the hosts' tables: handlers that only take
sessions out keep it (`LeavingKeeps`), a join and a create have their own lemmas. For Beta1, `CountedKeeps` needs only that nobody comes
into a room uncounted (`NobodyCame`); `RaceRoomsAreSound` is the invariant of the `auto_modellista` run for any players and rooms, and
`BetaImplementsRelease` carries the rest over. The answers are functions of the state, so their theorems are about every
state of `RoomsInv`: `DatagramsAreAckedOnce` by cases on what a datagram holds (every packet an answer consists of is
`Proper`: the sender's have the number of the datagram, the others' none), `ListsAndCountsAgree` from what the rows of a list are.

**Monster Hunter** (`MonsterHunterProofs`). A handler works on one record, so the invariant is a predicate of such a record, `Sound`, and each
part of a handler has a lemma that keeps it, in whatever handler it occurs. `Placed` is the heart: a hunter is listed by the room
it is in and by the Town it left for a quest and by no other, and that Town is kept while the quest lasts. `ListedOnce` alone is not inductive, as it does not
say *which* Town; the link is the Town that the client remembers. `Shows` relates the clients' lists to the rooms,
`Counts` the plugin's players to the Areas' capacities, `Named` the ids that clients know their rooms by. Every action
is a record that is `Sound` and `Mild` and becomes the next state (`Handled`, `NextHandled`); `TownsAreSound` follows from the first, the two action properties
`HuntersHearNothingAway` from the second. `TownAnswersAgree` follows from the part of the invariant that the answers read (`Answering`).

**Outbreak** (`OutbreakProofs`). Likewise, for both games at once: `Sound` says that words and members agree (`Agree`) and what each client has
been told (`Told`): in a scenario its list may hold members that have left, and the plugin has kept exactly
those leaves for it; nobody comes in meanwhile, as its room is closed. A handler is a `Stepped` record that is `Sound`, hushes those in scenarios
(`Hushed`) and enters an Area only if `Admitted`, which is what keeps the capacities; `CountStep` follows the File#2 counts. `PlayersAreSound`,
`ScenariosHearNothing` and `AnswersAreSound` follow.

Attempts to prove corrected the models: a guest that a Town refuses remembers no Town, and clients ask only for rooms of their Area
(`MonsterHunter`); `Rules` holds the two words that the Outbreak plugins test, and a page has at least one row.

Hypotheses on constants are the modules' `ASSUME`s, as weak as they can be: bounds are naturals, the window is at least one, a login's counter
reaches one, sessions, clients, users and lobbies are finitely many, `None` is no session and no port, `NoFlow` no session and no phase, `NoRecord` no row and no user.

Only model-checked: liveness (of the two windows, and `LoginCompletes`), as fairness and
ENABLED are out of the prover's reach, and that the companions hold together in `MCCompanions`, whose parts are proved one by one.

## Divergences

Where the code does something else than a comment of it says. Each property below is stated in its
module; TLC refutes it in a few steps when it is put in the named run's configuration (with the constants given).
They are not among the runs, which check what does hold.

- `GapNeverSkipped` (`receive_window`, `FirstAlone = FALSE`) needs a client that sends packet 0 alone:
  the first reliable packet of a numbering sets the window's start whatever its number
  (`core/sessions.py:196`), while `core/sessions.py:15-19` says that a gap is never skipped.
- `TimeoutEndsOwner` (`session_transport`): the resend pass finds the owner of an ended session's
  packet by its port (`udp_server.py:617`), so a console that logs in as another account from the same port
  inherits the packet, cannot ACK it, and is timed out for it.
- `EndKeepsNewerHandoff` (`login`, `EndsDuringLogin = TRUE`): ending the old session of a crashed console deletes the
  handoff of the login the same account is making, as both have one session id (`core/engine.py:441`).
- `OwnSession` (`login_shared_host`): `find_handoff` prefers the port to the login name (`core/game/handlers.py:149`), so an unused
  handoff of another account of the host is found first.
- `NumbersContinue` (`login`, `MaxGameRestarts = 1`): after a restart of the game server a repeated KICS login falls
  back to the bootstrap's unreliable counter (`core/game/handlers.py:93`), below what the console has accepted.
- `NeverInsertedTwice` (`auto_modellista`): a KICS login and a lobby join leave a room without a callback, so a second
  join of it repeats the first one's callback, which `plugins/automodellista/plugin.py:73-75` says is never sent twice.
- `ReturnShowsThePresent` (`monster_hunter`): a hunter that returned from a quest first and left the Town
  stays in the lists of those who return later.
- `SelectionHasNoLimit` (`monster_hunter`): a console that crashed in an Area and logs in again keeps its Area in the
  plugin's record (`plugins/monsterhunter/plugin.py:281`), so the lobby's idle limit applies on Land selection, where
  none should (251).
- `CountRight` (`outbreak`): a KICS login takes a File#2 player out of its Area without a callback, so the others' counts are too high until they ask.

Without a property: an Outbreak launch is announced again when the first member in the scenario has dropped out
(`plugins/outbreak/plugin.py:757`); a Monster Hunter packet directed at a hunter may reach it in a started
quest (709); `remove` unbinds the session's port also when another session has taken that
port over, which is why `ExactBinding` is stated for hosts of their own; after a KICS login
from a taken-over port packets of an old numbering may stay in flight, which is why
`NoOldNumbering` is checked for hosts of their own.

## Assumptions

- No packet and no ACK of an old numbering arrives after the KICS login that ends it. The
  protocol carries nothing to tell them apart; this is a hazard without a property.
- `FirstAlone = TRUE` (a client property, not the server's) where a run or a theorem says so.
- Two consoles do not send from one NAT port at the same time (`FreePorts`); a port may change hands.
- In `SessionTransport` a client whose header does not carry its session id yet is found by
  its port, so such a packet is the case where the port is the session's own.
- `EndsDuringLogin = FALSE` in `login`: no server gives a session up while its own console
  is in the middle of logging in. `EndKeepsNewerHandoff` shows what happens otherwise, `login_shared_host` assumes nothing.
- In `Login` a request and its answer are one step that may lose the answer; an answer that
  arrives after the console has gone on to the next request is not modelled.
- The clients of the plugins: Auto Modellista and Beta1 bundle sends, targets, leaves, status changes and lobby
  counts behind a reliable head (`Heads`, `Embedded`); a hunter publishes its profile before it enters an Area, enters rooms
  in Areas only and a quest after an announced departure; an Outbreak client enters Areas and rooms outside
  scenarios and a scenario from a room its host has closed.
- Statements are atomic and run once. A backend that repeats a statement whose answer was lost may run it twice (a hazard without a property).
- Each server process is one thread (`run`), so a pass is interrupted only where its effects
  become visible elsewhere: the two commits of `issue`.

## Not modelled

- Field layouts, text and images: record packing, profiles, ranking page layout, quest files, rules pages. No property is about them.
- The RAM patch the Monster Hunter service sends (`ram_patch.py`): a builder of machine code for the client, a byte string computed once.
- The legacy wire format of Beta1's room entry, credentials and password hashing, game detection and target hosts at the bootstrap: data.
- Configuration, logging, process start, schemas and reconnects of the SQL backends, DNS answers, offline tools: plain I/O or no state.
- Real time outside `SessionTiming`: elsewhere timeouts and intervals may fire whenever their other conditions allow, so
  the results hold for every length of them.

## Plan

Modelled first: the reliable transport and its proofs, registry, loop and login; then rooms with the Auto
Modellista plugins, Monster Hunter and Outbreak, time and the framed link, and the companions; each with theorems. *Done.* Left:

1. A restart of the game server in `CapcomApp`.
2. Statements that a backend repeats in `Records`.
