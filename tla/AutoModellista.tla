--------------------------- MODULE AutoModellista ---------------------------
(***************************************************************************)
(* The Auto Modellista plugin: lobbies, rooms and the way a race ends      *)
(* (plugins/automodellista/plugin.py), with the engine's ends of sessions  *)
(* and the KICS login's room reset.  `slots` is what the host's client     *)
(* shows of its room; it changes by the join and leave callbacks only.     *)
(***************************************************************************)
EXTENDS Rooms

VARIABLES places,       \* the sessions' places and the rooms
          gameState,    \* _room_game_states; "init" for a room without one
          reports,      \* _post_game_reports
          slots,        \* the room host's member table: how often it holds each member
          finished,     \* history: what each session reported since the race start or a reset
          race          \* history: "none", "on", or "over" once the transition went out

vars == <<places, gameState, reports, slots, finished, race>>

Families == {"over", "result"}
Tags == {"start", "over", "result", "result2", "other"}
States == {"init", "sync", "in_game", "over", "result"}
NoReports == [s \in Sessions |-> {}]
Nobody == [s \in Sessions |-> 0]

TypeOK ==
  /\ places \in Places
  /\ gameState \in [RoomIds -> States]
  /\ reports \in [RoomIds -> [Sessions -> SUBSET Families]]
  /\ slots \in [RoomIds -> [Sessions -> 0 .. 2]]
  /\ finished \in [RoomIds -> [Sessions -> SUBSET Families]]
  /\ race \in [RoomIds -> {"none", "on", "over"}]

-----------------------------------------------------------------------------
(* Members without a session, or whose session is in no room, are dropped
   from the rooms R before they are counted or listed. *)
Pruned(w, R) ==
  LET Left(r) == IF r \in R THEN {m \in w.rooms[r].members : m \in w.live /\ w.room[m] # 0}
                            ELSE w.rooms[r].members
  IN [w EXCEPT !.rooms = [r \in {q \in Open(w) : Left(q) # {}} |-> [@[r] EXCEPT !.members = Left(r)]]]

(* The host whose client is in its room; the callbacks reach its table. *)
HostIn(w, r) == r \in Open(w) /\ w.room[w.rooms[r].host] = r

Inserted(table, s) == [table EXCEPT ![s] = IF @ = 2 THEN 2 ELSE @ + 1]
Seated(S) == [s \in Sessions |-> IF s \in S THEN 1 ELSE 0]

(* Everything a handler does to the rooms: the new places w, the rooms R
   whose post-game state is reset, and the host tables.  A table belongs to
   the host's stay, and a race whose room changes is no longer a whole one. *)
Act(w, R, tables) ==
  /\ places' = w
  /\ gameState' = [r \in RoomIds |-> IF r \in R THEN "init" ELSE gameState[r]]
  /\ reports' = [r \in RoomIds |-> IF r \in R THEN NoReports ELSE reports[r]]
  /\ slots' = [r \in RoomIds |-> IF HostIn(w, r) THEN tables[r] ELSE Nobody]
  /\ race' = [r \in RoomIds |-> IF r \in R \/ Listed(w, r) # Listed(places, r) THEN "none" ELSE race[r]]
  /\ finished' = [r \in RoomIds |-> IF r \in R \/ r \notin Open(w) THEN NoReports ELSE finished[r]]

(* The tables after a leave callback about S went to the other members of r. *)
Forgotten(tables, r, s) == [tables EXCEPT ![r][s] = 0]

-----------------------------------------------------------------------------
(* A fault: the sessions of the host's room keep their room word. *)
TimedOutRoomOnly(w, s) ==
  LET r == w.room[s] IN
  IF r \notin Open(w) THEN w ELSE Leave(w, r, IF w.rooms[r].host = s THEN w.rooms[r].members ELSE {s})

(* on_session_timeout: the host's end closes its room without a callback. *)
TimedOut(w, s) ==
  LET r == w.room[s] IN
  IF r \notin Open(w) THEN w
  ELSE IF w.rooms[r].host = s THEN Leave(SetRoom(w, Listed(w, r) \ {s}, 0), r, w.rooms[r].members)
  ELSE Leave(w, r, {s})

ToldOfEnd(w, s, tables) ==
  LET r == w.room[s] IN IF r \in Open(w) /\ w.rooms[r].host # s THEN Forgotten(tables, r, s) ELSE tables

ResetBy(w, s) == {w.room[s]} \cap Open(w)

(* Timeout, idle end, or an end of the session by another one's login. *)
End(s) ==
  /\ s \in places.live
  /\ Act(Remove(TimedOut(places, s), s), ResetBy(places, s), ToldOfEnd(places, s, slots))

Logout(s) ==
  /\ s \in places.live
  /\ Act(SetLobby(SetRoom(TimedOut(places, s), {s}, 0), s, 0), ResetBy(places, s), ToldOfEnd(places, s, slots))

(* A KICS login ends the session E found at its port, takes its own session
   out of its room, and, when it is a new login, replaces that session and
   silently the one at its bootstrap port (U). *)
KicsLogin(s, new, E, U) ==
  LET w1 == IF E = {} THEN places ELSE LET e == CHOOSE e \in E : TRUE IN Remove(TimedOut(places, e), e)
      told == IF E = {} THEN slots ELSE LET e == CHOOSE e \in E : TRUE IN ToldOfEnd(places, e, slots)
      w2 == ResetForRelogin(w1, s)
  IN /\ E \subseteq places.live /\ s \notin E
     /\ U \subseteq w1.live \ {s}
     /\ new \/ (s \in w1.live /\ U = {})
     /\ Act(IF new THEN Adopt(w2, s, U) ELSE w2, UNION {ResetBy(places, e) : e \in E}, told)

CreateGameRoom(s, max, rules) ==
  LET l == places.lobby[s]
      w == Pruned(places, RoomsOf(places, l))
  IN /\ s \in places.live /\ places.next \in RoomIds
     /\ IF l \in Lobbies /\ Cardinality(RoomsOf(w, l)) < MaxRooms
        THEN Act(SetRoom(Create(w, s, max, rules), {s}, w.next), {w.next}, [slots EXCEPT ![w.next] = Nobody])
        ELSE Act(IF l \in Lobbies THEN w ELSE places, {}, slots)

(* Joining a lobby leaves the room without a callback or a reset; a lobby
   that does not exist refuses the session, which has left its room anyway. *)
JoinLobby(s, l) ==
  LET w == SetRoom(Leave(places, places.room[s], {s}), {s}, 0)
  IN /\ s \in places.live
     /\ Act(IF l \in Lobbies THEN SetLobby(w, s, l) ELSE w, {}, slots)

(* A fault: the members are not told. *)
JoinRoomUntold(s, r) ==
  LET w == Pruned(places, {r})
  IN /\ s \in places.live
     /\ IF HasSeat(w, r, s) THEN Act(SetRoom(Join(w, r, s), {s}, r), {r}, slots)
        ELSE Act(w, {}, slots)

(* A join of the room the session is in changes nothing; one that takes a
   seat resets the post-game state and tells the members. *)
JoinRoom(s, r) ==
  LET w == Pruned(places, {r})
      told == [slots EXCEPT ![r] = IF w.rooms[r].host = s THEN Seated(Listed(w, r) \ {s}) ELSE Inserted(@, s)]
  IN /\ s \in places.live
     /\ IF r \in Open(w) /\ w.room[s] = r /\ s \in w.rooms[r].members THEN Act(w, {}, slots)
        ELSE IF HasSeat(w, r, s) THEN Act(SetRoom(Join(w, r, s), {s}, r), {r}, told)
        ELSE Act(w, {}, slots)

LeftRoom(s) == SetRoom(Leave(places, places.room[s], {s}), {s}, 0)

ToldOfLeave(s) ==
  IF places.room[s] = 0 THEN slots ELSE Forgotten(slots, places.room[s], s)

LeaveRoom(s) ==
  /\ s \in places.live
  /\ Act(LeftRoom(s), {places.room[s]} \cap RoomIds, ToldOfLeave(s))

LeaveLobby(s) ==
  /\ s \in places.live
  /\ Act(SetLobby(LeftRoom(s), s, 0), {places.room[s]} \cap RoomIds, ToldOfLeave(s))

(* Room lists and room user counts prune what they show. *)
QueryRooms(R) ==
  /\ R \cap Open(places) # {}
  /\ Act(Pruned(places, R), {}, slots)

Tick == Act(places, {r \in RoomIds : r \notin Open(places)}, slots)

-----------------------------------------------------------------------------
(* A room game packet: a start begins a race; once every session listed in
   the room has reported both families, the transition goes out.  A game
   over after the transition opens the reports again. *)
State(r, tag) ==
  IF tag = "over" /\ gameState[r] # "init" THEN "over"
  ELSE IF tag = "other" /\ gameState[r] = "sync" THEN "in_game" ELSE gameState[r]

(* A fault: a report replaces the one before. *)
ReportedLast(r, s, tag) ==
  [t \in Sessions |-> IF t = s THEN {tag} ELSE IF t \in Listed(places, r) THEN reports[r][t] ELSE {}]

Reported(r, s, tag) ==
  [t \in Sessions |-> IF t \notin Listed(places, r) THEN {}
                      ELSE IF t = s THEN reports[r][t] \cup {tag} ELSE reports[r][t]]

Complete(r, reported) == \A t \in Listed(places, r) : reported[t] = Families

(* A fault: the reports of the race before are kept. *)
StartRaceWithReports(s, r) ==
  /\ gameState' = [gameState EXCEPT ![r] = "sync"]
  /\ finished' = [finished EXCEPT ![r] = NoReports]
  /\ race' = [race EXCEPT ![r] = "on"]
  /\ UNCHANGED <<places, slots, reports>>

StartRace(s, r) ==
  /\ gameState' = [gameState EXCEPT ![r] = "sync"]
  /\ reports' = [reports EXCEPT ![r] = NoReports]
  /\ finished' = [finished EXCEPT ![r] = NoReports]
  /\ race' = [race EXCEPT ![r] = "on"]
  /\ UNCHANGED <<places, slots>>

Report(s, r, tag) ==
  LET reported == Reported(r, s, tag) IN
  /\ IF Complete(r, reported)
     THEN /\ gameState' = [gameState EXCEPT ![r] = "result"]
          /\ reports' = [reports EXCEPT ![r] = NoReports]
          /\ race' = [race EXCEPT ![r] = IF @ = "on" THEN "over" ELSE @]
     ELSE /\ gameState' = [gameState EXCEPT ![r] = State(r, tag)]
          /\ reports' = [reports EXCEPT ![r] = reported]
          /\ UNCHANGED race
  /\ places' = Pruned(places, {r})
  /\ finished' = [finished EXCEPT ![r][s] = @ \cup {tag}]
  /\ UNCHANGED slots

RoomGameSend(s, tag) ==
  LET r == places.room[s] IN
  /\ s \in places.live /\ r # 0
  /\ IF tag = "start" THEN StartRace(s, r)
     ELSE IF tag \in Families /\ State(r, tag) \notin {"init", "result"} THEN Report(s, r, tag)
     ELSE /\ gameState' = [gameState EXCEPT ![r] = State(r, tag)]
          /\ UNCHANGED <<places, reports, slots, finished, race>>

-----------------------------------------------------------------------------
Init ==
  /\ places = NoPlaces
  /\ gameState = [r \in RoomIds |-> "init"]
  /\ reports = [r \in RoomIds |-> NoReports]
  /\ slots = [r \in RoomIds |-> Nobody]
  /\ finished = [r \in RoomIds |-> NoReports]
  /\ race = [r \in RoomIds |-> "none"]

AtMostOne(S) == {X \in SUBSET S : Cardinality(X) <= 1}

Next ==
  \/ \E s \in Sessions : End(s) \/ Logout(s) \/ LeaveRoom(s) \/ LeaveLobby(s)
  \/ \E s \in Sessions, new \in BOOLEAN, E \in AtMostOne(Sessions), U \in AtMostOne(Sessions) :
       KicsLogin(s, new, E, U)
  \/ \E s \in Sessions, max \in Capacities, rules \in Rules : CreateGameRoom(s, max, rules)
  \/ \E s \in Sessions, l \in Lobbies \cup {0} : JoinLobby(s, l)
  \/ \E s \in Sessions, r \in RoomIds : JoinRoom(s, r)
  \/ \E R \in {RoomsOf(places, l) : l \in Lobbies} \cup {{r} : r \in RoomIds} : QueryRooms(R)
  \/ Tick
  \/ \E s \in Sessions, tag \in Tags : RoomGameSend(s, tag)

Spec == Init /\ [][Next]_vars

-----------------------------------------------------------------------------
(* A session's room word names an open room that has it as a member: closing,
   pruning, relogins and silent leaves never leave a session in a room that
   is gone (plugin.py:112-155, 905-930, core/game/handlers.py:156-176). *)
SessionsRoomHasIt ==
  \A s \in places.live :
    places.room[s] # 0 => /\ places.room[s] \in Open(places)
                          /\ s \in places.rooms[places.room[s]].members

(* The host's client shows every session of its room: a joiner it never
   heard of is never synchronised and leaves after 1200 frames (60-69). *)
NobodyInvisible ==
  \A r \in RoomIds :
    HostIn(places, r) => \A s \in Listed(places, r) \ {places.rooms[r].host} : slots[r][s] >= 1

(* The host's client never holds a member twice: it inserts a joiner without
   a duplicate check (73-75).  The code breaks this: a relogin or a lobby
   join leaves the room without a callback, and the next join repeats it. *)
NeverInsertedTwice == \A r \in RoomIds, s \in Sessions : slots[r][s] <= 1

(* The transition goes out only when every session in the room has reported
   both families since this race's start (plugin.py:691-774). *)
TransitionIsBarrier ==
  [][\A r \in RoomIds :
       gameState[r] # "result" /\ gameState'[r] = "result" =>
         \A s \in Listed(places, r) : finished'[r][s] = Families]_vars

(* In a race whose members have all stayed, nobody waits for the transition
   once everybody has reported: it has gone out (plugin.py:691-774). *)
FinishedRaceReturns ==
  \A r \in RoomIds : race[r] = "on" => \E s \in Listed(places, r) : finished[r][s] # Families

=============================================================================
