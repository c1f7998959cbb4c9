----------------------------- MODULE Outbreak2 -----------------------------
(***************************************************************************)
(* The File#2 plugin (plugins/outbreak2/plugin.py): the Outbreak plugin's  *)
(* rooms and scenarios, one capacity for all Areas, and join and leave     *)
(* callbacks by which every client counts the players of its Area.         *)
(***************************************************************************)
EXTENDS Outbreak

VARIABLE count          \* client: the other players it counts in its Area, or Unread

allVars == <<vars, count>>

CountCap == Cardinality(Sessions) + 1       \* bound on a count
Unread == CountCap + 1

BothTypeOK == TypeOK /\ count \in [Sessions -> 0 .. Unread]

(* File#2's copies of File#1's helpers do the same. *)
Reachable2(s) == Reachable(Now, s)

RoomPeers2(s) == Peers(Now, s)

LeftRoom2(v, s) == LeftRoom(v, s)

RoomCallbacks2(v, s) == Arrived(v, s)

OpenRooms2(w, a) == OpenRooms(w, a)

ListedRooms2(w, a) == {RoomRow(w, r) : r \in OpenRooms2(w, a)}

RoomListUpdates2(w, a) ==
  LET before == ListedRooms2(places, a)
      after == ListedRooms2(w, a)
      Ids(rows) == {row.id : row \in rows}
  IN {row \in table[a] : row \in after \/ row.id \notin Ids(before \cup after)} \cup (after \ before)

Tracked2(v) == Untracked(v) /\ table' = [a \in Lobbies |-> RoomListUpdates2(v.places, a)]

(* Session s goes to Area `to` (0 for none); the players in the lobby of the
   Areas it leaves and enters are told, and s has read `read`. *)
Moved(s, to, read) ==
  LET Up(n) == IF n < CountCap THEN n + 1 ELSE n
      Down(n) == IF n = 0 THEN 0 ELSE n - 1
      Hears(p, a) == p \in places.live /\ Reachable2(p) /\ places.lobby[p] = a /\ a # 0 /\ count[p] # Unread
  IN [p \in Sessions |->
        IF p = s THEN read
        ELSE LET left == IF Hears(p, places.lobby[s]) THEN Down(count[p]) ELSE count[p]
             IN IF Hears(p, to) THEN Up(left) ELSE left]

(* A session's end, its logout and its KICS login, which leaves the Area
   without a word. *)
Ended2(v, s) == [Cleared(v, s) EXCEPT !.player[s] = Absent]

End2(s) ==
  /\ s \in places.live
  /\ Tracked2([Ended2(LeftRoom2(Now, s), s) EXCEPT !.places = Remove(@, s)])
  /\ count' = Moved(s, 0, Unread)

Logout2(s) ==
  /\ s \in places.live
  /\ Tracked2([Ended2(LeftRoom2(Now, s), s) EXCEPT !.places = SetLobby(@, s, 0)])
  /\ count' = Moved(s, 0, Unread)

KicsLogin2(s, new) ==
  /\ new \/ s \in places.live
  /\ Tracked2(LoggedIn(s, new))
  /\ count' = [count EXCEPT ![s] = Unread]

(* A fault: the room's Area is counted alone. *)
ServerFullArea(s) == Others(s, {places.lobby[s]}) >= AreaCapacity

ServerFull(s) == Others(s, Lobbies) >= AreaCapacity

(* A fault: the arrival is not announced. *)
JoinAreaUntold(s, a) ==
  /\ InLobby(s)
  /\ IF ServerFull(s) THEN Tracked2(Now) /\ UNCHANGED count
     ELSE /\ Tracked2([Cleared(LeftRoom2(Now, s), s) EXCEPT !.places = SetLobby(@, s, a)])
          /\ count' = Moved(s, 0, Others(s, {a}))

(* The client has read the Area's users on the Area list. *)
JoinArea2(s, a) ==
  /\ InLobby(s)
  /\ IF ServerFull(s) THEN Tracked2(Now) /\ UNCHANGED count
     ELSE /\ Tracked2([Cleared(LeftRoom2(Now, s), s) EXCEPT !.places = SetLobby(@, s, a)])
          /\ count' = Moved(s, a, Others(s, {a}))

LeaveArea2(s) ==
  /\ s \in places.live /\ player[s].known
  /\ Tracked2([Cleared(LeftRoom2(Now, s), s) EXCEPT !.places = SetLobby(@, s, 0)])
  /\ count' = Moved(s, 0, Unread)

QueryArea(s) ==
  /\ InLobby(s) /\ places.lobby[s] # 0
  /\ count' = [count EXCEPT ![s] = Others(s, {places.lobby[s]})]
  /\ UNCHANGED vars

CreateGameRoom2(s, max) ==
  LET out == Cleared(LeftRoom2(Now, s), s)
      refused == places.lobby[s] = 0 \/ Cardinality(RoomsOf(places, places.lobby[s])) >= MaxRooms
  IN /\ InLobby(s) /\ places.next \in RoomIds
     /\ IF refused THEN Tracked2(Now)
        ELSE Tracked2([out EXCEPT !.places = SetRoom(Create(@, s, max, "open"), {s}, places.next)])
     /\ UNCHANGED count

JoinRoom2(s, r) ==
  LET out == Cleared(LeftRoom2(Now, s), s)
      joined == [out EXCEPT !.places = SetRoom(Join(@, r, s), {s}, r)]
  IN /\ InLobby(s)
     /\ IF r \notin Open(places) \/ places.room[s] = r \/ Closed(places, r) THEN Tracked2(Now)
        ELSE IF ~HasSeat(out.places, r, s) THEN Tracked2(out)
        ELSE Tracked2([RoomCallbacks2(joined, s) EXCEPT !.roster[s] = Roster(joined.places, r) \ {s}])
     /\ UNCHANGED count

LeaveRoom2(s) ==
  /\ s \in places.live /\ player[s].known
  /\ Tracked2(Cleared(LeftRoom2(Now, s), s))
  /\ UNCHANGED count

ChangeAttribute2(s) ==
  /\ InLobby(s) /\ places.room[s] \in Open(places) /\ places.rooms[places.room[s]].host = s
  /\ Tracked2([Now EXCEPT !.places.rooms[places.room[s]].rules = "closed"])
  /\ UNCHANGED count

(* A scenario replaces the lobby's program with its count. *)
EnterScenario2(s) == EnterScenario(s) /\ count' = [count EXCEPT ![s] = Unread]

ReportLobby2(s) == ReportLobby(s) /\ UNCHANGED count

(* A fault: as in File#1, a player in a room hears no Area chat. *)
AreaChat2Outside(s) ==
  {p \in places.live \ {s} :
     places.lobby[s] # 0 /\ places.lobby[p] = places.lobby[s] /\ Reachable2(p) /\ places.room[p] = 0}

(* Area chat reaches the players in rooms too: it carries the announces. *)
AreaChat2(s) ==
  {p \in places.live \ {s} : places.lobby[s] # 0 /\ places.lobby[p] = places.lobby[s] /\ Reachable2(p)}

RoomChat2(s) == {p \in RoomPeers2(s) : Reachable2(p)}

ScenarioPackets2(s) == RoomPeers2(s)

Next2 ==
  \/ \E s \in Sessions : End2(s) \/ Logout2(s) \/ LeaveRoom2(s) \/ LeaveArea2(s) \/ QueryArea(s)
  \/ \E s \in Sessions, new \in BOOLEAN : KicsLogin2(s, new)
  \/ \E s \in Sessions, a \in Lobbies : JoinArea2(s, a)
  \/ \E s \in Sessions, max \in Capacities : CreateGameRoom2(s, max)
  \/ \E s \in Sessions, r \in RoomIds : JoinRoom2(s, r)
  \/ \E s \in Sessions : ChangeAttribute2(s) \/ EnterScenario2(s) \/ ReportLobby2(s)

BothInit ==
  /\ game \in {"outbreak", "outbreak_beta", "outbreak2"}
  /\ Start
  /\ count = [s \in Sessions |-> Unread]

BothNext ==
  \/ game # "outbreak2" /\ Next /\ UNCHANGED count
  \/ game = "outbreak2" /\ Next2

BothSpec == BothInit /\ [][BothNext]_allVars

-----------------------------------------------------------------------------
(* File#2's relays: chat reaches those who show the sender, or all of the
   Area, and nobody in a scenario (outbreak2/plugin.py:561-613). *)
RelaysMeet2 ==
  game = "outbreak2" =>
    \A s \in places.live : \A p \in places.live \ {s} :
      /\ p \in RoomChat2(s) <=> s \in roster[p] /\ ~player[p].scenario
      /\ p \in ScenarioPackets2(s) <=> s \in roster[p] \ player[p].pending
      /\ p \in RoomChat2(s) /\ places.lobby[p] = places.lobby[s] /\ places.lobby[s] # 0 => p \in AreaChat2(s)
      /\ p \in AreaChat2(s) => ~player[p].scenario

(* No Area, or File#2's Areas together, hold more players than the capacity,
   whatever the order of joins, ends and logins (outbreak/plugin.py:792-797, outbreak2/plugin.py:863-872). *)
CapacityKept ==
  IF game = "outbreak2" THEN Cardinality({s \in places.live : places.lobby[s] # 0}) <= AreaCapacity
  ELSE \A a \in Lobbies : Cardinality({s \in places.live : places.lobby[s] = a}) <= AreaCapacity

(* A client that has read its Area's count never shows fewer players than
   there are: no arrival is missed outside scenarios (plugin.py:696-724). *)
CountNeverShort ==
  \A s \in places.live :
    places.lobby[s] # 0 /\ count[s] # Unread => count[s] >= Others(s, {places.lobby[s]})

(* The count is right: callbacks keep it current between queries (710-711).
   The code breaks this: a KICS login leaves the Area without a callback. *)
CountRight ==
  \A s \in places.live :
    places.lobby[s] # 0 /\ count[s] # Unread => count[s] = Others(s, {places.lobby[s]})

(* The places of the players, the members their clients list, the rooms that Areas list and
   the counts agree in both games, whatever scenarios and deferred leaves interleave. *)
PlayersSound ==
  /\ BothTypeOK
  /\ RoomsAgree
  /\ MembersMeet
  /\ RoomListFresh
  /\ CapacityKept
  /\ CountNeverShort

=============================================================================
