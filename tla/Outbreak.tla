------------------------------ MODULE Outbreak ------------------------------
(***************************************************************************)
(* The Outbreak plugin: Areas, rooms and scenarios                         *)
(* (plugins/outbreak/plugin.py), and its public beta                       *)
(* (plugins/outbreak_beta/plugin.py).  A client in a scenario must be sent *)
(* no lobby callback: leaves are held back until it reports the lobby.     *)
(*                                                                         *)
(* The client's part: it enters Areas and rooms outside scenarios only,    *)
(* and a scenario from a room its host has closed; nothing opens a room    *)
(* again.                                                                  *)
(***************************************************************************)
EXTENDS Rooms

CONSTANTS AreaCapacity, MaxListedRooms

ASSUME ListAssumption == AreaCapacity \in Nat /\ MaxListedRooms \in Nat \ {0}

(* The room words that tell a waiting room from a started or disbanded one. *)
ASSUME RulesAssumption == {"open", "closed"} \subseteq Rules

VARIABLES game,         \* the plugin: "outbreak", "outbreak_beta" or "outbreak2"
          places,       \* the sessions' Areas and rooms
          player,       \* _players
          roster,       \* client: the other members of its room
          ghosts,       \* client: the members that a KICS login took out silently
          table         \* client: the room list of one that has read it in the Area

vars == <<game, places, player, roster, ghosts, table>>

Absent == [known |-> FALSE, scenario |-> FALSE, pending |-> {}]
Players == [known : BOOLEAN, scenario : BOOLEAN, pending : SUBSET Sessions]

(* Leaves are held back in a scenario only. *)
TypeOK ==
  /\ places \in Places
  /\ player \in [Sessions -> Players]
  /\ \A s \in Sessions : player[s].pending # {} => player[s].scenario
  /\ roster \in [Sessions -> SUBSET Sessions] /\ ghosts \in [Sessions -> SUBSET Sessions]
  /\ \A a \in Lobbies : \A row \in table[a] : row \in [id : RoomIds, users : Nat]

-----------------------------------------------------------------------------
Now == [places |-> places, player |-> player, roster |-> roster, ghosts |-> ghosts]

Closed(w, r) == w.rooms[r].rules = "closed"

(* The first rows of the Area's open rooms, in the order of their creation. *)
OpenRooms(w, a) ==
  LET open == {r \in RoomsOf(w, a) : ~Closed(w, r)}
  IN {r \in open : Cardinality({q \in open : q < r}) < MaxListedRooms}

RoomRow(w, r) == [id |-> r, users |-> Cardinality(w.rooms[r].members)]

ListedRooms(w, a) == {RoomRow(w, r) : r \in OpenRooms(w, a)}

Reachable(v, s) == v.player[s].known /\ ~v.player[s].scenario

Peers(v, s) == IF v.places.room[s] = 0 THEN {} ELSE Listed(v.places, v.places.room[s]) \ {s}

Without(lists, V, s) == [v \in Sessions |-> IF v \in V THEN lists[v] \ {s} ELSE lists[v]]

With(lists, V, s) == [v \in Sessions |-> IF v \in V THEN lists[v] \cup {s} ELSE lists[v]]

(* The leave callback about s reaches the clients V. *)
Drop(v, V, s) == [v EXCEPT !.roster = Without(@, V, s), !.ghosts = Without(@, V, s)]

(* A fault: the session keeps its room word. *)
OutOfRoomWord(w, s) == Leave(w, w.room[s], {s})

OutOfRoom(w, s) == Leave(SetRoom(w, {s}, 0), w.room[s], {s})

(* A fault: everybody is told at once. *)
LeftRoomTellAll(v, s) == [Drop(v, Peers(v, s), s) EXCEPT !.places = OutOfRoom(@, s)]

(* A fault: nothing is held back. *)
LeftRoomTellReachable(v, s) ==
  [Drop(v, {p \in Peers(v, s) : Reachable(v, p)}, s) EXCEPT !.places = OutOfRoom(@, s)]

(* _leave_room: the members in the lobby are told, the others when they are
   back.  The beta forgets what it held back for the one that leaves. *)
LeftRoom(v, s) ==
  LET told == {p \in Peers(v, s) : Reachable(v, p)}
      held == {p \in Peers(v, s) : v.player[p].scenario}
      later == [p \in Sessions |-> IF p \in held THEN [v.player[p] EXCEPT !.pending = @ \cup {s}]
                                   ELSE IF p = s /\ game = "outbreak_beta" /\ v.places.room[s] # 0
                                        THEN [v.player[p] EXCEPT !.pending = {}] ELSE v.player[p]]
  IN [Drop(v, told, s) EXCEPT !.places = OutOfRoom(@, s), !.player = later]

LeftSilently(v, s) ==
  LET viewers == {p \in Peers(v, s) : s \in v.roster[p]} IN
  [v EXCEPT !.places = OutOfRoom(@, s), !.roster = Without(@, viewers, s), !.ghosts = With(@, viewers, s)]

(* The client outside a room shows no members. *)
Cleared(v, s) == [v EXCEPT !.roster[s] = {}, !.ghosts[s] = {}]

(* The join callback about s, to the members in the lobby. *)
Arrived(v, s) ==
  LET told == {p \in Peers(v, s) : Reachable(v, p)} IN
  [v EXCEPT !.roster = With(@, told, s), !.ghosts = Without(@, told, s)]

Roster(w, r) == w.rooms[r].members \cap w.live

-----------------------------------------------------------------------------
Untracked(v) ==
  /\ places' = v.places /\ player' = v.player /\ roster' = v.roster /\ ghosts' = v.ghosts
  /\ UNCHANGED game

(* A handler that changes rooms: the rows it changed and the rooms it closed
   are sent to the Area. *)
Updated(w, a) ==
  LET before == ListedRooms(places, a)
      after == ListedRooms(w, a)
      Ids(rows) == {row.id : row \in rows}
      stale == Ids(after \ before) \cup (Ids(before) \ Ids(after))
  IN {row \in table[a] : row.id \notin stale} \cup (after \ before)

Tracked(v) == Untracked(v) /\ table' = [a \in Lobbies |-> Updated(v.places, a)]

Ended(v, s) == [Cleared(v, s) EXCEPT !.player[s] = Absent, !.places = Remove(@, s)]

(* Timeout, idle end, or the end by another session's login at its port. *)
End(s) == s \in places.live /\ Tracked(Ended(LeftRoom(Now, s), s))

Logout(s) ==
  /\ s \in places.live
  /\ Tracked([Cleared(LeftRoom(Now, s), s) EXCEPT !.player[s] = Absent, !.places = SetLobby(@, s, 0)])

(* A KICS login leaves the room silently and makes the player anew. *)
LoggedIn(s, new) ==
  LET silent == IF s \in places.live THEN LeftSilently(Now, s) ELSE Now
      reset == ResetForRelogin(silent.places, s)
  IN [Cleared(silent, s) EXCEPT !.places = IF new THEN Adopt(reset, s, {}) ELSE reset,
                                !.player[s] = [Absent EXCEPT !.known = TRUE]]

KicsLogin(s, new) == (new \/ s \in places.live) /\ Tracked(LoggedIn(s, new))

-----------------------------------------------------------------------------
InLobby(s) == s \in places.live /\ Reachable(Now, s)

Others(s, A) == Cardinality({p \in places.live \ {s} : places.lobby[p] \in A})

AreaFull(s, a) == Others(s, {a}) >= AreaCapacity

JoinArea(s, a) ==
  /\ InLobby(s)
  /\ IF AreaFull(s, a) THEN Tracked(Now)
     ELSE Tracked([Cleared(LeftRoom(Now, s), s) EXCEPT !.places = SetLobby(@, s, a)])

(* The beta's free mode joins lobby 0 before it chooses an Area. *)
JoinNoArea(s) ==
  /\ InLobby(s) /\ game = "outbreak_beta"
  /\ Tracked([Cleared(LeftRoom(Now, s), s) EXCEPT !.places = SetLobby(@, s, 0)])

CreateGameRoom(s, max) ==
  LET a == places.lobby[s]
      out == Cleared(LeftRoom(Now, s), s)
  IN /\ InLobby(s) /\ places.next \in RoomIds
     /\ IF a = 0 \/ Cardinality(RoomsOf(places, a)) >= MaxRooms THEN Tracked(Now)
        ELSE Tracked([out EXCEPT !.places = SetRoom(Create(@, s, max, "open"), {s}, places.next)])

(* The room is left before the new one's seat is found; a wrong password is
   refused like a closed room.  The client reads the roster as it enters. *)
JoinRoom(s, r) ==
  LET out == Cleared(LeftRoom(Now, s), s)
      joined == [out EXCEPT !.places = SetRoom(Join(@, r, s), {s}, r)]
  IN /\ InLobby(s)
     /\ IF r \notin Open(places) \/ places.room[s] = r \/ Closed(places, r) THEN Tracked(Now)
        ELSE IF ~HasSeat(out.places, r, s) THEN Tracked(out)
        ELSE Tracked([Arrived(joined, s) EXCEPT !.roster[s] = Roster(joined.places, r) \ {s}])

(* A fault: the room keeps the member. *)
LeaveRoomSeat(s) ==
  /\ s \in places.live /\ player[s].known
  /\ Tracked([Cleared(LeftRoom(Now, s), s) EXCEPT !.places = SetRoom(places, {s}, 0)])

LeaveRoom(s) == s \in places.live /\ player[s].known /\ Tracked(Cleared(LeftRoom(Now, s), s))

LeaveArea(s) ==
  /\ s \in places.live /\ player[s].known
  /\ Tracked([Cleared(LeftRoom(Now, s), s) EXCEPT !.places = SetLobby(@, s, 0)])

(* A fault: the start is not announced to the Area. *)
ChangeAttributeUntracked(s) ==
  /\ InLobby(s) /\ places.room[s] \in Open(places) /\ places.rooms[places.room[s]].host = s
  /\ Untracked([Now EXCEPT !.places.rooms[places.room[s]].rules = "closed"]) /\ UNCHANGED table

(* The host's STAT starts or disbands its room. *)
ChangeAttribute(s) ==
  /\ InLobby(s) /\ places.room[s] \in Open(places) /\ places.rooms[places.room[s]].host = s
  /\ Tracked([Now EXCEPT !.places.rooms[places.room[s]].rules = "closed"])

(* Status 1, right before the scenario's program replaces the lobby's. *)
EnterScenario(s) ==
  /\ InLobby(s) /\ places.room[s] \in Open(places) /\ Closed(places, places.room[s])
  /\ Untracked([Now EXCEPT !.player[s].scenario = TRUE]) /\ UNCHANGED table

(* A fault: the leaves held back are dropped. *)
ReportLobbyWithout(s) ==
  /\ s \in places.live /\ player[s].scenario
  /\ Untracked([Now EXCEPT !.player[s].scenario = FALSE, !.player[s].pending = {}])
  /\ UNCHANGED table

(* A fault: the leaves are delivered and kept. *)
ReportLobbyKept(s) ==
  /\ s \in places.live /\ player[s].scenario
  /\ Untracked([Now EXCEPT !.player[s].scenario = FALSE,
                           !.roster[s] = @ \ player[s].pending, !.ghosts[s] = @ \ player[s].pending])
  /\ UNCHANGED table

(* The lobby status: the leaves that were held back are delivered. *)
ReportLobby(s) ==
  /\ s \in places.live /\ player[s].scenario
  /\ Untracked([Now EXCEPT !.player[s].scenario = FALSE, !.player[s].pending = {},
                           !.roster[s] = @ \ player[s].pending, !.ghosts[s] = @ \ player[s].pending])
  /\ UNCHANGED table

-----------------------------------------------------------------------------
(* Whom a relay reaches: chat in the Area, chat in the room, and what the
   game sends in a scenario. *)
AreaChat(s) ==
  {p \in places.live \ {s} :
     /\ places.lobby[s] # 0 /\ places.lobby[p] = places.lobby[s] /\ Reachable(Now, p)
     /\ places.room[p] = 0}

(* A fault: a member in the scenario is sent the lobby's chat. *)
RoomChatAll(s) == Peers(Now, s)

RoomChat(s) == {p \in Peers(Now, s) : Reachable(Now, p)}

ScenarioPackets(s) == Peers(Now, s)

-----------------------------------------------------------------------------
Start ==
  /\ places = NoPlaces
  /\ player = [s \in Sessions |-> Absent]
  /\ roster = [s \in Sessions |-> {}] /\ ghosts = [s \in Sessions |-> {}]
  /\ table = [a \in Lobbies |-> {}]

Init == game \in {"outbreak", "outbreak_beta"} /\ Start

Next ==
  \/ \E s \in Sessions : End(s) \/ Logout(s) \/ JoinNoArea(s) \/ LeaveRoom(s) \/ LeaveArea(s)
  \/ \E s \in Sessions, new \in BOOLEAN : KicsLogin(s, new)
  \/ \E s \in Sessions, a \in Lobbies : JoinArea(s, a)
  \/ \E s \in Sessions, max \in Capacities : CreateGameRoom(s, max)
  \/ \E s \in Sessions, r \in RoomIds : JoinRoom(s, r)
  \/ \E s \in Sessions : ChangeAttribute(s) \/ EnterScenario(s) \/ ReportLobby(s)

Spec == Init /\ [][Next]_vars

-----------------------------------------------------------------------------
(* The seats of a room are its members' that are in it: no seat is lost to a
   session that went elsewhere, and no session is in a room that is gone. *)
RoomsAgree ==
  /\ \A r \in Open(places) : places.rooms[r].members = Listed(places, r)
  /\ \A s \in places.live : places.room[s] # 0 => places.room[s] \in Open(places)

(* A client shows the other members of its room; in a scenario, the leaves
   held back for it are what it shows too many (plugin.py:632-654, 656-692). *)
MembersMeet ==
  \A s \in places.live :
    places.room[s] # 0 => roster[s] \ player[s].pending = Listed(places, places.room[s]) \ {s}

(* The room's chat reaches exactly the clients in the lobby that show the
   sender, a game packet all that have not yet to hear of its leave, and no
   chat reaches a client in a scenario (523-571). *)
RelaysMeet ==
  game # "outbreak2" =>
    \A s \in places.live : \A p \in places.live \ {s} :
      /\ p \in RoomChat(s) <=> s \in roster[p] /\ ~player[p].scenario
      /\ p \in ScenarioPackets(s) <=> s \in roster[p] \ player[p].pending
      /\ p \in AreaChat(s) => ~player[p].scenario

(* A client in a scenario is sent no lobby callback (plugin.py:767-771). *)
ScenarioHearsNothing ==
  [][\A s \in Sessions :
       player[s].scenario /\ player'[s].scenario /\ places'.room[s] = places.room[s] =>
         roster'[s] \cup ghosts'[s] = roster[s] \cup ghosts[s]]_vars

(* A room list that was read once equals the Area's open rooms (694-747). *)
RoomListFresh == \A a \in Lobbies : table[a] = ListedRooms(places, a)

=============================================================================
