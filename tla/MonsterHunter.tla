--------------------------- MODULE MonsterHunter ---------------------------
(***************************************************************************)
(* The Monster Hunter plugin: Areas, Towns and quests                      *)
(* (plugins/monsterhunter/plugin.py).  A hunter on a quest stays listed in *)
(* the Town it left; its quest room gets no lobby callback once the quest  *)
(* has started, so leaves are kept for each member's return.               *)
(*                                                                         *)
(* The client's part: it enters rooms in an Area only, after it published  *)
(* its profile; a quest follows an announced departure from a Town; the    *)
(* STAT that ends it carries that Town's rules word.                       *)
(***************************************************************************)
EXTENDS Rooms

CONSTANTS AreaCapacity, LandCapacity, TownsPerCategory

ASSUME CapacityAssumption == AreaCapacity \in Nat /\ LandCapacity \in Nat /\ TownsPerCategory \in Nat

ASSUME RulesAssumption == {"quest", "started"} \subseteq Rules

VARIABLES places,       \* the sessions' Areas and rooms
          player,       \* _players: what the plugin keeps of a hunter
          departures,   \* _quest_departures
          shown,        \* client: the hunter list of its room
          ghosts,       \* client: the hunters in it that a KICS login took out silently
          origin,       \* client: the Town it left for a quest, 0 for none
          named,        \* client: the id it knows its room by, 0 for none
          table,        \* client: the Town table of one that has read it in the Area
          back          \* history: the hunters that returned from each quest room

vars == <<places, player, departures, shown, ghosts, origin, named, table, back>>

TownRules == Rules \ {"quest", "started"}     \* Town words, of one category
Forgotten == [area |-> 0, departing |-> FALSE, alias |-> 0, preparing |-> FALSE, known |-> FALSE]
Rows == [id : RoomIds, users : Nat, rules : TownRules]

-----------------------------------------------------------------------------
IsTown(w, r) == r \in Open(w) /\ w.rooms[r].rules \in TownRules
Started(w, r) == r \in Open(w) /\ w.rooms[r].rules = "started"
InStartedQuest(w, s) == s \in w.live /\ Started(w, w.room[s])

(* Departures are kept for the members of a started quest only. *)
TypeOK ==
  /\ places \in Places
  /\ player \in [Sessions -> [area : Lobbies \cup {0}, departing : BOOLEAN, alias : RoomIds \cup {0},
                              preparing : BOOLEAN, known : BOOLEAN]]
  /\ departures \in [RoomIds -> SUBSET Sessions] /\ \A r \in RoomIds : departures[r] # {} => Started(places, r)
  /\ shown \in [Sessions -> SUBSET Sessions] /\ ghosts \in [Sessions -> SUBSET Sessions]
  /\ origin \in [Sessions -> RoomIds \cup {0}] /\ named \in [Sessions -> RoomIds \cup {0}]
  /\ back \in [RoomIds -> SUBSET Sessions]
  /\ \A a \in Lobbies : \A row \in table[a] : row \in Rows

(* Towns that still list the hunter without it being there. *)
ListingTowns(w, s) ==
  {t \in RoomsOf(w, w.lobby[s]) : IsTown(w, t) /\ t # w.room[s] /\ s \in w.rooms[t].members}

RoomRow(w, r) == [id |-> r, users |-> Cardinality(w.rooms[r].members), rules |-> w.rooms[r].rules]

TownRows(w, a) == {RoomRow(w, r) : r \in {r \in RoomsOf(w, a) : IsTown(w, r)}}

(* A handler works on one record of the plugin's and the clients' state. *)
Now == [places |-> places, player |-> player, departures |-> departures,
        shown |-> shown, ghosts |-> ghosts, origin |-> origin, named |-> named, back |-> back]

Without(lists, V, s) == [v \in Sessions |-> IF v \in V THEN lists[v] \ {s} ELSE lists[v]]

With(lists, V, s) == [v \in Sessions |-> IF v \in V THEN lists[v] \cup {s} ELSE lists[v]]

(* The client is in no room, its list is empty, and it remembers Town t. *)
Cleared(v, s, t) == [v EXCEPT !.shown[s] = {}, !.ghosts[s] = {}, !.origin[s] = t, !.named[s] = 0]

(* A fault: the session keeps its room word. *)
GoneInWord(w, s, keep) ==
  LET r == w.room[s] IN IF keep /\ IsTown(w, r) THEN w ELSE Leave(w, r, {s})

(* The hunter is out of its room and, unless it keeps it, of its Town's list. *)
Gone(w, s, keep) ==
  LET r == w.room[s]
      out == SetRoom(w, {s}, 0)
      left == IF keep /\ IsTown(w, r) THEN out ELSE Leave(out, r, {s})
      towns == IF keep THEN {} ELSE ListingTowns(left, s)
  IN [left EXCEPT !.rooms = [q \in {q \in Open(left) : q \notin towns \/ left.rooms[q].members # {s}} |->
                               IF q \in towns THEN [@[q] EXCEPT !.members = left.rooms[q].members \ {s}] ELSE @[q]]]

Unmarked(players, s) == [players EXCEPT ![s].alias = 0, ![s].preparing = FALSE]

Told(v, s) ==
  LET there == IF v.places.room[s] = 0 THEN {} ELSE Listed(v.places, v.places.room[s]) \ {s}
  IN [v EXCEPT !.shown = Without(@, there, s), !.ghosts = Without(@, there, s)]

Untold(v, s) ==
  LET r == v.places.room[s]
      viewers == {m \in Listed(v.places, r) \ {s} : r # 0 /\ s \in v.shown[m]}
  IN [v EXCEPT !.shown = Without(@, viewers, s), !.ghosts = With(@, viewers, s)]

(* A fault: a hunter that leaves a started quest is not kept for the others. *)
DetachUntold(v, s, keep) ==
  LET r == v.places.room[s]
      gone == Gone(v.places, s, keep)
      heard == IF Started(v.places, r) THEN v ELSE Told(v, s)
  IN [heard EXCEPT !.places = gone, !.player = Unmarked(@, s),
                   !.departures = [q \in RoomIds |-> IF q = r /\ r \notin Open(gone) THEN {} ELSE @[q]]]

(* A fault: a hunter that keeps its Town's list leaves without a word. *)
DetachQuiet(v, s, keep) ==
  LET r == v.places.room[s]
      gone == Gone(v.places, s, keep)
      heard == IF Started(v.places, r) \/ keep THEN v ELSE Told(v, s)
  IN [heard EXCEPT !.places = gone, !.player = Unmarked(@, s),
                   !.departures = [q \in RoomIds |-> IF q = r /\ r \notin Open(gone) THEN {}
                                                     ELSE IF q = r /\ Started(v.places, r) THEN @[q] \cup {s}
                                                     ELSE @[q]]]

(* A fault: the departures of a room that closes are kept. *)
DetachLeak(v, s, keep) ==
  LET r == v.places.room[s]
      heard == IF Started(v.places, r) THEN v ELSE Told(v, s)
  IN [heard EXCEPT !.places = Gone(v.places, s, keep), !.player = Unmarked(@, s),
                   !.departures = [q \in RoomIds |-> IF q = r /\ Started(v.places, r) THEN @[q] \cup {s} ELSE @[q]]]

(* A hunter leaves its room, with or without its Town's list.  The others
   there are told, those in a started quest when they are back. *)
Detach(v, s, keep) ==
  LET r == v.places.room[s]
      gone == Gone(v.places, s, keep)
      heard == IF Started(v.places, r) THEN v ELSE Told(v, s)
  IN [heard EXCEPT !.places = gone, !.player = Unmarked(@, s),
                   !.departures = [q \in RoomIds |-> IF q = r /\ r \notin Open(gone) THEN {}
                                                     ELSE IF q = r /\ Started(v.places, r) THEN @[q] \cup {s}
                                                     ELSE @[q]]]

(* A KICS login's: nobody is told, and the others go on showing the hunter. *)
DetachSilently(v, s) ==
  LET r == v.places.room[s]
      gone == Gone(v.places, s, FALSE)
  IN [Untold(v, s) EXCEPT !.places = gone, !.player = Unmarked(@, s),
                          !.departures = [q \in RoomIds |-> IF q = r /\ r \notin Open(gone) THEN {} ELSE @[q]]]

(* A fault: hunters in a started quest are told of an arrival too. *)
ArriveAnywhere(v, r, s) ==
  LET there == Listed(v.places, r) \ {s}
  IN [v EXCEPT !.shown = With(@, there, s), !.ghosts = Without(@, there, s)]

(* The join callback of a hunter that entered the room. *)
Arrive(v, r, s) ==
  LET there == IF Started(v.places, r) THEN {} ELSE Listed(v.places, r) \ {s}
  IN [v EXCEPT !.shown = With(@, there, s), !.ghosts = Without(@, there, s)]

(* The room id a request names: a hunter back from a quest goes on naming
   its Town by the quest room's id. *)
ServerRoom(v, s, id) == IF v.player[s].alias = id /\ id # 0 THEN v.places.room[s] ELSE id

-----------------------------------------------------------------------------
(* What a handler does; the Towns it changed are sent to the Area. *)
Untracked(v) ==
  /\ places' = v.places /\ player' = v.player /\ departures' = v.departures
  /\ shown' = v.shown /\ ghosts' = v.ghosts /\ origin' = v.origin /\ named' = v.named
  /\ back' = [r \in RoomIds |-> IF r \in Open(v.places) THEN v.back[r] ELSE {}]

Updated(w, a) ==
  LET before == TownRows(places, a)
      after == TownRows(w, a)
      Ids(rows) == {row.id : row \in rows}
      stale == Ids(after \ before) \cup (Ids(before) \ Ids(after))
  IN {row \in table[a] : row.id \notin stale} \cup (after \ before)

(* A fault: the rows that a session's end changes are not sent. *)
TrackedWhole(v) ==
  /\ Untracked(v)
  /\ table' = IF v.places.live = places.live THEN [a \in Lobbies |-> Updated(v.places, a)] ELSE table

Tracked(v) == Untracked(v) /\ table' = [a \in Lobbies |-> Updated(v.places, a)]

EndedBy(v, s) ==
  [Cleared(Detach(v, s, FALSE), s, 0) EXCEPT !.player[s] = Forgotten, !.places = Remove(@, s)]

End(s) == s \in places.live /\ Tracked(EndedBy(Now, s))

Logout(s) ==
  /\ s \in places.live
  /\ Tracked([Cleared(Detach(Now, s, FALSE), s, 0) EXCEPT
                !.player[s] = Forgotten, !.places = SetLobby(@, s, 0)])

(* A KICS login, repeated on Land entry or by a console that starts again:
   the session leaves its room silently.  The plugin's record of the hunter
   is kept, its Area included.  The end of another session found at its
   port is an End before it. *)
KicsLogin(s, new) ==
  LET silent == IF s \in places.live THEN DetachSilently(Now, s) ELSE Now
      reset == ResetForRelogin(silent.places, s)
  IN /\ new \/ s \in places.live
     /\ Tracked([Cleared(silent, s, 0) EXCEPT !.places = IF new THEN Adopt(reset, s, {}) ELSE reset,
                                              !.player[s].known = TRUE])

-----------------------------------------------------------------------------
Hunter(s) == s \in places.live /\ player[s].known

(* A fault: nobody is counted. *)
PopulationZero(A, s) == 0

Population(A, s) == Cardinality({p \in Sessions \ {s} : player[p].known /\ player[p].area \in A})

AreaFull(s, a) == Population({a}, s) >= AreaCapacity \/ Population(Lobbies, s) >= LandCapacity

JoinArea(s, a) ==
  /\ Hunter(s)
  /\ IF AreaFull(s, a) THEN Tracked(Now)
     ELSE Tracked([Cleared(Detach(Now, s, FALSE), s, 0) EXCEPT !.places = SetLobby(@, s, a), !.player[s].area = a])

(* A fault: the room is not left with the Area. *)
LeaveAreaInRoom(s) ==
  /\ Hunter(s)
  /\ Tracked([Now EXCEPT !.places = SetLobby(@, s, 0), !.player[s].area = 0])

LeaveArea(s) ==
  /\ Hunter(s)
  /\ Tracked([Cleared(Detach(Now, s, FALSE), s, 0) EXCEPT !.places = SetLobby(@, s, 0), !.player[s].area = 0])

TownCategoryFull(w, a) == Cardinality({r \in RoomsOf(w, a) : IsTown(w, r)}) >= TownsPerCategory

(* A quest room follows an announced departure and keeps the Town's list. *)
CreateGameRoom(s, max, rules) ==
  LET town == rules \in TownRules
      out == Cleared(Detach(Now, s, ~town), s, IF town THEN 0 ELSE origin[s])
      r == places.next
  IN /\ Hunter(s) /\ places.lobby[s] # 0 /\ r \in RoomIds
     /\ rules # "started" /\ (town \/ (origin[s] # 0 /\ places.room[s] = 0))
     /\ IF town /\ TownCategoryFull(places, places.lobby[s]) THEN Tracked(Now)
        ELSE Tracked([out EXCEPT !.places = SetRoom(Create(@, s, max, rules), {s}, r), !.named[s] = r])

(* A client asks for a Town of its Area, or for a quest room there that it
   left its Town for. *)
Asks(s, r) ==
  /\ Hunter(s) /\ places.lobby[s] # 0
  /\ r \in Open(places) => /\ r \in RoomsOf(places, places.lobby[s])
                           /\ IsTown(places, r) \/ (origin[s] # 0 /\ places.room[s] = 0)

(* A room's roster: the hunters there, or, to a client outside, the listed. *)
Roster(w, s, r) == IF w.room[s] = r THEN Listed(w, r) \ {s} ELSE w.rooms[r].members

Enter(v, s, r) ==
  LET joined == [Cleared(v, s, IF IsTown(places, r) THEN 0 ELSE origin[s]) EXCEPT
                   !.places = SetRoom(Join(@, r, s), {s}, r), !.named[s] = r]
  IN [Arrive(joined, r, s) EXCEPT !.shown[s] = Roster(joined.places, s, r)]

(* A fault: a join keeps the list of the Town it leaves. *)
JoinRoomListed(s, id) ==
  LET r == ServerRoom(Now, s, id)
      out == Detach(Now, s, TRUE)
  IN /\ Asks(s, r)
     /\ IF r \notin Open(places) \/ places.room[s] = r THEN Tracked(Now)
        ELSE IF HasSeat(out.places, r, s) THEN Tracked(Enter(out, s, r))
        ELSE Tracked(Cleared(out, s, IF IsTown(places, r) THEN 0 ELSE origin[s]))

(* The room is left before the seat is found; a refused guest is in none.
   The client reads the room's roster as it enters. *)
JoinRoom(s, id) ==
  LET r == ServerRoom(Now, s, id)
      out == Detach(Now, s, r \in Open(places) /\ (s \in places.rooms[r].members \/ ~IsTown(places, r)))
  IN /\ Asks(s, r)
     /\ IF r \notin Open(places) \/ places.room[s] = r THEN Tracked(Now)
        ELSE IF HasSeat(out.places, r, s) THEN Tracked(Enter(out, s, r))
        ELSE Tracked(Cleared(out, s, IF IsTown(places, r) THEN 0 ELSE origin[s]))

(* A fault: the host's preparation does not announce its departure. *)
IsDepartingGuest(p) == p.departing

IsDeparting(p) == p.preparing \/ p.departing

(* Leaving a Town for a quest keeps its list; any other leave does not. *)
LeaveRoom(s) ==
  LET town == IsTown(places, places.room[s])
      announced == player[s].preparing \/ player[s].departing
  IN /\ Hunter(s)
     /\ Tracked(Cleared(Detach(Now, s, town /\ IsDeparting(player[s])), s,
                        IF town /\ announced THEN places.room[s] ELSE 0))

(* The host's selector 3 to itself, sent in a Town only. *)
PrepareDeparture(s) ==
  /\ Hunter(s) /\ IsTown(places, places.room[s]) /\ ~player[s].preparing
  /\ Untracked([Now EXCEPT !.player[s].preparing = TRUE]) /\ UNCHANGED table

(* A new member profile: a departing one is published in a Town by a guest,
   in the quest room by its host; in a started quest it is stored too. *)
PublishProfile(s, departing) ==
  /\ Hunter(s) /\ places.room[s] # 0 /\ (departing \/ IsTown(places, places.room[s]))
  /\ player[s].departing # departing
  /\ Untracked([Now EXCEPT !.player[s].departing = departing]) /\ UNCHANGED table

-----------------------------------------------------------------------------
(* STAT from a quest room: the host marks the start; after the quest it
   moves the hunter back to the one Town with that word that lists it. *)
StartQuest(s) ==
  LET r == places.room[s] IN
  /\ Hunter(s) /\ r \in Open(places) /\ places.rooms[r].rules = "quest" /\ places.rooms[r].host = s
  /\ Tracked([Now EXCEPT !.places.rooms[r].rules = "started"])

OriginTowns(w, s, rules) == {t \in ListingTowns(w, s) : w.rooms[t].rules = rules}

(* A fault: the room's other name is not kept. *)
ReturnedUnnamed(s, q, t) ==
  LET moved == [Now EXCEPT !.places = SetRoom(Leave(places, q, {s}), {s}, t), !.player[s].alias = 0,
                           !.departures[q] = IF places.rooms[q].members = {s} THEN {} ELSE @]
      there == Roster(moved.places, s, t)
  IN [Arrive(moved, t, s) EXCEPT
        !.shown[s] = (@ \cup there) \ (departures[q] \ places.rooms[t].members),
        !.ghosts[s] = @ \ (there \cup (departures[q] \ places.rooms[t].members)), !.origin[s] = 0, !.back[q] = @ \cup {s}]

(* Back in its Town the hunter hears which members left the quest room. *)
Returned(s, q, t) ==
  LET moved == [Now EXCEPT !.places = SetRoom(Leave(places, q, {s}), {s}, t), !.player[s].alias = q,
                           !.departures[q] = IF places.rooms[q].members = {s} THEN {} ELSE @]
      there == Roster(moved.places, s, t)
  IN [Arrive(moved, t, s) EXCEPT
        !.shown[s] = (@ \cup there) \ (departures[q] \ places.rooms[t].members),
        !.ghosts[s] = @ \ (there \cup (departures[q] \ places.rooms[t].members)), !.origin[s] = 0, !.back[q] = @ \cup {s}]

ReturnFromQuest(s) ==
  LET q == places.room[s]
      t == origin[s]
      towns == IF t \in Open(places) THEN OriginTowns(places, s, places.rooms[t].rules) ELSE {}
  IN /\ Hunter(s) /\ Started(places, q)
     /\ IF Cardinality(towns) = 1 THEN Tracked(Returned(s, q, CHOOSE town \in towns : TRUE)) ELSE Tracked(Now)

-----------------------------------------------------------------------------
Init ==
  /\ places = NoPlaces
  /\ player = [s \in Sessions |-> Forgotten]
  /\ departures = [r \in RoomIds |-> {}]
  /\ shown = [s \in Sessions |-> {}] /\ ghosts = [s \in Sessions |-> {}]
  /\ origin = [s \in Sessions |-> 0] /\ named = [s \in Sessions |-> 0]
  /\ table = [a \in Lobbies |-> {}]
  /\ back = [r \in RoomIds |-> {}]

Next ==
  \/ \E s \in Sessions : End(s) \/ Logout(s) \/ LeaveArea(s) \/ LeaveRoom(s)
  \/ \E s \in Sessions, new \in BOOLEAN : KicsLogin(s, new)
  \/ \E s \in Sessions, a \in Lobbies : JoinArea(s, a)
  \/ \E s \in Sessions, max \in Capacities, rules \in Rules : CreateGameRoom(s, max, rules)
  \/ \E s \in Sessions, id \in RoomIds : JoinRoom(s, id)
  \/ \E s \in Sessions : PrepareDeparture(s) \/ StartQuest(s) \/ ReturnFromQuest(s)
  \/ \E s \in Sessions, departing \in BOOLEAN : PublishProfile(s, departing)

Spec == Init /\ [][Next]_vars

-----------------------------------------------------------------------------
(* A session's room word names an open room that has it as a member, on
   every path through leaves, relogins and returns (plugin.py:844-898). *)
SessionsRoomHasIt ==
  \A s \in places.live :
    places.room[s] # 0 => /\ places.room[s] \in Open(places)
                          /\ s \in places.rooms[places.room[s]].members

(* At most one Town lists a hunter, so the STAT that ends a quest is never
   ambiguous and no Town keeps a hunter that went elsewhere (1028-1040). *)
ListedOnce ==
  \A s \in Sessions :
    Cardinality({t \in Open(places) : IsTown(places, t) /\ s \in places.rooms[t].members}) <= 1

(* The hunters in a Town or a waiting quest room see each other: each shows
   exactly the ones that are there, or, back from a quest, at least these
   (plugin.py:404-463, 993-1018). *)
HuntersMeet ==
  \A s \in places.live :
    LET r == places.room[s]
        there == Listed(places, r) \ {s}
    IN r # 0 /\ ~Started(places, r) =>
         IF player[s].alias = 0 THEN shown[s] = there ELSE there \subseteq shown[s]

(* A hunter on a quest has its place in the Town it left: its return finds
   that Town, whoever left, joined or closed rooms meanwhile (78-107). *)
PlaceKept ==
  \A s \in places.live :
    LET r == places.room[s] IN
    r \in Open(places) /\ ~IsTown(places, r) =>
      IsTown(places, origin[s]) /\ s \in places.rooms[origin[s]].members

(* A client in a game that has replaced its lobby is sent no callback: its
   lists do not change while the quest lasts (59-66, 876-882). *)
QuestHearsNothing ==
  [][\A s \in Sessions :
       InStartedQuest(places, s) /\ InStartedQuest(places', s) =>
         shown'[s] \cup ghosts'[s] = shown[s] \cup ghosts[s]]_vars

(* Back in its Town a hunter shows nobody who left the quest room while it
   was away and is not in that Town, those that came back from the quest
   before it left aside (plugin.py:821-842, 876-882). *)
ReturnForgetsDeparted ==
  [][\A s \in Sessions :
       LET q == places.room[s] IN
       Started(places, q) /\ IsTown(places', places'.room[s]) /\ player'[s].alias = q =>
         shown'[s] \subseteq places'.rooms[places'.room[s]].members \cup Listed(places', q) \cup back[q]]_vars

(* A Town table that was read once equals the Area's Towns (910-959). *)
TownTableFresh == \A a \in Lobbies : table[a] = TownRows(places, a)

(* No Area, nor the Land, ever holds more than its capacity, also after a
   console that crashed in an Area has logged in again (1102-1114). *)
AreaNotOverfull ==
  /\ \A a \in Lobbies : Cardinality({s \in places.live : places.lobby[s] = a}) <= AreaCapacity
  /\ Cardinality({s \in places.live : places.lobby[s] # 0}) <= LandCapacity

(* A hunter back from a quest shows nobody that is neither in its Town nor
   on the quest: it is told which members left (821-842).  The code breaks
   this for a member that came back first and left the Town. *)
ReturnShowsThePresent ==
  [][\A s \in Sessions :
       LET q == places.room[s] IN
       Started(places, q) /\ IsTown(places', places'.room[s]) /\ player'[s].alias = q =>
         shown'[s] \subseteq places'.rooms[places'.room[s]].members \cup Listed(places', q)]_vars

(* On Land selection a session has no idle limit (session_idle_limit).  The
   code breaks this: a console that crashed in an Area and logs in again
   keeps its Area in the plugin's record. *)
SelectionHasNoLimit == \A s \in places.live : places.lobby[s] = 0 => player[s].area = 0

(* The places of the hunters, the lists their clients show, the Town that awaits them and
   the Areas' tables and capacities agree, whatever quests and departures interleave. *)
TownsSound ==
  /\ TypeOK
  /\ SessionsRoomHasIt
  /\ ListedOnce
  /\ HuntersMeet
  /\ PlaceKept
  /\ TownTableFresh
  /\ AreaNotOverfull

(* What no step may do to a hunter on a quest or on its way back from one. *)
HunterSteps ==
  /\ QuestHearsNothing
  /\ ReturnForgetsDeparted

=============================================================================
