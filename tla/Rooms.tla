------------------------------ MODULE Rooms ------------------------------
(***************************************************************************)
(* The sessions' places and the game rooms of one game server: the lobby   *)
(* and room word of every session (core/sessions.py) and the room table    *)
(* (core/rooms.py), with the operations the game plugins build on.  A      *)
(* server's places are one record, so that a handler that makes several    *)
(* changes is a composition of these operators.                            *)
(***************************************************************************)
EXTENDS Naturals, FiniteSets, Sequences, Functions

CONSTANTS Sessions,     \* game sessions, by id
          Lobbies,      \* lobby ids of the configuration
          MaxRoomId,    \* bound: rooms ever created
          Capacities,   \* sizes of rooms, clamped to max_players_per_room
          Rules,        \* rules words
          MaxRooms      \* max_rooms_per_lobby

ASSUME PlacesAssumption ==
  /\ IsFiniteSet(Sessions) /\ IsFiniteSet(Lobbies) /\ Lobbies \subseteq Nat \ {0}
  /\ MaxRoomId \in Nat /\ Capacities \subseteq Nat \ {0} /\ MaxRooms \in Nat

RoomIds == 1 .. MaxRoomId

GameRooms ==
  {g \in [lobby : Lobbies, host : Sessions, members : SUBSET Sessions, max : Capacities, rules : Rules] :
     Cardinality(g.members) <= g.max}

Places ==
  [live : SUBSET Sessions,
   lobby : [Sessions -> Lobbies \cup {0}],
   room : [Sessions -> RoomIds \cup {0}],
   rooms : UNION {[open -> GameRooms] : open \in SUBSET RoomIds},
   next : 1 .. MaxRoomId + 1]

NoPlaces ==
  [live |-> {}, lobby |-> [s \in Sessions |-> 0], room |-> [s \in Sessions |-> 0],
   rooms |-> [r \in {} |-> {}], next |-> 1]

Open(w) == DOMAIN w.rooms

(* list_room_members: the sessions whose own room word is r. *)
Listed(w, r) == {s \in w.live : w.room[s] = r}

RoomsOf(w, l) == {r \in Open(w) : w.rooms[r].lobby = l}

SetRoom(w, S, r) == [w EXCEPT !.room = [s \in Sessions |-> IF s \in S \cap w.live THEN r ELSE @[s]]]

SetLobby(w, s, l) == [w EXCEPT !.lobby[s] = l]

(* A room whose last member leaves is gone. *)
WithMembers(w, r, M) ==
  IF M = {} THEN [w EXCEPT !.rooms = Restrict(@, Open(w) \ {r})]
            ELSE [w EXCEPT !.rooms[r].members = M]

Leave(w, r, S) == IF r \in Open(w) THEN WithMembers(w, r, w.rooms[r].members \ S) ELSE w

Join(w, r, s) == [w EXCEPT !.rooms[r].members = @ \cup {s}]

(* A fault: one more than fits. *)
HasSeatOneMore(w, r, s) == r \in Open(w) /\ Cardinality(w.rooms[r].members) <= w.rooms[r].max

HasSeat(w, r, s) ==
  /\ r \in Open(w)
  /\ \/ s \in w.rooms[r].members
     \/ Cardinality(w.rooms[r].members) < w.rooms[r].max

(* A room is created under a fresh id with its host as the first member. *)
Create(w, s, max, rules) ==
  [w EXCEPT !.next = @ + 1,
            !.rooms = [r \in Open(w) \cup {w.next} |->
                         IF r = w.next THEN [lobby |-> w.lobby[s], host |-> s, members |-> {s},
                                        max |-> max, rules |-> rules]
                                       ELSE @[r]]]

(* The runtime session of a login replaces an earlier one and may replace,
   silently, the session that held its bootstrap port. *)
Adopt(w, s, superseded) ==
  LET gone == superseded \cup {s} IN
  [w EXCEPT !.live = (@ \ superseded) \cup {s},
            !.lobby = [t \in Sessions |-> IF t \in gone THEN 0 ELSE @[t]],
            !.room = [t \in Sessions |-> IF t \in gone THEN 0 ELSE @[t]]]

Remove(w, s) == [w EXCEPT !.live = @ \ {s}, !.lobby[s] = 0, !.room[s] = 0]

(* The host's leave empties the room and takes every session out of it. *)
Close(w, r) == Leave(SetRoom(w, Listed(w, r), 0), r, w.rooms[r].members)

(* A KICS login of a session that is still in a room takes it out without a
   word to the other members; the host's login closes the room. *)
ResetForRelogin(w, s) ==
  LET r == w.room[s] IN
  IF s \notin w.live \/ r = 0 THEN w
  ELSE IF r \in Open(w) /\ w.rooms[r].host = s THEN Close(w, r)
  ELSE SetRoom(Leave(w, r, {s}), {s}, 0)

-----------------------------------------------------------------------------
(* Lobbies and rooms are listed in the order of their numbers. *)
InOrder(ids) ==
  [i \in 1 .. Cardinality(ids) |-> CHOOSE n \in ids : Cardinality({m \in ids : m < n}) = i - 1]

(* A fault: the first page looks like the whole list. *)
ListPagesFirst(rows, size) ==
  LET last == IF rows = << >> THEN 1 ELSE (Len(rows) + size - 1) \div size
      To(p) == IF p = last THEN Len(rows) ELSE p * size
  IN [p \in 1 .. last |-> [rows |-> SubSeq(rows, (p - 1) * size + 1, To(p)), more |-> p # 1 /\ p < last]]

(* A list goes out as pages of `size` rows that fit the client's buffer; all
   but the last say that there are more. *)
ListPages(rows, size) ==
  LET last == IF rows = << >> THEN 1 ELSE (Len(rows) + size - 1) \div size
      To(p) == IF p = last THEN Len(rows) ELSE p * size
  IN [p \in 1 .. last |-> [rows |-> SubSeq(rows, (p - 1) * size + 1, To(p)), more |-> p < last]]

(* What a client has read when a page says that there are no more. *)
RowsRead(pages) ==
  LET end == CHOOSE p \in DOMAIN pages : ~pages[p].more /\ \A q \in 1 .. p - 1 : pages[q].more
  IN UNION {Range(pages[p].rows) : p \in 1 .. end}

=============================================================================
