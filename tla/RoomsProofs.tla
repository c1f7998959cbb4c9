------------------------------ MODULE RoomsProofs ------------------------------
(***************************************************************************)
(* The sessions' room words and the room table stay in step under the      *)
(* operations that the plugins' handlers are composed of, for any          *)
(* sessions, lobbies and limits.                                           *)
(*                                                                         *)
(* A handler takes a session out of a room in two changes, so between them *)
(* they do not agree about it: InStep(w, X) leaves out the sessions X that *)
(* the handler is in the middle of.                                        *)
(***************************************************************************)
EXTENDS Rooms, FiniteSetTheorems, TLAPS

Shape(w) ==
    /\ w \in [live : SUBSET Sessions, lobby : [Sessions -> Lobbies \cup {0}],
              room : [Sessions -> RoomIds \cup {0}], rooms : {w.rooms}, next : 1 .. MaxRoomId + 1]
    /\ w.rooms \in [Open(w) -> GameRooms]
    /\ \A r \in Open(w) : r \in RoomIds /\ r < w.next
    /\ \A s \in Sessions \ w.live : w.room[s] = 0

\* The room word names an open room that has the session as a member.
InItsRoom(w, s) ==
    w.room[s] # 0 => w.room[s] \in Open(w) /\ s \in w.rooms[w.room[s]].members

InStep(w, X) == Shape(w) /\ \A s \in w.live \ X : InItsRoom(w, s)

\* Rooms close and sessions leave; nobody moves, and no host changes.
Shrinks(v, w) ==
    /\ Open(v) \subseteq Open(w)
    /\ \A r \in Open(v) : v.rooms[r].host = w.rooms[r].host
    /\ \A s \in Sessions : v.room[s] \in {0, w.room[s]}

LEMMA ShrinksTwice ==
    ASSUME NEW u, NEW v, NEW w, Shrinks(u, v), Shrinks(v, w)
    PROVE  Shrinks(u, w)
BY DEF Shrinks

LEMMA ShrinksNot == ASSUME NEW w PROVE Shrinks(w, w)
BY DEF Shrinks

LEMMA ListedShrinks ==
    ASSUME NEW v, NEW w, Shape(v), Shape(w), Shrinks(v, w), NEW r, r # 0
    PROVE  Listed(v, r) \subseteq Listed(w, r)
BY DEF Shrinks, Shape, Listed

LEMMA ShapeIsPlaces == ASSUME NEW w, Shape(w) PROVE w \in Places
<1>1. Open(w) \in SUBSET RoomIds
    BY DEF Shape
<1>2. w.rooms \in UNION {[open -> GameRooms] : open \in SUBSET RoomIds}
    BY <1>1 DEF Shape
<1>3. QED
    BY <1>2 DEF Shape, Places

-----------------------------------------------------------------------------
\* Members come and go; the rest of a room stays.
Like(g, h) == g.lobby = h.lobby /\ g.host = h.host /\ g.max = h.max /\ g.rules = h.rules

\* A room that loses members still fits, and one with a free seat takes one more.
LEMMA FewerFit ==
    ASSUME NEW g \in GameRooms, NEW M, M \subseteq g.members
    PROVE  /\ [g EXCEPT !.members = M] \in GameRooms
           /\ Like([g EXCEPT !.members = M], g) /\ [g EXCEPT !.members = M].members = M
<1>1. IsFiniteSet(g.members) /\ g.members \subseteq Sessions
    BY PlacesAssumption, FS_Subset DEF GameRooms
<1>2. Cardinality(M) <= Cardinality(g.members) /\ Cardinality(g.members) <= g.max
    BY <1>1, FS_Subset DEF GameRooms
<1>3. /\ Cardinality(M) \in Nat /\ Cardinality(g.members) \in Nat /\ g.max \in Nat
    <2>1. IsFiniteSet(M)
        BY <1>1, FS_Subset
    <2>2. QED
        BY <1>1, <2>1, FS_CardinalityType, PlacesAssumption DEF GameRooms
<1>4. Cardinality(M) <= g.max
    BY <1>2, <1>3
<1>5. QED
    BY <1>1, <1>4 DEF GameRooms, Like

LEMMA OneMoreFits ==
    ASSUME NEW w, Shape(w), NEW r, NEW s \in Sessions, HasSeat(w, r, s)
    PROVE  LET g == w.rooms[r]
               h == [g EXCEPT !.members = @ \cup {s}]
           IN  h \in GameRooms /\ Like(h, g) /\ h.members = g.members \cup {s}
<1> DEFINE g == w.rooms[r]
           M == g.members \cup {s}
<1>1. g \in GameRooms /\ (s \in g.members \/ Cardinality(g.members) < g.max)
    BY DEF HasSeat, Shape
<1> HIDE DEF g
<1>2. g.members \subseteq Sessions /\ g.max \in Nat /\ Cardinality(g.members) <= g.max
    BY <1>1, PlacesAssumption DEF GameRooms
<1>3. IsFiniteSet(g.members) /\ Cardinality(g.members) \in Nat
    BY <1>2, PlacesAssumption, FS_Subset, FS_CardinalityType
<1>4. Cardinality(M) <= g.max
    <2>1. CASE s \in g.members
        <3>1. M = g.members
            BY <2>1
        <3>2. QED
            BY <1>2, <3>1
    <2>2. CASE s \notin g.members
        <3>1. Cardinality(M) = Cardinality(g.members) + 1
            BY <1>3, <2>2, FS_AddElement
        <3>2. QED
            BY <1>1, <1>2, <1>3, <2>2, <3>1
    <2>3. QED
        BY <2>1, <2>2
<1>5. QED
    BY <1>1, <1>2, <1>4 DEF GameRooms, Like, g

-----------------------------------------------------------------------------
\* The room words of some live sessions are set.
WordsSet(v, w, S, r) ==
    /\ Shape(v) /\ v.live = w.live /\ v.rooms = w.rooms /\ v.next = w.next /\ v.lobby = w.lobby
    /\ Open(v) = Open(w)
    /\ \A s \in Sessions : v.room[s] = IF s \in S \cap w.live THEN r ELSE w.room[s]

LEMMA SetRoomFields ==
    ASSUME NEW w, Shape(w), NEW S, NEW r \in RoomIds \cup {0}
    PROVE  WordsSet(SetRoom(w, S, r), w, S, r)
<1> DEFINE v == SetRoom(w, S, r)
<1>1. /\ v \in [live : SUBSET Sessions, lobby : [Sessions -> Lobbies \cup {0}],
                room : [Sessions -> RoomIds \cup {0}], rooms : {w.rooms}, next : 1 .. MaxRoomId + 1]
      /\ v.live = w.live /\ v.rooms = w.rooms /\ v.next = w.next /\ v.lobby = w.lobby
      /\ v.room = [s \in Sessions |-> IF s \in S \cap w.live THEN r ELSE w.room[s]]
    BY DEF SetRoom, Shape
<1> HIDE DEF v
<1>2. Open(v) = Open(w)
    BY <1>1 DEF Open
<1>3. Shape(v)
    BY <1>1, <1>2 DEF Shape
<1>4. QED
    BY <1>1, <1>2, <1>3 DEF WordsSet, v

LEMMA SetOutKeeps ==
    ASSUME NEW w, NEW X, InStep(w, X), NEW S, NEW Y, X \subseteq Y \cup S
    PROVE  InStep(SetRoom(w, S, 0), Y) /\ Shrinks(SetRoom(w, S, 0), w)
<1> DEFINE v == SetRoom(w, S, 0)
<1> HIDE DEF v
<1>1. WordsSet(v, w, S, 0)
    BY SetRoomFields DEF InStep, v
<1>2. \A s \in v.live \ Y : InItsRoom(v, s)
    BY <1>1 DEF InStep, InItsRoom, WordsSet, Shape
<1>3. Shrinks(v, w)
    BY <1>1 DEF Shrinks, WordsSet
<1>4. QED
    BY <1>1, <1>2, <1>3 DEF InStep, WordsSet, v

\* Members leave the room table's entry; the room goes with the last of them.
LeftBy(v, w, r, S) ==
    /\ Shape(v) /\ v.live = w.live /\ v.room = w.room /\ v.lobby = w.lobby /\ v.next = w.next
    /\ Open(v) \subseteq Open(w)
    /\ \A q \in Open(w) : q # r \/ w.rooms[r].members \ S # {} <=> q \in Open(v)
    /\ \A q \in Open(v) :
           /\ Like(v.rooms[q], w.rooms[q])
           /\ v.rooms[q].members = IF q = r THEN w.rooms[r].members \ S ELSE w.rooms[q].members

LEMMA LeaveFields ==
    ASSUME NEW w, Shape(w), NEW r, NEW S
    PROVE  LeftBy(Leave(w, r, S), w, r, S)
<1> DEFINE M == w.rooms[r].members \ S
           v == Leave(w, r, S)
<1>1. CASE r \notin Open(w)
    BY <1>1 DEF Leave, LeftBy, Like
<1>2. CASE r \in Open(w) /\ M = {}
    <2>1. v = [w EXCEPT !.rooms = [q \in Open(w) \ {r} |-> w.rooms[q]]]
        BY <1>2 DEF Leave, WithMembers, Restrict, Shape
    <2>2. /\ v \in [live : SUBSET Sessions, lobby : [Sessions -> Lobbies \cup {0}],
                    room : [Sessions -> RoomIds \cup {0}], rooms : {v.rooms}, next : 1 .. MaxRoomId + 1]
          /\ v.live = w.live /\ v.room = w.room /\ v.next = w.next /\ v.lobby = w.lobby
          /\ v.rooms = [q \in Open(w) \ {r} |-> w.rooms[q]]
        BY <2>1 DEF Shape
    <2> HIDE DEF v
    <2>3. Open(v) = Open(w) \ {r}
        BY <2>2 DEF Open
    <2>4. Shape(v)
        BY <2>2, <2>3 DEF Shape
    <2>5. QED
        BY <1>2, <2>2, <2>3, <2>4 DEF LeftBy, Like, v
<1>3. CASE r \in Open(w) /\ M # {}
    <2> DEFINE h == [w.rooms[r] EXCEPT !.members = M]
    <2>1. h \in GameRooms /\ Like(h, w.rooms[r]) /\ h.members = M
        BY <1>3, FewerFit DEF Shape
    <2>2. v = [w EXCEPT !.rooms = [w.rooms EXCEPT ![r] = h]]
        BY <1>3 DEF Leave, WithMembers, Shape
    <2> HIDE DEF h
    <2>3. /\ v \in [live : SUBSET Sessions, lobby : [Sessions -> Lobbies \cup {0}],
                    room : [Sessions -> RoomIds \cup {0}], rooms : {v.rooms}, next : 1 .. MaxRoomId + 1]
          /\ v.live = w.live /\ v.room = w.room /\ v.next = w.next /\ v.lobby = w.lobby
          /\ v.rooms = [w.rooms EXCEPT ![r] = h]
        BY <2>2 DEF Shape
    <2> HIDE DEF v
    <2>4. /\ Open(v) = Open(w) /\ v.rooms \in [Open(w) -> GameRooms]
          /\ \A q \in Open(w) : v.rooms[q] = IF q = r THEN h ELSE w.rooms[q]
        BY <2>1, <2>3 DEF Open, Shape
    <2>5. Shape(v)
        BY <2>3, <2>4 DEF Shape
    <2>6. QED
        BY <1>3, <2>1, <2>3, <2>4, <2>5 DEF LeftBy, Like, v
<1>4. QED
    BY <1>1, <1>2, <1>3

LEMMA LeaveKeeps ==
    ASSUME NEW w, NEW X, InStep(w, X), NEW r, NEW S, NEW Y, X \subseteq Y,
           \A s \in S : s \in w.live /\ w.room[s] = r /\ r # 0 => s \in Y
    PROVE  InStep(Leave(w, r, S), Y) /\ Shrinks(Leave(w, r, S), w)
<1> DEFINE v == Leave(w, r, S)
<1>1. LeftBy(v, w, r, S)
    BY LeaveFields DEF InStep
<1> HIDE DEF v
<1>2. ASSUME NEW s \in v.live \ Y, v.room[s] # 0
      PROVE  v.room[s] \in Open(v) /\ s \in v.rooms[v.room[s]].members
    <2>1. /\ v.room[s] = w.room[s] /\ w.room[s] \in Open(w)
          /\ s \in w.rooms[w.room[s]].members
        BY <1>1, <1>2 DEF LeftBy, InStep, InItsRoom
    <2>2. CASE w.room[s] = r
        BY <1>1, <1>2, <2>1, <2>2 DEF LeftBy
    <2>3. CASE w.room[s] # r
        BY <1>1, <2>1, <2>3 DEF LeftBy
    <2>4. QED
        BY <2>2, <2>3
<1>3. Shrinks(v, w)
    BY <1>1 DEF LeftBy, Like, Shrinks
<1>4. QED
    BY <1>1, <1>2, <1>3 DEF LeftBy, InStep, InItsRoom, v

\* A session leaves its room: the handlers' composition.
LEMMA LeaveOwnKeeps ==
    ASSUME NEW w, InStep(w, {}), NEW s
    PROVE  LET v == SetRoom(Leave(w, w.room[s], {s}), {s}, 0) IN
           InStep(v, {}) /\ Shrinks(v, w) /\ (s \in w.live => v.room[s] = 0)
<1> DEFINE u == Leave(w, w.room[s], {s})
           v == SetRoom(u, {s}, 0)
<1>1. InStep(u, {s}) /\ Shrinks(u, w)
    BY LeaveKeeps
<1>2. LeftBy(u, w, w.room[s], {s})
    BY LeaveFields DEF InStep
<1> HIDE DEF u
<1>3. InStep(v, {}) /\ Shrinks(v, u) /\ WordsSet(v, u, {s}, 0)
    BY <1>1, SetOutKeeps, SetRoomFields DEF InStep
<1> HIDE DEF v
<1>4. s \in w.live => v.room[s] = 0
    BY <1>2, <1>3 DEF LeftBy, WordsSet, InStep, Shape
<1>5. QED
    BY <1>1, <1>3, <1>4, ShrinksTwice DEF u, v

\* The host's leave takes everybody out of the room, but for the sessions X
\* whose words are kept.
LEMMA CloseButKeeps ==
    ASSUME NEW w, InStep(w, {}), NEW r, NEW X
    PROVE  LET v == Leave(SetRoom(w, Listed(w, r) \ X, 0), r, w.rooms[r].members) IN
           InStep(v, X) /\ Shrinks(v, w)
<1> DEFINE u == SetRoom(w, Listed(w, r) \ X, 0)
           v == Leave(u, r, w.rooms[r].members)
<1>1. InStep(u, {}) /\ Shrinks(u, w)
    BY SetOutKeeps
<1>2. WordsSet(u, w, Listed(w, r) \ X, 0)
    BY SetRoomFields DEF InStep
<1> HIDE DEF u
<1>3. \A s \in w.rooms[r].members : s \in u.live /\ u.room[s] = r /\ r # 0 => s \in X
    BY <1>2 DEF Listed, WordsSet, Shape
<1>4. InStep(v, X) /\ Shrinks(v, u)
    BY <1>1, <1>3, LeaveKeeps
<1> HIDE DEF v
<1>5. QED
    BY <1>1, <1>4, ShrinksTwice DEF u, v

LEMMA CloseKeeps ==
    ASSUME NEW w, InStep(w, {}), NEW r
    PROVE  InStep(Close(w, r), {}) /\ Shrinks(Close(w, r), w)
<1>1. Listed(w, r) \ {} = Listed(w, r)
    OBVIOUS
<1>2. QED
    BY <1>1, CloseButKeeps DEF Close

-----------------------------------------------------------------------------
\* The lobby words and the live sessions change, the room table does not.
WordsMoved(v, w) == Shape(v) /\ v.rooms = w.rooms /\ v.next = w.next /\ Open(v) = Open(w)

LEMMA SetLobbyFields ==
    ASSUME NEW w, Shape(w), NEW s, NEW l \in Lobbies \cup {0}
    PROVE  LET v == SetLobby(w, s, l) IN
           /\ WordsMoved(v, w) /\ v.live = w.live /\ v.room = w.room
           /\ \A t \in Sessions : v.lobby[t] = IF t = s THEN l ELSE w.lobby[t]
<1> DEFINE v == SetLobby(w, s, l)
<1>1. /\ v \in [live : SUBSET Sessions, lobby : [Sessions -> Lobbies \cup {0}],
                room : [Sessions -> RoomIds \cup {0}], rooms : {w.rooms}, next : 1 .. MaxRoomId + 1]
      /\ v.live = w.live /\ v.rooms = w.rooms /\ v.next = w.next /\ v.room = w.room
      /\ \A t \in Sessions : v.lobby[t] = IF t = s THEN l ELSE w.lobby[t]
    BY DEF SetLobby, Shape
<1> HIDE DEF v
<1>2. Open(v) = Open(w)
    BY <1>1 DEF Open
<1>3. QED
    BY <1>1, <1>2 DEF WordsMoved, Shape, v

LEMMA SetLobbyKeeps ==
    ASSUME NEW w, NEW X, InStep(w, X), NEW s, NEW l \in Lobbies \cup {0}
    PROVE  /\ InStep(SetLobby(w, s, l), X) /\ Shrinks(SetLobby(w, s, l), w)
           /\ SetLobby(w, s, l).room = w.room
<1> DEFINE v == SetLobby(w, s, l)
<1> HIDE DEF v
<1>1. WordsMoved(v, w) /\ v.live = w.live /\ v.room = w.room
    BY SetLobbyFields DEF InStep, v
<1>2. QED
    BY <1>1 DEF WordsMoved, InStep, InItsRoom, Shrinks, v

LEMMA RemoveFields ==
    ASSUME NEW w, Shape(w), NEW s
    PROVE  LET v == Remove(w, s) IN
           /\ WordsMoved(v, w) /\ v.live = w.live \ {s}
           /\ \A t \in Sessions : /\ v.room[t] = IF t = s THEN 0 ELSE w.room[t]
                                  /\ v.lobby[t] = IF t = s THEN 0 ELSE w.lobby[t]
<1> DEFINE v == Remove(w, s)
<1>1. /\ v \in [live : SUBSET Sessions, lobby : [Sessions -> Lobbies \cup {0}],
                room : [Sessions -> RoomIds \cup {0}], rooms : {w.rooms}, next : 1 .. MaxRoomId + 1]
      /\ v.live = w.live \ {s} /\ v.rooms = w.rooms /\ v.next = w.next
      /\ \A t \in Sessions : /\ v.room[t] = IF t = s THEN 0 ELSE w.room[t]
                             /\ v.lobby[t] = IF t = s THEN 0 ELSE w.lobby[t]
    BY DEF Remove, Shape
<1> HIDE DEF v
<1>2. Open(v) = Open(w)
    BY <1>1 DEF Open
<1>3. QED
    BY <1>1, <1>2 DEF WordsMoved, Shape, v

LEMMA RemoveKeeps ==
    ASSUME NEW w, NEW s, InStep(w, {s})
    PROVE  InStep(Remove(w, s), {}) /\ Shrinks(Remove(w, s), w) /\ s \notin Remove(w, s).live
<1> DEFINE v == Remove(w, s)
<1> HIDE DEF v
<1>1. /\ WordsMoved(v, w) /\ v.live = w.live \ {s}
      /\ \A t \in Sessions : v.room[t] = IF t = s THEN 0 ELSE w.room[t]
    BY RemoveFields DEF InStep, v
<1>2. \A t \in v.live : InItsRoom(v, t)
    BY <1>1 DEF WordsMoved, InStep, InItsRoom, Shape
<1>3. QED
    BY <1>1, <1>2 DEF WordsMoved, InStep, Shrinks, v

\* The runtime session of a login is in no room, nor is one that it replaces.
LEMMA AdoptFields ==
    ASSUME NEW w, Shape(w), NEW s \in Sessions, NEW U
    PROVE  LET v == Adopt(w, s, U) IN
           /\ WordsMoved(v, w) /\ v.live = (w.live \ U) \cup {s}
           /\ \A t \in Sessions : /\ v.room[t] = IF t \in U \cup {s} THEN 0 ELSE w.room[t]
                                  /\ v.lobby[t] = IF t \in U \cup {s} THEN 0 ELSE w.lobby[t]
<1> DEFINE v == Adopt(w, s, U)
<1>1. /\ v \in [live : SUBSET Sessions, lobby : [Sessions -> Lobbies \cup {0}],
                room : [Sessions -> RoomIds \cup {0}], rooms : {w.rooms}, next : 1 .. MaxRoomId + 1]
      /\ v.live = (w.live \ U) \cup {s} /\ v.rooms = w.rooms /\ v.next = w.next
      /\ \A t \in Sessions : /\ v.room[t] = IF t \in U \cup {s} THEN 0 ELSE w.room[t]
                             /\ v.lobby[t] = IF t \in U \cup {s} THEN 0 ELSE w.lobby[t]
    BY DEF Adopt, Shape
<1> HIDE DEF v
<1>2. Open(v) = Open(w)
    BY <1>1 DEF Open
<1>3. Shape(v)
    BY <1>1, <1>2 DEF Shape
<1>4. QED
    BY <1>1, <1>2, <1>3 DEF WordsMoved, v

LEMMA AdoptKeeps ==
    ASSUME NEW w, InStep(w, {}), NEW s \in Sessions, NEW U
    PROVE  /\ InStep(Adopt(w, s, U), {}) /\ Shrinks(Adopt(w, s, U), w)
           /\ Adopt(w, s, U).live = (w.live \ U) \cup {s} /\ Adopt(w, s, U).room[s] = 0
<1> DEFINE v == Adopt(w, s, U)
<1> HIDE DEF v
<1>1. /\ WordsMoved(v, w) /\ v.live = (w.live \ U) \cup {s}
      /\ \A t \in Sessions : v.room[t] = IF t \in U \cup {s} THEN 0 ELSE w.room[t]
    BY AdoptFields DEF InStep, v
<1>2. \A t \in v.live : InItsRoom(v, t)
    BY <1>1 DEF WordsMoved, InStep, InItsRoom, Shape
<1>3. QED
    BY <1>1, <1>2 DEF WordsMoved, InStep, Shrinks, v

\* The reset of a repeated KICS login.
LEMMA ResetKeeps ==
    ASSUME NEW w, InStep(w, {}), NEW s
    PROVE  InStep(ResetForRelogin(w, s), {}) /\ Shrinks(ResetForRelogin(w, s), w)
BY CloseKeeps, LeaveOwnKeeps, ShrinksNot DEF ResetForRelogin

\* A session takes a seat, and its room word is set.
JoinedBy(v, w, r, s) ==
    /\ Shape(v) /\ v.live = w.live /\ v.lobby = w.lobby /\ v.next = w.next /\ Open(v) = Open(w)
    /\ \A q \in Open(w) :
           /\ Like(v.rooms[q], w.rooms[q])
           /\ v.rooms[q].members = IF q = r THEN w.rooms[q].members \cup {s} ELSE w.rooms[q].members
    /\ \A t \in Sessions : v.room[t] = IF t = s THEN r ELSE w.room[t]

LEMMA JoinFields ==
    ASSUME NEW w, Shape(w), NEW r, NEW s \in w.live, HasSeat(w, r, s)
    PROVE  JoinedBy(SetRoom(Join(w, r, s), {s}, r), w, r, s)
<1> DEFINE g == w.rooms[r]
           h == [g EXCEPT !.members = @ \cup {s}]
           u == Join(w, r, s)
           v == SetRoom(u, {s}, r)
<1>0. r \in Open(w) /\ r \in RoomIds /\ s \in Sessions
    BY DEF HasSeat, Shape
<1>1. h \in GameRooms /\ Like(h, g) /\ h.members = g.members \cup {s}
    BY <1>0, OneMoreFits
<1>2. u = [w EXCEPT !.rooms = [w.rooms EXCEPT ![r] = h]]
    BY <1>0 DEF Join, Shape
<1> HIDE DEF h
<1>3. /\ u \in [live : SUBSET Sessions, lobby : [Sessions -> Lobbies \cup {0}],
                room : [Sessions -> RoomIds \cup {0}], rooms : {u.rooms}, next : 1 .. MaxRoomId + 1]
      /\ u.live = w.live /\ u.room = w.room /\ u.next = w.next /\ u.lobby = w.lobby
      /\ u.rooms = [w.rooms EXCEPT ![r] = h]
    BY <1>2 DEF Shape
<1> HIDE DEF u
<1>4. /\ Open(u) = Open(w) /\ u.rooms \in [Open(w) -> GameRooms]
      /\ \A q \in Open(w) : u.rooms[q] = IF q = r THEN h ELSE w.rooms[q]
    BY <1>1, <1>3 DEF Open, Shape
<1>5. Shape(u)
    BY <1>3, <1>4 DEF Shape
<1>6. WordsSet(v, u, {s}, r)
    BY <1>0, <1>5, SetRoomFields
<1> HIDE DEF v
<1>7. \A t \in Sessions : v.room[t] = IF t = s THEN r ELSE w.room[t]
    BY <1>3, <1>6 DEF WordsSet
<1>8. \A q \in Open(w) :
          /\ Like(v.rooms[q], w.rooms[q])
          /\ v.rooms[q].members = IF q = r THEN w.rooms[q].members \cup {s} ELSE w.rooms[q].members
    BY <1>1, <1>4, <1>6 DEF WordsSet, Like
<1>9. QED
    BY <1>3, <1>4, <1>6, <1>7, <1>8 DEF WordsSet, JoinedBy, u, v

\* A session that takes a seat is a member of the room its word names.
LEMMA JoinKeeps ==
    ASSUME NEW w, InStep(w, {}), NEW r, NEW s \in w.live, HasSeat(w, r, s)
    PROVE  LET v == SetRoom(Join(w, r, s), {s}, r) IN
           /\ InStep(v, {}) /\ v.live = w.live /\ Open(v) = Open(w)
           /\ \A q \in Open(w) : v.rooms[q].host = w.rooms[q].host
           /\ \A t \in Sessions : v.room[t] = IF t = s THEN r ELSE w.room[t]
<1> DEFINE v == SetRoom(Join(w, r, s), {s}, r)
<1> HIDE DEF v
<1>1. JoinedBy(v, w, r, s) /\ r \in Open(w)
    BY JoinFields DEF InStep, HasSeat, v
<1>2. \A t \in v.live : InItsRoom(v, t)
    BY <1>1, ZenonT(40) DEF InStep, InItsRoom, JoinedBy, Shape
<1>3. QED
    BY <1>1, <1>2 DEF InStep, JoinedBy, Like, v

\* A room is opened under a number that no open room has.
CreatedBy(v, w, s, max, rules) ==
    /\ Shape(v) /\ v.live = w.live /\ v.lobby = w.lobby /\ v.next = w.next + 1
    /\ Open(v) = Open(w) \cup {w.next}
    /\ \A q \in Open(w) : q # w.next /\ v.rooms[q] = w.rooms[q]
    /\ v.rooms[w.next] = [lobby |-> w.lobby[s], host |-> s, members |-> {s}, max |-> max, rules |-> rules]
    /\ \A t \in Sessions : v.room[t] = IF t = s THEN w.next ELSE w.room[t]

LEMMA CreateFields ==
    ASSUME NEW w, Shape(w), NEW s \in w.live, w.lobby[s] \in Lobbies, w.next \in RoomIds,
           NEW max \in Capacities, NEW rules \in Rules
    PROVE  CreatedBy(SetRoom(Create(w, s, max, rules), {s}, w.next), w, s, max, rules)
<1> DEFINE g == [lobby |-> w.lobby[s], host |-> s, members |-> {s}, max |-> max, rules |-> rules]
           u == Create(w, s, max, rules)
           v == SetRoom(u, {s}, w.next)
<1>0. s \in Sessions /\ w.next \notin Open(w) /\ w.next \in Nat
    BY PlacesAssumption DEF Shape, RoomIds
<1>1. g \in GameRooms
    <2>1. Cardinality({s}) <= max
        BY PlacesAssumption, FS_Singleton
    <2>2. QED
        BY <1>0, <2>1 DEF GameRooms
<1>2. u = [w EXCEPT !.next = @ + 1,
                    !.rooms = [r \in Open(w) \cup {w.next} |-> IF r = w.next THEN g ELSE w.rooms[r]]]
    BY DEF Create, Shape
<1> HIDE DEF g
<1>3. /\ u \in [live : SUBSET Sessions, lobby : [Sessions -> Lobbies \cup {0}],
                room : [Sessions -> RoomIds \cup {0}], rooms : {u.rooms}, next : 1 .. MaxRoomId + 1]
      /\ u.live = w.live /\ u.room = w.room /\ u.next = w.next + 1 /\ u.lobby = w.lobby
      /\ u.rooms = [r \in Open(w) \cup {w.next} |-> IF r = w.next THEN g ELSE w.rooms[r]]
    <2>1. w.next + 1 \in 1 .. MaxRoomId + 1
        BY PlacesAssumption DEF RoomIds
    <2>2. QED
        BY <1>2, <2>1 DEF Shape
<1> HIDE DEF u
<1>4. /\ Open(u) = Open(w) \cup {w.next} /\ u.rooms \in [Open(u) -> GameRooms]
      /\ \A q \in Open(w) : q # w.next /\ u.rooms[q] = w.rooms[q]
      /\ u.rooms[w.next] = g
    BY <1>0, <1>1, <1>3 DEF Open, Shape
<1>5. Shape(u)
    <2>1. \A q \in Open(w) : q \in RoomIds /\ q < w.next + 1
        BY <1>0, PlacesAssumption DEF Shape, RoomIds
    <2>2. w.next < w.next + 1
        BY <1>0
    <2>3. QED
        BY <1>3, <1>4, <2>1, <2>2 DEF Shape
<1>6. WordsSet(v, u, {s}, w.next)
    BY <1>5, SetRoomFields
<1> HIDE DEF v
<1>7. \A t \in Sessions : v.room[t] = IF t = s THEN w.next ELSE w.room[t]
    BY <1>3, <1>6 DEF WordsSet
<1>8. v.live = w.live /\ v.lobby = w.lobby /\ v.next = w.next + 1 /\ v.rooms = u.rooms /\ Open(v) = Open(u) /\ Shape(v)
    BY <1>3, <1>6 DEF WordsSet
<1>9. QED
    BY <1>4, <1>7, <1>8 DEF CreatedBy, g, u, v

OpenedBy(v, w, s) ==
    /\ InStep(v, {}) /\ v.live = w.live /\ Open(v) = Open(w) \cup {w.next}
    /\ \A q \in Open(w) : q # w.next /\ v.rooms[q].host = w.rooms[q].host
    /\ v.rooms[w.next].host = s
    /\ \A t \in Sessions : v.room[t] = IF t = s THEN w.next ELSE w.room[t]

LEMMA CreateKeeps ==
    ASSUME NEW w, InStep(w, {}), NEW s \in w.live, w.lobby[s] \in Lobbies, w.next \in RoomIds,
           NEW max \in Capacities, NEW rules \in Rules
    PROVE  OpenedBy(SetRoom(Create(w, s, max, rules), {s}, w.next), w, s)
<1> DEFINE v == SetRoom(Create(w, s, max, rules), {s}, w.next)
<1> HIDE DEF v
<1>1. CreatedBy(v, w, s, max, rules)
    BY CreateFields DEF InStep, v
<1>2. v.rooms[w.next].host = s /\ v.rooms[w.next].members = {s}
    BY <1>1 DEF CreatedBy
<1>3. \A t \in v.live : InItsRoom(v, t)
    BY <1>1, <1>2 DEF InStep, InItsRoom, CreatedBy, Shape
<1>4. QED
    BY <1>1, <1>2, <1>3 DEF InStep, OpenedBy, CreatedBy, v

LEMMA NoPlacesInStep == InStep(NoPlaces, {}) /\ Open(NoPlaces) = {}
<1>1. Open(NoPlaces) = {}
    BY DEF NoPlaces, Open
<1> DEFINE v == NoPlaces
<1>2. /\ v \in [live : SUBSET Sessions, lobby : [Sessions -> Lobbies \cup {0}],
                room : [Sessions -> RoomIds \cup {0}], rooms : {v.rooms}, next : 1 .. MaxRoomId + 1]
      /\ v.live = {} /\ \A s \in Sessions : v.room[s] = 0
    BY PlacesAssumption DEF NoPlaces
<1>3. v.rooms \in [Open(v) -> GameRooms]
    BY <1>1 DEF NoPlaces
<1> HIDE DEF v
<1>4. QED
    BY <1>1, <1>2, <1>3 DEF InStep, Shape, v

-----------------------------------------------------------------------------
\* A finite set of numbers is listed whole, and every number once.
LEMMA InOrderLists ==
    ASSUME NEW S, IsFiniteSet(S), S \subseteq Nat
    PROVE  /\ Cardinality(S) \in Nat /\ InOrder(S) \in [1 .. Cardinality(S) -> S]
           /\ \A x \in S : \E i \in 1 .. Cardinality(S) : InOrder(S)[i] = x
<1> DEFINE n == Cardinality(S)
           Below(x) == {m \in S : m < x}
           place == [x \in S |-> Cardinality(Below(x)) + 1]
<1>1. n \in Nat
    BY FS_CardinalityType
<1>2. ASSUME NEW x \in S
      PROVE  /\ IsFiniteSet(Below(x)) /\ Cardinality(Below(x)) \in Nat /\ Cardinality(Below(x)) + 1 <= n
    <2>1. IsFiniteSet(Below(x)) /\ x \notin Below(x)
        BY FS_Subset
    <2>2. Below(x) \cup {x} \in SUBSET S
        OBVIOUS
    <2>3. Cardinality(Below(x) \cup {x}) <= n /\ Cardinality(Below(x) \cup {x}) = Cardinality(Below(x)) + 1
        BY <2>1, <2>2, FS_Subset, FS_AddElement
    <2>4. QED
        BY <2>1, <2>3, FS_CardinalityType
<1>3. ASSUME NEW x \in S, NEW y \in S, x < y PROVE place[x] < place[y]
    <2>1. Below(x) \cup {x} \in SUBSET Below(y) /\ x \notin Below(x)
        <3>1. \A m \in S : m < x \/ m = x => m < y
            BY <1>3
        <3>2. x \notin Below(x)
            OBVIOUS
        <3>3. QED
            BY <3>1, <3>2
    <2>2. Cardinality(Below(x) \cup {x}) <= Cardinality(Below(y))
        BY <1>2, <2>1, FS_Subset
    <2>3. Cardinality(Below(x) \cup {x}) = Cardinality(Below(x)) + 1
        BY <1>2, <2>1, FS_AddElement
    <2>4. QED
        BY <1>2, <2>2, <2>3
<1>4. place \in [S -> 1 .. n] /\ \A x \in S : place[x] = Cardinality(Below(x)) + 1
    BY <1>1, <1>2
<1> HIDE DEF place
<1>5. \A x, y \in S : place[x] = place[y] => x = y
    <2> SUFFICES ASSUME NEW x \in S, NEW y \in S, x # y PROVE place[x] # place[y]
        OBVIOUS
    <2>1. place[x] \in Nat /\ place[y] \in Nat /\ x \in Nat /\ y \in Nat
        BY <1>4
    <2>2. x < y \/ y < x
        BY <2>1
    <2>3. QED
        BY <1>3, <2>1, <2>2
<1>6. place \in Injection(S, 1 .. n)
    BY <1>4, <1>5 DEF Injection, IsInjective
<1>7. IsFiniteSet(1 .. n) /\ Cardinality(1 .. n) = n
    BY <1>1, FS_Interval
<1>8. place \in Surjection(S, 1 .. n)
    BY <1>6, <1>7, FS_Injection
<1>9. \A i \in 1 .. n : \E x \in S : place[x] = i
    BY <1>8 DEF Surjection
<1>10. ASSUME NEW i \in 1 .. n PROVE \E x \in S : Cardinality(Below(x)) = i - 1
    <2>1. PICK x \in S : place[x] = i
        BY <1>9
    <2>2. Cardinality(Below(x)) = i - 1
        BY <1>1, <1>2, <1>4, <2>1
    <2>3. QED
        BY <2>2
<1>11. \A i \in 1 .. n : InOrder(S)[i] \in S /\ Cardinality(Below(InOrder(S)[i])) = i - 1
    BY <1>10 DEF InOrder
<1>12. InOrder(S) \in [1 .. n -> S]
    BY <1>11 DEF InOrder
<1>13. ASSUME NEW x \in S PROVE place[x] \in 1 .. n /\ InOrder(S)[place[x]] = x
    <2>1. place[x] \in 1 .. n
        BY <1>4
    <2> DEFINE y == InOrder(S)[place[x]]
    <2>2. y \in S /\ Cardinality(Below(y)) = place[x] - 1
        BY <1>11, <2>1
    <2> HIDE DEF y
    <2>3. place[y] = place[x]
        BY <1>1, <1>4, <2>1, <2>2
    <2>4. QED
        BY <1>5, <2>1, <2>2, <2>3 DEF y
<1>14. QED
    BY <1>1, <1>12, <1>13

-----------------------------------------------------------------------------
LEMMA DivisionBounds ==
    ASSUME NEW a \in Nat, NEW b \in Nat \ {0}
    PROVE  a \div b \in Nat /\ (a \div b) * b <= a /\ a < (a \div b) * b + b
OBVIOUS

LEMMA ProductsGrow ==
    ASSUME NEW a \in Nat, NEW b \in Nat, NEW c \in Nat
    PROVE  (a <= b => a * c <= b * c) /\ (a * c < b * c => a < b)
OBVIOUS

\* How many pages n rows fill.
LEMMA PageBounds ==
    ASSUME NEW n \in Nat \ {0}, NEW size \in Nat \ {0}
    PROVE  LET last == (n + size - 1) \div size
           IN  last \in Nat \ {0} /\ (last - 1) * size < n /\ n <= last * size
<1> DEFINE last == (n + size - 1) \div size
<1>1. n + size - 1 \in Nat
    OBVIOUS
<1>2. last \in Nat /\ last * size <= n + size - 1 /\ n + size - 1 < last * size + size
    BY <1>1, DivisionBounds
<1> HIDE DEF last
<1>3. last * size \in Nat
    BY <1>2
<1>4. n <= last * size
    BY <1>2, <1>3
<1>5. last # 0
    BY <1>4
<1>6. (last - 1) * size = last * size - size
    BY <1>2
<1>7. (last - 1) * size < n
    BY <1>2, <1>3, <1>6
<1>8. QED
    BY <1>2, <1>4, <1>5, <1>7 DEF last

RowsBetween(rows, a, b) == {rows[i] : i \in a + 1 .. b}

LEMMA SubSeqRange ==
    ASSUME NEW n \in Nat, NEW T, NEW rows \in [1 .. n -> T], NEW a \in Nat, NEW b \in Nat, a <= b, b <= n
    PROVE  Range(SubSeq(rows, a + 1, b)) = RowsBetween(rows, a, b)
<1> DEFINE f == SubSeq(rows, a + 1, b)
<1>1. rows \in Seq(T) /\ Len(rows) = n
    OBVIOUS
<1>2. DOMAIN f = 1 .. b - a /\ \A j \in 1 .. b - a : f[j] = rows[j + a]
    BY <1>1
<1> HIDE DEF f
<1>3. \A i \in a + 1 .. b : i - a \in 1 .. b - a /\ (i - a) + a = i
    OBVIOUS
<1>4. \A j \in 1 .. b - a : j + a \in a + 1 .. b
    OBVIOUS
<1>5. \A x \in Range(f) : x \in RowsBetween(rows, a, b)
    BY <1>2, <1>4 DEF Range, RowsBetween
<1>6. ASSUME NEW i \in a + 1 .. b PROVE rows[i] \in Range(f)
    <2>1. f[i - a] = rows[i] /\ i - a \in DOMAIN f
        BY <1>2, <1>3
    <2>2. QED
        BY <2>1 DEF Range
<1>7. QED
    BY <1>5, <1>6 DEF RowsBetween, f

\* A list read over its pages is the list, whatever fits a page.
LEMMA PagesAreRead ==
    ASSUME NEW n \in Nat, NEW T, NEW rows \in [1 .. n -> T], NEW size \in Nat \ {0}
    PROVE  RowsRead(ListPages(rows, size)) = Range(rows)
<1> DEFINE last == IF rows = << >> THEN 1 ELSE (Len(rows) + size - 1) \div size
           To(p) == IF p = last THEN Len(rows) ELSE p * size
           page == [p \in 1 .. last |-> [rows |-> SubSeq(rows, (p - 1) * size + 1, To(p)), more |-> p < last]]
<1>1. rows \in Seq(T) /\ Len(rows) = n /\ (rows = << >> <=> n = 0)
    OBVIOUS
<1>2. ListPages(rows, size) = page
    BY DEF ListPages
<1>3. /\ last \in Nat \ {0} /\ (n = 0 => last = 1)
      /\ n # 0 => (last - 1) * size < n /\ n <= last * size
    BY <1>1, PageBounds
<1> HIDE DEF last
<1>4. ASSUME NEW p \in 1 .. last
      PROVE  /\ (p - 1) * size \in Nat /\ To(p) \in Nat /\ To(p) <= n
             /\ page[p].more <=> p < last
             /\ Range(page[p].rows) = RowsBetween(rows, (p - 1) * size, To(p))
    <2>1. p \in Nat /\ p - 1 \in Nat /\ last - 1 \in Nat
        BY <1>3
    <2>2. (p - 1) * size \in Nat /\ p * size \in Nat /\ (p - 1) * size <= p * size
        BY <2>1
    <2>3. To(p) \in Nat /\ To(p) <= n /\ (p - 1) * size <= To(p)
        <3>1. CASE p = last
            <4>1. To(p) = n
                BY <1>1, <3>1
            <4>2. n = 0 => (p - 1) * size = 0
                BY <1>3, <3>1
            <4> HIDE DEF To
            <4>3. QED
                BY <1>3, <2>2, <3>1, <4>1, <4>2
        <3>2. CASE p # last
            <4>1. To(p) = p * size /\ p <= last - 1
                BY <1>3, <2>1, <3>2
            <4> HIDE DEF To
            <4>2. p * size <= (last - 1) * size /\ (last - 1) * size \in Nat
                BY <2>1, <4>1, ProductsGrow
            <4>3. n # 0 /\ p * size <= n
                BY <1>3, <2>1, <2>2, <3>2, <4>2
            <4>4. QED
                BY <2>2, <4>1, <4>3
        <3>3. QED
            BY <3>1, <3>2
    <2>4. page[p].more = (p < last) /\ page[p].rows = SubSeq(rows, (p - 1) * size + 1, To(p))
        OBVIOUS
    <2> HIDE DEF page, To
    <2>5. Range(page[p].rows) = RowsBetween(rows, (p - 1) * size, To(p))
        BY <2>2, <2>3, <2>4, SubSeqRange
    <2>6. QED
        BY <2>2, <2>3, <2>4, <2>5
<1>5. DOMAIN page = 1 .. last
    OBVIOUS
<1> HIDE DEF page, To
<1>6. RowsRead(page) = UNION {Range(page[p].rows) : p \in 1 .. last}
    <2> DEFINE Ends(p) == ~page[p].more /\ \A q \in 1 .. p - 1 : page[q].more
               end == CHOOSE p \in DOMAIN page : Ends(p)
    <2>1. last \in DOMAIN page /\ Ends(last)
        BY <1>3, <1>4, <1>5
    <2>2. \A p \in DOMAIN page : Ends(p) => p = last
        BY <1>3, <1>4, <1>5
    <2>3. end = last
        <3> HIDE DEF Ends
        <3>1. QED
            BY <2>1, <2>2
    <2>4. RowsRead(page) = UNION {Range(page[p].rows) : p \in 1 .. end}
        BY DEF RowsRead
    <2> HIDE DEF end
    <2>5. QED
        BY <2>3, <2>4
<1>7. ASSUME NEW x \in Range(rows) PROVE \E p \in 1 .. last : x \in Range(page[p].rows)
    <2>1. PICK i \in 1 .. n : rows[i] = x
        BY DEF Range
    <2> DEFINE k == (i - 1) \div size
    <2>2. i - 1 \in Nat
        OBVIOUS
    <2>3. k \in Nat /\ k * size <= i - 1 /\ i - 1 < k * size + size
        BY <2>2, DivisionBounds
    <2> HIDE DEF k
    <2>4. k * size \in Nat /\ (k + 1) * size = k * size + size /\ last * size \in Nat
        BY <1>3, <2>3
    <2>5. k < last
        <3>1. k * size < last * size
            BY <1>3, <2>1, <2>3, <2>4
        <3>2. QED
            BY <1>3, <2>3, <3>1, ProductsGrow
    <2>6. k + 1 \in 1 .. last /\ (k + 1) - 1 = k
        BY <1>3, <2>3, <2>5
    <2>7. i \in k * size + 1 .. To(k + 1)
        <3>1. CASE k + 1 = last
            BY <1>1, <2>3, <2>4, <3>1 DEF To
        <3>2. CASE k + 1 # last
            BY <2>3, <2>4, <3>2 DEF To
        <3>3. QED
            BY <3>1, <3>2
    <2>8. Range(page[k + 1].rows) = RowsBetween(rows, k * size, To(k + 1))
        BY <1>4, <2>6
    <2>9. QED
        BY <2>1, <2>6, <2>7, <2>8 DEF RowsBetween
<1>8. ASSUME NEW p \in 1 .. last PROVE Range(page[p].rows) \subseteq Range(rows)
    <2>1. \A i \in (p - 1) * size + 1 .. To(p) : i \in 1 .. n
        BY <1>4
    <2>2. RowsBetween(rows, (p - 1) * size, To(p)) \subseteq Range(rows)
        BY <2>1 DEF Range, RowsBetween
    <2>3. QED
        BY <1>4, <2>2
<1>9. UNION {Range(page[p].rows) : p \in 1 .. last} = Range(rows)
    BY <1>7, <1>8
<1>10. QED
    BY <1>2, <1>6, <1>9 DEF page

\* A list with a row for each of a finite set of numbers.
LEMMA ListingIsRead ==
    ASSUME NEW S, IsFiniteSet(S), S \subseteq Nat, NEW row, NEW rows,
           rows = [i \in DOMAIN InOrder(S) |-> row[InOrder(S)[i]]], NEW size \in Nat \ {0}
    PROVE  RowsRead(ListPages(rows, size)) = {row[x] : x \in S}
<1> DEFINE n == Cardinality(S)
           ids == InOrder(S)
<1>1. n \in Nat /\ ids \in [1 .. n -> S] /\ \A x \in S : \E i \in 1 .. n : ids[i] = x
    BY InOrderLists
<1> HIDE DEF n, ids
<1>2. rows = [i \in DOMAIN ids |-> row[ids[i]]]
    BY DEF ids
<1>3. rows \in [1 .. n -> Range(rows)]
    BY <1>1, <1>2 DEF Range
<1>4. Range(rows) = {row[x] : x \in S}
    <2>1. DOMAIN rows = 1 .. n /\ DOMAIN ids = 1 .. n /\ \A i \in 1 .. n : rows[i] = row[ids[i]] /\ ids[i] \in S
        BY <1>1, <1>2
    <2>2. ASSUME NEW y \in Range(rows) PROVE y \in {row[x] : x \in S}
        <3>1. PICK i \in DOMAIN rows : y = rows[i]
            BY DEF Range
        <3>2. QED
            BY <2>1, <3>1
    <2>3. ASSUME NEW x \in S PROVE row[x] \in Range(rows)
        BY <1>1, <2>1 DEF Range
    <2>4. QED
        BY <2>2, <2>3
<1>5. RowsRead(ListPages(rows, size)) = Range(rows)
    BY <1>1, <1>3, PagesAreRead
<1>6. QED
    BY <1>4, <1>5

\* A list with every element of a finite set once.
LEMMA EnumerationIsRead ==
    ASSUME NEW S, IsFiniteSet(S), NEW f \in [1 .. Cardinality(S) -> S], IsInjective(f), NEW size \in Nat \ {0}
    PROVE  RowsRead(ListPages(f, size)) = S
<1>1. Cardinality(S) \in Nat
    BY FS_CardinalityType
<1>2. f \in Surjection(1 .. Cardinality(S), S)
    <2>1. f \in Injection(1 .. Cardinality(S), S)
        BY DEF Injection
    <2>2. Cardinality(1 .. Cardinality(S)) = Cardinality(S)
        BY <1>1, FS_Interval
    <2>3. QED
        BY <2>1, <2>2, FS_Injection
<1>3. Range(f) = S
    BY <1>2 DEF Surjection, Range
<1>4. QED
    BY <1>1, <1>3, PagesAreRead

=============================================================================
