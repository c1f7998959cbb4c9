--------------------------- MODULE OutbreakProofs ---------------------------
(***************************************************************************)
(* Both Outbreak games' rooms, scenarios and Areas, for any players, Areas *)
(* and limits.                                                             *)
(*                                                                         *)
(* A handler works on one record of the plugin's and the clients' state,   *)
(* so the invariant is a predicate of such a record, Sound.  A client in a *)
(* scenario may show members that have left; what it shows too many is     *)
(* held back for it, and nobody comes in meanwhile, as its room is closed. *)
(***************************************************************************)
EXTENDS OutbreakAnswers, RoomsProofs

Work(v) ==
    v \in [places : {v.places}, player : [Sessions -> Players],
           roster : [Sessions -> SUBSET Sessions], ghosts : [Sessions -> SUBSET Sessions]]

\* Room words and room table name the same members.
Agree(w) ==
    /\ Shape(w)
    /\ \A r \in Open(w) : w.rooms[r].members = Listed(w, r)
    /\ \A s \in w.live : w.room[s] # 0 => w.room[s] \in Open(w)

AreaOf(w, p) == IF p \in w.live THEN w.lobby[p] ELSE 0

\* What the client of s has been told.
Told(v, s) ==
    LET r == v.places.room[s] IN
    /\ AreaOf(v.places, s) # 0 => v.player[s].known
    /\ v.player[s].pending # {} => v.player[s].scenario
    /\ r = 0 => v.roster[s] = {} /\ v.ghosts[s] = {}
    /\ r # 0 => /\ v.player[s].known
                /\ v.player[s].scenario => Closed(v.places, r)
                /\ v.roster[s] \ v.player[s].pending = Listed(v.places, r) \ {s}

Sound(v) == Work(v) /\ Agree(v.places) /\ \A s \in Sessions : Told(v, s)

-----------------------------------------------------------------------------
(***************************************************************************)
(* Leaving a room.                                                         *)
(***************************************************************************)

OutOf(v, w, s) ==
    /\ Agree(v) /\ v.live = w.live /\ v.lobby = w.lobby /\ v.next = w.next
    /\ \A t \in Sessions : v.room[t] = IF t = s THEN 0 ELSE w.room[t]
    /\ Open(v) \subseteq Open(w)
    /\ \A q \in Open(v) : Like(v.rooms[q], w.rooms[q])
    /\ \A q \in RoomIds : Listed(v, q) = Listed(w, q) \ {s}

LEMMA OutOfRoomFields ==
    ASSUME NEW w, Agree(w), NEW s \in w.live
    PROVE  OutOf(OutOfRoom(w, s), w, s)
<1> DEFINE r == w.room[s]
           u == SetRoom(w, {s}, 0)
           v == Leave(u, r, {s})
<1>0. /\ Shape(w) /\ s \in Sessions /\ r \in RoomIds \cup {0} /\ w.live \subseteq Sessions
      /\ \A q \in Open(w) : q \in RoomIds /\ q # 0
    BY PlacesAssumption DEF Agree, Shape, RoomIds
<1>1. WordsSet(u, w, {s}, 0)
    BY <1>0, SetRoomFields
<1> HIDE DEF u
<1>2. LeftBy(v, u, r, {s})
    BY <1>1, LeaveFields DEF WordsSet
<1>3. OutOfRoom(w, s) = v
    BY DEF OutOfRoom, u, v, r
<1> HIDE DEF v
<1>4. /\ Shape(v) /\ v.live = w.live /\ v.lobby = w.lobby /\ v.next = w.next
      /\ \A t \in Sessions : v.room[t] = IF t = s THEN 0 ELSE w.room[t]
      /\ Open(v) \subseteq Open(w)
    BY <1>0, <1>1, <1>2 DEF WordsSet, LeftBy
<1>5. \A q \in Open(v) :
          /\ Like(v.rooms[q], w.rooms[q])
          /\ v.rooms[q].members = IF q = r THEN w.rooms[q].members \ {s} ELSE w.rooms[q].members
    BY <1>1, <1>2 DEF WordsSet, LeftBy
<1>6. \A q \in Open(w) : q # r \/ w.rooms[r].members \ {s} # {} => q \in Open(v)
    BY <1>1, <1>2 DEF WordsSet, LeftBy
<1>7. \A q \in RoomIds : Listed(v, q) = Listed(w, q) \ {s}
    <2>1. \A q \in RoomIds : q # 0
        BY DEF RoomIds
    <2>2. QED
        BY <1>0, <1>4, <2>1 DEF Listed
<1>8. \A q \in Open(v) : v.rooms[q].members = Listed(v, q)
    <2> SUFFICES ASSUME NEW q \in Open(v) PROVE v.rooms[q].members = Listed(v, q)
        OBVIOUS
    <2>1. q \in Open(w) /\ q \in RoomIds /\ w.rooms[q].members = Listed(w, q)
        BY <1>0, <1>4 DEF Agree
    <2>2. q # r => s \notin Listed(w, q)
        BY DEF Listed
    <2>3. Listed(v, q) = w.rooms[q].members \ {s}
        BY <1>7, <2>1
    <2>4. q # r => w.rooms[q].members \ {s} = w.rooms[q].members
        BY <2>1, <2>2
    <2>5. QED
        BY <1>5, <2>3, <2>4
<1>9. ASSUME NEW t \in v.live, v.room[t] # 0 PROVE v.room[t] \in Open(v)
    <2>1. t \in w.live /\ t \in Sessions /\ t # s /\ v.room[t] = w.room[t] /\ w.room[t] \in Open(w)
        BY <1>0, <1>4, <1>9 DEF Agree
    <2>2. t \in w.rooms[w.room[t]].members
        BY <2>1 DEF Agree, Listed
    <2>3. QED
        BY <1>6, <2>1, <2>2
<1>10. QED
    BY <1>3, <1>4, <1>5, <1>7, <1>8, <1>9 DEF OutOf, Agree

\* Nobody in a scenario but s is sent a callback between the records v and u.
Hushed(u, v, s) ==
    \A p \in Sessions \ {s} :
        v.player[p].scenario => u.roster[p] \cup u.ghosts[p] = v.roster[p] \cup v.ghosts[p]

\* Session s is in no room and all are told, at once or later.
Left(u, v, s) ==
    /\ Sound(u) /\ OutOf(u.places, v.places, s) /\ Hushed(u, v, s)
    /\ \A p \in Sessions : /\ u.player[p].known = v.player[p].known
                           /\ u.player[p].scenario = v.player[p].scenario

\* The clients that are in a room show only each other.
LEMMA ListedByPeers ==
    ASSUME NEW v, Sound(v), NEW p \in Sessions, NEW s \in Sessions
    PROVE  p \in Peers(v, s) <=> /\ p # s /\ v.places.room[s] # 0 /\ p \in v.places.live
                                 /\ v.places.room[p] = v.places.room[s]
    BY DEF Peers, Listed

\* What a leave does to one client's view.
ToldOfLeave(u, v, s, p) ==
    IF p = s THEN u.roster[p] = {} /\ u.ghosts[p] = {} /\ u.player[p].pending \in {{}, v.player[p].pending}
    ELSE IF p \in Peers(v, s)
    THEN IF v.player[p].scenario
         THEN /\ u.roster[p] = v.roster[p] /\ u.ghosts[p] = v.ghosts[p]
              /\ u.player[p].pending = v.player[p].pending \cup {s}
         ELSE /\ u.roster[p] = v.roster[p] \ {s} /\ u.ghosts[p] = v.ghosts[p] \ {s}
              /\ u.player[p].pending = v.player[p].pending
    ELSE u.roster[p] = v.roster[p] /\ u.ghosts[p] = v.ghosts[p] /\ u.player[p].pending = v.player[p].pending

LEMMA LeftRoomFields ==
    ASSUME NEW v, Sound(v), NEW s \in v.places.live
    PROVE  LET u == Cleared(LeftRoom(v, s), s) IN
           /\ Work(u) /\ u.places = OutOfRoom(v.places, s)
           /\ \A p \in Sessions : /\ u.player[p].known = v.player[p].known
                                  /\ u.player[p].scenario = v.player[p].scenario
                                  /\ ToldOfLeave(u, v, s, p)
<1> DEFINE told == {p \in Peers(v, s) : Reachable(v, p)}
           held == {p \in Peers(v, s) : v.player[p].scenario}
           later == [p \in Sessions |-> IF p \in held THEN [v.player[p] EXCEPT !.pending = @ \cup {s}]
                                   ELSE IF p = s /\ game = "outbreak_beta" /\ v.places.room[s] # 0
                                        THEN [v.player[p] EXCEPT !.pending = {}] ELSE v.player[p]]
           lists == [Without(v.roster, told, s) EXCEPT ![s] = {}]
           silent == [Without(v.ghosts, told, s) EXCEPT ![s] = {}]
           u == Cleared(LeftRoom(v, s), s)
<1>0. /\ Work(v) /\ s \in Sessions /\ v.player \in [Sessions -> Players]
      /\ v.roster \in [Sessions -> SUBSET Sessions] /\ v.ghosts \in [Sessions -> SUBSET Sessions]
    BY DEF Sound, Work, Agree, Shape
<1>1. u = [v EXCEPT !.places = OutOfRoom(v.places, s), !.player = later, !.roster = lists, !.ghosts = silent]
    BY <1>0 DEF LeftRoom, Cleared, Drop, Work
<1> HIDE DEF u
<1>2. /\ later \in [Sessions -> Players]
      /\ \A p \in Sessions :
             /\ later[p].known = v.player[p].known /\ later[p].scenario = v.player[p].scenario
             /\ p \in held => later[p].pending = v.player[p].pending \cup {s}
             /\ p \notin held /\ p # s => later[p].pending = v.player[p].pending
             /\ p \notin held => later[p].pending \in {{}, v.player[p].pending}
    BY <1>0 DEF Players
<1>3. /\ lists \in [Sessions -> SUBSET Sessions] /\ silent \in [Sessions -> SUBSET Sessions]
      /\ lists[s] = {} /\ silent[s] = {}
      /\ \A p \in Sessions \ {s} :
             /\ lists[p] = IF p \in told THEN v.roster[p] \ {s} ELSE v.roster[p]
             /\ silent[p] = IF p \in told THEN v.ghosts[p] \ {s} ELSE v.ghosts[p]
    BY <1>0 DEF Without
<1>4. \A p \in Sessions :
          /\ p \in told <=> p \in Peers(v, s) /\ v.player[p].known /\ ~v.player[p].scenario
          /\ p \in held <=> p \in Peers(v, s) /\ v.player[p].scenario
          /\ p \in Peers(v, s) => p # s /\ v.player[p].known
    BY <1>0, ListedByPeers DEF Reachable, Sound, Told
<1> HIDE DEF later, lists, silent, told, held
<1>5. /\ Work(u) /\ u.places = OutOfRoom(v.places, s) /\ u.player = later /\ u.roster = lists /\ u.ghosts = silent
    BY <1>0, <1>1, <1>2, <1>3 DEF Work
<1>6. ASSUME NEW p \in Sessions PROVE ToldOfLeave(u, v, s, p)
    <2>1. CASE p = s
        BY <1>2, <1>3, <1>4, <1>5, <2>1 DEF ToldOfLeave
    <2>2. CASE p # s /\ p \in Peers(v, s) /\ v.player[p].scenario
        BY <1>2, <1>3, <1>4, <1>5, <2>2 DEF ToldOfLeave
    <2>3. CASE p # s /\ p \in Peers(v, s) /\ ~v.player[p].scenario
        BY <1>2, <1>3, <1>4, <1>5, <2>3 DEF ToldOfLeave
    <2>4. CASE p # s /\ p \notin Peers(v, s)
        BY <1>2, <1>3, <1>4, <1>5, <2>4 DEF ToldOfLeave
    <2>5. QED
        BY <2>1, <2>2, <2>3, <2>4
<1>7. QED
    BY <1>2, <1>5, <1>6 DEF u

\* Of the rooms that stay, the ones closed are the same.
LEMMA OutOfKeepsClosed ==
    ASSUME NEW v, NEW w, NEW s, OutOf(v, w, s), NEW q \in Open(v)
    PROVE  Closed(v, q) <=> Closed(w, q)
    BY DEF OutOf, Like, Closed

LEMMA LeftRoomSound ==
    ASSUME NEW v, Sound(v), NEW s \in v.places.live
    PROVE  Left(Cleared(LeftRoom(v, s), s), v, s)
<1> DEFINE u == Cleared(LeftRoom(v, s), s)
           w == v.places
<1>1. /\ Work(u) /\ u.places = OutOfRoom(w, s)
      /\ \A p \in Sessions : /\ u.player[p].known = v.player[p].known
                             /\ u.player[p].scenario = v.player[p].scenario
                             /\ ToldOfLeave(u, v, s, p)
    BY LeftRoomFields
<1> HIDE DEF u
<1>2. OutOf(u.places, w, s) /\ s \in Sessions
    BY <1>1, OutOfRoomFields DEF Sound, Agree, Shape
<1>3. ASSUME NEW p \in Sessions PROVE Told(u, p)
    <2> DEFINE r == w.room[p]
    <2>0. /\ Told(v, p) /\ ToldOfLeave(u, v, s, p) /\ r \in RoomIds \cup {0}
          /\ u.places.room[p] = IF p = s THEN 0 ELSE r
          /\ p \notin w.live => r = 0
          /\ AreaOf(u.places, p) = AreaOf(w, p) /\ u.player[p].known = v.player[p].known
        BY <1>1, <1>2 DEF Sound, OutOf, Agree, Shape, AreaOf
    <2>1. CASE p = s
        BY <1>1, <2>0, <2>1 DEF Told, ToldOfLeave
    <2>2. CASE p # s /\ r = 0
        <3>1. p \notin Peers(v, s)
            BY <1>2, <2>2, ListedByPeers
        <3>2. QED
            BY <1>1, <2>0, <2>2, <3>1 DEF Told, ToldOfLeave
    <2>3. CASE p # s /\ r # 0
        <3>1. /\ r \in Open(u.places) /\ Listed(u.places, r) = Listed(w, r) \ {s}
              /\ u.places.room[p] = r
            BY <1>2, <2>0, <2>3 DEF OutOf, Agree
        <3>2. Closed(u.places, r) <=> Closed(w, r)
            BY <1>2, <3>1, OutOfKeepsClosed
        <3>3. v.roster[p] \ v.player[p].pending = Listed(w, r) \ {p}
            BY <2>0, <2>3 DEF Told
        <3>4. u.roster[p] \ u.player[p].pending = (Listed(w, r) \ {p}) \ {s}
            <4>1. CASE p \in Peers(v, s)
                BY <2>0, <2>3, <3>3, <4>1 DEF ToldOfLeave
            <4>2. CASE p \notin Peers(v, s)
                <5>1. s \notin Listed(w, r)
                    BY <1>2, <2>0, <2>3, <4>2, ListedByPeers DEF Listed
                <5>2. QED
                    BY <2>0, <2>3, <3>3, <4>2, <5>1 DEF ToldOfLeave
            <4>3. QED
                BY <4>1, <4>2
        <3>5. u.player[p].pending # {} => u.player[p].scenario
            <4>1. CASE p \in Peers(v, s)
                BY <1>1, <2>0, <2>3, <4>1 DEF Told, ToldOfLeave
            <4>2. CASE p \notin Peers(v, s)
                BY <1>1, <2>0, <2>3, <4>2 DEF Told, ToldOfLeave
            <4>3. QED
                BY <4>1, <4>2
        <3>6. QED
            BY <1>1, <2>0, <2>3, <3>1, <3>2, <3>4, <3>5 DEF Told
    <2>4. QED
        BY <2>1, <2>2, <2>3
<1>4. Hushed(u, v, s)
    <2> SUFFICES ASSUME NEW p \in Sessions, p # s, v.player[p].scenario
                 PROVE  u.roster[p] \cup u.ghosts[p] = v.roster[p] \cup v.ghosts[p]
        BY DEF Hushed
    <2>1. QED
        BY <1>1 DEF ToldOfLeave
<1>5. QED
    BY <1>1, <1>2, <1>3, <1>4 DEF Left, Sound, OutOf, u

\* The same without a word: who showed s has a ghost.
LEMMA LeftSilentlySound ==
    ASSUME NEW v, Sound(v), NEW s \in v.places.live
    PROVE  Left(Cleared(LeftSilently(v, s), s), v, s)
<1> DEFINE viewers == {p \in Peers(v, s) : s \in v.roster[p]}
           lists == [Without(v.roster, viewers, s) EXCEPT ![s] = {}]
           silent == [With(v.ghosts, viewers, s) EXCEPT ![s] = {}]
           u == Cleared(LeftSilently(v, s), s)
           w == v.places
<1>0. /\ Work(v) /\ s \in Sessions /\ v.player \in [Sessions -> Players]
      /\ v.roster \in [Sessions -> SUBSET Sessions] /\ v.ghosts \in [Sessions -> SUBSET Sessions]
    BY DEF Sound, Work, Agree, Shape
<1>1. u = [v EXCEPT !.places = OutOfRoom(w, s), !.roster = lists, !.ghosts = silent]
    BY <1>0 DEF LeftSilently, Cleared, Work
<1> HIDE DEF u
<1>2. /\ lists \in [Sessions -> SUBSET Sessions] /\ silent \in [Sessions -> SUBSET Sessions]
      /\ lists[s] = {} /\ silent[s] = {}
      /\ \A p \in Sessions \ {s} :
             /\ lists[p] = IF p \in viewers THEN v.roster[p] \ {s} ELSE v.roster[p]
             /\ silent[p] = IF p \in viewers THEN v.ghosts[p] \cup {s} ELSE v.ghosts[p]
    BY <1>0 DEF Without, With
<1>3. \A p \in Sessions \ {s} : p \in viewers <=> p \in Peers(v, s) /\ s \in v.roster[p]
    OBVIOUS
<1> HIDE DEF lists, silent, viewers
<1>4. /\ Work(u) /\ u.places = OutOfRoom(w, s) /\ u.player = v.player
      /\ u.roster = lists /\ u.ghosts = silent
    BY <1>0, <1>1, <1>2 DEF Work
<1>5. OutOf(u.places, w, s)
    BY <1>4, OutOfRoomFields DEF Sound
<1>6. ASSUME NEW p \in Sessions PROVE Told(u, p)
    <2> DEFINE r == w.room[p]
    <2>0. /\ Told(v, p) /\ r \in RoomIds \cup {0} /\ (p \notin w.live => r = 0)
          /\ u.places.room[p] = IF p = s THEN 0 ELSE r
          /\ AreaOf(u.places, p) = AreaOf(w, p) /\ u.player[p].known = v.player[p].known
        BY <1>0, <1>4, <1>5 DEF Sound, OutOf, Agree, Shape, AreaOf
    <2>1. CASE p = s
        BY <1>2, <1>4, <2>0, <2>1 DEF Told
    <2>2. CASE p # s /\ r = 0
        <3>1. p \notin Peers(v, s)
            BY <1>0, <2>2, ListedByPeers
        <3>2. QED
            BY <1>2, <1>3, <1>4, <2>0, <2>2, <3>1 DEF Told
    <2>3. CASE p # s /\ r # 0
        <3>1. /\ r \in Open(u.places) /\ Listed(u.places, r) = Listed(w, r) \ {s}
              /\ u.places.room[p] = r
            BY <1>5, <2>0, <2>3 DEF OutOf, Agree
        <3>2. Closed(u.places, r) <=> Closed(w, r)
            BY <1>5, <3>1, OutOfKeepsClosed
        <3>3. v.roster[p] \ v.player[p].pending = Listed(w, r) \ {p}
            BY <2>0, <2>3 DEF Told
        <3>4. s \in Listed(w, r) => p \in viewers
            <4>1. s \in Listed(w, r) => p \in Peers(v, s) /\ s \in v.roster[p]
                BY <1>0, <2>0, <2>3, <3>3, ListedByPeers DEF Listed
            <4>2. QED
                BY <1>3, <2>3, <4>1
        <3>5. u.roster[p] \ u.player[p].pending = (Listed(w, r) \ {p}) \ {s}
            <4>1. CASE p \in viewers
                BY <1>2, <1>4, <2>3, <3>3, <4>1
            <4>2. CASE p \notin viewers
                BY <1>2, <1>4, <2>3, <3>3, <3>4, <4>2
            <4>3. QED
                BY <4>1, <4>2
        <3>6. QED
            BY <1>4, <2>0, <2>3, <3>1, <3>2, <3>5 DEF Told
    <2>4. QED
        BY <2>1, <2>2, <2>3
<1>7. Hushed(u, v, s)
    <2> SUFFICES ASSUME NEW p \in Sessions, p # s
                 PROVE  u.roster[p] \cup u.ghosts[p] = v.roster[p] \cup v.ghosts[p]
        BY DEF Hushed
    <2>1. CASE p \in viewers
        BY <1>2, <1>3, <1>4, <2>1
    <2>2. CASE p \notin viewers
        BY <1>2, <1>4, <2>2
    <2>3. QED
        BY <2>1, <2>2
<1>8. QED
    BY <1>4, <1>5, <1>6, <1>7 DEF Left, Sound, OutOf, u

-----------------------------------------------------------------------------
(***************************************************************************)
(* What a handler does to the records, and where it leaves the sessions.   *)
(***************************************************************************)

\* Session s acts, and is in Area l afterwards.
Handled(e, v, s, l) ==
    /\ Sound(e) /\ Hushed(e, v, s)
    /\ v.player[s].scenario /\ e.player[s].scenario => e.places.room[s] = 0
    /\ \A p \in Sessions \ {s} :
           /\ e.player[p].known = v.player[p].known /\ e.player[p].scenario = v.player[p].scenario
           /\ p \in e.places.live <=> p \in v.places.live
    /\ \A p \in Sessions : AreaOf(e.places, p) = IF p = s THEN l ELSE AreaOf(v.places, p)

\* The one that acts stays a player in the lobby or in the scenario.
Steady(e, v, s) ==
    /\ s \in v.places.live /\ s \in e.places.live
    /\ e.player[s].known = v.player[s].known /\ e.player[s].scenario = v.player[s].scenario

\* A session outside rooms moves: no room changes.
Alike(v, w) ==
    /\ Agree(v) /\ Open(v) = Open(w) /\ v.rooms = w.rooms
    /\ \A t \in Sessions : v.room[t] = w.room[t]
    /\ \A q \in RoomIds : Listed(v, q) = Listed(w, q)

LEMMA WordsMovedAlike ==
    ASSUME NEW w, Agree(w), NEW s \in Sessions, w.room[s] = 0, NEW v, WordsMoved(v, w),
           \A t \in Sessions : v.room[t] = w.room[t],
           \A t \in Sessions \ {s} : t \in v.live <=> t \in w.live
    PROVE  Alike(v, w)
<1>1. /\ Shape(v) /\ v.rooms = w.rooms /\ Open(v) = Open(w)
      /\ v.live \subseteq Sessions /\ w.live \subseteq Sessions
      /\ \A q \in Open(w) : q \in RoomIds
    BY DEF WordsMoved, Agree, Shape
<1>2. \A q \in RoomIds : Listed(v, q) = Listed(w, q)
    <2>1. \A q \in RoomIds : q # 0
        BY DEF RoomIds
    <2>2. QED
        BY <1>1, <2>1 DEF Listed
<1>3. Agree(v)
    BY <1>1, <1>2 DEF Agree
<1>4. QED
    BY <1>1, <1>2, <1>3 DEF Alike

\* The three ways to move a session that is in no room.
Moves(v, w, s, l) ==
    /\ Alike(v, w)
    /\ \A p \in Sessions \ {s} : p \in v.live <=> p \in w.live
    /\ \A p \in Sessions : AreaOf(v, p) = IF p = s THEN l ELSE AreaOf(w, p)

LEMMA RemoveMoves ==
    ASSUME NEW w, Agree(w), NEW s \in Sessions, w.room[s] = 0
    PROVE  Moves(Remove(w, s), w, s, 0)
<1> DEFINE v == Remove(w, s)
<1>1. /\ WordsMoved(v, w) /\ v.live = w.live \ {s}
      /\ \A t \in Sessions : /\ v.room[t] = IF t = s THEN 0 ELSE w.room[t]
                             /\ v.lobby[t] = IF t = s THEN 0 ELSE w.lobby[t]
    BY RemoveFields DEF Agree
<1> HIDE DEF v
<1>2. Alike(v, w)
    BY <1>1, WordsMovedAlike
<1>3. QED
    BY <1>1, <1>2 DEF Moves, AreaOf, v

LEMMA SetLobbyMoves ==
    ASSUME NEW w, Agree(w), NEW s \in w.live, w.room[s] = 0, NEW l \in Lobbies \cup {0}
    PROVE  Moves(SetLobby(w, s, l), w, s, l) /\ SetLobby(w, s, l).live = w.live
<1> DEFINE v == SetLobby(w, s, l)
<1>1. /\ WordsMoved(v, w) /\ v.live = w.live /\ v.room = w.room /\ s \in Sessions
      /\ \A t \in Sessions : v.lobby[t] = IF t = s THEN l ELSE w.lobby[t]
    BY SetLobbyFields DEF Agree, Shape
<1> HIDE DEF v
<1>2. Alike(v, w)
    BY <1>1, WordsMovedAlike
<1>3. QED
    BY <1>1, <1>2 DEF Moves, AreaOf, v

LEMMA AdoptMoves ==
    ASSUME NEW w, Agree(w), NEW s \in Sessions, w.room[s] = 0
    PROVE  Moves(Adopt(w, s, {}), w, s, 0) /\ s \in Adopt(w, s, {}).live
<1> DEFINE v == Adopt(w, s, {})
<1>1. /\ WordsMoved(v, w) /\ v.live = (w.live \ {}) \cup {s}
      /\ \A t \in Sessions : /\ v.room[t] = IF t \in {} \cup {s} THEN 0 ELSE w.room[t]
                             /\ v.lobby[t] = IF t \in {} \cup {s} THEN 0 ELSE w.lobby[t]
    BY AdoptFields DEF Agree
<1> HIDE DEF v
<1>2. Alike(v, w)
    BY <1>1, WordsMovedAlike
<1>3. QED
    BY <1>1, <1>2 DEF Moves, AreaOf, v

\* Only the places and the player of s changed.
OnlyMoved(e, u, s) ==
    /\ Work(e) /\ e.roster = u.roster /\ e.ghosts = u.ghosts
    /\ e.player[s].pending # {} => e.player[s].scenario
    /\ \A p \in Sessions \ {s} : e.player[p] = u.player[p]

\* A session that has left its room goes somewhere.
LEMMA MovedHandled ==
    ASSUME NEW v, NEW u, NEW e, NEW s \in Sessions, NEW l, Left(u, v, s), OnlyMoved(e, u, s),
           Moves(e.places, u.places, s, l), l # 0 => e.player[s].known
    PROVE  Handled(e, v, s, l)
<1>1. /\ Sound(u) /\ u.places.room[s] = 0 /\ Alike(e.places, u.places)
    BY DEF Left, OutOf, Moves
<1>2. ASSUME NEW p \in Sessions PROVE Told(e, p)
    <2>1. /\ Told(u, p) /\ e.places.room[p] = u.places.room[p] /\ u.places.room[p] \in RoomIds \cup {0}
          /\ e.roster[p] = u.roster[p] /\ e.ghosts[p] = u.ghosts[p]
          /\ AreaOf(e.places, p) = IF p = s THEN l ELSE AreaOf(u.places, p)
        BY <1>1 DEF Sound, Alike, OnlyMoved, Agree, Shape, Moves
    <2>2. CASE p = s
        BY <1>1, <2>1, <2>2 DEF Told, OnlyMoved
    <2>3. CASE p # s
        <3>1. e.player[p] = u.player[p]
            BY <2>3 DEF OnlyMoved
        <3>2. \A r \in RoomIds : /\ Closed(e.places, r) <=> Closed(u.places, r)
                                 /\ Listed(e.places, r) = Listed(u.places, r)
            BY <1>1 DEF Closed, Alike
        <3>3. QED
            BY <2>1, <3>1, <3>2 DEF Told
    <2>4. QED
        BY <2>2, <2>3
<1>3. Sound(e)
    BY <1>1, <1>2 DEF Sound, Alike, OnlyMoved
<1>4. Hushed(e, v, s)
    BY DEF Hushed, Left, OnlyMoved
<1>5. e.places.room[s] = 0
    BY <1>1 DEF Alike
<1>6. \A p \in Sessions : AreaOf(u.places, p) = AreaOf(v.places, p)
    BY DEF Left, OutOf, AreaOf
<1>7. \A p \in Sessions \ {s} :
           /\ e.player[p].known = v.player[p].known /\ e.player[p].scenario = v.player[p].scenario
           /\ p \in e.places.live <=> p \in v.places.live
    BY DEF Left, OutOf, Moves, OnlyMoved
<1>8. QED
    BY <1>3, <1>4, <1>5, <1>6, <1>7 DEF Handled, Moves

LEMMA LeftHandled ==
    ASSUME NEW v, NEW u, NEW s \in v.places.live, Sound(v), Left(u, v, s)
    PROVE  Handled(u, v, s, AreaOf(v.places, s)) /\ Steady(u, v, s)
<1>1. s \in Sessions
    BY DEF Sound, Agree, Shape
<1>2. QED
    BY <1>1 DEF Left, OutOf, Handled, Steady, AreaOf

LEMMA PlacesOnly ==
    ASSUME NEW u, Sound(u), NEW s \in Sessions, NEW w
    PROVE  LET e == [u EXCEPT !.places = w] IN
           OnlyMoved(e, u, s) /\ e.places = w /\ e.player = u.player
<1> DEFINE e == [u EXCEPT !.places = w]
<1>1. /\ Work(e) /\ e.places = w /\ e.player = u.player /\ e.roster = u.roster /\ e.ghosts = u.ghosts
    BY DEF Sound, Work
<1> HIDE DEF e
<1>2. QED
    BY <1>1 DEF OnlyMoved, Sound, Told, e

\* The player is replaced by one for whom nothing is held back.
Replaced(u, s, w, a) == [u EXCEPT !.places = w, !.player[s] = a]

LEMMA PlayerReplaced ==
    ASSUME NEW u, Sound(u), NEW s \in Sessions, NEW w, NEW a \in Players, a.pending = {}
    PROVE  /\ OnlyMoved(Replaced(u, s, w, a), u, s)
           /\ Replaced(u, s, w, a).places = w /\ Replaced(u, s, w, a).player[s] = a
<1> DEFINE e == Replaced(u, s, w, a)
<1>1. u.player \in [Sessions -> Players]
    BY DEF Sound, Work
<1>2. /\ Work(e) /\ e.places = w /\ e.player = [u.player EXCEPT ![s] = a]
      /\ e.roster = u.roster /\ e.ghosts = u.ghosts
    BY <1>1 DEF Sound, Work, Replaced
<1> HIDE DEF e
<1>3. e.player[s] = a /\ \A p \in Sessions \ {s} : e.player[p] = u.player[p]
    BY <1>1, <1>2
<1>4. QED
    BY <1>2, <1>3 DEF OnlyMoved, e

-----------------------------------------------------------------------------
(***************************************************************************)
(* The handlers, both games'.                                              *)
(***************************************************************************)

LEMMA AbsentPlayer ==
    /\ Absent \in Players /\ Absent.pending = {}
    /\ ~Absent.scenario /\ ~Absent.known
    /\ [Absent EXCEPT !.known = TRUE] \in Players
    /\ [Absent EXCEPT !.known = TRUE].pending = {} /\ [Absent EXCEPT !.known = TRUE].known
    BY DEF Absent, Players

\* The end of a session, in either game's words.
LEMMA EndedHandled ==
    ASSUME NEW v, Sound(v), NEW s \in v.places.live
    PROVE  /\ Handled(Ended(LeftRoom(v, s), s), v, s, 0)
           /\ [Ended2(LeftRoom2(v, s), s) EXCEPT !.places = Remove(@, s)] = Ended(LeftRoom(v, s), s)
<1> DEFINE u == Cleared(LeftRoom(v, s), s)
           e == Replaced(u, s, Remove(u.places, s), Absent)
<1>1. Left(u, v, s) /\ Sound(u) /\ s \in Sessions
    BY LeftRoomSound DEF Left, Sound, Agree, Shape
<1>2. Ended(LeftRoom(v, s), s) = e
    BY DEF Ended, Replaced
<1>3. [Ended2(LeftRoom2(v, s), s) EXCEPT !.places = Remove(@, s)] = e
    BY DEF Ended2, LeftRoom2, Replaced
<1> HIDE DEF u
<1>4. OnlyMoved(e, u, s) /\ e.places = Remove(u.places, s)
    BY <1>1, AbsentPlayer, PlayerReplaced
<1> HIDE DEF e
<1>5. Moves(e.places, u.places, s, 0)
    BY <1>1, <1>4, RemoveMoves DEF Left, OutOf
<1>6. Handled(e, v, s, 0)
    BY <1>1, <1>4, <1>5, MovedHandled
<1>7. QED
    BY <1>2, <1>3, <1>6

LEMMA LogoutHandled ==
    ASSUME NEW v, Sound(v), NEW s \in v.places.live
    PROVE  LET e == [Cleared(LeftRoom(v, s), s) EXCEPT !.player[s] = Absent, !.places = SetLobby(@, s, 0)] IN
           /\ Handled(e, v, s, 0)
           /\ [Ended2(LeftRoom2(v, s), s) EXCEPT !.places = SetLobby(@, s, 0)] = e
<1> DEFINE u == Cleared(LeftRoom(v, s), s)
           e == Replaced(u, s, SetLobby(u.places, s, 0), Absent)
<1>1. Left(u, v, s) /\ Sound(u) /\ s \in Sessions
    BY LeftRoomSound DEF Left, Sound, Agree, Shape
<1>2. [u EXCEPT !.player[s] = Absent, !.places = SetLobby(@, s, 0)] = e
    BY DEF Replaced
<1>3. [Ended2(LeftRoom2(v, s), s) EXCEPT !.places = SetLobby(@, s, 0)] = e
    BY DEF Ended2, LeftRoom2, Replaced
<1> HIDE DEF u
<1>4. OnlyMoved(e, u, s) /\ e.places = SetLobby(u.places, s, 0)
    BY <1>1, AbsentPlayer, PlayerReplaced
<1> HIDE DEF e
<1>5. Moves(e.places, u.places, s, 0)
    BY <1>1, <1>4, SetLobbyMoves DEF Left, OutOf
<1>6. Handled(e, v, s, 0)
    BY <1>1, <1>4, <1>5, MovedHandled
<1>7. QED
    BY <1>2, <1>3, <1>6 DEF u

\* Going to an Area, or to none.
LEMMA AreaHandled ==
    ASSUME NEW v, Sound(v), NEW s \in v.places.live, NEW l \in Lobbies \cup {0}, v.player[s].known \/ l = 0
    PROVE  LET e == [Cleared(LeftRoom(v, s), s) EXCEPT !.places = SetLobby(@, s, l)] IN
           Handled(e, v, s, l) /\ Steady(e, v, s)
<1> DEFINE u == Cleared(LeftRoom(v, s), s)
           e == [u EXCEPT !.places = SetLobby(u.places, s, l)]
<1>1. Left(u, v, s) /\ s \in Sessions
    BY LeftRoomSound DEF Sound, Agree, Shape
<1>2. [u EXCEPT !.places = SetLobby(@, s, l)] = e
    OBVIOUS
<1> HIDE DEF u
<1>3. Sound(u) /\ s \in u.places.live
    BY <1>1 DEF Left, OutOf
<1>4. OnlyMoved(e, u, s) /\ e.places = SetLobby(u.places, s, l) /\ e.player = u.player
    BY <1>1, <1>3, PlacesOnly
<1> HIDE DEF e
<1>5. Moves(e.places, u.places, s, l) /\ e.places.live = u.places.live
    BY <1>1, <1>3, <1>4, SetLobbyMoves DEF Left, OutOf
<1>6. Steady(e, v, s)
    BY <1>1, <1>3, <1>4, <1>5 DEF Steady, Left
<1>7. Handled(e, v, s, l)
    BY <1>1, <1>4, <1>5, <1>6, MovedHandled DEF Steady
<1>8. QED
    BY <1>2, <1>6, <1>7 DEF u

\* A KICS login: the player is made anew, and the Area of one that is known
\* stays until the console chooses.
LEMMA LoggedInHandled ==
    ASSUME NEW s \in Sessions, NEW new \in BOOLEAN, Sound(Now), new \/ s \in places.live
    PROVE  \E l \in {0, AreaOf(places, s)} : Handled(LoggedIn(s, new), Now, s, l)
<1> DEFINE v == Now
           silent == IF s \in places.live THEN LeftSilently(v, s) ELSE v
           u == Cleared(silent, s)
           reset == ResetForRelogin(silent.places, s)
           w == IF new THEN Adopt(reset, s, {}) ELSE reset
           a == [Absent EXCEPT !.known = TRUE]
           e == Replaced(u, s, w, a)
<1>1. LoggedIn(s, new) = e
    BY DEF LoggedIn, Replaced
<1>2. v.places = places
    BY DEF Now
<1> HIDE DEF v
<1>3. Left(u, v, s)
    <2>1. CASE s \in places.live
        BY <1>2, <2>1, LeftSilentlySound DEF v
    <2>2. CASE s \notin places.live
        <3>1. u = [v EXCEPT !.roster[s] = {}, !.ghosts[s] = {}]
            BY <2>2 DEF Cleared
        <3>2. places.room[s] = 0 /\ v.roster[s] = {} /\ v.ghosts[s] = {}
            BY <1>2, <2>2 DEF v, Sound, Told, Agree, Shape
        <3>3. u = v
            <4>1. [roster EXCEPT ![s] = {}] = roster /\ [ghosts EXCEPT ![s] = {}] = ghosts
                BY <3>2 DEF v, Now, Sound, Work
            <4>2. QED
                BY <3>1, <4>1 DEF v, Now
        <3>4. /\ \A q \in Open(places) : Like(places.rooms[q], places.rooms[q])
              /\ \A q \in RoomIds : Listed(places, q) = Listed(places, q) \ {s}
              /\ Agree(places)
            BY <1>2, <2>2 DEF Like, Listed, v, Sound
        <3>5. OutOf(u.places, v.places, s)
            BY <1>2, <3>2, <3>3, <3>4 DEF OutOf
        <3>6. QED
            BY <3>3, <3>5 DEF Left, Hushed, v
    <2>3. QED
        BY <2>1, <2>2
<1>4. u.places = silent.places
    <2>1. silent.places = u.places
        BY DEF Cleared, Left, Sound, Work
    <2>2. QED
        BY <2>1
<1> HIDE DEF u, silent
<1>5. /\ Sound(u) /\ Agree(u.places) /\ u.places.room[s] = 0
      /\ \A p \in Sessions : AreaOf(u.places, p) = AreaOf(places, p)
    BY <1>2, <1>3 DEF Left, OutOf, Sound, AreaOf
<1>6. reset = u.places
    BY <1>4, <1>5 DEF ResetForRelogin
<1> HIDE DEF reset
<1>7. OnlyMoved(e, u, s) /\ e.places = w /\ e.player[s].known
    <2>1. a \in Players /\ a.pending = {} /\ a.known
        BY AbsentPlayer
    <2> HIDE DEF a, w
    <2>2. QED
        BY <1>5, <2>1, PlayerReplaced
<1>8. CASE new
    <2>1. w = Adopt(u.places, s, {})
        BY <1>6, <1>8
    <2> HIDE DEF w, e
    <2>2. Moves(e.places, u.places, s, 0)
        BY <1>5, <1>7, <2>1, AdoptMoves
    <2>3. Handled(e, v, s, 0)
        BY <1>3, <1>7, <2>2, MovedHandled
    <2>4. QED
        BY <1>1, <2>3 DEF v
<1>9. CASE ~new
    <2>1. w = u.places
        BY <1>6, <1>9
    <2> HIDE DEF w, e
    <2>2. Moves(e.places, u.places, s, AreaOf(places, s))
        BY <1>5, <1>7, <2>1 DEF Moves, Alike
    <2>3. Handled(e, v, s, AreaOf(places, s))
        BY <1>3, <1>7, <2>2, MovedHandled
    <2>4. QED
        BY <1>1, <2>3 DEF v
<1>10. QED
    BY <1>8, <1>9

-----------------------------------------------------------------------------
(***************************************************************************)
(* Coming into a room.                                                     *)
(***************************************************************************)

\* Session s takes a seat in the waiting room r, which may be new.
Seated(v, w, r, s) ==
    /\ Agree(v) /\ v.live = w.live /\ v.lobby = w.lobby /\ r \in RoomIds
    /\ \A t \in Sessions : v.room[t] = IF t = s THEN r ELSE w.room[t]
    /\ \A q \in Open(w) : Closed(v, q) <=> Closed(w, q)
    /\ Listed(v, r) = Listed(w, r) \cup {s} /\ ~Closed(v, r)
    /\ \A q \in RoomIds \ {r} : Listed(v, q) = Listed(w, q)

LEMMA SeatedLists ==
    ASSUME NEW v, NEW w, NEW r \in RoomIds, NEW s \in w.live, w.live \subseteq Sessions, v.live = w.live,
           w.room[s] = 0, \A t \in Sessions : v.room[t] = IF t = s THEN r ELSE w.room[t]
    PROVE  /\ Listed(v, r) = Listed(w, r) \cup {s}
           /\ \A q \in RoomIds \ {r} : Listed(v, q) = Listed(w, q)
<1>1. \A q \in RoomIds : q # 0
    BY DEF RoomIds
<1>2. QED
    BY <1>1 DEF Listed

LEMMA JoinSeats ==
    ASSUME NEW w, Agree(w), NEW r, NEW s \in w.live, w.room[s] = 0, HasSeat(w, r, s), ~Closed(w, r)
    PROVE  Seated(SetRoom(Join(w, r, s), {s}, r), w, r, s) /\ r \in Open(w)
<1> DEFINE v == SetRoom(Join(w, r, s), {s}, r)
<1>1. /\ JoinedBy(v, w, r, s) /\ Shape(w) /\ r \in Open(w)
    BY JoinFields DEF Agree, HasSeat
<1> HIDE DEF v
<1>2. /\ r \in RoomIds /\ w.live \subseteq Sessions /\ v.live = w.live /\ Open(v) = Open(w)
      /\ \A q \in Open(w) : q \in RoomIds
      /\ \A t \in Sessions : v.room[t] = IF t = s THEN r ELSE w.room[t]
    BY <1>1 DEF JoinedBy, Shape
<1>3. /\ Listed(v, r) = Listed(w, r) \cup {s}
      /\ \A q \in RoomIds \ {r} : Listed(v, q) = Listed(w, q)
    BY <1>2, SeatedLists
<1>4. \A q \in Open(v) : v.rooms[q].members = Listed(v, q)
    <2> SUFFICES ASSUME NEW q \in Open(v) PROVE v.rooms[q].members = Listed(v, q)
        OBVIOUS
    <2>1. w.rooms[q].members = Listed(w, q) /\ q \in RoomIds
        BY <1>2 DEF Agree
    <2>2. v.rooms[q].members = IF q = r THEN w.rooms[q].members \cup {s} ELSE w.rooms[q].members
        BY <1>1, <1>2 DEF JoinedBy
    <2>3. CASE q = r
        BY <1>3, <2>1, <2>2, <2>3
    <2>4. CASE q # r
        BY <1>3, <2>1, <2>2, <2>4
    <2>5. QED
        BY <2>3, <2>4
<1>5. \A t \in v.live : v.room[t] # 0 => v.room[t] \in Open(v)
    BY <1>1, <1>2 DEF Agree
<1>6. Agree(v)
    BY <1>1, <1>4, <1>5 DEF Agree, JoinedBy
<1>7. \A q \in Open(w) : Closed(v, q) <=> Closed(w, q)
    BY <1>1 DEF JoinedBy, Like, Closed
<1>8. QED
    BY <1>1, <1>2, <1>3, <1>6, <1>7 DEF Seated, JoinedBy, v

LEMMA CreateSeats ==
    ASSUME NEW w, Agree(w), NEW s \in w.live, w.room[s] = 0, w.lobby[s] \in Lobbies,
           w.next \in RoomIds, NEW max \in Capacities
    PROVE  LET v == SetRoom(Create(w, s, max, "open"), {s}, w.next) IN
           Seated(v, w, w.next, s) /\ Listed(w, w.next) = {}
<1> DEFINE r == w.next
           v == SetRoom(Create(w, s, max, "open"), {s}, r)
<1>1. CreatedBy(v, w, s, max, "open") /\ Shape(w)
    BY CreateFields, RulesAssumption DEF Agree
<1> HIDE DEF v
<1>2. /\ w.live \subseteq Sessions /\ v.live = w.live /\ Open(v) = Open(w) \cup {r} /\ r \notin Open(w)
      /\ \A q \in Open(w) : q \in RoomIds /\ v.rooms[q] = w.rooms[q]
      /\ \A t \in Sessions : v.room[t] = IF t = s THEN r ELSE w.room[t]
    BY <1>1 DEF CreatedBy, Shape
<1>3. Listed(w, r) = {}
    <2>1. r # 0
        BY DEF RoomIds
    <2>2. QED
        BY <1>2, <2>1 DEF Listed, Agree
<1>4. /\ Listed(v, r) = Listed(w, r) \cup {s}
      /\ \A q \in RoomIds \ {r} : Listed(v, q) = Listed(w, q)
    BY <1>2, SeatedLists
<1>5. v.rooms[r].members = {s} /\ v.rooms[r].rules = "open"
    BY <1>1 DEF CreatedBy
<1>6. \A q \in Open(v) : v.rooms[q].members = Listed(v, q)
    <2> SUFFICES ASSUME NEW q \in Open(v) PROVE v.rooms[q].members = Listed(v, q)
        OBVIOUS
    <2>1. CASE q = r
        BY <1>3, <1>4, <1>5, <2>1
    <2>2. CASE q # r
        BY <1>2, <1>4, <2>2 DEF Agree
    <2>3. QED
        BY <2>1, <2>2
<1>7. \A t \in v.live : v.room[t] # 0 => v.room[t] \in Open(v)
    BY <1>2 DEF Agree
<1>8. Agree(v)
    BY <1>1, <1>6, <1>7 DEF Agree, CreatedBy
<1>9. (\A q \in Open(w) : Closed(v, q) <=> Closed(w, q)) /\ ~Closed(v, r)
    BY <1>2, <1>5 DEF Closed
<1>10. QED
    BY <1>1, <1>2, <1>3, <1>4, <1>8, <1>9 DEF Seated, CreatedBy, v

\* The newcomer shows the members and they show it.
Arrival(e, u, r, s) ==
    /\ Work(e) /\ e.player = u.player
    /\ e.roster[s] = Listed(u.places, r)
    /\ \A p \in Sessions \ {s} :
           IF p \in Listed(u.places, r)
           THEN e.roster[p] = u.roster[p] \cup {s} /\ e.ghosts[p] = u.ghosts[p] \ {s}
           ELSE e.roster[p] = u.roster[p] /\ e.ghosts[p] = u.ghosts[p]

LEMMA ArrivalHandled ==
    ASSUME NEW v, NEW u, NEW e, NEW r, NEW s \in v.places.live, Sound(v), Left(u, v, s),
           v.player[s].known, ~v.player[s].scenario,
           Seated(e.places, u.places, r, s), Arrival(e, u, r, s),
           r \in Open(u.places) => ~Closed(u.places, r)
    PROVE  Handled(e, v, s, AreaOf(v.places, s)) /\ Steady(e, v, s)
<1>1. /\ Sound(u) /\ Agree(u.places) /\ u.places.room[s] = 0 /\ s \in Sessions /\ r \in RoomIds /\ r # 0
      /\ u.places.live = v.places.live /\ u.places.lobby = v.places.lobby
      /\ u.player[s].known /\ ~u.player[s].scenario
    BY DEF Left, OutOf, Sound, Agree, Shape, Seated, RoomIds
<1>2. ASSUME NEW p \in Sessions \ {s}, p \in Listed(u.places, r)
      PROVE  u.places.room[p] = r /\ ~u.player[p].scenario
    <2>1. r \in Open(u.places) /\ u.places.room[p] = r
        BY <1>1, <1>2 DEF Listed, Agree
    <2>2. ~Closed(u.places, r)
        BY <2>1
    <2>3. QED
        BY <1>1, <2>1, <2>2 DEF Sound, Told
<1>3. ASSUME NEW p \in Sessions PROVE Told(e, p)
    <2> DEFINE q == u.places.room[p]
    <2>1. /\ Told(u, p) /\ q \in RoomIds \cup {0} /\ e.player = u.player
          /\ e.places.room[p] = IF p = s THEN r ELSE q
          /\ q # 0 => p \in u.places.live /\ q \in Open(u.places)
          /\ AreaOf(e.places, p) = AreaOf(u.places, p)
        BY <1>1 DEF Sound, Agree, Shape, Seated, Arrival, AreaOf
    <2>2. CASE p = s
        <3>1. e.roster[s] = Listed(e.places, r) \ {s}
            <4>1. s \notin Listed(u.places, r) /\ Listed(e.places, r) = Listed(u.places, r) \cup {s}
                BY <1>1 DEF Seated, Listed
            <4>2. QED
                BY <4>1 DEF Arrival
        <3>2. QED
            BY <1>1, <2>1, <2>2, <3>1 DEF Told
    <2>3. CASE p # s /\ p \in Listed(u.places, r)
        <3>1. q = r /\ ~u.player[p].scenario
            BY <1>2, <2>3
        <3>2. Listed(e.places, r) = Listed(u.places, r) \cup {s}
            BY DEF Seated
        <3>3. u.roster[p] \ u.player[p].pending = Listed(u.places, r) \ {p} /\ u.player[p].pending = {}
              /\ u.player[p].known
            BY <1>1, <2>1, <3>1 DEF Told
        <3>4. e.roster[p] \ e.player[p].pending = Listed(e.places, r) \ {p}
            BY <2>1, <2>3, <3>2, <3>3 DEF Arrival
        <3>5. QED
            BY <1>1, <2>1, <2>3, <3>1, <3>3, <3>4 DEF Told
    <2>4. CASE p # s /\ p \notin Listed(u.places, r)
        <3>1. e.roster[p] = u.roster[p] /\ e.ghosts[p] = u.ghosts[p]
            BY <2>4 DEF Arrival
        <3>2. q # r
            BY <1>1, <2>1, <2>4 DEF Listed
        <3>3. q # 0 => /\ Listed(e.places, q) = Listed(u.places, q)
                       /\ Closed(e.places, q) <=> Closed(u.places, q)
            BY <2>1, <3>2 DEF Seated
        <3>4. QED
            BY <2>1, <2>4, <3>1, <3>3 DEF Told
    <2>5. QED
        BY <2>2, <2>3, <2>4
<1>4. Sound(e)
    BY <1>3 DEF Sound, Seated, Arrival
<1>5. Hushed(e, v, s)
    <2> SUFFICES ASSUME NEW p \in Sessions \ {s}, v.player[p].scenario
                 PROVE  e.roster[p] \cup e.ghosts[p] = v.roster[p] \cup v.ghosts[p]
        BY DEF Hushed
    <2>1. u.player[p].scenario /\ u.roster[p] \cup u.ghosts[p] = v.roster[p] \cup v.ghosts[p]
        BY DEF Left, Hushed
    <2>2. p \notin Listed(u.places, r)
        BY <1>2, <2>1
    <2>3. QED
        BY <2>1, <2>2 DEF Arrival
<1>6. \A p \in Sessions : e.player[p].known = v.player[p].known /\ e.player[p].scenario = v.player[p].scenario
    BY DEF Left, Arrival
<1>7. e.places.live = v.places.live /\ e.places.lobby = v.places.lobby
    BY <1>1 DEF Seated
<1>8. QED
    BY <1>1, <1>4, <1>5, <1>6, <1>7 DEF Handled, Steady, AreaOf

LEMMA CreateHandled ==
    ASSUME NEW v, Sound(v), NEW s \in v.places.live, v.player[s].known, ~v.player[s].scenario,
           v.places.lobby[s] \in Lobbies, v.places.next \in RoomIds, NEW max \in Capacities
    PROVE  LET out == Cleared(LeftRoom(v, s), s)
               e == [out EXCEPT !.places = SetRoom(Create(@, s, max, "open"), {s}, v.places.next)]
           IN  Handled(e, v, s, AreaOf(v.places, s)) /\ Steady(e, v, s)
<1> DEFINE u == Cleared(LeftRoom(v, s), s)
           r == v.places.next
           w == SetRoom(Create(u.places, s, max, "open"), {s}, r)
           e == [u EXCEPT !.places = w]
<1>1. Left(u, v, s) /\ s \in Sessions
    BY LeftRoomSound DEF Sound, Agree, Shape
<1>2. [u EXCEPT !.places = SetRoom(Create(@, s, max, "open"), {s}, r)] = e
    OBVIOUS
<1> HIDE DEF u
<1>3. /\ Sound(u) /\ Agree(u.places) /\ u.places.room[s] = 0 /\ u.places.lobby[s] \in Lobbies
      /\ s \in u.places.live /\ u.places.next = r
    BY <1>1 DEF Left, OutOf
<1>4. Seated(w, u.places, r, s) /\ Listed(u.places, r) = {}
    BY <1>3, CreateSeats
<1> HIDE DEF w
<1>5. /\ Work(e) /\ e.player = u.player /\ e.places = w /\ e.roster = u.roster /\ e.ghosts = u.ghosts
    BY <1>3 DEF Sound, Work
<1> HIDE DEF e
<1>6. u.roster[s] = {}
    BY <1>1, <1>3 DEF Sound, Told
<1>7. Arrival(e, u, r, s)
    BY <1>4, <1>5, <1>6 DEF Arrival
<1>8. r \notin Open(u.places)
    <2>1. Shape(u.places) /\ r \in Nat
        BY <1>3 DEF Agree, RoomIds
    <2>2. QED
        BY <1>3, <2>1 DEF Shape
<1>9. Handled(e, v, s, AreaOf(v.places, s)) /\ Steady(e, v, s)
    BY <1>1, <1>4, <1>5, <1>7, <1>8, ArrivalHandled
<1>10. QED
    BY <1>2, <1>9 DEF u

\* What the arrival of s in room r makes of the clients' lists.
LEMMA ArrivedFields ==
    ASSUME NEW u, Sound(u), NEW s \in u.places.live, u.places.room[s] = 0, NEW r \in RoomIds, NEW w,
           Seated(w, u.places, r, s), w.rooms[r].members = Listed(w, r),
           \A p \in Listed(u.places, r) : Reachable(u, p)
    PROVE  LET joined == [u EXCEPT !.places = w]
               e == [Arrived(joined, s) EXCEPT !.roster[s] = Roster(w, r) \ {s}]
           IN  Arrival(e, u, r, s) /\ e.places = w
<1> DEFINE joined == [u EXCEPT !.places = w]
           told == {p \in Peers(joined, s) : Reachable(joined, p)}
           lists == [With(u.roster, told, s) EXCEPT ![s] = Roster(w, r) \ {s}]
           silent == Without(u.ghosts, told, s)
           e == [Arrived(joined, s) EXCEPT !.roster[s] = Roster(w, r) \ {s}]
<1>1. /\ joined.places = w /\ joined.player = u.player /\ joined.roster = u.roster /\ joined.ghosts = u.ghosts
      /\ Work(joined) /\ s \in Sessions /\ u.places.live \subseteq Sessions /\ r # 0
      /\ u.roster \in [Sessions -> SUBSET Sessions] /\ u.ghosts \in [Sessions -> SUBSET Sessions]
    BY DEF Sound, Work, Agree, Shape, RoomIds
<1>2. e = [joined EXCEPT !.roster = lists, !.ghosts = silent]
    BY <1>1 DEF Arrived, Work
<1> HIDE DEF joined, e
<1>3. told = Listed(u.places, r)
    <2>1. Listed(w, r) = Listed(u.places, r) \cup {s} /\ s \notin Listed(u.places, r) /\ w.room[s] = r
        BY <1>1 DEF Seated, Listed
    <2>2. Peers(joined, s) = Listed(u.places, r)
        BY <1>1, <2>1 DEF Peers
    <2>3. \A p \in Listed(u.places, r) : Reachable(joined, p)
        BY <1>1 DEF Reachable
    <2>4. QED
        BY <2>2, <2>3
<1>4. Roster(w, r) \ {s} = Listed(u.places, r)
    BY <1>1 DEF Roster, Seated, Listed
<1> HIDE DEF told
<1>5. /\ lists \in [Sessions -> SUBSET Sessions] /\ silent \in [Sessions -> SUBSET Sessions]
      /\ lists[s] = Listed(u.places, r)
      /\ \A p \in Sessions \ {s} :
             IF p \in Listed(u.places, r)
             THEN lists[p] = u.roster[p] \cup {s} /\ silent[p] = u.ghosts[p] \ {s}
             ELSE lists[p] = u.roster[p] /\ silent[p] = u.ghosts[p]
    BY <1>1, <1>3, <1>4 DEF With, Without, Listed
<1> HIDE DEF lists, silent
<1>6. Work(e) /\ e.player = u.player /\ e.roster = lists /\ e.ghosts = silent /\ e.places = w
    BY <1>1, <1>2, <1>5 DEF Work
<1>7. Arrival(e, u, r, s)
    BY <1>5, <1>6 DEF Arrival
<1>8. QED
    BY <1>6, <1>7 DEF e, joined

\* Session s has left its room for a seat in r.
Joined(v, s, r) ==
    LET out == Cleared(LeftRoom(v, s), s)
        joined == [out EXCEPT !.places = SetRoom(Join(@, r, s), {s}, r)]
    IN  [Arrived(joined, s) EXCEPT !.roster[s] = Roster(joined.places, r) \ {s}]

LEMMA JoinHandled ==
    ASSUME NEW v, Sound(v), NEW s \in v.places.live, v.player[s].known, ~v.player[s].scenario,
           NEW r, r \in Open(v.places), ~Closed(v.places, r),
           HasSeat(Cleared(LeftRoom(v, s), s).places, r, s)
    PROVE  Handled(Joined(v, s, r), v, s, AreaOf(v.places, s)) /\ Steady(Joined(v, s, r), v, s)
<1> DEFINE u == Cleared(LeftRoom(v, s), s)
           w == SetRoom(Join(u.places, r, s), {s}, r)
           joined == [u EXCEPT !.places = w]
           e == [Arrived(joined, s) EXCEPT !.roster[s] = Roster(w, r) \ {s}]
<1>1. Left(u, v, s) /\ s \in Sessions
    BY LeftRoomSound DEF Sound, Agree, Shape
<1>2. joined.places = w /\ [u EXCEPT !.places = SetRoom(Join(@, r, s), {s}, r)] = joined
    <2>1. Left(u, v, s)
        BY <1>1
    <2> HIDE DEF u
    <2>2. Work(u)
        BY <2>1 DEF Left, Sound
    <2>3. QED
        BY <2>2 DEF Work
<1>3. HasSeat(u.places, r, s)
    OBVIOUS
<1> HIDE DEF u
<1>4. /\ Sound(u) /\ Agree(u.places) /\ u.places.room[s] = 0 /\ s \in u.places.live
      /\ r \in Open(u.places)
    BY <1>1, <1>3 DEF Left, OutOf, HasSeat
<1>5. ~Closed(u.places, r)
    BY <1>1, <1>4, OutOfKeepsClosed DEF Left
<1>6. Seated(w, u.places, r, s)
    BY <1>3, <1>4, <1>5, JoinSeats
<1> HIDE DEF w
<1>7. r \in RoomIds /\ w.rooms[r].members = Listed(w, r)
    <2>1. r \in RoomIds /\ Agree(w) /\ w.room[s] = r /\ s \in w.live /\ r # 0
        BY <1>1, <1>4, <1>6 DEF Seated, RoomIds
    <2>2. QED
        BY <2>1 DEF Agree
<1>8. ASSUME NEW p \in Listed(u.places, r) PROVE Reachable(u, p)
    <2>1. p \in Sessions /\ u.places.room[p] = r /\ r # 0
        BY <1>4, <1>7, <1>8 DEF Listed, Agree, Shape, RoomIds
    <2>2. QED
        BY <1>4, <1>5, <2>1 DEF Sound, Told, Reachable
<1>9. Arrival(e, u, r, s) /\ e.places = w
    BY <1>4, <1>6, <1>7, <1>8, ArrivedFields, SMTT(30)
<1> HIDE DEF e
<1>10. Handled(e, v, s, AreaOf(v.places, s)) /\ Steady(e, v, s)
    BY <1>1, <1>5, <1>6, <1>9, ArrivalHandled
<1>11. Joined(v, s, r) = e
    <2>1. [u EXCEPT !.places = SetRoom(Join(@, r, s), {s}, r)] = joined
        BY <1>2
    <2>2. Joined(v, s, r) = [Arrived(joined, s) EXCEPT !.roster[s] = Roster(joined.places, r) \ {s}]
        BY <2>1 DEF Joined, u
    <2>3. QED
        BY <1>2, <2>2 DEF e
<1>12. QED
    BY <1>10, <1>11

-----------------------------------------------------------------------------
(***************************************************************************)
(* Scenarios.                                                              *)
(***************************************************************************)

\* A request that is refused.
LEMMA RefusedHandled ==
    ASSUME NEW v, Sound(v), NEW s \in Sessions, v.player[s].scenario => v.places.room[s] = 0
    PROVE  Handled(v, v, s, AreaOf(v.places, s)) /\ (s \in v.places.live => Steady(v, v, s))
    BY DEF Handled, Steady, Hushed

\* The host closes its room: nobody's list changes.
LEMMA ClosedHandled ==
    ASSUME NEW v, Sound(v), NEW s \in v.places.live, ~v.player[s].scenario, v.places.room[s] \in Open(v.places)
    PROVE  LET e == [v EXCEPT !.places.rooms[v.places.room[s]].rules = "closed"] IN
           Handled(e, v, s, AreaOf(v.places, s)) /\ Steady(e, v, s)
<1> DEFINE r == v.places.room[s]
           g == [v.places.rooms[r] EXCEPT !.rules = "closed"]
           w == [v.places EXCEPT !.rooms = [v.places.rooms EXCEPT ![r] = g]]
           e == [v EXCEPT !.places = w]
<1>1. Agree(v.places) /\ Shape(v.places) /\ s \in Sessions /\ v.places.rooms[r] \in GameRooms
    BY DEF Sound, Agree, Shape
<1>2. [v EXCEPT !.places.rooms[r].rules = "closed"] = e
    OBVIOUS
<1>3. g \in GameRooms /\ g.members = v.places.rooms[r].members /\ g.rules = "closed"
    BY <1>1, RulesAssumption DEF GameRooms
<1> HIDE DEF g
<1>4. /\ w \in [live : SUBSET Sessions, lobby : [Sessions -> Lobbies \cup {0}],
                room : [Sessions -> RoomIds \cup {0}], rooms : {w.rooms}, next : 1 .. MaxRoomId + 1]
      /\ w.live = v.places.live /\ w.room = v.places.room /\ w.lobby = v.places.lobby /\ w.next = v.places.next
      /\ w.rooms = [v.places.rooms EXCEPT ![r] = g]
    BY <1>1 DEF Shape
<1>5. /\ Work(e) /\ e.places = w /\ e.player = v.player /\ e.roster = v.roster /\ e.ghosts = v.ghosts
    BY DEF Sound, Work
<1> HIDE DEF w, e
<1>6. /\ Open(w) = Open(v.places) /\ w.rooms \in [Open(w) -> GameRooms]
      /\ \A q \in Open(w) : w.rooms[q] = IF q = r THEN g ELSE v.places.rooms[q]
    BY <1>1, <1>3, <1>4 DEF Shape, Open
<1>7. Shape(w)
    BY <1>1, <1>4, <1>6 DEF Shape
<1>8. \A q : Listed(w, q) = Listed(v.places, q)
    BY <1>4 DEF Listed
<1>9. Agree(w)
    BY <1>1, <1>3, <1>4, <1>6, <1>7, <1>8 DEF Agree
<1>10. \A q \in Open(w) : Closed(v.places, q) => Closed(w, q)
    BY <1>3, <1>6 DEF Closed
<1>11. ASSUME NEW p \in Sessions PROVE Told(e, p)
    <2>1. /\ Told(v, p) /\ w.room[p] = v.places.room[p] /\ (w.room[p] # 0 => w.room[p] \in Open(w))
          /\ AreaOf(w, p) = AreaOf(v.places, p)
        BY <1>4, <1>9 DEF Sound, Agree, Shape, AreaOf
    <2>2. QED
        BY <1>5, <1>8, <1>10, <2>1 DEF Told
<1>12. Sound(e)
    BY <1>5, <1>9, <1>11 DEF Sound
<1>13. Handled(e, v, s, AreaOf(v.places, s)) /\ Steady(e, v, s)
    BY <1>1, <1>4, <1>5, <1>12 DEF Handled, Steady, Hushed, AreaOf
<1>14. QED
    BY <1>2, <1>13

\* A player enters the scenario of its closed room.
LEMMA EnterHandled ==
    ASSUME NEW v, Sound(v), NEW s \in v.places.live, ~v.player[s].scenario, v.player[s].known,
           v.places.room[s] \in Open(v.places), Closed(v.places, v.places.room[s])
    PROVE  LET e == [v EXCEPT !.player[s].scenario = TRUE] IN Handled(e, v, s, AreaOf(v.places, s))
<1> DEFINE e == [v EXCEPT !.player[s].scenario = TRUE]
           a == [v.player[s] EXCEPT !.scenario = TRUE]
<1>1. s \in Sessions /\ v.player[s] \in Players /\ v.player \in [Sessions -> Players]
    BY DEF Sound, Agree, Shape, Work
<1>2. a \in Players /\ a.scenario /\ a.known = v.player[s].known /\ a.pending = v.player[s].pending
    BY <1>1 DEF Players
<1>3. e = [v EXCEPT !.player = [v.player EXCEPT ![s] = a]]
    OBVIOUS
<1> HIDE DEF a, e
<1>4. /\ Work(e) /\ e.places = v.places /\ e.player = [v.player EXCEPT ![s] = a]
      /\ e.roster = v.roster /\ e.ghosts = v.ghosts
    BY <1>1, <1>2, <1>3 DEF Sound, Work
<1>5. e.player[s] = a /\ \A p \in Sessions \ {s} : e.player[p] = v.player[p]
    BY <1>1, <1>4
<1>6. ASSUME NEW p \in Sessions PROVE Told(e, p)
    <2>1. CASE p = s
        BY <1>1, <1>2, <1>4, <1>5, <2>1, ZenonT(40) DEF Sound, Told
    <2>2. CASE p # s
        BY <1>4, <1>5, <2>2 DEF Sound, Told
    <2>3. QED
        BY <2>1, <2>2
<1>7. Sound(e)
    BY <1>4, <1>6 DEF Sound
<1>8. QED
    BY <1>4, <1>5, <1>7 DEF Handled, Hushed, AreaOf, e

\* Back in the lobby, a player is told of the leaves held back.
LEMMA ReportHandled ==
    ASSUME NEW v, Sound(v), NEW s \in v.places.live, v.player[s].scenario
    PROVE  LET e == [v EXCEPT !.player[s].scenario = FALSE, !.player[s].pending = {},
                              !.roster[s] = @ \ v.player[s].pending, !.ghosts[s] = @ \ v.player[s].pending]
           IN  Handled(e, v, s, AreaOf(v.places, s))
<1> DEFINE late == v.player[s].pending
           e == [v EXCEPT !.player[s].scenario = FALSE, !.player[s].pending = {},
                          !.roster[s] = @ \ late, !.ghosts[s] = @ \ late]
           a == [v.player[s] EXCEPT !.scenario = FALSE, !.pending = {}]
           lists == [v.roster EXCEPT ![s] = v.roster[s] \ late]
           silent == [v.ghosts EXCEPT ![s] = v.ghosts[s] \ late]
<1>1. /\ s \in Sessions /\ v.player[s] \in Players /\ v.player \in [Sessions -> Players]
      /\ v.roster \in [Sessions -> SUBSET Sessions] /\ v.ghosts \in [Sessions -> SUBSET Sessions]
    BY DEF Sound, Agree, Shape, Work
<1>2. a \in Players /\ ~a.scenario /\ a.known = v.player[s].known /\ a.pending = {}
    BY <1>1 DEF Players
<1>3. e = [v EXCEPT !.player = [v.player EXCEPT ![s] = a], !.roster = lists, !.ghosts = silent]
    BY <1>1
<1> HIDE DEF a, e
<1>4. /\ lists \in [Sessions -> SUBSET Sessions] /\ silent \in [Sessions -> SUBSET Sessions]
      /\ lists[s] = v.roster[s] \ late /\ silent[s] = v.ghosts[s] \ late
      /\ \A p \in Sessions \ {s} : lists[p] = v.roster[p] /\ silent[p] = v.ghosts[p]
    BY <1>1
<1> HIDE DEF lists, silent
<1>5. /\ Work(e) /\ e.places = v.places /\ e.player = [v.player EXCEPT ![s] = a]
      /\ e.roster = lists /\ e.ghosts = silent
    BY <1>1, <1>2, <1>3, <1>4 DEF Sound, Work
<1>6. e.player[s] = a /\ \A p \in Sessions \ {s} : e.player[p] = v.player[p]
    BY <1>1, <1>5
<1>7. ASSUME NEW p \in Sessions PROVE Told(e, p)
    <2>1. CASE p = s
        BY <1>1, <1>2, <1>4, <1>5, <1>6, <2>1 DEF Sound, Told
    <2>2. CASE p # s
        BY <1>4, <1>5, <1>6, <2>2 DEF Sound, Told
    <2>3. QED
        BY <2>1, <2>2
<1>8. Sound(e)
    BY <1>5, <1>7 DEF Sound
<1>9. ~e.player[s].scenario
    BY <1>2, <1>6
<1>10. Hushed(e, v, s)
    BY <1>4, <1>5 DEF Hushed
<1>11. Handled(e, v, s, AreaOf(v.places, s))
    BY <1>1, <1>5, <1>6, <1>8, <1>9, <1>10 DEF Handled, AreaOf
<1>12. QED
    BY <1>11 DEF e

-----------------------------------------------------------------------------
(***************************************************************************)
(* Room lists, Areas and counts.                                           *)
(***************************************************************************)

\* The sessions in the Areas A; Area 0 is none.
InAreas(w, A) == {p \in Sessions : AreaOf(w, p) \in A}

\* Session s is let into Area l, or is there already.
Admitted(s, l) ==
    \/ l \in {0, AreaOf(places, s)}
    \/ IF game = "outbreak2" THEN ~ServerFull(s) ELSE ~AreaFull(s, l)

\* One handler's work for session s, with the room lists its callbacks leave.
Stepped(e, s, l) ==
    /\ s \in Sessions /\ Handled(e, Now, s, l) /\ Untracked(e)
    /\ \A a \in Lobbies : table'[a] = ListedRooms(e.places, a)
    /\ Admitted(s, l)

\* A count that was read is one of a player in the lobby and is not too small.
CountedFor(p) ==
    count[p] # Unread =>
      /\ game = "outbreak2" /\ p \in places.live /\ Reachable(Now, p)
      /\ places.lobby[p] # 0 => count[p] >= Cardinality(InAreas(places, {places.lobby[p]}) \ {p})

Counted == count \in [Sessions -> 0 .. Unread] /\ \A p \in Sessions : CountedFor(p)

OutbreakInv == Sound(Now) /\ RoomListFresh /\ CapacityKept /\ Counted

LEMMA NowFields ==
    /\ Now.places = places /\ Now.player = player /\ Now.roster = roster /\ Now.ghosts = ghosts
    BY DEF Now

\* A row that differs replaces the one of the same room; the rows of rooms
\* that are gone go.
LEMMA RowsReplaced ==
    ASSUME NEW B, NEW A, \A x \in A : \A y \in A : x.id = y.id => x = y,
           \A x \in B : \A y \in B : x.id = y.id => x = y
    PROVE  LET Ids(rows) == {row.id : row \in rows}
               stale == Ids(A \ B) \cup (Ids(B) \ Ids(A))
           IN  /\ {row \in B : row.id \notin stale} \cup (A \ B) = A
               /\ {row \in B : row \in A \/ row.id \notin Ids(B \cup A)} \cup (A \ B) = A
<1> DEFINE Ids(rows) == {row.id : row \in rows}
           stale == Ids(A \ B) \cup (Ids(B) \ Ids(A))
<1>1. ASSUME NEW row \in B PROVE row.id \notin stale <=> row \in A
    <2>1. CASE row \in A
        <3>1. row.id \in Ids(A)
            BY <2>1
        <3>2. row.id \notin Ids(A \ B)
            BY <1>1, <2>1
        <3>3. QED
            BY <2>1, <3>1, <3>2
    <2>2. CASE row \notin A
        <3>1. row.id \in Ids(B)
            OBVIOUS
        <3>2. ASSUME row.id \in Ids(A) PROVE row.id \in Ids(A \ B)
            <4>1. PICK x \in A : x.id = row.id
                BY <3>2
            <4>2. x \in A \ B
                BY <2>2, <4>1
            <4>3. QED
                BY <4>1, <4>2
        <3>3. QED
            BY <2>2, <3>1, <3>2
    <2>3. QED
        BY <2>1, <2>2
<1>2. ASSUME NEW row \in B PROVE row \in A \/ row.id \notin Ids(B \cup A) <=> row \in A
    BY <1>2
<1> HIDE DEF Ids, stale
<1>3. {row \in B : row.id \notin stale} \cup (A \ B) = A
    BY <1>1
<1>4. {row \in B : row \in A \/ row.id \notin Ids(B \cup A)} \cup (A \ B) = A
    BY <1>2
<1>5. QED
    BY <1>3, <1>4 DEF Ids, stale

LEMMA UpdatesAreFresh ==
    ASSUME NEW w, NEW a, table[a] = ListedRooms(places, a)
    PROVE  Updated(w, a) = ListedRooms(w, a) /\ RoomListUpdates2(w, a) = ListedRooms(w, a)
<1> DEFINE B == ListedRooms(places, a)
           A == ListedRooms(w, a)
<1>1. \A v : \A x \in ListedRooms(v, a) : \A y \in ListedRooms(v, a) : x.id = y.id => x = y
    BY DEF ListedRooms, RoomRow
<1>2. ListedRooms2(places, a) = B /\ ListedRooms2(w, a) = A
    BY DEF ListedRooms, ListedRooms2, OpenRooms2
<1>3. /\ \A x \in A : \A y \in A : x.id = y.id => x = y
      /\ \A x \in B : \A y \in B : x.id = y.id => x = y
    BY <1>1
<1> DEFINE Ids(rows) == {row.id : row \in rows}
           stale == Ids(A \ B) \cup (Ids(B) \ Ids(A))
<1>4. Updated(w, a) = A
    <2>1. Updated(w, a) = {row \in B : row.id \notin stale} \cup (A \ B)
        BY DEF Updated
    <2> HIDE DEF A, B
    <2>2. {row \in B : row.id \notin stale} \cup (A \ B) = A
        BY <1>3, RowsReplaced
    <2>3. QED
        BY <2>1, <2>2 DEF A, B
<1> HIDE DEF A, B
<1>5. RoomListUpdates2(w, a) = A
    BY <1>2, <1>3, RowsReplaced DEF RoomListUpdates2, A, B
<1>6. QED
    BY <1>4, <1>5 DEF A

\* What a handler of either game writes.
Written(e) ==
    \/ Tracked(e) \/ Tracked2(e)
    \/ Untracked(e) /\ table' = table /\ e.places = places

LEMMA WrittenSteps ==
    ASSUME OutbreakInv, NEW e, NEW s \in Sessions, NEW l, Handled(e, Now, s, l), Written(e), Admitted(s, l)
    PROVE  Stepped(e, s, l)
<1>1. \A a \in Lobbies : table[a] = ListedRooms(places, a)
    BY DEF OutbreakInv, RoomListFresh
<1>2. \A a \in Lobbies : Updated(e.places, a) = ListedRooms(e.places, a)
                         /\ RoomListUpdates2(e.places, a) = ListedRooms(e.places, a)
    BY <1>1, UpdatesAreFresh
<1>3. Untracked(e) /\ \A a \in Lobbies : table'[a] = ListedRooms(e.places, a)
    <2>1. CASE Tracked(e)
        BY <1>2, <2>1 DEF Tracked
    <2>2. CASE Tracked2(e)
        BY <1>2, <2>2 DEF Tracked2
    <2>3. CASE Untracked(e) /\ table' = table /\ e.places = places
        BY <1>1, <2>3
    <2>4. QED
        BY <2>1, <2>2, <2>3 DEF Written
<1>4. QED
    BY <1>3 DEF Stepped

LEMMA SteppedRecord ==
    ASSUME NEW e, NEW s, NEW l, Stepped(e, s, l)
    PROVE  Now' = e /\ game' = game /\ RoomListFresh'
<1>1. Work(e) /\ Untracked(e)
    BY DEF Stepped, Handled, Sound
<1>2. e = [places |-> e.places, player |-> e.player, roster |-> e.roster, ghosts |-> e.ghosts]
    BY <1>1 DEF Work
<1>3. Now' = e
    BY <1>1, <1>2 DEF Now, Untracked
<1>4. QED
    BY <1>1, <1>3 DEF Untracked, Stepped, RoomListFresh

\* Area counts are counts of the sessions in the Areas.
LEMMA OthersCount ==
    ASSUME Shape(places), NEW s, NEW A, 0 \notin A
    PROVE  /\ Others(s, A) = Cardinality(InAreas(places, A) \ {s})
           /\ {p \in places.live : places.lobby[p] \in A} = InAreas(places, A)
           /\ Others(s, A) \in Nat
<1>1. /\ {p \in places.live \ {s} : places.lobby[p] \in A} = InAreas(places, A) \ {s}
      /\ {p \in places.live : places.lobby[p] \in A} = InAreas(places, A)
    BY DEF InAreas, AreaOf, Shape
<1>2. IsFiniteSet(InAreas(places, A) \ {s})
    <2>1. InAreas(places, A) \ {s} \subseteq Sessions
        BY DEF InAreas
    <2>2. QED
        BY <2>1, PlacesAssumption, FS_Subset
<1>3. QED
    BY <1>1, <1>2, FS_CardinalityType DEF Others

\* Who is in the Areas after a handler.
AreasMoved(u, w, s, l, A) ==
    /\ l \notin A => InAreas(u, A) = InAreas(w, A) \ {s}
    /\ l \in A => InAreas(u, A) = InAreas(w, A) \cup {s}

LEMMA AreasStep ==
    ASSUME NEW e, NEW v, NEW s \in Sessions, NEW l, Handled(e, v, s, l), NEW A
    PROVE  AreasMoved(e.places, v.places, s, l, A)
<1>1. \A p \in Sessions : AreaOf(e.places, p) = IF p = s THEN l ELSE AreaOf(v.places, p)
    BY DEF Handled
<1>2. QED
    BY <1>1 DEF AreasMoved, InAreas

LEMMA FiniteAreas ==
    ASSUME NEW w, NEW A, NEW s
    PROVE  /\ IsFiniteSet(InAreas(w, A)) /\ Cardinality(InAreas(w, A)) \in Nat
           /\ IsFiniteSet(InAreas(w, A) \ {s}) /\ Cardinality(InAreas(w, A) \ {s}) \in Nat
           /\ Cardinality(InAreas(w, A) \ {s}) <= Cardinality(InAreas(w, A))
           /\ Cardinality(InAreas(w, A)) <= Cardinality(Sessions)
<1>1. InAreas(w, A) \subseteq Sessions
    BY DEF InAreas
<1>2. IsFiniteSet(InAreas(w, A)) /\ Cardinality(InAreas(w, A)) <= Cardinality(Sessions)
    BY <1>1, PlacesAssumption, FS_Subset
<1>3. IsFiniteSet(InAreas(w, A) \ {s}) /\ Cardinality(InAreas(w, A) \ {s}) <= Cardinality(InAreas(w, A))
    BY <1>2, FS_Subset
<1>4. QED
    BY <1>2, <1>3, FS_CardinalityType

\* Areas are not overfilled by one that stays, leaves, or found a free place.
LEMMA AreasKept ==
    ASSUME Sound(Now), NEW e, NEW s \in Sessions, NEW l, Handled(e, Now, s, l), NEW A, 0 \notin A,
           Cardinality(InAreas(places, A)) <= AreaCapacity,
           l \in {0, AreaOf(places, s)} \/ l \notin A \/ ~(Others(s, A) >= AreaCapacity)
    PROVE  Cardinality(InAreas(e.places, A)) <= AreaCapacity
<1> DEFINE P == InAreas(places, A)
           Q == InAreas(e.places, A)
<1>1. (l \notin A => Q = P \ {s}) /\ (l \in A => Q = P \cup {s})
    <2>1. AreasMoved(e.places, places, s, l, A)
        BY AreasStep, NowFields
    <2>2. QED
        BY <2>1 DEF AreasMoved
<1>2. /\ Others(s, A) = Cardinality(P \ {s}) /\ AreaCapacity \in Nat
    BY OthersCount, ListAssumption, NowFields DEF Sound, Agree
<1>3. /\ IsFiniteSet(P) /\ IsFiniteSet(P \ {s})
      /\ Cardinality(P) \in Nat /\ Cardinality(P \ {s}) \in Nat /\ Cardinality(P \ {s}) <= Cardinality(P)
    BY FiniteAreas
<1>4. AreaOf(places, s) \in A => s \in P
    BY DEF InAreas
<1> HIDE DEF P, Q
<1>5. CASE l \notin A
    <2>1. Q = P \ {s}
        BY <1>1, <1>5
    <2>2. QED
        BY <1>2, <1>3, <2>1 DEF P, Q
<1>6. CASE l \in A /\ l \in {0, AreaOf(places, s)}
    <2>1. Q = P
        BY <1>1, <1>4, <1>6
    <2>2. QED
        BY <2>1 DEF P, Q
<1>7. CASE l \in A /\ ~(Others(s, A) >= AreaCapacity)
    <2>1. Q = (P \ {s}) \cup {s} /\ s \notin P \ {s}
        BY <1>1, <1>7
    <2>2. Cardinality(Q) = Cardinality(P \ {s}) + 1
        BY <1>3, <2>1, FS_AddElement
    <2>3. QED
        BY <1>2, <1>3, <1>7, <2>2 DEF Q
<1>8. QED
    BY <1>5, <1>6, <1>7

\* The sessions in an Area, or in any.
LEMMA AreaSets ==
    ASSUME NEW w, Shape(w)
    PROVE  /\ {s \in w.live : w.lobby[s] # 0} = InAreas(w, Lobbies)
           /\ \A a \in Lobbies : {s \in w.live : w.lobby[s] = a} = InAreas(w, {a})
<1>1. w.live \subseteq Sessions /\ w.lobby \in [Sessions -> Lobbies \cup {0}] /\ 0 \notin Lobbies
    BY PlacesAssumption DEF Shape
<1>2. QED
    BY <1>1 DEF InAreas, AreaOf

LEMMA CapacityStep ==
    ASSUME Sound(Now), CapacityKept, NEW e, NEW s, NEW l, Stepped(e, s, l)
    PROVE  CapacityKept'
<1>1. /\ Now' = e /\ game' = game /\ places' = e.places /\ Shape(places) /\ Shape(e.places)
      /\ s \in Sessions /\ Handled(e, Now, s, l) /\ Admitted(s, l) /\ 0 \notin Lobbies
    BY SteppedRecord, NowFields, PlacesAssumption DEF Stepped, Untracked, Sound, Agree, Handled
<1>2. CapacityKept <=> IF game = "outbreak2" THEN Cardinality(InAreas(places, Lobbies)) <= AreaCapacity
                       ELSE \A a \in Lobbies : Cardinality(InAreas(places, {a})) <= AreaCapacity
    BY <1>1, AreaSets DEF CapacityKept
<1>3. CapacityKept' <=> IF game = "outbreak2" THEN Cardinality(InAreas(e.places, Lobbies)) <= AreaCapacity
                        ELSE \A a \in Lobbies : Cardinality(InAreas(e.places, {a})) <= AreaCapacity
    BY <1>1, AreaSets DEF CapacityKept
<1>4. CASE game = "outbreak2"
    <2>1. l \in {0, AreaOf(places, s)} \/ ~(Others(s, Lobbies) >= AreaCapacity)
        BY <1>1, <1>4 DEF Admitted, ServerFull
    <2>2. Cardinality(InAreas(places, Lobbies)) <= AreaCapacity
        BY <1>2, <1>4
    <2>3. Cardinality(InAreas(e.places, Lobbies)) <= AreaCapacity
        BY <1>1, <2>1, <2>2, AreasKept
    <2>4. QED
        BY <1>1, <1>3, <1>4, <2>3
<1>5. CASE game # "outbreak2"
    <2>1. ASSUME NEW a \in Lobbies PROVE Cardinality(InAreas(e.places, {a})) <= AreaCapacity
        <3>1. l \in {0, AreaOf(places, s)} \/ l \notin {a} \/ ~(Others(s, {a}) >= AreaCapacity)
            BY <1>1, <1>5 DEF Admitted, AreaFull
        <3>2. Cardinality(InAreas(places, {a})) <= AreaCapacity
            BY <1>2, <1>5
        <3>3. 0 \notin {a}
            BY <1>1
        <3>4. QED
            BY <1>1, <3>1, <3>2, <3>3, AreasKept
    <2>2. QED
        BY <1>1, <1>3, <1>5, <2>1
<1>6. QED
    BY <1>4, <1>5

-----------------------------------------------------------------------------
\* The session that a callback is about is counted in one Area before, in one
\* after it.
LEMMA MovedCounts ==
    ASSUME Sound(Now), NEW s \in places.live, NEW e, NEW l \in Lobbies \cup {0}, NEW read,
           Handled(e, Now, s, l), NEW p \in Sessions \ {s}, count \in [Sessions -> 0 .. Unread],
           CountedFor(p), count[p] # Unread
    PROVE  LET n == Moved(s, l, read)[p]
               a == e.places.lobby[p]
           IN  /\ n \in 0 .. CountCap
               /\ a # 0 => n >= Cardinality(InAreas(e.places, {a}) \ {p})
<1> DEFINE n == Moved(s, l, read)[p]
           a == e.places.lobby[p]
           from == places.lobby[s]
           k == count[p]
           P == InAreas(places, {a}) \ {p}
           Q == InAreas(e.places, {a}) \ {p}
           left == IF from = a /\ a # 0 THEN IF k = 0 THEN 0 ELSE k - 1 ELSE k
<1>1. /\ p \in Sessions /\ p \in places.live /\ p \in e.places.live /\ Reachable(Now, p)
      /\ a = places.lobby[p] /\ a \in Lobbies \cup {0} /\ from \in Lobbies \cup {0} /\ s \in Sessions
    BY NowFields DEF CountedFor, Handled, AreaOf, Sound, Agree, Shape
<1>2. Cardinality(Sessions) \in Nat /\ IsFiniteSet(Sessions)
    BY PlacesAssumption, FS_CardinalityType
<1>3. k \in 0 .. CountCap /\ CountCap \in Nat /\ CountCap = Cardinality(Sessions) + 1
    BY <1>2 DEF CountCap, Unread
<1>4. n = IF l = a /\ a # 0 THEN IF left < CountCap THEN left + 1 ELSE left ELSE left
    BY <1>1 DEF Moved, Reachable2
<1> HIDE DEF n
<1>5. left \in 0 .. CountCap
    BY <1>3
<1>6. n \in 0 .. CountCap
    BY <1>3, <1>4, <1>5
<1>7. ASSUME a # 0 PROVE n >= Cardinality(Q)
    <2>1. AreasMoved(e.places, places, s, l, {a})
        <3> HIDE DEF a
        <3>1. QED
            BY <1>1, AreasStep, NowFields
    <2>2. /\ l # a => InAreas(e.places, {a}) = InAreas(places, {a}) \ {s}
          /\ l = a => InAreas(e.places, {a}) = InAreas(places, {a}) \cup {s}
        BY <2>1 DEF AreasMoved
    <2>3. /\ l # a => Q = P \ {s}
          /\ l = a => Q = P \cup {s}
          /\ from = a <=> s \in P
        BY <1>1, <1>7, <2>2 DEF InAreas, AreaOf
    <2>4. /\ IsFiniteSet(P) /\ Cardinality(P) \in Nat /\ Cardinality(P) <= Cardinality(Sessions)
        <3>1. /\ Cardinality(InAreas(places, {a})) \in Nat
              /\ Cardinality(InAreas(places, {a}) \ {p}) <= Cardinality(InAreas(places, {a}))
              /\ Cardinality(InAreas(places, {a})) <= Cardinality(Sessions)
              /\ IsFiniteSet(InAreas(places, {a}) \ {p}) /\ Cardinality(InAreas(places, {a}) \ {p}) \in Nat
            BY FiniteAreas
        <3>2. QED
            BY <1>2, <3>1
    <2>5. k >= Cardinality(P)
        BY <1>1, <1>7 DEF CountedFor
    <2>6. IsFiniteSet(Q) /\ Cardinality(Q) \in Nat /\ Cardinality(Q) <= Cardinality(Sessions)
        <3>1. /\ Cardinality(InAreas(e.places, {a})) \in Nat
              /\ Cardinality(InAreas(e.places, {a}) \ {p}) <= Cardinality(InAreas(e.places, {a}))
              /\ Cardinality(InAreas(e.places, {a})) <= Cardinality(Sessions)
              /\ IsFiniteSet(InAreas(e.places, {a}) \ {p}) /\ Cardinality(InAreas(e.places, {a}) \ {p}) \in Nat
            BY FiniteAreas
        <3>2. QED
            BY <1>2, <3>1
    <2> HIDE DEF P, Q, from, k, a
    <2>7. CASE l = a /\ from = a
        <3>1. Q = P
            BY <2>3, <2>7
        <3>2. n >= k
            BY <1>3, <1>4, <1>7, <2>7
        <3>3. QED
            BY <1>3, <1>6, <2>4, <2>5, <3>1, <3>2
    <2>8. CASE l = a /\ from # a
        <3>1. Cardinality(Q) = Cardinality(P) + 1
            BY <2>3, <2>4, <2>8, FS_AddElement
        <3>2. left = k
            BY <2>8
        <3>3. n = IF k < CountCap THEN k + 1 ELSE k
            BY <1>4, <1>7, <2>8, <3>2
        <3> HIDE DEF left
        <3>4. QED
            BY <1>2, <1>3, <2>4, <2>5, <2>6, <3>1, <3>3
    <2>9. CASE l # a /\ from = a
        <3>1. s \in P /\ Q = P \ {s}
            BY <2>3, <2>9
        <3>2. Cardinality(Q) = Cardinality(P) - 1
            BY <2>4, <3>1, FS_RemoveElement
        <3>3. n = IF k = 0 THEN 0 ELSE k - 1
            BY <1>4, <1>7, <2>9
        <3>4. QED
            BY <1>3, <2>4, <2>5, <2>6, <3>2, <3>3
    <2>10. CASE l # a /\ from # a
        <3>1. Q = P
            BY <2>3, <2>10
        <3>2. n = k
            BY <1>4, <2>10
        <3>3. QED
            BY <2>5, <3>1, <3>2
    <2>11. QED
        BY <2>7, <2>8, <2>9, <2>10
<1>8. QED
    BY <1>6, <1>7 DEF n

\* What a handler of File#2 does to the counts.
CountStep(e, s, l) ==
    \/ /\ count' = [count EXCEPT ![s] = Unread]
       /\ l \in {0, AreaOf(places, s)}
    \/ /\ count' = count /\ l = AreaOf(places, s)
       /\ Steady(e, Now, s) \/ count[s] = Unread
    \/ /\ s \in places.live /\ l \in Lobbies \cup {0}
       /\ \/ count' = Moved(s, l, Unread)
          \/ /\ l \in Lobbies /\ count' = Moved(s, l, Others(s, {l}))
             /\ Steady(e, Now, s) /\ Reachable(Now, s)

LEMMA SteadyReaches ==
    ASSUME NEW e, NEW p, e.player[p].known = player[p].known, e.player[p].scenario = player[p].scenario
    PROVE  Reachable(e, p) <=> Reachable(Now, p)
BY NowFields DEF Reachable

\* The count of one that a handler does not concern, and whose Area nobody
\* joins.
LEMMA CountStays ==
    ASSUME Sound(Now), NEW e, NEW s, NEW l, Stepped(e, s, l), l \in {0, AreaOf(places, s)},
           NEW p \in Sessions, CountedFor(p), count \in [Sessions -> 0 .. Unread], count'[p] = count[p],
           p # s \/ (l = AreaOf(places, s) /\ (Steady(e, Now, s) \/ count[s] = Unread))
    PROVE  CountedFor(p)'
<1>1. /\ Now' = e /\ game' = game /\ places' = e.places /\ Now.places = places /\ Now.player = player
      /\ s \in Sessions /\ Handled(e, Now, s, l) /\ Sound(e) /\ Shape(places) /\ Shape(e.places)
    BY SteppedRecord, NowFields DEF Stepped, Untracked, Handled, Sound, Agree
<1> SUFFICES ASSUME count[p] # Unread
             PROVE  /\ game = "outbreak2" /\ p \in e.places.live /\ Reachable(e, p)
                    /\ e.places.lobby[p] # 0 =>
                         count[p] >= Cardinality(InAreas(e.places, {e.places.lobby[p]}) \ {p})
    BY <1>1 DEF CountedFor, Unread, CountCap
<1>2. /\ game = "outbreak2" /\ p \in places.live /\ Reachable(Now, p)
      /\ places.lobby[p] # 0 => count[p] >= Cardinality(InAreas(places, {places.lobby[p]}) \ {p})
    BY DEF CountedFor
<1>3. p \in e.places.live /\ e.player[p].known = player[p].known /\ e.player[p].scenario = player[p].scenario
    <2>1. CASE p # s
        BY <1>1, <1>2, <2>1 DEF Handled
    <2>2. CASE p = s
        BY <1>1, <2>2 DEF Steady
    <2>3. QED
        BY <2>1, <2>2
<1>4. e.places.lobby[p] = places.lobby[p]
    <2>1. AreaOf(e.places, p) = AreaOf(places, p)
        BY <1>1 DEF Handled
    <2>2. QED
        BY <1>2, <1>3, <2>1 DEF AreaOf
<1> DEFINE a == places.lobby[p]
           P == InAreas(places, {a}) \ {p}
           Q == InAreas(e.places, {a}) \ {p}
<1>5. a # 0 => Q \subseteq P
    <2>1. \A q \in Sessions : AreaOf(e.places, q) \in {0, AreaOf(places, q)}
        BY <1>1 DEF Handled
    <2>2. QED
        BY <2>1 DEF InAreas
<1>6. IsFiniteSet(P) /\ Cardinality(P) \in Nat /\ IsFiniteSet(Q) /\ Cardinality(Q) \in Nat
    BY FiniteAreas
<1>7. a # 0 => Cardinality(Q) <= Cardinality(P)
    <2> HIDE DEF P, Q
    <2>1. QED
        BY <1>5, <1>6, FS_Subset
<1>8. count[p] \in Nat
    <2>1. Cardinality(Sessions) \in Nat
        BY PlacesAssumption, FS_CardinalityType
    <2>2. QED
        BY <2>1 DEF Unread, CountCap
<1>9. a # 0 => count[p] >= Cardinality(Q)
    <2> HIDE DEF Q
    <2>1. QED
        BY <1>2, <1>6, <1>7, <1>8
<1>10. Reachable(e, p)
    BY <1>2, <1>3, SteadyReaches
<1>11. QED
    BY <1>2, <1>3, <1>4, <1>9, <1>10

\* The same when its Area's players are told that s goes from or comes to it.
LEMMA CountMoves ==
    ASSUME Sound(Now), Counted, NEW e, NEW s \in places.live, NEW l \in Lobbies \cup {0}, Stepped(e, s, l),
           game = "outbreak2", NEW read, count' = Moved(s, l, read),
           \/ read = Unread
           \/ l \in Lobbies /\ read = Others(s, {l}) /\ Steady(e, Now, s) /\ Reachable(Now, s),
           NEW p \in Sessions
    PROVE  CountedFor(p)' /\ count'[p] \in 0 .. Unread
<1>1. /\ Now' = e /\ game' = game /\ places' = e.places /\ Now.places = places /\ Now.player = player
      /\ s \in Sessions /\ Handled(e, Now, s, l) /\ Shape(places) /\ count \in [Sessions -> 0 .. Unread]
    BY SteppedRecord, NowFields DEF Stepped, Untracked, Handled, Sound, Agree, Counted
<1>2. /\ Unread \in Nat /\ CountCap \in Nat /\ Cardinality(Sessions) \in Nat
      /\ CountCap + 1 = Unread /\ CountCap = Cardinality(Sessions) + 1
    <2>1. Cardinality(Sessions) \in Nat
        BY PlacesAssumption, FS_CardinalityType
    <2>2. QED
        BY <2>1 DEF Unread, CountCap
<1>3. CASE p # s /\ count[p] = Unread
    <2>1. count'[p] = Unread
        BY <1>3 DEF Moved
    <2>2. QED
        BY <1>2, <2>1 DEF CountedFor, Unread, CountCap
<1>4. CASE p # s /\ count[p] # Unread
    <2> DEFINE n == Moved(s, l, read)[p]
               a == e.places.lobby[p]
    <2>1. CountedFor(p) /\ p \in Sessions \ {s}
        BY <1>4 DEF Counted
    <2>2. /\ n \in 0 .. CountCap
          /\ a # 0 => n >= Cardinality(InAreas(e.places, {a}) \ {p})
        BY <1>1, <1>4, <2>1, MovedCounts
    <2>3. p \in e.places.live /\ Reachable(e, p)
        <3>1. p \in places.live /\ Reachable(Now, p)
            BY <1>4, <2>1 DEF CountedFor
        <3>2. /\ p \in e.places.live /\ e.player[p].known = player[p].known
              /\ e.player[p].scenario = player[p].scenario
            BY <1>1, <2>1, <3>1 DEF Handled
        <3>3. QED
            BY <3>1, <3>2, SteadyReaches
    <2>4. n = count'[p]
        OBVIOUS
    <2> HIDE DEF n
    <2>5. count'[p] \in 0 .. Unread
        BY <1>2, <2>2, <2>4
    <2>6. CountedFor(p)'
        BY <1>1, <2>2, <2>3, <2>4 DEF CountedFor, Unread, CountCap
    <2>7. QED
        BY <2>5, <2>6
<1>5. CASE p = s /\ read = Unread
    <2>1. count'[p] = Unread
        BY <1>5 DEF Moved
    <2>2. QED
        BY <1>2, <2>1 DEF CountedFor, Unread, CountCap
<1>6. CASE p = s /\ l \in Lobbies /\ read = Others(s, {l}) /\ Steady(e, Now, s) /\ Reachable(Now, s)
    <2>1. count'[s] = Others(s, {l})
        BY <1>1, <1>6 DEF Moved
    <2>2. l # 0 /\ 0 \notin {l}
        BY <1>6, PlacesAssumption
    <2>3. Others(s, {l}) = Cardinality(InAreas(places, {l}) \ {s})
        BY <1>1, <2>2, OthersCount
    <2>4. /\ s \in e.places.live /\ Reachable(e, s) /\ e.places.lobby[s] = l
        <3>1. /\ s \in e.places.live /\ e.player[s].known = player[s].known
              /\ e.player[s].scenario = player[s].scenario
            BY <1>1, <1>6 DEF Steady
        <3>2. AreaOf(e.places, s) = l
            BY <1>1 DEF Handled
        <3>3. QED
            BY <1>6, <3>1, <3>2, SteadyReaches DEF AreaOf
    <2>5. InAreas(e.places, {l}) \ {s} = InAreas(places, {l}) \ {s}
        <3>1. AreasMoved(e.places, places, s, l, {l})
            BY <1>1, AreasStep, NowFields
        <3>2. QED
            BY <3>1 DEF AreasMoved
    <2>6. /\ Cardinality(InAreas(places, {l}) \ {s}) \in Nat
          /\ Cardinality(InAreas(places, {l}) \ {s}) <= Cardinality(Sessions)
        <3>1. /\ Cardinality(InAreas(places, {l})) \in Nat
              /\ Cardinality(InAreas(places, {l}) \ {s}) <= Cardinality(InAreas(places, {l}))
              /\ Cardinality(InAreas(places, {l})) <= Cardinality(Sessions)
              /\ Cardinality(InAreas(places, {l}) \ {s}) \in Nat
            BY FiniteAreas
        <3>2. Cardinality(Sessions) \in Nat
            BY PlacesAssumption, FS_CardinalityType
        <3>3. QED
            BY <3>1, <3>2
    <2> DEFINE c == Cardinality(InAreas(places, {l}) \ {s})
    <2>7. c = count'[s] /\ c = Cardinality(InAreas(e.places, {l}) \ {s})
        BY <2>1, <2>3, <2>5
    <2>8. c \in Nat /\ c <= Cardinality(Sessions)
        BY <2>6
    <2> HIDE DEF c
    <2>9. c \in 0 .. Unread /\ c >= c
        BY <1>2, <2>8
    <2>10. CountedFor(s)'
        BY <1>1, <2>2, <2>4, <2>7, <2>9 DEF CountedFor, Unread, CountCap
    <2>11. QED
        BY <1>6, <2>7, <2>9, <2>10
<1>7. QED
    BY <1>3, <1>4, <1>5, <1>6

LEMMA CountedStep ==
    ASSUME Sound(Now), Counted, NEW e, NEW s, NEW l, Stepped(e, s, l),
           \/ game = "outbreak2" /\ CountStep(e, s, l)
           \/ game # "outbreak2" /\ count' = count
    PROVE  Counted'
<1>1. /\ s \in Sessions /\ count \in [Sessions -> 0 .. Unread] /\ game' = game
      /\ \A p \in Sessions : CountedFor(p)
    BY SteppedRecord DEF Stepped, Counted
<1>2. Unread \in Nat
    <2>1. Cardinality(Sessions) \in Nat
        BY PlacesAssumption, FS_CardinalityType
    <2>2. QED
        BY <2>1 DEF Unread, CountCap
<1>3. CASE game # "outbreak2" /\ count' = count
    <2>1. \A p \in Sessions : count[p] = Unread
        BY <1>1, <1>3 DEF CountedFor
    <2>2. \A p \in Sessions : CountedFor(p)'
        BY <1>3, <2>1 DEF CountedFor, Unread, CountCap
    <2>3. QED
        BY <1>1, <1>3, <2>2 DEF Counted, Unread, CountCap
<1>4. CASE count' = [count EXCEPT ![s] = Unread] /\ l \in {0, AreaOf(places, s)}
    <2>1. count' \in [Sessions -> 0 .. Unread]
        BY <1>1, <1>2, <1>4
    <2>2. ASSUME NEW p \in Sessions PROVE CountedFor(p)'
        <3>1. CASE p = s
            <4>1. count'[p] = Unread
                BY <1>1, <1>4, <3>1
            <4>2. QED
                BY <4>1 DEF CountedFor, Unread, CountCap
        <3>2. CASE p # s
            <4>1. count'[p] = count[p]
                BY <1>1, <1>4, <3>2
            <4>2. QED
                BY <1>1, <1>4, <3>2, <4>1, CountStays
        <3>3. QED
            BY <3>1, <3>2
    <2>3. QED
        BY <2>1, <2>2 DEF Counted, Unread, CountCap
<1>5. CASE count' = count /\ l = AreaOf(places, s) /\ (Steady(e, Now, s) \/ count[s] = Unread)
    <2>1. \A p \in Sessions : CountedFor(p)'
        BY <1>1, <1>5, CountStays
    <2>2. QED
        BY <1>1, <1>5, <2>1 DEF Counted, Unread, CountCap
<1>6. ASSUME game = "outbreak2", s \in places.live, l \in Lobbies \cup {0}, NEW read, count' = Moved(s, l, read),
             \/ read = Unread
             \/ l \in Lobbies /\ read = Others(s, {l}) /\ Steady(e, Now, s) /\ Reachable(Now, s)
      PROVE  Counted'
    <2>1. \A p \in Sessions : CountedFor(p)' /\ count'[p] \in 0 .. Unread
        BY <1>6, CountMoves
    <2>2. count' = [p \in Sessions |-> count'[p]]
        BY <1>6 DEF Moved
    <2>3. QED
        BY <2>1, <2>2 DEF Counted, Unread, CountCap
<1>7. QED
    BY <1>3, <1>4, <1>5, <1>6 DEF CountStep

\* To the scenario and back: the room lists do not change.
LEMMA EnterSteps ==
    ASSUME OutbreakInv, NEW s \in Sessions, EnterScenario(s)
    PROVE  \E e : Stepped(e, s, AreaOf(places, s))
<1> DEFINE v == Now
           e == [v EXCEPT !.player[s].scenario = TRUE]
<1>1. Sound(v) /\ v.places = places /\ v.player = player
    BY NowFields DEF OutbreakInv
<1>2. /\ s \in places.live /\ Reachable(v, s) /\ places.room[s] \in Open(places)
      /\ Closed(places, places.room[s]) /\ Untracked(e) /\ table' = table
    BY DEF EnterScenario, InLobby
<1>3. e.places = places
    BY DEF Now
<1> HIDE DEF v
<1>4. Handled(e, v, s, AreaOf(places, s))
    BY <1>1, <1>2, EnterHandled DEF Reachable
<1> HIDE DEF e
<1>5. Written(e) /\ Admitted(s, AreaOf(places, s))
    BY <1>2, <1>3 DEF Written, Admitted
<1>6. QED
    BY <1>4, <1>5, WrittenSteps DEF v

LEMMA ReportSteps ==
    ASSUME OutbreakInv, NEW s \in Sessions, ReportLobby(s)
    PROVE  \E e : Stepped(e, s, AreaOf(places, s))
<1> DEFINE v == Now
           e == [v EXCEPT !.player[s].scenario = FALSE, !.player[s].pending = {},
                          !.roster[s] = @ \ player[s].pending, !.ghosts[s] = @ \ player[s].pending]
<1>1. Sound(v) /\ v.places = places /\ v.player = player
    BY NowFields DEF OutbreakInv
<1>2. s \in places.live /\ v.player[s].scenario /\ Untracked(e) /\ table' = table
    BY <1>1 DEF ReportLobby
<1>3. e.places = places
    BY DEF Now
<1> HIDE DEF v
<1>4. Handled(e, v, s, AreaOf(places, s))
    BY <1>1, <1>2, ReportHandled
<1> HIDE DEF e
<1>5. Written(e) /\ Admitted(s, AreaOf(places, s))
    BY <1>2, <1>3 DEF Written, Admitted
<1>6. QED
    BY <1>4, <1>5, WrittenSteps DEF v

-----------------------------------------------------------------------------
(***************************************************************************)
(* The steps of both games.                                                *)
(***************************************************************************)

\* The step of the first games' plugin is one handler's, of one session.
LEMMA NextSteps ==
    ASSUME OutbreakInv, game # "outbreak2", Next
    PROVE  \E e, s, l : Stepped(e, s, l)
<1> DEFINE v == Now
<1>0. /\ Sound(v) /\ v.places = places /\ v.player = player /\ places.live \subseteq Sessions
      /\ places.lobby \in [Sessions -> Lobbies \cup {0}] /\ v = Now
    BY NowFields DEF OutbreakInv, Sound, Agree, Shape
<1> HIDE DEF v
<1>1. ASSUME NEW s \in Sessions, End(s) PROVE \E e, l : Stepped(e, s, l)
    <2>1. Handled(Ended(LeftRoom(v, s), s), v, s, 0)
        BY <1>0, <1>1, EndedHandled DEF End
    <2>2. Written(Ended(LeftRoom(v, s), s)) /\ Admitted(s, 0)
        BY <1>0, <1>1 DEF End, Written, Admitted
    <2>3. QED
        BY <1>0, <2>1, <2>2, WrittenSteps
<1>2. ASSUME NEW s \in Sessions, Logout(s) PROVE \E e, l : Stepped(e, s, l)
    <2> DEFINE e == [Cleared(LeftRoom(v, s), s) EXCEPT !.player[s] = Absent, !.places = SetLobby(@, s, 0)]
    <2>1. Handled(e, v, s, 0)
        BY <1>0, <1>2, LogoutHandled DEF Logout
    <2>2. Written(e) /\ Admitted(s, 0)
        BY <1>0, <1>2 DEF Logout, Written, Admitted
    <2> HIDE DEF e
    <2>3. QED
        BY <1>0, <2>1, <2>2, WrittenSteps
<1>3. ASSUME NEW s \in Sessions, NEW l \in Lobbies \cup {0}, s \in places.live, Admitted(s, l),
             Tracked([Cleared(LeftRoom(v, s), s) EXCEPT !.places = SetLobby(@, s, l)]), v.player[s].known \/ l = 0
      PROVE  \E e, k : Stepped(e, s, k)
    <2> DEFINE e == [Cleared(LeftRoom(v, s), s) EXCEPT !.places = SetLobby(@, s, l)]
    <2>1. Handled(e, v, s, l)
        BY <1>0, <1>3, AreaHandled
    <2>2. Written(e)
        BY <1>3 DEF Written
    <2> HIDE DEF e
    <2>3. QED
        BY <1>0, <1>3, <2>1, <2>2, WrittenSteps
<1>4. ASSUME NEW s \in Sessions, Reachable(v, s), Tracked(v) PROVE \E e, l : Stepped(e, s, l)
    <2>1. Handled(v, v, s, AreaOf(places, s))
        BY <1>0, <1>4, RefusedHandled DEF Reachable
    <2>2. Written(v) /\ Admitted(s, AreaOf(places, s))
        BY <1>4 DEF Written, Admitted
    <2>3. QED
        BY <1>0, <2>1, <2>2, WrittenSteps
<1>5. ASSUME NEW s \in Sessions, s \in places.live, Tracked(Cleared(LeftRoom(v, s), s))
      PROVE  \E e, l : Stepped(e, s, l)
    <2> DEFINE e == Cleared(LeftRoom(v, s), s)
    <2>1. Handled(e, v, s, AreaOf(places, s))
        BY <1>0, <1>5, LeftRoomSound, LeftHandled
    <2>2. Written(e) /\ Admitted(s, AreaOf(places, s))
        BY <1>5 DEF Written, Admitted
    <2> HIDE DEF e
    <2>3. QED
        BY <1>0, <2>1, <2>2, WrittenSteps
<1>6. ASSUME NEW s \in Sessions, NEW new \in BOOLEAN, KicsLogin(s, new) PROVE \E e, l : Stepped(e, s, l)
    <2>1. PICK l \in {0, AreaOf(places, s)} : Handled(LoggedIn(s, new), v, s, l)
        BY <1>0, <1>6, LoggedInHandled DEF KicsLogin
    <2>2. Written(LoggedIn(s, new)) /\ Admitted(s, l)
        BY <1>6 DEF KicsLogin, Written, Admitted
    <2>3. QED
        BY <1>0, <2>1, <2>2, WrittenSteps
<1>7. ASSUME NEW s \in Sessions, NEW a \in Lobbies, JoinArea(s, a) PROVE \E e, l : Stepped(e, s, l)
    <2>1. s \in places.live /\ Reachable(v, s)
        BY <1>0, <1>7 DEF JoinArea, InLobby
    <2>2. CASE AreaFull(s, a)
        BY <1>0, <1>4, <1>7, <2>1, <2>2 DEF JoinArea
    <2>3. CASE ~AreaFull(s, a)
        <3>1. Tracked([Cleared(LeftRoom(v, s), s) EXCEPT !.places = SetLobby(@, s, a)])
            BY <1>0, <1>7, <2>3 DEF JoinArea
        <3>2. Admitted(s, a)
            BY <2>3 DEF Admitted
        <3>3. QED
            BY <1>3, <2>1, <3>1, <3>2 DEF Reachable
    <2>4. QED
        BY <2>2, <2>3
<1>8. ASSUME NEW s \in Sessions, JoinNoArea(s) \/ LeaveArea(s) PROVE \E e, l : Stepped(e, s, l)
    <2>1. s \in places.live /\ Tracked([Cleared(LeftRoom(v, s), s) EXCEPT !.places = SetLobby(@, s, 0)])
        BY <1>0, <1>8 DEF JoinNoArea, LeaveArea, InLobby
    <2>2. Admitted(s, 0)
        BY DEF Admitted
    <2>3. QED
        BY <1>3, <2>1, <2>2
<1>9. ASSUME NEW s \in Sessions, LeaveRoom(s) PROVE \E e, l : Stepped(e, s, l)
    BY <1>0, <1>5, <1>9 DEF LeaveRoom
<1>10. ASSUME NEW s \in Sessions, NEW max \in Capacities, CreateGameRoom(s, max) PROVE \E e, l : Stepped(e, s, l)
    <2> DEFINE a == places.lobby[s]
               out == Cleared(LeftRoom(v, s), s)
               e == [out EXCEPT !.places = SetRoom(Create(@, s, max, "open"), {s}, places.next)]
    <2>1. /\ s \in places.live /\ Reachable(v, s) /\ places.next \in RoomIds
          /\ IF a = 0 \/ Cardinality(RoomsOf(places, a)) >= MaxRooms THEN Tracked(v) ELSE Tracked(e)
        BY <1>0, <1>10 DEF CreateGameRoom, InLobby
    <2>2. CASE a = 0 \/ Cardinality(RoomsOf(places, a)) >= MaxRooms
        BY <1>4, <2>1, <2>2
    <2>3. CASE ~(a = 0 \/ Cardinality(RoomsOf(places, a)) >= MaxRooms)
        <3>1. a \in Lobbies
            BY <1>0, <2>3
        <3>2. Handled(e, v, s, AreaOf(places, s))
            BY <1>0, <2>1, <3>1, CreateHandled DEF Reachable
        <3>3. Written(e) /\ Admitted(s, AreaOf(places, s))
            BY <2>1, <2>3 DEF Written, Admitted
        <3> HIDE DEF e
        <3>4. QED
            BY <1>0, <3>2, <3>3, WrittenSteps
    <2>4. QED
        BY <2>2, <2>3
<1>11. ASSUME NEW s \in Sessions, NEW r \in RoomIds, JoinRoom(s, r) PROVE \E e, l : Stepped(e, s, l)
    <2> DEFINE out == Cleared(LeftRoom(v, s), s)
               e == Joined(v, s, r)
    <2>1. /\ s \in places.live /\ Reachable(v, s)
          /\ IF r \notin Open(places) \/ places.room[s] = r \/ Closed(places, r) THEN Tracked(v)
             ELSE IF ~HasSeat(out.places, r, s) THEN Tracked(out) ELSE Tracked(e)
        BY <1>0, <1>11 DEF JoinRoom, InLobby, Joined
    <2>2. CASE r \notin Open(places) \/ places.room[s] = r \/ Closed(places, r)
        BY <1>4, <2>1, <2>2
    <2>3. CASE ~(r \notin Open(places) \/ places.room[s] = r \/ Closed(places, r)) /\ ~HasSeat(out.places, r, s)
        <3>1. Tracked(out)
            BY <2>1, <2>3
        <3>2. QED
            BY <1>5, <2>1, <3>1
    <2>4. CASE ~(r \notin Open(places) \/ places.room[s] = r \/ Closed(places, r)) /\ HasSeat(out.places, r, s)
        <3>0. /\ Sound(v) /\ s \in v.places.live /\ v.player[s].known /\ ~v.player[s].scenario
              /\ r \in Open(v.places) /\ ~Closed(v.places, r)
              /\ HasSeat(Cleared(LeftRoom(v, s), s).places, r, s)
            BY <1>0, <2>1, <2>4 DEF Reachable
        <3>1. Handled(e, v, s, AreaOf(places, s))
            BY <1>0, <3>0, JoinHandled
        <3>2. Tracked(e)
            BY <2>1, <2>4
        <3> HIDE DEF e
        <3>3. Written(e) /\ Admitted(s, AreaOf(places, s))
            BY <3>2 DEF Written, Admitted
        <3>4. QED
            BY <1>0, <3>1, <3>3, WrittenSteps
    <2>5. QED
        BY <2>2, <2>3, <2>4
<1>12. ASSUME NEW s \in Sessions, ChangeAttribute(s) PROVE \E e, l : Stepped(e, s, l)
    <2> DEFINE e == [v EXCEPT !.places.rooms[places.room[s]].rules = "closed"]
    <2>1. s \in places.live /\ Reachable(v, s) /\ places.room[s] \in Open(places) /\ Tracked(e)
        BY <1>0, <1>12 DEF ChangeAttribute, InLobby
    <2>2. Handled(e, v, s, AreaOf(places, s))
        BY <1>0, <2>1, ClosedHandled DEF Reachable
    <2> HIDE DEF e
    <2>3. Written(e) /\ Admitted(s, AreaOf(places, s))
        BY <2>1 DEF Written, Admitted
    <2>4. QED
        BY <1>0, <2>2, <2>3, WrittenSteps
<1>13. ASSUME NEW s \in Sessions, EnterScenario(s) PROVE \E e : Stepped(e, s, AreaOf(places, s))
    BY <1>13, EnterSteps
<1>14. ASSUME NEW s \in Sessions, ReportLobby(s) PROVE \E e : Stepped(e, s, AreaOf(places, s))
    BY <1>14, ReportSteps
<1>15. QED
    BY <1>1, <1>2, <1>6, <1>7, <1>8, <1>9, <1>10, <1>11, <1>12, <1>13, <1>14 DEF Next

\* What a handler of File#2 does, counts included.
Stepped2(e, s, l) == Stepped(e, s, l) /\ CountStep(e, s, l)

\* One of those leaves s where it is.
LEMMA StayedSteps ==
    ASSUME OutbreakInv, NEW e, NEW s \in Sessions, Handled(e, Now, s, AreaOf(places, s)),
           Steady(e, Now, s), Tracked2(e), count' = count
    PROVE  Stepped2(e, s, AreaOf(places, s))
<1>1. Written(e) /\ Admitted(s, AreaOf(places, s)) /\ CountStep(e, s, AreaOf(places, s))
    BY DEF Written, Admitted, CountStep
<1>2. QED
    BY <1>1, WrittenSteps DEF Stepped2

LEMMA Next2Steps ==
    ASSUME OutbreakInv, game = "outbreak2", Next2, \A s \in Sessions : ~QueryArea(s)
    PROVE  \E e, s, l : Stepped2(e, s, l)
<1> DEFINE v == Now
<1>0. /\ Sound(v) /\ v.places = places /\ v.player = player /\ places.live \subseteq Sessions
      /\ places.lobby \in [Sessions -> Lobbies \cup {0}] /\ v = Now
      /\ \A s : Reachable2(s) <=> Reachable(v, s)
    BY NowFields DEF OutbreakInv, Sound, Agree, Shape, Reachable2
<1> HIDE DEF v
<1>1. ASSUME NEW s \in Sessions, End2(s) PROVE \E e, l : Stepped2(e, s, l)
    <2> DEFINE e == Ended(LeftRoom(v, s), s)
    <2>1. /\ s \in places.live /\ count' = Moved(s, 0, Unread)
          /\ Tracked2([Ended2(LeftRoom2(v, s), s) EXCEPT !.places = Remove(@, s)])
        BY <1>0, <1>1 DEF End2
    <2>2. Handled(e, v, s, 0) /\ [Ended2(LeftRoom2(v, s), s) EXCEPT !.places = Remove(@, s)] = e
        BY <1>0, <2>1, EndedHandled
    <2>3. Tracked2(e)
        BY <2>1, <2>2
    <2> HIDE DEF e
    <2>4. Written(e) /\ Admitted(s, 0) /\ CountStep(e, s, 0)
        BY <2>1, <2>3 DEF Written, Admitted, CountStep
    <2>5. QED
        BY <1>0, <2>2, <2>4, WrittenSteps DEF Stepped2
<1>2. ASSUME NEW s \in Sessions, Logout2(s) PROVE \E e, l : Stepped2(e, s, l)
    <2> DEFINE e == [Cleared(LeftRoom(v, s), s) EXCEPT !.player[s] = Absent, !.places = SetLobby(@, s, 0)]
               f == [Ended2(LeftRoom2(v, s), s) EXCEPT !.places = SetLobby(@, s, 0)]
    <2>1. s \in places.live /\ count' = Moved(s, 0, Unread) /\ Tracked2(f)
        BY <1>0, <1>2 DEF Logout2
    <2>2. Handled(e, v, s, 0) /\ f = e
        BY <1>0, <2>1, LogoutHandled
    <2> HIDE DEF e, f
    <2>3. Written(e) /\ Admitted(s, 0) /\ CountStep(e, s, 0)
        BY <2>1, <2>2 DEF Written, Admitted, CountStep
    <2>4. QED
        BY <1>0, <2>2, <2>3, WrittenSteps DEF Stepped2
<1>3. ASSUME NEW s \in Sessions, Reachable(v, s), s \in places.live, Tracked2(v), count' = count
      PROVE  \E e, l : Stepped2(e, s, l)
    <2>1. Handled(v, v, s, AreaOf(places, s)) /\ Steady(v, v, s)
        BY <1>0, <1>3, RefusedHandled DEF Reachable
    <2>2. QED
        BY <1>0, <1>3, <2>1, StayedSteps
<1>4. ASSUME NEW s \in Sessions, s \in places.live, Tracked2(Cleared(LeftRoom2(v, s), s)), count' = count
      PROVE  \E e, l : Stepped2(e, s, l)
    <2> DEFINE e == Cleared(LeftRoom(v, s), s)
    <2>1. Handled(e, v, s, AreaOf(places, s)) /\ Steady(e, v, s)
        BY <1>0, <1>4, LeftRoomSound, LeftHandled
    <2>2. Tracked2(e)
        BY <1>4 DEF LeftRoom2
    <2> HIDE DEF e
    <2>3. QED
        BY <1>0, <1>4, <2>1, <2>2, StayedSteps
<1>5. ASSUME NEW s \in Sessions, NEW new \in BOOLEAN, KicsLogin2(s, new) PROVE \E e, l : Stepped2(e, s, l)
    <2>1. PICK l \in {0, AreaOf(places, s)} : Handled(LoggedIn(s, new), v, s, l)
        BY <1>0, <1>5, LoggedInHandled DEF KicsLogin2
    <2>2. Written(LoggedIn(s, new)) /\ Admitted(s, l) /\ CountStep(LoggedIn(s, new), s, l)
        BY <1>5 DEF KicsLogin2, Written, Admitted, CountStep
    <2>3. QED
        BY <1>0, <2>1, <2>2, WrittenSteps DEF Stepped2
<1>6. ASSUME NEW s \in Sessions, NEW a \in Lobbies, JoinArea2(s, a) PROVE \E e, l : Stepped2(e, s, l)
    <2> DEFINE e == [Cleared(LeftRoom(v, s), s) EXCEPT !.places = SetLobby(@, s, a)]
    <2>1. /\ s \in places.live /\ Reachable(v, s)
          /\ IF ServerFull(s) THEN Tracked2(v) /\ count' = count
             ELSE Tracked2(e) /\ count' = Moved(s, a, Others(s, {a}))
        BY <1>0, <1>6 DEF JoinArea2, InLobby, LeftRoom2
    <2>2. CASE ServerFull(s)
        BY <1>3, <2>1, <2>2
    <2>3. CASE ~ServerFull(s)
        <3>1. Handled(e, v, s, a) /\ Steady(e, v, s)
            BY <1>0, <2>1, AreaHandled DEF Reachable
        <3>2. Tracked2(e) /\ count' = Moved(s, a, Others(s, {a}))
            BY <2>1, <2>3
        <3> HIDE DEF e
        <3>3. Written(e) /\ Admitted(s, a) /\ CountStep(e, s, a)
            BY <1>0, <2>1, <2>3, <3>1, <3>2 DEF Written, Admitted, CountStep
        <3>4. QED
            BY <1>0, <3>1, <3>3, WrittenSteps DEF Stepped2
    <2>4. QED
        BY <2>2, <2>3
<1>7. ASSUME NEW s \in Sessions, LeaveArea2(s) PROVE \E e, l : Stepped2(e, s, l)
    <2> DEFINE e == [Cleared(LeftRoom(v, s), s) EXCEPT !.places = SetLobby(@, s, 0)]
    <2>1. s \in places.live /\ Tracked2(e) /\ count' = Moved(s, 0, Unread)
        BY <1>0, <1>7 DEF LeaveArea2, LeftRoom2
    <2>2. Handled(e, v, s, 0)
        BY <1>0, <2>1, AreaHandled
    <2> HIDE DEF e
    <2>3. Written(e) /\ Admitted(s, 0) /\ CountStep(e, s, 0)
        BY <2>1 DEF Written, Admitted, CountStep
    <2>4. QED
        BY <1>0, <2>2, <2>3, WrittenSteps DEF Stepped2
<1>8. ASSUME NEW s \in Sessions, LeaveRoom2(s) PROVE \E e, l : Stepped2(e, s, l)
    BY <1>0, <1>4, <1>8 DEF LeaveRoom2
<1>9. ASSUME NEW s \in Sessions, NEW max \in Capacities, CreateGameRoom2(s, max)
      PROVE  \E e, l : Stepped2(e, s, l)
    <2> DEFINE a == places.lobby[s]
               out == Cleared(LeftRoom(v, s), s)
               e == [out EXCEPT !.places = SetRoom(Create(@, s, max, "open"), {s}, places.next)]
    <2>1. /\ s \in places.live /\ Reachable(v, s) /\ places.next \in RoomIds /\ count' = count
          /\ IF a = 0 \/ Cardinality(RoomsOf(places, a)) >= MaxRooms THEN Tracked2(v) ELSE Tracked2(e)
        BY <1>0, <1>9 DEF CreateGameRoom2, InLobby, LeftRoom2
    <2>2. CASE a = 0 \/ Cardinality(RoomsOf(places, a)) >= MaxRooms
        BY <1>3, <2>1, <2>2
    <2>3. CASE ~(a = 0 \/ Cardinality(RoomsOf(places, a)) >= MaxRooms)
        <3>1. a \in Lobbies
            BY <1>0, <2>3
        <3>2. Handled(e, v, s, AreaOf(places, s)) /\ Steady(e, v, s)
            BY <1>0, <2>1, <3>1, CreateHandled DEF Reachable
        <3>3. Tracked2(e)
            BY <2>1, <2>3
        <3> HIDE DEF e
        <3>4. QED
            BY <1>0, <2>1, <3>2, <3>3, StayedSteps
    <2>4. QED
        BY <2>2, <2>3
<1>10. ASSUME NEW s \in Sessions, NEW r \in RoomIds, JoinRoom2(s, r) PROVE \E e, l : Stepped2(e, s, l)
    <2> DEFINE out == Cleared(LeftRoom(v, s), s)
               e == Joined(v, s, r)
    <2>1. /\ s \in places.live /\ Reachable(v, s) /\ count' = count
          /\ IF r \notin Open(places) \/ places.room[s] = r \/ Closed(places, r) THEN Tracked2(v)
             ELSE IF ~HasSeat(out.places, r, s) THEN Tracked2(out) ELSE Tracked2(e)
        BY <1>0, <1>10 DEF JoinRoom2, InLobby, LeftRoom2, RoomCallbacks2, Joined
    <2>2. CASE r \notin Open(places) \/ places.room[s] = r \/ Closed(places, r)
        BY <1>3, <2>1, <2>2
    <2>3. CASE ~(r \notin Open(places) \/ places.room[s] = r \/ Closed(places, r)) /\ ~HasSeat(out.places, r, s)
        <3>1. Tracked2(out)
            BY <2>1, <2>3
        <3>2. QED
            BY <1>4, <2>1, <3>1 DEF LeftRoom2
    <2>4. CASE ~(r \notin Open(places) \/ places.room[s] = r \/ Closed(places, r)) /\ HasSeat(out.places, r, s)
        <3>0. /\ Sound(v) /\ s \in v.places.live /\ v.player[s].known /\ ~v.player[s].scenario
              /\ r \in Open(v.places) /\ ~Closed(v.places, r)
              /\ HasSeat(Cleared(LeftRoom(v, s), s).places, r, s)
            BY <1>0, <2>1, <2>4 DEF Reachable
        <3>1. Handled(e, v, s, AreaOf(places, s)) /\ Steady(e, v, s)
            BY <1>0, <3>0, JoinHandled
        <3>2. Tracked2(e)
            BY <2>1, <2>4
        <3> HIDE DEF e
        <3>3. QED
            BY <1>0, <2>1, <3>1, <3>2, StayedSteps
    <2>5. QED
        BY <2>2, <2>3, <2>4
<1>11. ASSUME NEW s \in Sessions, ChangeAttribute2(s) PROVE \E e, l : Stepped2(e, s, l)
    <2> DEFINE e == [v EXCEPT !.places.rooms[places.room[s]].rules = "closed"]
    <2>1. /\ s \in places.live /\ Reachable(v, s) /\ places.room[s] \in Open(places) /\ Tracked2(e)
          /\ count' = count
        BY <1>0, <1>11 DEF ChangeAttribute2, InLobby
    <2>2. Handled(e, v, s, AreaOf(places, s)) /\ Steady(e, v, s)
        BY <1>0, <2>1, ClosedHandled DEF Reachable
    <2> HIDE DEF e
    <2>3. QED
        BY <1>0, <2>1, <2>2, StayedSteps
<1>12. ASSUME NEW s \in Sessions, EnterScenario2(s) PROVE \E e, l : Stepped2(e, s, l)
    <2>1. PICK e : Stepped(e, s, AreaOf(places, s))
        BY <1>12, EnterSteps DEF EnterScenario2
    <2>2. CountStep(e, s, AreaOf(places, s))
        BY <1>12 DEF EnterScenario2, CountStep
    <2>3. QED
        BY <2>1, <2>2 DEF Stepped2
<1>13. ASSUME NEW s \in Sessions, ReportLobby2(s) PROVE \E e, l : Stepped2(e, s, l)
    <2>1. PICK e : Stepped(e, s, AreaOf(places, s))
        BY <1>13, ReportSteps DEF ReportLobby2
    <2>2. count[s] = Unread
        <3>1. ~Reachable(Now, s)
            BY <1>13, NowFields DEF ReportLobby2, ReportLobby, Reachable
        <3>2. QED
            BY <3>1 DEF OutbreakInv, Counted, CountedFor
    <2>3. CountStep(e, s, AreaOf(places, s))
        BY <1>13, <2>2 DEF ReportLobby2, CountStep
    <2>4. QED
        BY <2>1, <2>3 DEF Stepped2
<1>14. QED
    BY <1>1, <1>2, <1>5, <1>6, <1>7, <1>8, <1>9, <1>10, <1>11, <1>12, <1>13 DEF Next2

-----------------------------------------------------------------------------
LEMMA StartSound == ASSUME BothInit PROVE OutbreakInv
<1>1. /\ places = NoPlaces /\ player = [s \in Sessions |-> Absent]
      /\ roster = [s \in Sessions |-> {}] /\ ghosts = [s \in Sessions |-> {}]
      /\ table = [a \in Lobbies |-> {}] /\ count = [s \in Sessions |-> Unread]
    BY DEF BothInit, Start
<1>2. /\ Shape(places) /\ Open(places) = {} /\ places.live = {} /\ \A s \in Sessions : places.room[s] = 0
    BY <1>1, NoPlacesInStep DEF InStep, NoPlaces
<1>3. Agree(places)
    BY <1>2 DEF Agree
<1>4. Work(Now)
    BY <1>1, AbsentPlayer DEF Work, Now
<1>5. \A s \in Sessions : Told(Now, s)
    BY <1>1, <1>2, AbsentPlayer, NowFields DEF Told, AreaOf
<1>6. RoomListFresh
    <2>1. \A a \in Lobbies : ListedRooms(places, a) = {}
        BY <1>2 DEF ListedRooms, OpenRooms, RoomsOf
    <2>2. QED
        BY <1>1, <2>1 DEF RoomListFresh
<1>7. CapacityKept
    <2>1. \A A : {s \in places.live : places.lobby[s] # 0} = {} /\ {s \in places.live : places.lobby[s] = A} = {}
        BY <1>2
    <2>2. Cardinality({}) <= AreaCapacity
        BY FS_EmptySet, ListAssumption
    <2>3. Cardinality({s \in places.live : places.lobby[s] # 0}) <= AreaCapacity
        BY <2>1, <2>2
    <2>4. \A a \in Lobbies : Cardinality({s \in places.live : places.lobby[s] = a}) <= AreaCapacity
        BY <2>1, <2>2
    <2>5. QED
        BY <2>3, <2>4 DEF CapacityKept
<1>8. Counted
    <2>1. Unread \in Nat
        BY PlacesAssumption, FS_CardinalityType DEF Unread, CountCap
    <2>2. QED
        BY <1>1, <2>1 DEF Counted, CountedFor
<1>9. QED
    BY <1>3, <1>4, <1>5, <1>6, <1>7, <1>8, NowFields DEF OutbreakInv, Sound

\* The client reads how many others are in its Area.
LEMMA QuerySound ==
    ASSUME OutbreakInv, game = "outbreak2", NEW s \in Sessions, QueryArea(s)
    PROVE  OutbreakInv'
<1> DEFINE a == places.lobby[s]
           n == Others(s, {a})
<1>1. /\ s \in places.live /\ Reachable(Now, s) /\ a # 0 /\ count' = [count EXCEPT ![s] = n]
      /\ UNCHANGED vars
    BY DEF QueryArea, InLobby
<1>2. /\ Shape(places) /\ count \in [Sessions -> 0 .. Unread] /\ \A p \in Sessions : CountedFor(p)
    BY NowFields DEF OutbreakInv, Sound, Agree, Counted
<1>3. n = Cardinality(InAreas(places, {a}) \ {s})
    BY <1>1, <1>2, OthersCount
<1>4. n \in Nat /\ n <= Cardinality(Sessions) /\ Cardinality(Sessions) \in Nat
    <2>1. /\ Cardinality(InAreas(places, {a})) \in Nat
          /\ Cardinality(InAreas(places, {a}) \ {s}) <= Cardinality(InAreas(places, {a}))
          /\ Cardinality(InAreas(places, {a})) <= Cardinality(Sessions)
          /\ Cardinality(InAreas(places, {a}) \ {s}) \in Nat
        BY FiniteAreas
    <2>2. Cardinality(Sessions) \in Nat
        BY PlacesAssumption, FS_CardinalityType
    <2> HIDE DEF n
    <2>3. QED
        BY <1>3, <2>1, <2>2
<1> HIDE DEF n
<1>5. Unread \in Nat /\ n \in 0 .. Unread
    BY <1>4 DEF Unread, CountCap
<1>6. count' \in [Sessions -> 0 .. Unread]
    BY <1>1, <1>2, <1>5
<1>7. ASSUME NEW p \in Sessions PROVE CountedFor(p)'
    <2>1. CASE p = s
        <3>1. count'[p] = n /\ n >= Cardinality(InAreas(places, {a}) \ {s})
            BY <1>1, <1>2, <1>3, <1>4, <2>1
        <3>2. /\ game' = game /\ places' = places /\ Now' = Now
            BY <1>1 DEF vars, Now
        <3>3. QED
            BY <1>1, <2>1, <3>1, <3>2 DEF CountedFor, Unread, CountCap
    <2>2. CASE p # s
        <3>1. count'[p] = count[p] /\ CountedFor(p)
            BY <1>1, <1>2, <2>2
        <3>2. /\ game' = game /\ places' = places /\ Now' = Now
            BY <1>1 DEF vars, Now
        <3>3. QED
            BY <3>1, <3>2 DEF CountedFor, Unread, CountCap
    <2>3. QED
        BY <2>1, <2>2
<1>8. Counted'
    BY <1>6, <1>7 DEF Counted, Unread, CountCap
<1>9. Sound(Now)' /\ RoomListFresh' /\ CapacityKept'
    <2>1. Now' = Now /\ places' = places /\ game' = game /\ table' = table
        BY <1>1 DEF vars, Now
    <2>2. Sound(Now) /\ RoomListFresh /\ CapacityKept
        BY DEF OutbreakInv
    <2>3. Sound(Now')
        BY <2>1, <2>2
    <2>4. QED
        BY <2>1, <2>2, <2>3 DEF RoomListFresh, CapacityKept
<1>10. QED
    BY <1>8, <1>9 DEF OutbreakInv

\* A step of either game is one handler's, a query, or changes nothing.
LEMMA BothSteps ==
    ASSUME OutbreakInv, BothNext
    PROVE  \/ \E s \in Sessions : game = "outbreak2" /\ QueryArea(s)
           \/ \E e, s, l : /\ Stepped(e, s, l)
                           /\ \/ game = "outbreak2" /\ CountStep(e, s, l)
                              \/ game # "outbreak2" /\ count' = count
<1>1. CASE game # "outbreak2" /\ Next /\ count' = count
    BY <1>1, NextSteps
<1>2. CASE game = "outbreak2" /\ Next2
    BY <1>2, Next2Steps DEF Stepped2
<1>3. QED
    BY <1>1, <1>2 DEF BothNext

LEMMA OutbreakStep == OutbreakInv /\ [BothNext]_allVars => OutbreakInv'
<1> SUFFICES ASSUME OutbreakInv, [BothNext]_allVars PROVE OutbreakInv'
    OBVIOUS
<1>1. CASE UNCHANGED allVars
    <2>1. Now' = Now /\ places' = places /\ game' = game /\ table' = table /\ count' = count
        BY <1>1 DEF allVars, vars, Now
    <2>2. Sound(Now) /\ Sound(Now')
        BY <2>1 DEF OutbreakInv
    <2>3. RoomListFresh' /\ CapacityKept'
        BY <2>1 DEF OutbreakInv, RoomListFresh, CapacityKept
    <2>4. Counted'
        BY <2>1 DEF OutbreakInv, Counted, CountedFor, Unread, CountCap
    <2>5. QED
        BY <2>2, <2>3, <2>4 DEF OutbreakInv
<1>2. ASSUME NEW s \in Sessions, game = "outbreak2", QueryArea(s) PROVE OutbreakInv'
    BY <1>2, QuerySound
<1>3. ASSUME NEW e, NEW s, NEW l, Stepped(e, s, l),
             \/ game = "outbreak2" /\ CountStep(e, s, l)
             \/ game # "outbreak2" /\ count' = count
      PROVE  OutbreakInv'
    <2>1. Sound(Now) /\ CapacityKept /\ Counted
        BY DEF OutbreakInv
    <2>2. Now' = e /\ Sound(e) /\ RoomListFresh'
        BY <1>3, SteppedRecord DEF Stepped, Handled
    <2>3. CapacityKept'
        BY <1>3, <2>1, CapacityStep
    <2>4. Counted'
        BY <1>3, <2>1, CountedStep
    <2>5. QED
        BY <2>2, <2>3, <2>4 DEF OutbreakInv
<1>4. CASE BothNext
    BY <1>2, <1>3, <1>4, BothSteps
<1>5. QED
    BY <1>1, <1>4

LEMMA OutbreakInvMeans == ASSUME OutbreakInv PROVE PlayersSound
<1>1. /\ Agree(places) /\ Shape(places) /\ player \in [Sessions -> Players]
      /\ roster \in [Sessions -> SUBSET Sessions] /\ ghosts \in [Sessions -> SUBSET Sessions]
    BY NowFields DEF OutbreakInv, Sound, Work, Agree
<1>2. \A s \in Sessions : player[s].pending # {} => player[s].scenario
    BY NowFields DEF OutbreakInv, Sound, Told
<1>3. \A a \in Lobbies : \A row \in table[a] : row \in [id : RoomIds, users : Nat]
    <2>1. ASSUME NEW r \in Open(places) PROVE RoomRow(places, r) \in [id : RoomIds, users : Nat]
        <3>1. places.rooms[r].members \subseteq Sessions /\ r \in RoomIds
            BY <1>1 DEF Shape, GameRooms
        <3>2. Cardinality(places.rooms[r].members) \in Nat
            BY <3>1, PlacesAssumption, FS_Subset, FS_CardinalityType
        <3>3. QED
            BY <3>1, <3>2 DEF RoomRow
    <2>2. \A a \in Lobbies : OpenRooms(places, a) \subseteq Open(places)
        BY DEF OpenRooms, RoomsOf
    <2>3. QED
        BY <2>1, <2>2 DEF OutbreakInv, RoomListFresh, ListedRooms
<1>4. BothTypeOK
    BY <1>1, <1>2, <1>3, ShapeIsPlaces DEF BothTypeOK, TypeOK, OutbreakInv, Counted
<1>5. RoomsAgree
    BY <1>1 DEF Agree, RoomsAgree
<1>6. MembersMeet
    <2>1. \A s \in Sessions : Told(Now, s)
        BY DEF OutbreakInv, Sound
    <2>2. QED
        BY <1>1, <2>1, NowFields DEF MembersMeet, Told, Shape
<1>7. CountNeverShort
    <2> SUFFICES ASSUME NEW s \in places.live, places.lobby[s] # 0, count[s] # Unread
                 PROVE  count[s] >= Others(s, {places.lobby[s]})
        BY DEF CountNeverShort
    <2>1. s \in Sessions
        BY <1>1 DEF Shape
    <2>2. Others(s, {places.lobby[s]}) = Cardinality(InAreas(places, {places.lobby[s]}) \ {s})
        BY <1>1, OthersCount
    <2>3. QED
        BY <2>1, <2>2 DEF OutbreakInv, Counted, CountedFor
<1>8. QED
    BY <1>4, <1>5, <1>6, <1>7 DEF PlayersSound, OutbreakInv

\* Places, lists, Areas' counts and capacities agree in both games, whatever
\* scenarios, held back leaves, silent KICS logins and ends interleave
\* (plugins/outbreak/plugin.py:632-747, plugins/outbreak2/plugin.py:696-724).
THEOREM PlayersAreSound == BothSpec => []PlayersSound
<1>1. BothInit => OutbreakInv
    BY StartSound
<1>2. OutbreakInv => PlayersSound
    BY OutbreakInvMeans
<1>3. QED
    BY <1>1, <1>2, OutbreakStep, PTL DEF BothSpec

\* A step that keeps a player in its scenario and its room changes nothing
\* that its client lists.
LEMMA ScenarioStep ==
    ASSUME OutbreakInv, BothNext, NEW p \in Sessions,
           player[p].scenario, player'[p].scenario, places'.room[p] = places.room[p]
    PROVE  roster'[p] \cup ghosts'[p] = roster[p] \cup ghosts[p]
<1>1. ASSUME NEW s \in Sessions, QueryArea(s) PROVE roster' = roster /\ ghosts' = ghosts
    BY <1>1 DEF QueryArea, vars
<1>2. ASSUME NEW e, NEW s, NEW l, Stepped(e, s, l)
      PROVE  roster'[p] \cup ghosts'[p] = roster[p] \cup ghosts[p]
    <2>1. /\ Sound(Now) /\ Sound(e) /\ Handled(e, Now, s, l)
          /\ places' = e.places /\ player' = e.player /\ roster' = e.roster /\ ghosts' = e.ghosts
        BY <1>2 DEF OutbreakInv, Stepped, Handled, Untracked
    <2>2. CASE p # s
        BY <2>1, <2>2, NowFields DEF Handled, Hushed
    <2>3. CASE p = s
        <3>1. e.places.room[p] = 0 /\ places.room[p] = 0
            BY <2>1, <2>3, NowFields DEF Handled
        <3>2. roster[p] = {} /\ ghosts[p] = {} /\ e.roster[p] = {} /\ e.ghosts[p] = {}
            BY <2>1, <3>1, NowFields DEF Sound, Told
        <3>3. QED
            BY <2>1, <3>2
    <2>4. QED
        BY <2>2, <2>3
<1>3. QED
    BY <1>1, <1>2, BothSteps

\* A client in a scenario, where it could not make sense of one, is sent no
\* lobby callback, by whatever happens in the lobby (plugin.py:767-771).
THEOREM ScenariosHearNothing == BothSpec => ScenarioHearsNothing
<1> DEFINE Hears == \A s \in Sessions :
                      player[s].scenario /\ player'[s].scenario /\ places'.room[s] = places.room[s] =>
                        roster'[s] \cup ghosts'[s] = roster[s] \cup ghosts[s]
<1>1. BothInit => OutbreakInv
    BY StartSound
<1>2. ASSUME OutbreakInv, [BothNext]_allVars PROVE [Hears]_vars
    <2>1. CASE BothNext
        BY <1>2, <2>1, ScenarioStep
    <2>2. CASE UNCHANGED allVars
        BY <2>2 DEF allVars
    <2>3. QED
        BY <1>2, <2>1, <2>2
<1>3. QED
    BY <1>1, <1>2, OutbreakStep, PTL DEF BothSpec, ScenarioHearsNothing

-----------------------------------------------------------------------------
(***************************************************************************)
(* The answers.                                                            *)
(***************************************************************************)

\* A set that is read in pages.
LEMMA SetIsRead ==
    ASSUME NEW S, IsFiniteSet(S)
    PROVE  RowsRead(ListPages(Seqs!SetToSeq(S), PageRows)) = S
<1> DEFINE n == Cardinality(S)
           f == Seqs!SetToSeq(S)
<1>1. n \in Nat /\ ExistsBijection(1 .. n, S)
    BY FS_CardinalityType
<1>2. PICK g \in Bijection(1 .. n, S) : TRUE
    BY <1>1 DEF ExistsBijection
<1>3. f \in [1 .. n -> S] /\ IsInjective(f)
    <2>1. g \in [1 .. n -> S] /\ IsInjective(g)
        BY <1>2 DEF Bijection, Injection
    <2>2. Seqs!Cardinality(S) = n
        BY DEF Seqs!Cardinality, Cardinality
    <2>3. QED
        BY <2>1, <2>2 DEF Seqs!SetToSeq, IsInjective, Seqs!IsInjective
<1> HIDE DEF f
<1>4. QED
    BY <1>3, EnumerationIsRead, PageAssumption DEF f

\* The Area's room list that is read in pages.
LEMMA RoomListIsRead ==
    ASSUME Shape(places), NEW a
    PROVE  RowsRead(QueryGameRooms(a)) = ListedRooms(places, a)
<1> DEFINE S == OpenRooms(places, a)
           ids == InOrder(S)
           row == [r \in S |-> RoomRow(places, r)]
           rows == [i \in DOMAIN ids |-> RoomRow(places, ids[i])]
<1>1. IsFiniteSet(S) /\ S \subseteq Nat
    <2>1. S \subseteq RoomIds
        BY DEF OpenRooms, RoomsOf, Shape
    <2>2. QED
        BY <2>1, FS_Interval, FS_Subset, PlacesAssumption DEF RoomIds
<1>2. QueryGameRooms(a) = ListPages(rows, PageRows)
    BY DEF QueryGameRooms
<1> HIDE DEF S
<1>3. \A i \in DOMAIN ids : ids[i] \in S
    BY <1>1, InOrderLists
<1>4. rows = [i \in DOMAIN InOrder(S) |-> row[InOrder(S)[i]]]
    <2>1. \A i \in DOMAIN InOrder(S) : row[InOrder(S)[i]] = RoomRow(places, InOrder(S)[i])
        BY <1>3
    <2>2. QED
        BY <2>1
<1> HIDE DEF rows, row, ids
<1>5. RowsRead(ListPages(rows, PageRows)) = {row[r] : r \in S}
    BY <1>1, <1>4, ListingIsRead, PageAssumption
<1>6. QED
    BY <1>2, <1>5 DEF ListedRooms, S, row

\* Who shows s in the lobby, and who must not be told of its leave first.
LEMMA MeetsRelays ==
    ASSUME OutbreakInv, NEW s \in places.live, NEW p \in places.live \ {s}
    PROVE  /\ s \in Sessions /\ p \in Sessions
           /\ p \in Peers(Now, s) /\ Reachable(Now, p) <=> s \in roster[p] /\ ~player[p].scenario
           /\ p \in Peers(Now, s) <=> s \in roster[p] \ player[p].pending
<1>1. /\ Sound(Now) /\ s \in Sessions /\ p \in Sessions /\ Told(Now, p)
      /\ Now.places = places /\ Now.player = player /\ Now.roster = roster
    BY NowFields DEF OutbreakInv, Sound, Agree, Shape
<1>2. p \in Peers(Now, s) <=> places.room[s] # 0 /\ places.room[p] = places.room[s]
    BY <1>1, ListedByPeers
<1>3. CASE places.room[p] = 0
    <2>1. roster[p] = {}
        BY <1>1, <1>3 DEF Told
    <2>2. QED
        BY <1>1, <1>2, <1>3, <2>1
<1>4. CASE places.room[p] # 0
    <2>1. /\ player[p].known /\ (player[p].pending # {} => player[p].scenario)
          /\ roster[p] \ player[p].pending = Listed(places, places.room[p]) \ {p}
        BY <1>1, <1>4 DEF Told
    <2>2. s \in Listed(places, places.room[p]) \ {p} <=> places.room[s] = places.room[p]
        BY DEF Listed
    <2>3. Reachable(Now, p) <=> ~player[p].scenario
        BY <1>1, <2>1 DEF Reachable
    <2>4. QED
        BY <1>1, <1>2, <1>4, <2>1, <2>2, <2>3
<1>5. QED
    BY <1>3, <1>4

LEMMA RelaysAgree == ASSUME OutbreakInv PROVE RelaysMeet /\ RelaysMeet2
<1> SUFFICES ASSUME NEW s \in places.live, NEW p \in places.live \ {s}
             PROVE  /\ p \in RoomChat(s) <=> s \in roster[p] /\ ~player[p].scenario
                    /\ p \in ScenarioPackets(s) <=> s \in roster[p] \ player[p].pending
                    /\ p \in AreaChat(s) => ~player[p].scenario
                    /\ p \in RoomChat2(s) <=> s \in roster[p] /\ ~player[p].scenario
                    /\ p \in ScenarioPackets2(s) <=> s \in roster[p] \ player[p].pending
                    /\ p \in RoomChat2(s) /\ places.lobby[p] = places.lobby[s] /\ places.lobby[s] # 0 =>
                         p \in AreaChat2(s)
                    /\ p \in AreaChat2(s) => ~player[p].scenario
    BY DEF RelaysMeet, RelaysMeet2
<1>1. /\ p \in Peers(Now, s) /\ Reachable(Now, p) <=> s \in roster[p] /\ ~player[p].scenario
      /\ p \in Peers(Now, s) <=> s \in roster[p] \ player[p].pending
    BY MeetsRelays
<1>2. Reachable(Now, p) => ~player[p].scenario
    BY NowFields DEF Reachable
<1>3. RoomChat2(s) = RoomChat(s) /\ ScenarioPackets(s) = Peers(Now, s) /\ ScenarioPackets2(s) = Peers(Now, s)
    BY DEF RoomChat, RoomChat2, ScenarioPackets, ScenarioPackets2, RoomPeers2, Reachable2
<1>4. p \in RoomChat(s) <=> p \in Peers(Now, s) /\ Reachable(Now, p)
    BY DEF RoomChat
<1>5. p \in AreaChat(s) => Reachable(Now, p)
    BY DEF AreaChat
<1>6. p \in AreaChat2(s) <=> places.lobby[s] # 0 /\ places.lobby[p] = places.lobby[s] /\ Reachable(Now, p)
    BY DEF AreaChat2, Reachable2
<1>7. QED
    BY <1>1, <1>2, <1>3, <1>4, <1>5, <1>6

\* What a friend search finds.
LEMMA FoundUser ==
    ASSUME NEW s, NEW n
    PROVE  /\ (\E row \in SearchUsers(s) : row.area = n) <=> player[s].known /\ s \in places.live /\ places.lobby[s] = n
           /\ (\E row \in SearchUsers(s) : row.room = n) <=> player[s].known /\ s \in places.live /\ places.room[s] = n
           /\ SearchUsers(s) # {} <=> player[s].known /\ s \in places.live
<1> DEFINE row == [area |-> places.lobby[s], room |-> places.room[s]]
<1>1. CASE player[s].known /\ s \in places.live
    <2>1. SearchUsers(s) = {row}
        BY <1>1 DEF SearchUsers
    <2>2. row.area = places.lobby[s] /\ row.room = places.room[s]
        OBVIOUS
    <2> HIDE DEF row
    <2>3. QED
        BY <1>1, <2>1, <2>2
<1>2. CASE ~(player[s].known /\ s \in places.live)
    <2>1. SearchUsers(s) = {}
        BY <1>2 DEF SearchUsers
    <2>2. QED
        BY <1>2, <2>1
<1>3. QED
    BY <1>1, <1>2

\* The players of an Area, and a search's limit.
LEMMA AreaAnswers ==
    ASSUME OutbreakInv, NEW a \in Lobbies
    PROVE  LET users == AttributeOf("area", a).USER IN
           /\ [id |-> a, users |-> users, capacity |-> AreaCapacity] \in AreaSearch(0, 0, a, 1) \cap AreaSearch(1, a, 0, a)
           /\ users = Cardinality({s \in Sessions : \E row \in SearchUsers(s) : row.area = a})
           /\ RowsRead(QueryGameRooms(a)) = table[a]
<1>1. /\ Sound(Now) /\ Shape(places) /\ places.live \subseteq Sessions /\ a \in Nat /\ a # 0
      /\ Now.places = places /\ Now.player = player /\ Lobbies \subseteq Nat
    BY NowFields, PlacesAssumption DEF OutbreakInv, Sound, Agree, Shape
<1>2. AttributeOf("area", a).USER = AreaPopulation(a)
    BY DEF AttributeOf
<1>3. [id |-> a, users |-> AreaPopulation(a), capacity |-> AreaCapacity] = AreaRow(a)
    BY DEF AreaRow
<1>4. AreaRow(a) \in AreaSearch(0, 0, a, 1)
    <2> DEFINE found == {a} \cap Lobbies
    <2>1. {b \in found : b < a} = {}
        BY <1>1
    <2>2. Cardinality({b \in found : b < a}) < 1
        BY <2>1, FS_EmptySet
    <2>3. a \in found
        OBVIOUS
    <2>4. AreaSearch(0, 0, a, 1) = {AreaRow(c) : c \in {c \in found : Cardinality({b \in found : b < c}) < 1}}
        BY DEF AreaSearch
    <2> HIDE DEF found
    <2>5. QED
        BY <2>2, <2>3, <2>4
<1>5. AreaRow(a) \in AreaSearch(1, a, 0, a)
    <2> DEFINE found == {c \in Lobbies : 1 <= c /\ c <= a}
               below == {b \in found : b < a}
    <2>1. below \subseteq 1 .. a - 1
        <3> SUFFICES ASSUME NEW b \in Lobbies, 1 <= b, b <= a, b < a PROVE b \in 1 .. a - 1
            OBVIOUS
        <3>1. b \in Nat /\ a \in Nat
            BY <1>1
        <3>2. QED
            BY <3>1
    <2>2. IsFiniteSet(1 .. a - 1) /\ Cardinality(1 .. a - 1) = a - 1
        BY <1>1, FS_Interval
    <2> HIDE DEF below
    <2>3. IsFiniteSet(below) /\ Cardinality(below) <= a - 1 /\ Cardinality(below) \in Nat
        BY <2>1, <2>2, FS_Subset, FS_CardinalityType
    <2>4. Cardinality(below) < a
        BY <1>1, <2>3
    <2>5. a \in found
        BY <1>1
    <2>6. AreaSearch(1, a, 0, a) = {AreaRow(c) : c \in {c \in found : Cardinality({b \in found : b < c}) < a}}
        BY <1>1 DEF AreaSearch
    <2> HIDE DEF found
    <2>7. QED
        BY <2>4, <2>5, <2>6 DEF below
<1>6. AreaPopulation(a) = Cardinality({s \in Sessions : \E row \in SearchUsers(s) : row.area = a})
    <2>1. \A s \in places.live : places.lobby[s] = a => player[s].known
        <3>1. \A s \in Sessions : AreaOf(places, s) # 0 => player[s].known
            BY <1>1 DEF Sound, Told
        <3>2. QED
            BY <1>1, <3>1 DEF AreaOf
    <2>2. {s \in Sessions : \E row \in SearchUsers(s) : row.area = a} = {p \in places.live : places.lobby[p] = a}
        <3>1. ASSUME NEW s \in Sessions
              PROVE  (\E row \in SearchUsers(s) : row.area = a) <=> s \in places.live /\ places.lobby[s] = a
            BY <2>1, FoundUser
        <3>2. QED
            BY <1>1, <3>1, Zenon
    <2>3. QED
        BY <2>2 DEF AreaPopulation
<1>7. RowsRead(QueryGameRooms(a)) = table[a]
    BY <1>1, RoomListIsRead DEF OutbreakInv, RoomListFresh
<1>8. QED
    BY <1>2, <1>3, <1>4, <1>5, <1>6, <1>7

LEMMA RoomAnswers ==
    ASSUME OutbreakInv, NEW r \in Open(places)
    PROVE  LET users == AttributeOf("room", r).USER IN
           /\ RowsRead(QueryUser(r)) = Listed(places, r)
           /\ users = Cardinality(RowsRead(QueryUser(r))) /\ users <= AttributeOf2("room", r).MAXI
           /\ users = Cardinality({s \in Sessions : \E row \in SearchUsers2(s) : row.room = r})
           /\ \A row \in SearchRooms(r) : row.users = users
<1>1. /\ Sound(Now) /\ Shape(places) /\ places.live \subseteq Sessions /\ r \in RoomIds /\ r # 0
      /\ Now.places = places /\ Now.player = player
      /\ places.rooms[r].members = Listed(places, r) /\ places.rooms[r] \in GameRooms
    BY NowFields, PlacesAssumption DEF OutbreakInv, Sound, Agree, Shape, RoomIds
<1> DEFINE M == places.rooms[r].members
<1>2. AttributeOf("room", r).USER = Cardinality(M) /\ AttributeOf2("room", r).MAXI = places.rooms[r].max
    BY DEF AttributeOf, AttributeOf2
<1>3. IsFiniteSet(M) /\ M \cap places.live = M
    <2>1. M \subseteq Sessions /\ M \subseteq places.live
        BY <1>1 DEF Listed
    <2>2. QED
        BY <2>1, FS_Subset, PlacesAssumption
<1>4. RowsRead(QueryUser(r)) = M
    <2>1. QueryUser(r) = ListPages(Seqs!SetToSeq(M), PageRows)
        BY <1>3 DEF QueryUser, Roster
    <2>2. QED
        BY <1>3, <2>1, SetIsRead
<1>5. Cardinality(M) <= places.rooms[r].max
    BY <1>1 DEF GameRooms
<1>6. {s \in Sessions : \E row \in SearchUsers2(s) : row.room = r} = M
    <2>1. \A s \in places.live : places.room[s] = r => player[s].known
        BY <1>1 DEF Sound, Told
    <2>2. {s \in Sessions : \E row \in SearchUsers2(s) : row.room = r} = Listed(places, r)
        <3>1. ASSUME NEW s \in Sessions
              PROVE  (\E row \in SearchUsers2(s) : row.room = r) <=> s \in Listed(places, r)
            BY <2>1, FoundUser DEF SearchUsers2, Listed
        <3>2. Listed(places, r) \subseteq Sessions
            BY <1>1 DEF Listed
        <3>3. QED
            BY <3>1, <3>2, Zenon
    <2>3. QED
        BY <1>1, <2>2
<1>7. \A row \in SearchRooms(r) : row.users = Cardinality(M)
    BY DEF SearchRooms, SearchRow
<1>8. QED
    BY <1>1, <1>2, <1>4, <1>5, <1>6, <1>7

LEMMA AgreeingQueries == ASSUME OutbreakInv PROVE QueriesAgree
<1>1. \A s \in places.live : places.room[s] # 0 => s \in RowsRead(QueryUser2(s, 0))
    <2> SUFFICES ASSUME NEW s \in places.live, places.room[s] # 0 PROVE s \in RowsRead(QueryUser2(s, 0))
        OBVIOUS
    <2>1. places.room[s] \in Open(places)
        BY NowFields DEF OutbreakInv, Sound, Agree
    <2>2. RowsRead(QueryUser2(s, 0)) = Listed(places, places.room[s])
        BY <2>1, RoomAnswers DEF QueryUser2
    <2>3. QED
        BY <2>2 DEF Listed
<1>2. QED
    BY <1>1, AreaAnswers, RoomAnswers DEF QueriesAgree

LEMMA FindsFriends == ASSUME OutbreakInv PROVE FriendFound
<1> SUFFICES ASSUME NEW s \in Sessions, NEW row \in SearchUsers(s), row.room # 0
             PROVE  /\ SearchRooms(row.room) # {}
                    /\ SearchRooms2(row.room, 0, Rules) = SearchRooms(row.room)
    BY FoundUser DEF FriendFound
<1> DEFINE r == row.room
           found == {q \in {r} \cap Open(places) : places.rooms[q].rules \in Rules}
<1>1. Shape(places) /\ r \in Open(places) /\ r \in Nat
    <2>1. s \in places.live /\ places.room[s] = r /\ r # 0
        BY FoundUser
    <2>2. QED
        BY <2>1, NowFields DEF OutbreakInv, Sound, Agree, Shape, RoomIds
<1>0. r # 0
    OBVIOUS
<1> HIDE DEF r
<1>2. SearchRooms(r) = {SearchRow(r)}
    BY <1>1 DEF SearchRooms
<1>3. found = {r}
    BY <1>1 DEF Shape, GameRooms
<1>4. SearchRooms2(r, 0, Rules) = {SearchRow(q) : q \in {q \in found : Cardinality({p \in found : p < q}) < MaxListedRooms}}
    BY <1>0 DEF SearchRooms2
<1> HIDE DEF found
<1>5. {p \in found : p < r} = {}
    BY <1>1, <1>3
<1>6. Cardinality({p \in found : p < r}) < MaxListedRooms
    BY <1>5, FS_EmptySet, ListAssumption
<1>7. {q \in found : Cardinality({p \in found : p < q}) < MaxListedRooms} = {r}
    BY <1>3, <1>6
<1>8. QED
    BY <1>2, <1>4, <1>7 DEF r

LEMMA MeetsPackets == ASSUME OutbreakInv PROVE PacketsMeet
<1>1. ASSUME NEW s \in places.live, NEW p \in places.live \ {s}
      PROVE  /\ p \in ChangeUserProperty(s) <=> s \in roster[p] /\ ~player[p].scenario
             /\ ChangeUserProperty2(s) = ChangeUserProperty(s)
             /\ s \in roster[p] /\ ~player[p].scenario => p \in SendTarget(s, p) \cap SendTarget2(s, p)
             /\ player[p].scenario => p \notin SendTarget(s, p) \cup SendTarget2(s, p)
    <2>1. p \in Peers(Now, s) /\ Reachable(Now, p) <=> s \in roster[p] /\ ~player[p].scenario
        BY MeetsRelays
    <2>2. Reachable(Now, p) => ~player[p].scenario
        BY NowFields DEF Reachable
    <2>3. places.room[s] # 0 <=> places.room[s] \in Open(places)
        BY NowFields DEF OutbreakInv, Sound, Agree, Shape, RoomIds
    <2>4. p \in ChangeUserProperty(s) <=> p \in Peers(Now, s) /\ Reachable(Now, p)
        BY <2>3, NowFields DEF ChangeUserProperty, Peers
    <2>5. /\ p \in SendTarget(s, p) <=> Reachable(Now, p)
          /\ p \in SendTarget2(s, p) <=> Reachable(Now, p)
        BY DEF SendTarget, SendTarget2, Reachable2
    <2>6. QED
        BY <2>1, <2>2, <2>4, <2>5 DEF ChangeUserProperty2
<1>2. ASSUME NEW s \in places.live, NEW reliable \in BOOLEAN, NEW embedded \in BOOLEAN, player[s].scenario
      PROVE  "mirrored" \notin {Echo(s, reliable, embedded), Echo2(s, reliable, embedded)}
    BY <1>2 DEF Echo, Echo2
<1>3. QED
    BY <1>1, <1>2 DEF PacketsMeet

\* Both games' queries, searches and relays tell the same story as the
\* callbacks, in every state (plugins/outbreak/plugin.py:211-315, 417-628,
\* plugins/outbreak2/plugin.py:233-371, 561-613).
THEOREM AnswersAreSound == BothSpec => []OutbreakAnswersSound
<1>1. BothInit => OutbreakInv
    BY StartSound
<1>2. OutbreakInv => OutbreakAnswersSound
    BY RelaysAgree, AgreeingQueries, FindsFriends, MeetsPackets DEF OutbreakAnswersSound
<1>3. QED
    BY <1>1, <1>2, OutbreakStep, PTL DEF BothSpec

=============================================================================
