--------------------------- MODULE MonsterHunterProofs ---------------------------
(***************************************************************************)
(* Monster Hunter's Towns and quests, for any hunters, Areas and limits:   *)
(* whatever leaves, joins, logins and returns interleave, a hunter on a    *)
(* quest keeps its place in one Town, the hunters of a room show each      *)
(* other, and a hunter in a quest hears nothing.                           *)
(*                                                                         *)
(* A handler works on one record of the plugin's and the clients' state,   *)
(* so the invariant is a predicate of such a record, Sound, that holds     *)
(* between a handler's changes too.  A hunter is listed by the room it is  *)
(* in and by the Town it left for a quest, and by no other (Listings): the *)
(* Town is its client's to remember, and no two Towns can both be it.      *)
(* The answers read a part of the invariant, Answering.                    *)
(***************************************************************************)
EXTENDS TownAnswers, RoomsProofs

Players == [area : Lobbies \cup {0}, departing : BOOLEAN, alias : RoomIds \cup {0},
            preparing : BOOLEAN, known : BOOLEAN]

Work(v) ==
    v \in [places : {v.places}, player : [Sessions -> Players],
           departures : [RoomIds -> SUBSET Sessions],
           shown : [Sessions -> SUBSET Sessions], ghosts : [Sessions -> SUBSET Sessions],
           origin : [Sessions -> RoomIds \cup {0}], named : [Sessions -> RoomIds \cup {0}],
           back : [RoomIds -> SUBSET Sessions]]

Listings(w, left) ==
    \A r \in Open(w) : \A s \in w.rooms[r].members :
        /\ s \in w.live /\ w.lobby[s] = w.rooms[r].lobby
        /\ w.room[s] = r \/ (IsTown(w, r) /\ left[s] = r)

\* The Town that a hunter's client remembers lists it while it is elsewhere.
Awaited(w, left) ==
    \A s \in Sessions :
        /\ IsTown(w, w.room[s]) => left[s] = 0
        /\ w.room[s] # 0 /\ ~IsTown(w, w.room[s]) => left[s] # 0
        /\ left[s] # 0 => s \in w.live /\ IsTown(w, left[s]) /\ s \in w.rooms[left[s]].members

Placed(w, left) ==
    /\ InStep(w, {}) /\ Listings(w, left) /\ Awaited(w, left)
    /\ \A s \in Sessions \ w.live : w.lobby[s] = 0

\* What the hunters of a room show, of a quest that runs too; only in a Town
\* does a hunter go by another room's number.
Met(v, s) ==
    LET w == v.places
        r == w.room[s]
        there == Listed(w, r) \ {s}
    IN IF v.player[s].alias = 0 THEN v.shown[s] = there ELSE there \subseteq v.shown[s]

Heard(v, s) ==
    LET r == v.places.room[s] IN
    v.shown[s] \subseteq Listed(v.places, r) \cup v.departures[r] \cup v.back[r]

Shows(v) ==
    /\ \A s \in v.places.live : v.places.room[s] # 0 =>
           IF Started(v.places, v.places.room[s]) THEN Heard(v, s) ELSE Met(v, s)
    /\ \A s \in Sessions : v.player[s].alias # 0 => IsTown(v.places, v.places.room[s])
    /\ \A r \in RoomIds : v.departures[r] # {} => Started(v.places, r)

\* A session in an Area is counted there, and no Area counts too many.
Counted(players, A) == {s \in Sessions : players[s].known /\ players[s].area \in A}

Counts(w, players) ==
    /\ \A s \in Sessions : w.lobby[s] # 0 => s \in Counted(players, {w.lobby[s]})
    /\ \A s \in Sessions : players[s].area # 0 => players[s].known /\ s \in w.live
    /\ \A a \in Lobbies : Cardinality(Counted(players, {a})) <= AreaCapacity
    /\ Cardinality(Counted(players, Lobbies)) <= LandCapacity

\* The id that a hunter's client knows its room by: the room's own, or in its
\* Town again that of the quest room that it came back from.
Named(v) ==
    \A s \in v.places.live : v.places.room[s] # 0 =>
        v.named[s] = IF v.player[s].alias # 0 THEN v.player[s].alias ELSE v.places.room[s]

Sound(v) ==
    /\ Work(v) /\ Placed(v.places, v.origin) /\ Shows(v) /\ Counts(v.places, v.player) /\ Named(v)

TownsInv == Sound(Now) /\ TownTableFresh

-----------------------------------------------------------------------------
\* A hunter leaves: of its rooms it stays listed in a Town that it keeps.
Parted(u, w, s, keep) ==
    /\ Shape(u) /\ u.live = w.live /\ u.lobby = w.lobby /\ u.next = w.next
    /\ \A x \in Sessions : u.room[x] = IF x = s THEN 0 ELSE w.room[x]
    /\ Open(u) \subseteq Open(w)
    /\ \A q \in Open(u) :
           /\ Like(u.rooms[q], w.rooms[q])
           /\ u.rooms[q].members \subseteq w.rooms[q].members
           /\ w.rooms[q].members \ {s} \subseteq u.rooms[q].members
           /\ s \in u.rooms[q].members => keep /\ IsTown(w, q)
    /\ \A q \in Open(w) : w.rooms[q].members \ {s} # {} \/ (q # w.room[s] /\ ~IsTown(w, q)) => q \in Open(u)
    /\ keep => \A q \in Open(w) : IsTown(w, q) =>
                   q \in Open(u) /\ u.rooms[q].members = w.rooms[q].members

LEMMA GoneFields ==
    ASSUME NEW w, NEW left, Placed(w, left), NEW s \in Sessions, NEW keep \in BOOLEAN
    PROVE  Parted(Gone(w, s, keep), w, s, keep)
<1> DEFINE r == w.room[s]
           stays == keep /\ IsTown(w, r)
           out == SetRoom(w, {s}, 0)
           u == IF stays THEN out ELSE Leave(out, r, {s})
           towns == IF keep THEN {} ELSE ListingTowns(u, s)
           open == {q \in Open(u) : q \notin towns \/ u.rooms[q].members # {s}}
           v == Gone(w, s, keep)
<1>0. /\ Shape(w) /\ r \in RoomIds \cup {0} /\ (s \notin w.live => r = 0)
      /\ \A q \in Open(w) : q \in RoomIds /\ q # 0
    BY PlacesAssumption DEF Placed, InStep, Shape, RoomIds
<1>1. /\ Shape(out) /\ out.live = w.live /\ out.rooms = w.rooms /\ out.next = w.next /\ out.lobby = w.lobby
      /\ Open(out) = Open(w) /\ \A x \in Sessions : out.room[x] = IF x = s THEN 0 ELSE w.room[x]
    <2>1. WordsSet(out, w, {s}, 0)
        BY <1>0, SetRoomFields
    <2>2. QED
        BY <1>0, <2>1 DEF WordsSet
<1>2. /\ Shape(u) /\ u.live = w.live /\ u.next = w.next /\ u.lobby = w.lobby
      /\ \A x \in Sessions : u.room[x] = IF x = s THEN 0 ELSE w.room[x]
      /\ Open(u) \subseteq Open(w)
      /\ \A q \in Open(w) : w.rooms[q].members \ {s} # {} \/ stays => q \in Open(u)
      /\ \A q \in Open(w) : q # r => q \in Open(u)
      /\ \A q \in Open(u) :
             /\ Like(u.rooms[q], w.rooms[q])
             /\ u.rooms[q].members = IF q = r /\ ~stays THEN w.rooms[q].members \ {s} ELSE w.rooms[q].members
    <2>1. CASE stays
        BY <1>1, <2>1 DEF Like
    <2>2. CASE ~stays
        <3>1. u = Leave(out, r, {s})
            BY <2>2
        <3> HIDE DEF out
        <3>2. LeftBy(u, out, r, {s})
            BY <1>1, <3>1, LeaveFields
        <3> HIDE DEF u
        <3>3. QED
            BY <1>1, <2>2, <3>2 DEF LeftBy
    <2>3. QED
        BY <2>1, <2>2
<1>3. v = [u EXCEPT !.rooms = [q \in open |-> IF q \in towns THEN [u.rooms[q] EXCEPT !.members = u.rooms[q].members \ {s}]
                                                             ELSE u.rooms[q]]]
    BY DEF Gone
<1> HIDE DEF u, v, out
<1>4. \A q \in Open(u) : s \in u.rooms[q].members /\ ~keep => q \in towns
    <2> SUFFICES ASSUME NEW q \in Open(u), s \in u.rooms[q].members, ~keep PROVE q \in ListingTowns(u, s)
        OBVIOUS
    <2>1. q \in Open(w) /\ q # r /\ s \in w.rooms[q].members /\ Like(u.rooms[q], w.rooms[q])
        BY <1>2
    <2>2. w.lobby[s] = w.rooms[q].lobby /\ IsTown(w, q)
        BY <2>1 DEF Placed, Listings
    <2>3. QED
        BY <1>0, <1>2, <2>1, <2>2 DEF ListingTowns, RoomsOf, IsTown, Like
<1> HIDE DEF towns
<1> DEFINE h == [q \in open |-> IF q \in towns THEN [u.rooms[q] EXCEPT !.members = u.rooms[q].members \ {s}] ELSE u.rooms[q]]
<1>5. \A q \in open : /\ h[q] \in GameRooms /\ Like(h[q], u.rooms[q])
                      /\ h[q].members = IF q \in towns THEN u.rooms[q].members \ {s} ELSE u.rooms[q].members
    <2> SUFFICES ASSUME NEW q \in open
                 PROVE  /\ h[q] \in GameRooms /\ Like(h[q], u.rooms[q])
                        /\ h[q].members = IF q \in towns THEN u.rooms[q].members \ {s} ELSE u.rooms[q].members
        OBVIOUS
    <2>1. u.rooms[q] \in GameRooms
        BY <1>2 DEF Shape
    <2> DEFINE g == u.rooms[q]
    <2>2. CASE q \in towns
        <3>1. h[q] = [g EXCEPT !.members = g.members \ {s}]
            BY <2>2
        <3>2. g.members \ {s} \subseteq g.members
            OBVIOUS
        <3> HIDE DEF g, h
        <3>3. QED
            BY <2>1, <2>2, <3>1, <3>2, FewerFit DEF g
    <2>3. CASE q \notin towns
        BY <2>1, <2>3 DEF Like
    <2>4. QED
        BY <2>2, <2>3
<1>6. h \in [open -> GameRooms]
    BY <1>5
<1> HIDE DEF h
<1>7. /\ v \in [live : SUBSET Sessions, lobby : [Sessions -> Lobbies \cup {0}],
                room : [Sessions -> RoomIds \cup {0}], rooms : {v.rooms}, next : 1 .. MaxRoomId + 1]
      /\ v.live = u.live /\ v.room = u.room /\ v.lobby = u.lobby /\ v.next = u.next /\ v.rooms = h
    BY <1>2, <1>3 DEF Shape, h
<1>8. Open(v) = open
    BY <1>6, <1>7 DEF Open
<1>9. Shape(v)
    BY <1>2, <1>6, <1>7, <1>8 DEF Shape
<1>10. \A q \in open : /\ Like(v.rooms[q], w.rooms[q])
                       /\ v.rooms[q].members \subseteq w.rooms[q].members
                       /\ w.rooms[q].members \ {s} \subseteq v.rooms[q].members
    <2> SUFFICES ASSUME NEW q \in open
                 PROVE  /\ Like(v.rooms[q], w.rooms[q])
                        /\ v.rooms[q].members \subseteq w.rooms[q].members
                        /\ w.rooms[q].members \ {s} \subseteq v.rooms[q].members
        OBVIOUS
    <2>1. q \in Open(u) /\ v.rooms[q] = h[q]
        BY <1>7
    <2>2. Like(h[q], u.rooms[q]) /\ Like(u.rooms[q], w.rooms[q])
        BY <1>2, <1>5, <2>1
    <2>3. Like(v.rooms[q], w.rooms[q])
        BY <2>1, <2>2 DEF Like
    <2>4. v.rooms[q].members = IF q \in towns THEN u.rooms[q].members \ {s} ELSE u.rooms[q].members
        BY <1>5, <2>1
    <2>5. v.rooms[q].members \subseteq u.rooms[q].members /\ u.rooms[q].members \ {s} \subseteq v.rooms[q].members
        BY <2>4
    <2>6. u.rooms[q].members \subseteq w.rooms[q].members /\ w.rooms[q].members \ {s} \subseteq u.rooms[q].members
        BY <1>2, <2>1
    <2> DEFINE vm == v.rooms[q].members
               um == u.rooms[q].members
               wm == w.rooms[q].members
    <2>7. vm \subseteq um /\ um \ {s} \subseteq vm /\ um \subseteq wm /\ wm \ {s} \subseteq um
        BY <2>5, <2>6
    <2> HIDE DEF vm, um, wm
    <2>8. vm \subseteq wm /\ wm \ {s} \subseteq vm
        BY <2>7
    <2>9. QED
        BY <2>3, <2>8 DEF vm, wm
<1>11. \A q \in open : s \in v.rooms[q].members => keep /\ IsTown(w, q)
    <2> SUFFICES ASSUME NEW q \in open, s \in v.rooms[q].members PROVE keep /\ IsTown(w, q)
        OBVIOUS
    <2>1. s \in u.rooms[q].members /\ q \notin towns
        BY <1>5, <1>7
    <2>2. keep
        BY <1>4, <2>1
    <2>3. q \in Open(w) /\ s \in w.rooms[q].members /\ (q # r \/ stays)
        BY <1>2, <2>1
    <2>4. QED
        BY <2>2, <2>3 DEF Placed, Listings
<1>12. \A q \in Open(w) : w.rooms[q].members \ {s} # {} \/ (q # r /\ ~IsTown(w, q)) => q \in open
    <2>1. \A q \in towns : q \in Open(u) /\ IsTown(w, q)
        BY <1>2 DEF towns, ListingTowns, RoomsOf, IsTown, Like
    <2>2. QED
        BY <1>2, <2>1
<1>13. ASSUME keep, NEW q \in Open(w), IsTown(w, q)
       PROVE  q \in open /\ v.rooms[q].members = w.rooms[q].members
    <2>1. towns = {}
        BY <1>13 DEF towns
    <2>2. q \in Open(u) /\ u.rooms[q].members = w.rooms[q].members
        BY <1>2, <1>13
    <2>3. QED
        BY <1>5, <1>7, <2>1, <2>2
<1>14. QED
    BY <1>2, <1>7, <1>8, <1>9, <1>10, <1>11, <1>12, <1>13 DEF Parted, v

-----------------------------------------------------------------------------
\* What the others' clients show when a hunter leaves: the ones that shared
\* its room are told, or will be when they are back from the quest.
Forgets(c, v, s) ==
    LET w == v.places
        r == w.room[s]
    IN \A x \in Sessions \ {s} :
           /\ IF x \in Listed(w, r) /\ r # 0
              THEN \/ c.shown[x] = v.shown[x] \ {s}
                   \/ c.shown[x] = v.shown[x] /\ Started(w, r)
                      /\ (r \in Open(c.places) => s \in c.departures[r] \cup c.back[r])
              ELSE c.shown[x] = v.shown[x]
           /\ InStartedQuest(w, x) => c.shown[x] \cup c.ghosts[x] = v.shown[x] \cup v.ghosts[x]

TakenOut(c, v, s, keep, t) ==
    /\ Work(c) /\ Parted(c.places, v.places, s, keep)
    /\ Forgets(c, v, s) /\ c.shown[s] = {} /\ \A x \in Sessions \ {s} : c.named[x] = v.named[x]
    /\ \A x \in Sessions : /\ c.origin[x] = IF x = s THEN t ELSE v.origin[x]
                           /\ c.player[x].alias = IF x = s THEN 0 ELSE v.player[x].alias
                           /\ c.player[x].area = v.player[x].area
                           /\ c.player[x].known = v.player[x].known
    /\ \A q \in RoomIds : /\ c.departures[q] # {} => q \in Open(c.places) /\ Started(v.places, q)
                          /\ q \in Open(c.places) => v.departures[q] \subseteq c.departures[q]
                          /\ v.back[q] \subseteq c.back[q]

LEMMA UnmarkedFields ==
    ASSUME NEW players \in [Sessions -> Players], NEW s \in Sessions
    PROVE  /\ Unmarked(players, s) \in [Sessions -> Players]
           /\ \A x \in Sessions :
                  /\ Unmarked(players, s)[x].alias = IF x = s THEN 0 ELSE players[x].alias
                  /\ Unmarked(players, s)[x].area = players[x].area
                  /\ Unmarked(players, s)[x].known = players[x].known
<1>1. players[s] \in Players
    OBVIOUS
<1>2. Unmarked(players, s) = [players EXCEPT ![s] = [players[s] EXCEPT !.alias = 0, !.preparing = FALSE]]
    BY DEF Unmarked, Players
<1> DEFINE p == [players[s] EXCEPT !.alias = 0, !.preparing = FALSE]
<1>3. p \in Players /\ p.alias = 0 /\ p.area = players[s].area /\ p.known = players[s].known
    BY <1>1 DEF Players
<1> HIDE DEF p
<1>4. QED
    BY <1>2, <1>3 DEF p

LEMMA ClearedFields ==
    ASSUME NEW v, Work(v), NEW s \in Sessions, NEW t \in RoomIds \cup {0}
    PROVE  LET c == Cleared(v, s, t) IN
           /\ Work(c) /\ c.places = v.places /\ c.player = v.player /\ c.departures = v.departures
           /\ c.back = v.back
           /\ \A x \in Sessions : /\ c.shown[x] = IF x = s THEN {} ELSE v.shown[x]
                                  /\ c.ghosts[x] = IF x = s THEN {} ELSE v.ghosts[x]
                                  /\ c.origin[x] = IF x = s THEN t ELSE v.origin[x]
                                  /\ c.named[x] = IF x = s THEN 0 ELSE v.named[x]
BY DEF Cleared, Work

\* The others of the room it leaves are told.
LEMMA ToldFields ==
    ASSUME NEW v, Work(v), Shape(v.places), NEW s \in Sessions
    PROVE  LET u == Told(v, s)
               r == v.places.room[s]
           IN  /\ Work(u) /\ u.places = v.places /\ u.player = v.player /\ u.departures = v.departures
               /\ u.origin = v.origin /\ u.back = v.back /\ u.named = v.named
               /\ \A x \in Sessions :
                      IF x \in Listed(v.places, r) \ {s} /\ r # 0
                      THEN u.shown[x] = v.shown[x] \ {s} /\ u.ghosts[x] = v.ghosts[x] \ {s}
                      ELSE u.shown[x] = v.shown[x] /\ u.ghosts[x] = v.ghosts[x]
<1> DEFINE r == v.places.room[s]
           there == IF r = 0 THEN {} ELSE Listed(v.places, r) \ {s}
           f == Without(v.shown, there, s)
           g == Without(v.ghosts, there, s)
           u == Told(v, s)
<1>1. v.shown \in [Sessions -> SUBSET Sessions] /\ v.ghosts \in [Sessions -> SUBSET Sessions]
    BY DEF Work
<1> HIDE DEF there, f, g
<1>2. /\ f \in [Sessions -> SUBSET Sessions] /\ g \in [Sessions -> SUBSET Sessions]
      /\ \A x \in Sessions : /\ f[x] = IF x \in there THEN v.shown[x] \ {s} ELSE v.shown[x]
                             /\ g[x] = IF x \in there THEN v.ghosts[x] \ {s} ELSE v.ghosts[x]
    BY <1>1 DEF Without, With, f, g
<1>3. u = [v EXCEPT !.shown = f, !.ghosts = g]
    BY DEF Told, f, g, there
<1> HIDE DEF u
<1>4. /\ Work(u) /\ u.shown = f /\ u.ghosts = g
      /\ u.places = v.places /\ u.player = v.player /\ u.departures = v.departures /\ u.origin = v.origin
      /\ u.back = v.back /\ u.named = v.named
    BY <1>2, <1>3 DEF Work
<1>5. QED
    BY <1>2, <1>4 DEF u, there

\* Nobody is told of a KICS login's leave: a list shows a ghost instead.
LEMMA UntoldFields ==
    ASSUME NEW v, Work(v), Shape(v.places), NEW s \in Sessions
    PROVE  LET u == Untold(v, s)
               r == v.places.room[s]
           IN  /\ Work(u) /\ u.places = v.places /\ u.player = v.player /\ u.departures = v.departures
               /\ u.origin = v.origin /\ u.back = v.back /\ u.named = v.named
               /\ \A x \in Sessions :
                      /\ u.shown[x] \cup u.ghosts[x] = v.shown[x] \cup v.ghosts[x]
                      /\ u.shown[x] = IF x \in Listed(v.places, r) \ {s} /\ r # 0
                                      THEN v.shown[x] \ {s} ELSE v.shown[x]
<1> DEFINE r == v.places.room[s]
           viewers == {m \in Listed(v.places, r) \ {s} : r # 0 /\ s \in v.shown[m]}
           f == Without(v.shown, viewers, s)
           g == With(v.ghosts, viewers, s)
           u == Untold(v, s)
<1>1. v.shown \in [Sessions -> SUBSET Sessions] /\ v.ghosts \in [Sessions -> SUBSET Sessions]
    BY DEF Work
<1> HIDE DEF viewers, f, g
<1>2. /\ f \in [Sessions -> SUBSET Sessions] /\ g \in [Sessions -> SUBSET Sessions]
      /\ \A x \in Sessions : /\ f[x] = IF x \in viewers THEN v.shown[x] \ {s} ELSE v.shown[x]
                             /\ g[x] = IF x \in viewers THEN v.ghosts[x] \cup {s} ELSE v.ghosts[x]
    BY <1>1 DEF Without, With, f, g
<1>3. u = [v EXCEPT !.shown = f, !.ghosts = g]
    BY DEF Untold, f, g, viewers
<1> HIDE DEF u
<1>4. /\ Work(u) /\ u.shown = f /\ u.ghosts = g
      /\ u.places = v.places /\ u.player = v.player /\ u.departures = v.departures /\ u.origin = v.origin
      /\ u.back = v.back /\ u.named = v.named
    BY <1>2, <1>3 DEF Work
<1>5. QED
    BY <1>1, <1>2, <1>4 DEF u, viewers

\* What Detach and DetachSilently do to the plugin's record, whoever is told.
DetachedBy(d, h, gone, s, r, kept) ==
    d = [h EXCEPT !.places = gone, !.player = Unmarked(@, s),
                  !.departures = [q \in RoomIds |-> IF q = r /\ r \notin Open(gone) THEN {}
                                                    ELSE IF q = r /\ kept THEN @[q] \cup {s}
                                                    ELSE @[q]]]

\* The others of its room are told, or the departure is kept for them.
Informed(h, v, s, kept) ==
    LET r == v.places.room[s] IN
    /\ Work(h) /\ h.departures = v.departures /\ h.player = v.player /\ h.origin = v.origin /\ h.back = v.back
    /\ h.named = v.named
    /\ kept => Started(v.places, r)
    /\ \A x \in Sessions \ {s} :
           /\ IF x \in Listed(v.places, r) /\ r # 0
              THEN \/ h.shown[x] = v.shown[x] \ {s}
                   \/ h.shown[x] = v.shown[x] /\ kept
              ELSE h.shown[x] = v.shown[x]
           /\ InStartedQuest(v.places, x) => h.shown[x] \cup h.ghosts[x] = v.shown[x] \cup v.ghosts[x]

DetachedFields(d, h, gone, s, r, kept) ==
    /\ Work(d) /\ d.places = gone /\ d.shown = h.shown /\ d.ghosts = h.ghosts /\ d.origin = h.origin
    /\ d.back = h.back /\ d.named = h.named
    /\ \A x \in Sessions : /\ d.player[x].alias = IF x = s THEN 0 ELSE h.player[x].alias
                           /\ d.player[x].area = h.player[x].area
                           /\ d.player[x].known = h.player[x].known
    /\ \A q \in RoomIds : d.departures[q] = IF q = r /\ r \notin Open(gone) THEN {}
                                            ELSE IF q = r /\ kept THEN h.departures[q] \cup {s}
                                            ELSE h.departures[q]

LEMMA DetachFields ==
    ASSUME NEW h, Work(h), NEW gone, NEW s \in Sessions, NEW r, NEW kept \in BOOLEAN,
           NEW d, DetachedBy(d, h, gone, s, r, kept)
    PROVE  DetachedFields(d, h, gone, s, r, kept)
<1> DEFINE f == Unmarked(h.player, s)
           g == [q \in RoomIds |-> IF q = r /\ r \notin Open(gone) THEN {}
                                   ELSE IF q = r /\ kept THEN h.departures[q] \cup {s}
                                   ELSE h.departures[q]]
<1>1. h.player \in [Sessions -> Players] /\ h.departures \in [RoomIds -> SUBSET Sessions]
    BY DEF Work
<1>2. d = [h EXCEPT !.places = gone, !.player = f, !.departures = g]
    BY DEF DetachedBy, Work
<1>3. /\ f \in [Sessions -> Players]
      /\ \A x \in Sessions : /\ f[x].alias = IF x = s THEN 0 ELSE h.player[x].alias
                             /\ f[x].area = h.player[x].area
                             /\ f[x].known = h.player[x].known
    BY <1>1, UnmarkedFields
<1>4. /\ g \in [RoomIds -> SUBSET Sessions]
      /\ \A q \in RoomIds : g[q] = IF q = r /\ r \notin Open(gone) THEN {}
                                   ELSE IF q = r /\ kept THEN h.departures[q] \cup {s}
                                   ELSE h.departures[q]
    BY <1>1
<1> HIDE DEF f, g
<1>5. /\ Work(d) /\ d.places = gone /\ d.player = f /\ d.departures = g
      /\ d.shown = h.shown /\ d.ghosts = h.ghosts /\ d.origin = h.origin /\ d.back = h.back
      /\ d.named = h.named
    BY <1>2, <1>3, <1>4 DEF Work
<1>6. QED
    BY <1>3, <1>4, <1>5 DEF DetachedFields

\* A session that leaves, with the others told or not, is out of its room.
LEMMA LeaverIsOut ==
    ASSUME NEW v, Sound(v), NEW s \in Sessions, NEW keep \in BOOLEAN, NEW t \in RoomIds \cup {0},
           NEW h, NEW kept \in BOOLEAN, NEW d,
           Informed(h, v, s, kept), DetachedBy(d, h, Gone(v.places, s, keep), s, v.places.room[s], kept)
    PROVE  TakenOut(Cleared(d, s, t), v, s, keep, t) /\ Work(d)
<1> DEFINE w == v.places
           r == w.room[s]
           gone == Gone(w, s, keep)
           c == Cleared(d, s, t)
<1>1. Placed(w, v.origin) /\ Shape(w) /\ Shows(v)
    BY DEF Sound, Placed, InStep
<1>2. Parted(gone, w, s, keep)
    BY <1>1, GoneFields
<1> HIDE DEF gone
<1>3. /\ Work(d) /\ d.places = gone /\ d.shown = h.shown /\ d.ghosts = h.ghosts /\ d.origin = h.origin
      /\ d.back = h.back /\ d.named = h.named
      /\ \A x \in Sessions : /\ d.player[x].alias = IF x = s THEN 0 ELSE h.player[x].alias
                             /\ d.player[x].area = h.player[x].area
                             /\ d.player[x].known = h.player[x].known
      /\ \A q \in RoomIds : d.departures[q] = IF q = r /\ r \notin Open(gone) THEN {}
                                              ELSE IF q = r /\ kept THEN h.departures[q] \cup {s}
                                              ELSE h.departures[q]
    <2>1. Work(h) /\ DetachedBy(d, h, gone, s, r, kept)
        BY DEF gone, Informed
    <2>2. DetachedFields(d, h, gone, s, r, kept)
        BY <2>1, DetachFields
    <2>3. QED
        BY <2>2 DEF DetachedFields
<1>4. /\ Work(c) /\ c.places = d.places /\ c.player = d.player /\ c.departures = d.departures /\ c.back = d.back
      /\ \A x \in Sessions : /\ c.shown[x] = IF x = s THEN {} ELSE d.shown[x]
                             /\ c.ghosts[x] = IF x = s THEN {} ELSE d.ghosts[x]
                             /\ c.origin[x] = IF x = s THEN t ELSE d.origin[x]
                             /\ c.named[x] = IF x = s THEN 0 ELSE d.named[x]
    BY <1>3, ClearedFields
<1> HIDE DEF c
<1>. USE DEF Informed
<1>5. r \in RoomIds \cup {0}
    BY <1>1 DEF Shape
<1>6. Forgets(c, v, s)
    <2> SUFFICES ASSUME NEW x \in Sessions \ {s}
                 PROVE  /\ IF x \in Listed(w, r) /\ r # 0
                           THEN \/ c.shown[x] = v.shown[x] \ {s}
                                \/ c.shown[x] = v.shown[x] /\ Started(w, r)
                                   /\ (r \in Open(c.places) => s \in c.departures[r] \cup c.back[r])
                           ELSE c.shown[x] = v.shown[x]
                        /\ InStartedQuest(w, x) => c.shown[x] \cup c.ghosts[x] = v.shown[x] \cup v.ghosts[x]
        BY DEF Forgets
    <2>1. c.shown[x] = h.shown[x] /\ c.ghosts[x] = h.ghosts[x]
        BY <1>3, <1>4
    <2>2. kept /\ r # 0 => Started(w, r) /\ (r \in Open(c.places) => s \in c.departures[r])
        BY <1>3, <1>4, <1>5
    <2>3. QED
        BY <2>1, <2>2
<1>7. \A q \in RoomIds : /\ c.departures[q] # {} => q \in Open(gone) /\ Started(w, q)
                         /\ q \in Open(gone) => v.departures[q] \subseteq c.departures[q]
    <2> SUFFICES ASSUME NEW q \in RoomIds
                 PROVE  /\ c.departures[q] # {} => q \in Open(gone) /\ Started(w, q)
                        /\ q \in Open(gone) => v.departures[q] \subseteq c.departures[q]
        OBVIOUS
    <2>1. v.departures[q] # {} => Started(w, q)
        BY <1>1 DEF Shows
    <2>2. q # r /\ Started(w, q) => q \in Open(gone)
        BY <1>2, RulesAssumption DEF Parted, Started, IsTown, TownRules
    <2>3. CASE q = r
        <3>1. c.departures[q] = d.departures[q]
            BY <1>4
        <3>2. QED
            BY <1>3, <2>1, <2>3, <3>1
    <2>4. CASE q # r
        BY <1>3, <1>4, <2>1, <2>2, <2>4
    <2>5. QED
        BY <2>3, <2>4
<1>8. \A x \in Sessions : /\ c.origin[x] = IF x = s THEN t ELSE v.origin[x]
                          /\ c.player[x].alias = IF x = s THEN 0 ELSE v.player[x].alias
                          /\ c.player[x].area = v.player[x].area
                          /\ c.player[x].known = v.player[x].known
    BY <1>3, <1>4
<1>9. /\ Work(c) /\ c.places = gone /\ c.shown[s] = {} /\ c.back = v.back
      /\ \A x \in Sessions \ {s} : c.named[x] = v.named[x]
    BY <1>3, <1>4
<1>10. TakenOut(c, v, s, keep, t)
    BY <1>2, <1>6, <1>7, <1>8, <1>9 DEF TakenOut
<1>11. QED
    BY <1>3, <1>10 DEF c

LEMMA DetachTakesOut ==
    ASSUME NEW v, Sound(v), NEW s \in Sessions, NEW keep \in BOOLEAN, NEW t \in RoomIds \cup {0}
    PROVE  TakenOut(Cleared(Detach(v, s, keep), s, t), v, s, keep, t) /\ Work(Detach(v, s, keep))
<1> DEFINE r == v.places.room[s]
           gone == Gone(v.places, s, keep)
           h == IF Started(v.places, r) THEN v ELSE Told(v, s)
           kept == Started(v.places, r)
           d == Detach(v, s, keep)
<1>1. Work(v) /\ Shape(v.places) /\ r \in RoomIds \cup {0}
    BY DEF Sound, Placed, InStep, Shape
<1>2. DetachedBy(d, h, gone, s, r, kept)
    BY DEF Detach, DetachedBy
<1>3. /\ Work(h) /\ h.departures = v.departures /\ h.player = v.player /\ h.origin = v.origin /\ h.back = v.back
      /\ h.named = v.named
      /\ \A x \in Sessions \ {s} :
             IF x \in Listed(v.places, r) /\ r # 0 /\ ~kept
             THEN h.shown[x] = v.shown[x] \ {s}
             ELSE h.shown[x] = v.shown[x] /\ h.ghosts[x] = v.ghosts[x]
    <2>1. CASE kept
        BY <1>1, <2>1
    <2>2. CASE ~kept
        <3>1. h = Told(v, s)
            BY <2>2
        <3> HIDE DEF h
        <3>2. QED
            BY <1>1, <2>2, <3>1, ToldFields
    <2>3. QED
        BY <2>1, <2>2
<1> HIDE DEF h, d
<1>4. \A x \in Sessions \ {s} :
          /\ IF x \in Listed(v.places, r) /\ r # 0
             THEN \/ h.shown[x] = v.shown[x] \ {s}
                  \/ h.shown[x] = v.shown[x] /\ kept
             ELSE h.shown[x] = v.shown[x]
          /\ InStartedQuest(v.places, x) => h.shown[x] \cup h.ghosts[x] = v.shown[x] \cup v.ghosts[x]
    BY <1>3 DEF InStartedQuest, Listed
<1>5. kept \in BOOLEAN
    BY DEF Started
<1> HIDE DEF kept
<1>6. kept => Started(v.places, r)
    BY DEF kept
<1>7. Informed(h, v, s, kept)
    BY <1>3, <1>4, <1>6 DEF Informed
<1>8. TakenOut(Cleared(d, s, t), v, s, keep, t) /\ Work(d)
    BY <1>2, <1>5, <1>7, LeaverIsOut
<1>9. QED
    BY <1>8 DEF d

LEMMA SilentTakesOut ==
    ASSUME NEW v, Sound(v), NEW s \in Sessions
    PROVE  TakenOut(Cleared(DetachSilently(v, s), s, 0), v, s, FALSE, 0)
<1> DEFINE r == v.places.room[s]
           gone == Gone(v.places, s, FALSE)
           h == Untold(v, s)
           d == DetachSilently(v, s)
<1>1. Work(v) /\ Shape(v.places) /\ r \in RoomIds \cup {0}
    BY DEF Sound, Placed, InStep, Shape
<1>2. DetachedBy(d, h, gone, s, r, FALSE)
    BY DEF DetachSilently, DetachedBy
<1>3. /\ Work(h) /\ h.departures = v.departures /\ h.player = v.player /\ h.origin = v.origin /\ h.back = v.back
      /\ h.named = v.named
      /\ \A x \in Sessions :
             /\ h.shown[x] \cup h.ghosts[x] = v.shown[x] \cup v.ghosts[x]
             /\ h.shown[x] = IF x \in Listed(v.places, r) \ {s} /\ r # 0
                             THEN v.shown[x] \ {s} ELSE v.shown[x]
    BY <1>1, UntoldFields
<1> HIDE DEF h, d
<1>4. Informed(h, v, s, FALSE)
    BY <1>3 DEF Informed
<1>5. TakenOut(Cleared(d, s, 0), v, s, FALSE, 0)
    BY <1>2, <1>4, LeaverIsOut
<1>6. QED
    BY <1>5 DEF d

-----------------------------------------------------------------------------
\* Whoever else is in a room or on a quest keeps its place and its Town.
PartedAs(u, w, left, s) ==
    /\ \A q \in Open(u) : /\ IsTown(u, q) <=> IsTown(w, q)
                          /\ Started(u, q) <=> Started(w, q)
                          /\ IsTown(w, q) <=> u.rooms[q].rules \in TownRules
    /\ \A x \in Sessions \ {s} :
           /\ w.room[x] # 0 => w.room[x] \in Open(u) /\ x \in u.rooms[w.room[x]].members
           /\ left[x] # 0 => IsTown(u, left[x]) /\ x \in u.rooms[left[x]].members
    /\ \A q : q # 0 => Listed(u, q) = Listed(w, q) \ {s}

LEMMA PartedRooms ==
    ASSUME NEW u, NEW w, NEW left, Placed(w, left), NEW s \in Sessions, NEW keep \in BOOLEAN, Parted(u, w, s, keep)
    PROVE  PartedAs(u, w, left, s)
<1>1. Shape(w) /\ Shape(u) /\ Open(u) \subseteq Open(w) /\ u.live = w.live
    BY DEF Placed, InStep, Parted
<1>2. \A q \in Open(u) : /\ (IsTown(u, q) <=> IsTown(w, q)) /\ (Started(u, q) <=> Started(w, q))
                         /\ (IsTown(w, q) <=> u.rooms[q].rules \in TownRules)
    BY <1>1 DEF Parted, Like, IsTown, Started
<1>3. ASSUME NEW x \in Sessions \ {s}, NEW q \in Open(w), x \in w.rooms[q].members
      PROVE  q \in Open(u) /\ x \in u.rooms[q].members
    BY <1>3 DEF Parted
<1>4. ASSUME NEW x \in Sessions \ {s}, w.room[x] # 0
      PROVE  w.room[x] \in Open(u) /\ x \in u.rooms[w.room[x]].members
    <2>1. x \in w.live /\ InItsRoom(w, x)
        BY <1>1, <1>4 DEF Placed, InStep, Shape
    <2>2. QED
        BY <1>3, <1>4, <2>1 DEF InItsRoom
<1>5. ASSUME NEW x \in Sessions \ {s}, left[x] # 0
      PROVE  IsTown(u, left[x]) /\ x \in u.rooms[left[x]].members
    <2>1. IsTown(w, left[x]) /\ x \in w.rooms[left[x]].members
        BY <1>5 DEF Placed, Awaited
    <2>2. left[x] \in Open(w)
        BY <2>1 DEF IsTown
    <2>3. left[x] \in Open(u) /\ x \in u.rooms[left[x]].members
        BY <1>3, <2>1, <2>2
    <2>4. QED
        BY <1>2, <2>1, <2>3
<1>6. \A q : q # 0 => Listed(u, q) = Listed(w, q) \ {s}
    BY <1>1 DEF Parted, Listed, Shape
<1>7. QED
    BY <1>2, <1>4, <1>5, <1>6 DEF PartedAs

\* The Town that the hunter keeps, if any, is the one its client remembers.
KeepsTown(w, s, keep, t) ==
    /\ t # 0 => keep /\ IsTown(w, t) /\ s \in w.rooms[t].members
    /\ keep => \A q \in Open(w) : IsTown(w, q) /\ s \in w.rooms[q].members => q = t

Remembers(kept, left, s, t) == \A x \in Sessions : kept[x] = IF x = s THEN t ELSE left[x]

LEMMA PartedIsPlaced ==
    ASSUME NEW u, NEW w, NEW left, Placed(w, left), NEW s \in Sessions, NEW keep \in BOOLEAN, Parted(u, w, s, keep),
           NEW t, NEW kept, Remembers(kept, left, s, t), KeepsTown(w, s, keep, t)
    PROVE  Placed(u, kept)
<1>. USE DEF Remembers, KeepsTown
<1>1. Shape(w) /\ Shape(u) /\ Open(u) \subseteq Open(w) /\ u.live = w.live /\ u.lobby = w.lobby
    BY DEF Placed, InStep, Parted
<1>2. \A q \in Open(u) : (IsTown(u, q) <=> IsTown(w, q))
    BY PartedRooms DEF PartedAs
<1>3. \A x \in Sessions \ {s} :
          /\ w.room[x] # 0 => w.room[x] \in Open(u) /\ x \in u.rooms[w.room[x]].members
          /\ left[x] # 0 => IsTown(u, left[x]) /\ x \in u.rooms[left[x]].members
    BY PartedRooms DEF PartedAs
<1>4. \A x \in Sessions : u.room[x] = IF x = s THEN 0 ELSE w.room[x]
    BY DEF Parted
<1>5. \A q \in Open(u) : q \in RoomIds /\ q # 0
    BY <1>1, PlacesAssumption DEF Shape, RoomIds
<1>6. InStep(u, {})
    BY <1>1, <1>3, <1>4 DEF InStep, InItsRoom, Shape
<1>7. ASSUME NEW q \in Open(u), NEW x \in u.rooms[q].members
      PROVE  /\ x \in u.live /\ u.lobby[x] = u.rooms[q].lobby
             /\ u.room[x] = q \/ (IsTown(u, q) /\ kept[x] = q)
    <2>1. q \in Open(w) /\ x \in w.rooms[q].members /\ u.rooms[q].lobby = w.rooms[q].lobby
        BY <1>7 DEF Parted, Like
    <2>2. /\ x \in w.live /\ w.lobby[x] = w.rooms[q].lobby
          /\ w.room[x] = q \/ (IsTown(w, q) /\ left[x] = q)
        BY <2>1 DEF Placed, Listings
    <2>3. x \in Sessions
        BY <1>1, <2>2 DEF Shape
    <2>4. CASE x # s
        BY <1>1, <1>2, <1>4, <2>1, <2>2, <2>3, <2>4
    <2>5. CASE x = s
        <3>1. keep /\ IsTown(w, q)
            BY <1>7, <2>5 DEF Parted
        <3>2. q = t
            BY <2>1, <2>5, <3>1
        <3>3. QED
            BY <1>1, <1>2, <2>1, <2>2, <2>3, <2>5, <3>1, <3>2
    <2>6. QED
        BY <2>4, <2>5
<1>8. ASSUME NEW x \in Sessions
      PROVE  /\ IsTown(u, u.room[x]) => kept[x] = 0
             /\ u.room[x] # 0 /\ ~IsTown(u, u.room[x]) => kept[x] # 0
             /\ kept[x] # 0 => x \in u.live /\ IsTown(u, kept[x]) /\ x \in u.rooms[kept[x]].members
    <2>1. CASE x # s
        <3>1. kept[x] = left[x] /\ u.room[x] = w.room[x]
            BY <1>4, <2>1
        <3>2. /\ IsTown(w, w.room[x]) => left[x] = 0
              /\ w.room[x] # 0 /\ ~IsTown(w, w.room[x]) => left[x] # 0
              /\ left[x] # 0 => x \in w.live
            BY DEF Placed, Awaited
        <3>3. IsTown(u, w.room[x]) => w.room[x] \in Open(u)
            BY DEF IsTown
        <3>4. QED
            BY <1>1, <1>2, <1>3, <2>1, <3>1, <3>2, <3>3
    <2>2. CASE x = s
        <3>1. u.room[x] = 0 /\ kept[x] = t /\ ~IsTown(u, 0)
            BY <1>4, <1>5, <2>2 DEF IsTown
        <3>2. ASSUME t # 0 PROVE x \in u.live /\ IsTown(u, t) /\ x \in u.rooms[t].members
            <4>1. keep /\ IsTown(w, t) /\ t \in Open(w) /\ s \in w.rooms[t].members
                BY <3>2 DEF IsTown
            <4>2. t \in Open(u) /\ u.rooms[t].members = w.rooms[t].members
                BY <4>1 DEF Parted
            <4>3. s \in w.live
                BY <4>1 DEF Placed, Listings
            <4>4. QED
                BY <1>1, <1>2, <2>2, <4>1, <4>2, <4>3
        <3>3. QED
            BY <3>1, <3>2
    <2>3. QED
        BY <2>1, <2>2
<1>9. \A x \in Sessions \ u.live : u.lobby[x] = 0
    BY <1>1 DEF Placed
<1>10. QED
    BY <1>6, <1>7, <1>8, <1>9 DEF Placed, Listings, Awaited

LEMMA CountsLike ==
    ASSUME NEW w, NEW players, Counts(w, players), NEW u, NEW others, u.lobby = w.lobby, u.live = w.live,
           \A x \in Sessions : others[x].area = players[x].area /\ others[x].known = players[x].known
    PROVE  Counts(u, others)
<1>1. \A A : Counted(others, A) = Counted(players, A)
    BY DEF Counted
<1>2. QED
    BY <1>1 DEF Counts

LEMMA OutShows ==
    ASSUME NEW v, Sound(v), NEW s \in Sessions, NEW keep \in BOOLEAN, NEW t, NEW c, TakenOut(c, v, s, keep, t)
    PROVE  Shows(c)
<1> DEFINE w == v.places
           u == c.places
           r == w.room[s]
<1>1. /\ Shape(w) /\ Shape(u) /\ Open(u) \subseteq Open(w) /\ u.live = w.live
      /\ Placed(w, v.origin) /\ Parted(u, w, s, keep) /\ Shows(v) /\ Work(v) /\ Work(c) /\ Forgets(c, v, s)
    BY DEF Sound, Placed, InStep, Parted, TakenOut
<1>2. PartedAs(u, w, v.origin, s)
    BY <1>1, PartedRooms
<1>3. \A q \in Open(u) : (IsTown(u, q) <=> IsTown(w, q)) /\ (Started(u, q) <=> Started(w, q))
    BY <1>2 DEF PartedAs
<1>4. /\ \A x \in Sessions \ {s} :
             w.room[x] # 0 => w.room[x] \in Open(u) /\ x \in u.rooms[w.room[x]].members
      /\ \A q : q # 0 => Listed(u, q) = Listed(w, q) \ {s}
    BY <1>2 DEF PartedAs
<1>5. \A x \in Sessions : u.room[x] = IF x = s THEN 0 ELSE w.room[x]
    BY <1>1 DEF Parted
<1>6. \A x \in Sessions : c.player[x].alias = IF x = s THEN 0 ELSE v.player[x].alias
    BY DEF TakenOut
<1>7. ASSUME NEW x \in u.live, u.room[x] # 0
      PROVE  IF Started(u, u.room[x]) THEN Heard(c, x) ELSE Met(c, x)
    <2> DEFINE q == w.room[x]
    <2>1. x \in Sessions \ {s} /\ x \in w.live /\ u.room[x] = q /\ q # 0 /\ q \in RoomIds
        BY <1>1, <1>5, <1>7 DEF Shape
    <2>2. q \in Open(u) /\ (Started(u, q) <=> Started(w, q)) /\ Listed(u, q) = Listed(w, q) \ {s}
        BY <1>3, <1>4, <2>1
    <2>3. v.shown[x] \subseteq Sessions
        BY <1>1, <2>1 DEF Work
    <2>4. IF q = r
          THEN \/ c.shown[x] = v.shown[x] \ {s}
               \/ c.shown[x] = v.shown[x] /\ Started(w, r) /\ s \in c.departures[r] \cup c.back[r]
          ELSE c.shown[x] = v.shown[x] /\ s \notin Listed(w, q)
        <3>1. x \in Listed(w, r) <=> q = r
            BY <2>1 DEF Listed
        <3>2. q # r => s \notin Listed(w, q)
            BY DEF Listed
        <3>3. QED
            BY <1>1, <2>1, <2>2, <3>1, <3>2 DEF Forgets
    <2>5. CASE Started(w, q)
        <3>1. v.shown[x] \subseteq Listed(w, q) \cup v.departures[q] \cup v.back[q]
            BY <1>1, <2>1, <2>5 DEF Shows, Heard
        <3>2. v.departures[q] \subseteq c.departures[q] /\ v.back[q] \subseteq c.back[q]
            BY <2>1, <2>2 DEF TakenOut
        <3>3. c.shown[x] \subseteq Listed(u, q) \cup c.departures[q] \cup c.back[q]
            BY <1>1, <2>2, <2>4, <3>1, <3>2
        <3>4. Heard(c, x)
            BY <2>1, <3>3 DEF Heard
        <3>5. QED
            BY <2>1, <2>2, <2>5, <3>4
    <2>6. CASE ~Started(w, q)
        <3> DEFINE there == Listed(w, q) \ {x}
        <3>1. IF v.player[x].alias = 0 THEN v.shown[x] = there ELSE there \subseteq v.shown[x]
            BY <1>1, <2>1, <2>6 DEF Shows, Met
        <3>2. c.player[x].alias = v.player[x].alias
            BY <1>6, <2>1
        <3>3. c.shown[x] = v.shown[x] \ {s} \/ (c.shown[x] = v.shown[x] /\ s \notin Listed(w, q))
            BY <2>4, <2>6
        <3>4. Listed(u, q) \ {x} = there \ {s}
            BY <2>2
        <3> HIDE DEF there
        <3>5. s \notin Listed(w, q) => s \notin there
            BY DEF there
        <3>6. IF c.player[x].alias = 0 THEN c.shown[x] = there \ {s} ELSE there \ {s} \subseteq c.shown[x]
            BY <3>1, <3>2, <3>3, <3>5
        <3>7. Met(c, x)
            BY <2>1, <3>4, <3>6 DEF Met
        <3>8. QED
            BY <2>1, <2>2, <2>6, <3>7
    <2>7. QED
        BY <2>5, <2>6
<1>8. ASSUME NEW x \in Sessions, c.player[x].alias # 0 PROVE IsTown(u, u.room[x])
    <2>1. x # s /\ IsTown(w, w.room[x])
        BY <1>1, <1>6, <1>8 DEF Shows
    <2>2. w.room[x] \in Open(w) /\ w.room[x] # 0
        BY <1>1, <2>1, PlacesAssumption DEF IsTown, Shape, RoomIds
    <2>3. QED
        BY <1>3, <1>4, <1>5, <2>1, <2>2
<1>9. \A q \in RoomIds : c.departures[q] # {} => Started(u, q)
    BY <1>3 DEF TakenOut
<1>10. QED
    BY <1>7, <1>8, <1>9 DEF Shows

\* A hunter that has left its room, for a quest from the Town it keeps or for
\* good, leaves the hunters' places and lists as they should be.
LEMMA OutIsSound ==
    ASSUME NEW v, Sound(v), NEW s \in Sessions, NEW keep \in BOOLEAN, NEW t, NEW c, TakenOut(c, v, s, keep, t),
           KeepsTown(v.places, s, keep, t)
    PROVE  Sound(c)
<1>1. Work(c) /\ Placed(v.places, v.origin) /\ Parted(c.places, v.places, s, keep) /\ Counts(v.places, v.player)
    BY DEF Sound, TakenOut
<1>2. Remembers(c.origin, v.origin, s, t)
    BY DEF TakenOut, Remembers
<1>3. Placed(c.places, c.origin)
    BY <1>1, <1>2, PartedIsPlaced
<1>4. Shows(c)
    BY OutShows
<1>5. c.places.lobby = v.places.lobby /\ c.places.live = v.places.live
    BY <1>1 DEF Parted
<1>6. \A x \in Sessions : c.player[x].area = v.player[x].area /\ c.player[x].known = v.player[x].known
    BY DEF TakenOut
<1>7. Counts(c.places, c.player)
    BY <1>1, <1>5, <1>6, CountsLike
<1>8. Named(c)
    <2> SUFFICES ASSUME NEW x \in c.places.live, c.places.room[x] # 0
                 PROVE  c.named[x] = IF c.player[x].alias # 0 THEN c.player[x].alias ELSE c.places.room[x]
        BY DEF Named
    <2>1. x \in Sessions \ {s} /\ c.places.room[x] = v.places.room[x] /\ x \in v.places.live
        BY <1>1 DEF Parted, Shape
    <2>2. c.named[x] = v.named[x] /\ c.player[x].alias = v.player[x].alias
        BY <2>1 DEF TakenOut
    <2>3. QED
        BY <2>1, <2>2 DEF Sound, Named
<1>9. QED
    BY <1>1, <1>3, <1>4, <1>7, <1>8 DEF Sound

-----------------------------------------------------------------------------
\* A hunter that is in no room and left no Town may come, go and change Area.
Absent(c, s) ==
    /\ c.places.room[s] = 0 /\ c.origin[s] = 0 /\ c.player[s].alias = 0
    /\ \A q \in Open(c.places) : s \notin c.places.rooms[q].members

Resettled(e, c, s) ==
    /\ Work(e) /\ WordsMoved(e.places, c.places)
    /\ e.shown = c.shown /\ e.ghosts = c.ghosts
    /\ e.departures = c.departures /\ e.origin = c.origin /\ e.back = c.back /\ e.named = c.named
    /\ \A x \in Sessions : /\ e.places.room[x] = c.places.room[x] /\ e.player[x].alias = c.player[x].alias
                           /\ x # s => /\ e.places.lobby[x] = c.places.lobby[x]
                                       /\ x \in e.places.live <=> x \in c.places.live
    /\ s \notin e.places.live => e.places.lobby[s] = 0

LEMMA ResettledIsSound ==
    ASSUME NEW c, Sound(c), NEW s \in Sessions, Absent(c, s), NEW e, Resettled(e, c, s), Counts(e.places, e.player)
    PROVE  Sound(e)
<1> DEFINE w == c.places
           u == e.places
<1>1. /\ Work(e) /\ Shape(u) /\ Shape(w) /\ u.rooms = w.rooms /\ Open(u) = Open(w) /\ Placed(w, c.origin)
      /\ e.shown = c.shown /\ e.departures = c.departures /\ e.origin = c.origin /\ e.back = c.back /\ Shows(c)
      /\ w.room[s] = 0
    BY DEF Sound, Placed, InStep, Resettled, WordsMoved, Absent
<1>2. \A x \in Sessions : /\ u.room[x] = w.room[x] /\ e.player[x].alias = c.player[x].alias
                          /\ x # s => u.lobby[x] = w.lobby[x] /\ (x \in u.live <=> x \in w.live)
    BY DEF Resettled
<1>3. \A q : IsTown(u, q) <=> IsTown(w, q)
    BY <1>1 DEF IsTown
<1>4. \A q : Started(u, q) <=> Started(w, q)
    BY <1>1 DEF Started
<1>5. \A q : q # 0 => Listed(u, q) = Listed(w, q)
    BY <1>1, <1>2 DEF Listed, Shape
<1>6. InStep(u, {})
    BY <1>1, <1>2 DEF Placed, InStep, InItsRoom, Shape
<1>7. Listings(u, e.origin)
    <2> SUFFICES ASSUME NEW q \in Open(u), NEW x \in u.rooms[q].members
                 PROVE  /\ x \in u.live /\ u.lobby[x] = u.rooms[q].lobby
                        /\ u.room[x] = q \/ (IsTown(u, q) /\ e.origin[x] = q)
        BY DEF Listings
    <2>1. x # s
        BY <1>1 DEF Absent
    <2>2. /\ x \in w.live /\ w.lobby[x] = w.rooms[q].lobby
          /\ w.room[x] = q \/ (IsTown(w, q) /\ c.origin[x] = q)
        BY <1>1 DEF Placed, Listings
    <2>3. x \in Sessions
        BY <1>1, <2>2 DEF Shape
    <2>4. QED
        BY <1>1, <1>2, <1>3, <2>1, <2>2, <2>3
<1>8. Awaited(u, e.origin)
    <2> SUFFICES ASSUME NEW x \in Sessions
                 PROVE  /\ IsTown(u, u.room[x]) => e.origin[x] = 0
                        /\ u.room[x] # 0 /\ ~IsTown(u, u.room[x]) => e.origin[x] # 0
                        /\ e.origin[x] # 0 => x \in u.live /\ IsTown(u, e.origin[x])
                                              /\ x \in u.rooms[e.origin[x]].members
        BY DEF Awaited
    <2>1. /\ IsTown(w, w.room[x]) => c.origin[x] = 0
          /\ w.room[x] # 0 /\ ~IsTown(w, w.room[x]) => c.origin[x] # 0
          /\ c.origin[x] # 0 => x \in w.live /\ IsTown(w, c.origin[x]) /\ x \in w.rooms[c.origin[x]].members
        BY <1>1 DEF Placed, Awaited
    <2>2. c.origin[x] # 0 => x # s
        BY DEF Absent
    <2>3. QED
        BY <1>1, <1>2, <1>3, <2>1, <2>2
<1>9. \A x \in Sessions \ u.live : u.lobby[x] = 0
    BY <1>1, <1>2 DEF Placed, Resettled
<1>10. ASSUME NEW x \in u.live, u.room[x] # 0
       PROVE  IF Started(u, u.room[x]) THEN Heard(e, x) ELSE Met(e, x)
    <2>1. x \in Sessions /\ x \in w.live /\ u.room[x] = w.room[x]
        BY <1>1, <1>2, <1>10 DEF Shape
    <2>2. IF Started(w, w.room[x]) THEN Heard(c, x) ELSE Met(c, x)
        BY <1>1, <1>10, <2>1 DEF Shows
    <2>3. Listed(u, u.room[x]) = Listed(w, w.room[x])
        BY <1>5, <1>10, <2>1
    <2>4. Heard(c, x) => Heard(e, x)
        BY <1>1, <2>1, <2>3 DEF Heard
    <2>5. Met(c, x) => Met(e, x)
        BY <1>1, <1>2, <2>1, <2>3 DEF Met
    <2>6. QED
        BY <1>4, <2>1, <2>2, <2>4, <2>5
<1>11. Shows(e)
    BY <1>1, <1>2, <1>3, <1>4, <1>10 DEF Shows
<1>12. Named(e)
    <2> SUFFICES ASSUME NEW x \in u.live, u.room[x] # 0
                 PROVE  e.named[x] = IF e.player[x].alias # 0 THEN e.player[x].alias ELSE u.room[x]
        BY DEF Named
    <2>1. x \in Sessions /\ u.room[x] = w.room[x] /\ e.player[x].alias = c.player[x].alias /\ x \in w.live
        BY <1>1, <1>2 DEF Shape
    <2>2. e.named[x] = c.named[x]
        BY DEF Resettled
    <2>3. QED
        BY <2>1, <2>2 DEF Sound, Named
<1>13. QED
    BY <1>1, <1>6, <1>7, <1>8, <1>9, <1>11, <1>12 DEF Sound, Placed

\* A hunter that leaves its Area or its game makes room in it.
Leaner(u, others, w, players, s) ==
    /\ \A x \in Sessions : x # s => /\ others[x].area = players[x].area /\ others[x].known = players[x].known
                                    /\ u.lobby[x] = w.lobby[x] /\ (x \in w.live => x \in u.live)
    /\ others[s].area \in {0, players[s].area} /\ (others[s].area # 0 => others[s].known /\ s \in u.live)
    /\ u.lobby[s] = 0 \/ (u.lobby[s] = w.lobby[s] /\ others[s].area = players[s].area)

LEMMA CountsFewer ==
    ASSUME NEW w, NEW players, Counts(w, players), NEW s \in Sessions, NEW u, NEW others,
           Leaner(u, others, w, players, s)
    PROVE  Counts(u, others)
<1>. USE DEF Leaner
<1>1. \A A : 0 \notin A => Counted(others, A) \subseteq Counted(players, A)
    BY DEF Counted, Counts
<1>2. \A x \in Sessions : others[x].area # 0 => others[x].known /\ x \in u.live
    BY DEF Counts
<1>3. \A x \in Sessions : u.lobby[x] # 0 => x \in Counted(others, {u.lobby[x]})
    <2> SUFFICES ASSUME NEW x \in Sessions, u.lobby[x] # 0 PROVE others[x].known /\ others[x].area = u.lobby[x]
        BY DEF Counted
    <2>1. u.lobby[x] = w.lobby[x] /\ others[x].area = players[x].area
        OBVIOUS
    <2>2. x \in Counted(players, {w.lobby[x]})
        BY <2>1 DEF Counts
    <2>3. others[x].area = u.lobby[x]
        BY <2>1, <2>2 DEF Counted
    <2>4. QED
        BY <1>2, <2>3
<1>4. \A A : 0 \notin A => Cardinality(Counted(others, A)) <= Cardinality(Counted(players, A))
    <2> SUFFICES ASSUME NEW A, 0 \notin A
                 PROVE  Cardinality(Counted(others, A)) <= Cardinality(Counted(players, A))
        OBVIOUS
    <2>1. IsFiniteSet(Counted(players, A))
        BY PlacesAssumption, FS_Subset DEF Counted
    <2>2. QED
        BY <1>1, <2>1, FS_Subset
<1>5. \A A : Cardinality(Counted(others, A)) \in Nat /\ Cardinality(Counted(players, A)) \in Nat
    BY PlacesAssumption, FS_Subset, FS_CardinalityType DEF Counted
<1>6. \A a \in Lobbies : Cardinality(Counted(others, {a})) <= AreaCapacity
    <2> SUFFICES ASSUME NEW a \in Lobbies PROVE Cardinality(Counted(others, {a})) <= AreaCapacity
        OBVIOUS
    <2>1. 0 \notin {a} /\ Cardinality(Counted(players, {a})) <= AreaCapacity
        BY PlacesAssumption DEF Counts
    <2>2. QED
        BY <1>4, <1>5, <2>1, CapacityAssumption
<1>7. Cardinality(Counted(others, Lobbies)) <= LandCapacity
    <2>1. 0 \notin Lobbies /\ Cardinality(Counted(players, Lobbies)) <= LandCapacity
        BY PlacesAssumption DEF Counts
    <2>2. QED
        BY <1>4, <1>5, <2>1, CapacityAssumption
<1>8. QED
    BY <1>2, <1>3, <1>6, <1>7 DEF Counts

\* JoinArea's counterpart: who comes into an Area leaves another.
LEMMA CountsOneMore ==
    ASSUME NEW w, NEW players, Counts(w, players), NEW s \in Sessions, NEW a \in Lobbies, NEW u, NEW others,
           \A x \in Sessions : x # s => /\ others[x].area = players[x].area /\ others[x].known = players[x].known
                                        /\ u.lobby[x] = w.lobby[x] /\ (x \in w.live => x \in u.live),
           others[s].area = a, others[s].known, u.lobby[s] = a, s \in u.live,
           Cardinality(Counted(players, {a}) \ {s}) < AreaCapacity,
           Cardinality(Counted(players, Lobbies) \ {s}) < LandCapacity
    PROVE  Counts(u, others)
<1>0. /\ \A A : IsFiniteSet(Counted(others, A)) /\ IsFiniteSet(Counted(players, A) \ {s}) /\ IsFiniteSet(Counted(players, A))
      /\ \A A : Cardinality(Counted(others, A)) \in Nat /\ Cardinality(Counted(players, A) \ {s}) \in Nat
                /\ Cardinality(Counted(players, A)) \in Nat
    <2>1. \A A : Counted(others, A) \in SUBSET Sessions /\ Counted(players, A) \in SUBSET Sessions
                 /\ Counted(players, A) \ {s} \in SUBSET Sessions
        BY DEF Counted
    <2>2. QED
        BY <2>1, PlacesAssumption, FS_Subset, FS_CardinalityType
<1>1. \A A : a \in A => Counted(others, A) = (Counted(players, A) \ {s}) \cup {s}
    BY DEF Counted
<1>2. \A A : a \in A => Cardinality(Counted(others, A)) = Cardinality(Counted(players, A) \ {s}) + 1
    <2> SUFFICES ASSUME NEW A, a \in A
                 PROVE  Cardinality(Counted(others, A)) = Cardinality(Counted(players, A) \ {s}) + 1
        OBVIOUS
    <2> DEFINE P == Counted(players, A) \ {s}
    <2>1. IsFiniteSet(P) /\ s \notin P /\ Counted(others, A) = P \cup {s}
        BY <1>0, <1>1
    <2> HIDE DEF P
    <2>2. Cardinality(P \cup {s}) = Cardinality(P) + 1
        BY <2>1, FS_AddElement
    <2>3. QED
        BY <2>1, <2>2 DEF P
<1>3. \A b \in Lobbies : Cardinality(Counted(others, {b})) <= AreaCapacity
    <2> SUFFICES ASSUME NEW b \in Lobbies PROVE Cardinality(Counted(others, {b})) <= AreaCapacity
        OBVIOUS
    <2>1. CASE b = a
        <3>1. Cardinality(Counted(others, {b})) = Cardinality(Counted(players, {b}) \ {s}) + 1
            BY <1>2, <2>1
        <3>2. Cardinality(Counted(players, {b}) \ {s}) < AreaCapacity /\ Cardinality(Counted(players, {b}) \ {s}) \in Nat
            BY <1>0, <2>1
        <3>3. QED
            BY <3>1, <3>2, CapacityAssumption
    <2>2. CASE b # a
        <3>1. Counted(others, {b}) \in SUBSET Counted(players, {b})
            BY <2>2 DEF Counted
        <3>2. Cardinality(Counted(others, {b})) <= Cardinality(Counted(players, {b}))
            BY <1>0, <3>1, FS_Subset
        <3>3. Cardinality(Counted(players, {b})) <= AreaCapacity
            BY DEF Counts
        <3>4. Cardinality(Counted(others, {b})) \in Nat /\ Cardinality(Counted(players, {b})) \in Nat
            BY <1>0
        <3>5. QED
            BY <3>2, <3>3, <3>4, CapacityAssumption
    <2>3. QED
        BY <2>1, <2>2
<1>4. Cardinality(Counted(others, Lobbies)) <= LandCapacity
    BY <1>0, <1>2, CapacityAssumption
<1>5. \A x \in Sessions : others[x].area # 0 => others[x].known /\ x \in u.live
    BY DEF Counts
<1>6. \A x \in Sessions : u.lobby[x] # 0 => x \in Counted(others, {u.lobby[x]})
    BY DEF Counts, Counted
<1>7. QED
    BY <1>3, <1>4, <1>5, <1>6 DEF Counts

-----------------------------------------------------------------------------
\* A hunter in a quest that runs hears nothing of what s does.
Unheard(e, v, s) ==
    \A x \in Sessions \ {s} :
        InStartedQuest(v.places, x) => /\ InStartedQuest(e.places, x)
                                       /\ e.shown[x] \cup e.ghosts[x] = v.shown[x] \cup v.ghosts[x]

Hears(e, v, s) ==
    /\ Unheard(e, v, s)
    /\ InStartedQuest(v.places, s) => ~InStartedQuest(e.places, s)
    /\ e.player[s].alias = 0

LEMMA OutHears ==
    ASSUME NEW v, Sound(v), NEW s \in Sessions, NEW keep \in BOOLEAN, NEW t, NEW c, TakenOut(c, v, s, keep, t)
    PROVE  Hears(c, v, s) /\ ~InStartedQuest(c.places, s) /\ c.places.room[s] = 0
<1> DEFINE w == v.places
           u == c.places
<1>1. /\ Placed(w, v.origin) /\ Parted(u, w, s, keep) /\ Forgets(c, v, s) /\ Shape(w) /\ Shape(u)
      /\ u.live = w.live /\ c.player[s].alias = 0
    BY DEF Sound, TakenOut, Placed, InStep, Parted
<1>2. PartedAs(u, w, v.origin, s)
    BY <1>1, PartedRooms
<1>3. \A x \in Sessions : u.room[x] = IF x = s THEN 0 ELSE w.room[x]
    BY <1>1 DEF Parted
<1>4. \A q \in Open(w) : q # 0
    BY <1>1, PlacesAssumption DEF Shape, RoomIds
<1>5. ~InStartedQuest(u, s) /\ u.room[s] = 0
    <2>1. \A q \in Open(u) : q # 0
        BY <1>1, PlacesAssumption DEF Shape, RoomIds
    <2>2. QED
        BY <1>3, <2>1 DEF InStartedQuest, Started
<1>6. ASSUME NEW x \in Sessions \ {s}, InStartedQuest(w, x)
      PROVE  InStartedQuest(u, x) /\ c.shown[x] \cup c.ghosts[x] = v.shown[x] \cup v.ghosts[x]
    <2>1. x \in w.live /\ w.room[x] \in Open(w) /\ Started(w, w.room[x])
        BY <1>6 DEF InStartedQuest, Started
    <2>2. w.room[x] \in Open(u) /\ u.room[x] = w.room[x]
        BY <1>2, <1>3, <1>4, <2>1 DEF PartedAs
    <2>3. Started(u, u.room[x])
        BY <1>2, <2>1, <2>2 DEF PartedAs
    <2>4. QED
        BY <1>1, <1>6, <2>1, <2>3 DEF InStartedQuest, Forgets
<1>7. QED
    BY <1>1, <1>5, <1>6 DEF Hears, Unheard

\* A hunter that keeps no Town's list is in no list at all.
LEMMA LeftForGood ==
    ASSUME NEW v, Sound(v), NEW s \in Sessions, NEW c, TakenOut(c, v, s, FALSE, 0)
    PROVE  Sound(c) /\ Absent(c, s) /\ Hears(c, v, s)
<1>1. Sound(c)
    <2>1. KeepsTown(v.places, s, FALSE, 0)
        BY DEF KeepsTown
    <2>2. QED
        BY <2>1, OutIsSound
<1>2. Hears(c, v, s) /\ c.places.room[s] = 0
    BY OutHears
<1>3. Absent(c, s)
    BY <1>2 DEF Absent, TakenOut, Parted
<1>4. QED
    BY <1>1, <1>2, <1>3

\* What the handlers change after that: the session's word or its record.
Recorded(e, c, s, u, p) ==
    /\ Work(e) /\ e.places = u /\ e.shown = c.shown /\ e.ghosts = c.ghosts
    /\ e.departures = c.departures /\ e.origin = c.origin /\ e.back = c.back /\ e.named = c.named
    /\ \A x \in Sessions : e.player[x] = IF x = s THEN p ELSE c.player[x]

LEMMA RecordedFields ==
    ASSUME NEW c, Work(c), NEW s \in Sessions, NEW u, NEW p \in Players
    PROVE  Recorded([c EXCEPT !.player[s] = p, !.places = u], c, s, u, p)
<1> DEFINE f == [c.player EXCEPT ![s] = p]
           e == [c EXCEPT !.player[s] = p, !.places = u]
<1>1. e = [c EXCEPT !.player = f, !.places = u]
    BY DEF Work
<1>2. c.player \in [Sessions -> Players]
    BY DEF Work
<1>3. f \in [Sessions -> Players] /\ \A x \in Sessions : f[x] = IF x = s THEN p ELSE c.player[x]
    BY <1>2
<1> HIDE DEF e, f
<1>4. /\ Work(e) /\ e.places = u /\ e.player = f /\ e.shown = c.shown /\ e.ghosts = c.ghosts
      /\ e.departures = c.departures /\ e.origin = c.origin /\ e.back = c.back /\ e.named = c.named
    BY <1>1, <1>3 DEF Work
<1>5. Recorded(e, c, s, u, p)
    BY <1>3, <1>4 DEF Recorded
<1>6. QED
    BY <1>5 DEF e

\* The places and the record that an absent hunter may get.
OneMoved(u, w, s) ==
    /\ WordsMoved(u, w)
    /\ \A x \in Sessions : /\ u.room[x] = w.room[x]
                           /\ x # s => u.lobby[x] = w.lobby[x] /\ (x \in u.live <=> x \in w.live)
    /\ s \notin u.live => u.lobby[s] = 0

LEMMA RecordedIsSound ==
    ASSUME NEW v, NEW c, Sound(c), NEW s \in Sessions, Absent(c, s), Hears(c, v, s),
           NEW u, NEW p, p.alias = 0, NEW e, Recorded(e, c, s, u, p),
           OneMoved(u, c.places, s), Counts(e.places, e.player)
    PROVE  Sound(e) /\ Hears(e, v, s)
<1>. USE DEF OneMoved
<1>1. e.places = u /\ \A x \in Sessions : e.player[x] = IF x = s THEN p ELSE c.player[x]
    BY DEF Recorded
<1>2. \A x \in Sessions : e.player[x].alias = c.player[x].alias
    BY <1>1 DEF Absent
<1>3. Resettled(e, c, s)
    BY <1>1, <1>2 DEF Recorded, Resettled
<1>4. Sound(e)
    BY <1>3, ResettledIsSound
<1>5. \A q : Started(u, q) <=> Started(c.places, q)
    BY DEF WordsMoved, Started
<1>6. \A x \in Sessions \ {s} : InStartedQuest(u, x) <=> InStartedQuest(c.places, x)
    BY <1>5 DEF InStartedQuest
<1>7. ~InStartedQuest(u, s)
    <2>1. u.room[s] = 0 /\ \A q \in Open(u) : q # 0
        BY PlacesAssumption DEF Absent, WordsMoved, Shape, RoomIds
    <2>2. QED
        BY <2>1 DEF InStartedQuest, Started
<1>8. Hears(e, v, s)
    BY <1>1, <1>6, <1>7 DEF Hears, Unheard, Recorded
<1>9. QED
    BY <1>4, <1>8

-----------------------------------------------------------------------------
LEMMA ForgottenIsPlayer == Forgotten \in Players /\ Forgotten.alias = 0 /\ Forgotten.area = 0
BY DEF Forgotten, Players

LEMMA EndIsSound ==
    ASSUME NEW v, Sound(v), NEW s \in Sessions
    PROVE  Sound(EndedBy(v, s)) /\ Hears(EndedBy(v, s), v, s)
<1> DEFINE c == Cleared(Detach(v, s, FALSE), s, 0)
           u == Remove(c.places, s)
           e == EndedBy(v, s)
<1>1. Sound(c) /\ Absent(c, s) /\ Hears(c, v, s)
    BY DetachTakesOut, LeftForGood
<1>2. e = [c EXCEPT !.player[s] = Forgotten, !.places = u]
    BY DEF EndedBy
<1> HIDE DEF c, e
<1>3. Work(c) /\ Shape(c.places) /\ Counts(c.places, c.player)
    BY <1>1 DEF Sound, Placed, InStep
<1>4. Recorded(e, c, s, u, Forgotten)
    BY <1>2, <1>3, ForgottenIsPlayer, RecordedFields
<1>5. /\ WordsMoved(u, c.places) /\ u.live = c.places.live \ {s}
      /\ \A x \in Sessions : /\ u.room[x] = IF x = s THEN 0 ELSE c.places.room[x]
                             /\ u.lobby[x] = IF x = s THEN 0 ELSE c.places.lobby[x]
    BY <1>3, RemoveFields
<1> HIDE DEF u
<1>6. e.places = u /\ e.player[s].area = 0 /\ \A x \in Sessions : x # s => e.player[x] = c.player[x]
    BY <1>4, ForgottenIsPlayer DEF Recorded
<1>7. Counts(e.places, e.player)
    <2>1. Leaner(u, e.player, c.places, c.player, s)
        BY <1>5, <1>6 DEF Leaner
    <2>2. QED
        BY <1>3, <1>6, <2>1, CountsFewer
<1>8. OneMoved(u, c.places, s)
    BY <1>1, <1>5 DEF Absent, OneMoved
<1>9. QED
    BY <1>1, <1>4, <1>7, <1>8, ForgottenIsPlayer, RecordedIsSound DEF e

\* Logout and Area changes set the lobby word of a hunter that has left its room.
LobbySet(e, c, s, l, p) == e = [c EXCEPT !.player[s] = p, !.places = SetLobby(c.places, s, l)]

LEMMA LobbySetIsSound ==
    ASSUME NEW v, NEW c, Sound(c), NEW s \in c.places.live, Absent(c, s), Hears(c, v, s),
           NEW l \in Lobbies \cup {0}, NEW p \in Players, p.alias = 0,
           NEW e, LobbySet(e, c, s, l, p),
           Counts(e.places, e.player)
    PROVE  Sound(e) /\ Hears(e, v, s)
<1> DEFINE u == SetLobby(c.places, s, l)
<1>1. Work(c) /\ Shape(c.places) /\ s \in Sessions
    BY DEF Sound, Placed, InStep, Shape
<1>2. Recorded(e, c, s, u, p)
    BY <1>1, RecordedFields DEF LobbySet
<1>3. /\ WordsMoved(u, c.places) /\ u.live = c.places.live /\ u.room = c.places.room
      /\ \A x \in Sessions : u.lobby[x] = IF x = s THEN l ELSE c.places.lobby[x]
    BY <1>1, SetLobbyFields
<1> HIDE DEF u
<1>4. OneMoved(u, c.places, s)
    BY <1>1, <1>3 DEF OneMoved
<1>5. QED
    BY <1>1, <1>2, <1>4, RecordedIsSound

OnlyWordsSet(e, c, s, l, p) ==
    /\ e.player[s] = p /\ e.places.lobby[s] = l /\ e.places.live = c.places.live
    /\ \A x \in Sessions : x # s => e.player[x] = c.player[x] /\ e.places.lobby[x] = c.places.lobby[x]

LEMMA LobbySetFields ==
    ASSUME NEW c, Sound(c), NEW s \in Sessions, NEW l \in Lobbies \cup {0}, NEW p \in Players,
           NEW e, LobbySet(e, c, s, l, p)
    PROVE  OnlyWordsSet(e, c, s, l, p)
<1>1. Work(c) /\ Shape(c.places)
    BY DEF Sound, Placed, InStep
<1>2. Recorded(e, c, s, SetLobby(c.places, s, l), p)
    BY <1>1, RecordedFields DEF LobbySet
<1>3. /\ SetLobby(c.places, s, l).live = c.places.live
      /\ \A x \in Sessions : SetLobby(c.places, s, l).lobby[x] = IF x = s THEN l ELSE c.places.lobby[x]
    BY <1>1, SetLobbyFields
<1>4. QED
    BY <1>2, <1>3 DEF Recorded, OnlyWordsSet

\* A hunter that is out of its lobby and in no Area.
LEMMA UnlobbiedIsSound ==
    ASSUME NEW v, NEW c, Sound(c), NEW s \in c.places.live, Absent(c, s), Hears(c, v, s),
           NEW p \in Players, p.alias = 0, p.area = 0,
           NEW e, LobbySet(e, c, s, 0, p)
    PROVE  Sound(e) /\ Hears(e, v, s)
<1>1. Counts(c.places, c.player) /\ s \in Sessions
    BY DEF Sound, Placed, InStep, Shape
<1>2. /\ e.player[s] = p /\ e.places.lobby[s] = 0 /\ e.places.live = c.places.live
      /\ \A x \in Sessions : x # s => e.player[x] = c.player[x] /\ e.places.lobby[x] = c.places.lobby[x]
    <2>1. OnlyWordsSet(e, c, s, 0, p)
        BY <1>1, LobbySetFields
    <2>2. QED
        BY <2>1 DEF OnlyWordsSet
<1>3. Leaner(e.places, e.player, c.places, c.player, s)
    <2> DEFINE ew == e.places
               cw == c.places
               ep == e.player
               cp == c.player
    <2>1. \A x \in Sessions : x # s => /\ ep[x].area = cp[x].area /\ ep[x].known = cp[x].known
                                      /\ ew.lobby[x] = cw.lobby[x] /\ (x \in cw.live => x \in ew.live)
        BY <1>2
    <2>2. ep[s].area = 0 /\ ew.lobby[s] = 0
        BY <1>2
    <2> HIDE DEF ew, cw, ep, cp
    <2>3. Leaner(ew, ep, cw, cp, s)
        BY <2>1, <2>2 DEF Leaner
    <2>4. QED
        BY <2>3 DEF ew, cw, ep, cp
<1>4. Counts(e.places, e.player)
    BY <1>1, <1>3, CountsFewer
<1>5. QED
    BY <1>4, LobbySetIsSound

-----------------------------------------------------------------------------
\* A hunter that has no session yet is in no room.
LEMMA GuestIsOut ==
    ASSUME NEW v, Sound(v), NEW s \in Sessions, s \notin v.places.live
    PROVE  TakenOut(Cleared(v, s, 0), v, s, FALSE, 0)
<1> DEFINE w == v.places
           c == Cleared(v, s, 0)
<1>1. Work(v) /\ Shape(w) /\ Placed(w, v.origin) /\ Shows(v) /\ w.room[s] = 0
    BY DEF Sound, Placed, InStep, Shape
<1>2. /\ Work(c) /\ c.places = w /\ c.player = v.player /\ c.departures = v.departures /\ c.back = v.back
      /\ \A x \in Sessions : /\ c.shown[x] = IF x = s THEN {} ELSE v.shown[x]
                             /\ c.ghosts[x] = IF x = s THEN {} ELSE v.ghosts[x]
                             /\ c.origin[x] = IF x = s THEN 0 ELSE v.origin[x]
                             /\ c.named[x] = IF x = s THEN 0 ELSE v.named[x]
    BY <1>1, ClearedFields
<1> HIDE DEF c
<1>3. \A q \in Open(w) : s \notin w.rooms[q].members
    BY <1>1 DEF Placed, Listings
<1>4. Parted(w, w, s, FALSE)
    BY <1>1, <1>3 DEF Parted, Like
<1>5. v.player[s].alias = 0
    <2>1. ~IsTown(w, 0)
        BY <1>1, PlacesAssumption DEF IsTown, Shape, RoomIds
    <2>2. QED
        BY <1>1, <2>1 DEF Shows
<1>6. \A q \in RoomIds : v.departures[q] # {} => q \in Open(w) /\ Started(w, q)
    BY <1>1 DEF Shows, Started
<1>7. Forgets(c, v, s)
    BY <1>1, <1>2 DEF Forgets
<1>8. TakenOut(c, v, s, FALSE, 0)
    BY <1>2, <1>4, <1>5, <1>6, <1>7 DEF TakenOut
<1>9. QED
    BY <1>8 DEF c

LoggedIn(v, s, new) ==
    LET silent == IF s \in v.places.live THEN DetachSilently(v, s) ELSE v
        reset == ResetForRelogin(silent.places, s)
    IN [Cleared(silent, s, 0) EXCEPT !.places = IF new THEN Adopt(reset, s, {}) ELSE reset,
                                     !.player[s].known = TRUE]

LEMMA LoginIsSound ==
    ASSUME NEW v, Sound(v), NEW s \in Sessions, NEW new \in BOOLEAN, new \/ s \in v.places.live
    PROVE  Sound(LoggedIn(v, s, new)) /\ Hears(LoggedIn(v, s, new), v, s)
<1> DEFINE silent == IF s \in v.places.live THEN DetachSilently(v, s) ELSE v
           c == Cleared(silent, s, 0)
           u == IF new THEN Adopt(c.places, s, {}) ELSE c.places
           p == [c.player[s] EXCEPT !.known = TRUE]
           e == LoggedIn(v, s, new)
<1>1. Sound(c) /\ Absent(c, s) /\ Hears(c, v, s) /\ c.places.live = v.places.live
    <2>1. TakenOut(c, v, s, FALSE, 0)
        BY SilentTakesOut, GuestIsOut
    <2> HIDE DEF c
    <2>2. QED
        BY <2>1, LeftForGood DEF TakenOut, Parted
<1>2. Work(c) /\ Shape(c.places) /\ Counts(c.places, c.player)
    BY <1>1 DEF Sound, Placed, InStep
<1>3. c.places = silent.places
    <2>1. Work(silent)
        <3>1. Work(v) /\ Shape(v.places)
            BY DEF Sound, Placed, InStep
        <3>2. ASSUME s \in v.places.live PROVE Work(DetachSilently(v, s))
            <4>1. Work(Untold(v, s))
                BY <3>1, UntoldFields
            <4>2. DetachedBy(DetachSilently(v, s), Untold(v, s), Gone(v.places, s, FALSE), s, v.places.room[s], FALSE)
                BY DEF DetachSilently, DetachedBy
            <4>3. DetachedFields(DetachSilently(v, s), Untold(v, s), Gone(v.places, s, FALSE), s,
                                 v.places.room[s], FALSE)
                BY <4>1, <4>2, DetachFields
            <4>4. QED
                BY <4>3 DEF DetachedFields
        <3>3. QED
            BY <3>1, <3>2
    <2> HIDE DEF silent
    <2>2. QED
        BY <2>1, ClearedFields
<1>4. ResetForRelogin(silent.places, s) = c.places
    BY <1>1, <1>3 DEF ResetForRelogin, Absent
<1> HIDE DEF silent
<1>5. e = [c EXCEPT !.places = u, !.player[s].known = TRUE]
    BY <1>4 DEF LoggedIn, silent
<1> HIDE DEF c, e
<1>6. e = [c EXCEPT !.player[s] = p, !.places = u]
    BY <1>2, <1>5 DEF Work
<1>7. p \in Players /\ p.area = c.player[s].area /\ p.alias = c.player[s].alias /\ p.known
    <2>1. c.player[s] \in Players
        BY <1>2 DEF Work
    <2>2. QED
        BY <2>1 DEF Players
<1> HIDE DEF p
<1>8. Recorded(e, c, s, u, p)
    BY <1>2, <1>6, <1>7, RecordedFields
<1>9. OneMoved(u, c.places, s) /\ (u.lobby[s] = 0 \/ u.lobby[s] = c.places.lobby[s]) /\ s \in u.live
    <2>1. CASE new
        <3>1. u = Adopt(c.places, s, {})
            BY <2>1
        <3>2. /\ WordsMoved(u, c.places) /\ u.live = (c.places.live \ {}) \cup {s}
              /\ \A x \in Sessions : /\ u.room[x] = IF x \in {} \cup {s} THEN 0 ELSE c.places.room[x]
                                     /\ u.lobby[x] = IF x \in {} \cup {s} THEN 0 ELSE c.places.lobby[x]
            BY <1>2, <3>1, AdoptFields
        <3>3. QED
            BY <1>1, <3>2 DEF OneMoved, Absent
    <2>2. CASE ~new
        BY <1>1, <1>2, <2>2 DEF OneMoved, WordsMoved
    <2>3. QED
        BY <2>1, <2>2
<1> HIDE DEF u
<1>10. e.places = u /\ e.player[s] = p /\ \A x \in Sessions : x # s => e.player[x] = c.player[x]
    BY <1>8 DEF Recorded
<1>11. Leaner(e.places, e.player, c.places, c.player, s)
    BY <1>7, <1>9, <1>10 DEF Leaner, OneMoved
<1>12. Counts(e.places, e.player)
    BY <1>2, <1>11, CountsFewer
<1>13. p.alias = 0
    BY <1>1, <1>7 DEF Absent
<1>14. Sound(e) /\ Hears(e, v, s)
    BY <1>1, <1>8, <1>9, <1>12, <1>13, RecordedIsSound
<1>15. QED
    BY <1>14 DEF e

-----------------------------------------------------------------------------
\* A hunter that is in no room comes into one: an open room with a seat, a
\* fresh one, or the Town that it left for a quest.
InRoom(u, w, s, r) ==
    /\ Shape(u) /\ u.live = w.live /\ u.lobby = w.lobby /\ s \in u.live /\ w.room[s] = 0
    /\ \A x \in Sessions : u.room[x] = IF x = s THEN r ELSE w.room[x]
    /\ r \in RoomIds /\ Open(u) = Open(w) \cup {r}
    /\ \A q \in Open(w) :
           /\ Like(u.rooms[q], w.rooms[q])
           /\ u.rooms[q].members = IF q = r THEN w.rooms[q].members \cup {s} ELSE w.rooms[q].members
    /\ r \notin Open(w) => u.rooms[r].members = {s}
    /\ u.rooms[r].lobby = u.lobby[s]

Entered(e, c, s, r) ==
    LET w == c.places
        u == e.places
    IN /\ Work(e) /\ InRoom(u, w, s, r)
       /\ e.departures = c.departures /\ e.back = c.back
       /\ \A x \in Sessions : e.player[x].area = c.player[x].area /\ e.player[x].known = c.player[x].known
       /\ \A x \in Sessions \ {s} :
              /\ e.origin[x] = c.origin[x] /\ e.player[x].alias = c.player[x].alias /\ e.named[x] = c.named[x]
              /\ e.shown[x] = IF x \in Listed(w, r) /\ ~Started(u, r) THEN c.shown[x] \cup {s} ELSE c.shown[x]
              /\ InStartedQuest(w, x) => e.shown[x] \cup e.ghosts[x] = c.shown[x] \cup c.ghosts[x]
       /\ IF IsTown(u, r) THEN e.origin[s] = 0 /\ \A q \in Open(w) : s \in w.rooms[q].members => q = r
                          ELSE e.origin[s] # 0 /\ e.origin[s] = c.origin[s] /\ e.player[s].alias = 0
       /\ IF Started(u, r) THEN Heard(e, s) ELSE Met(e, s)
       /\ e.named[s] = IF e.player[s].alias # 0 THEN e.player[s].alias ELSE r

\* The others' rooms are as they were, and it is in the list of the one it is in.
InRoomAs(u, w, s, r) ==
    /\ \A q \in Open(w) : (IsTown(u, q) <=> IsTown(w, q)) /\ (Started(u, q) <=> Started(w, q))
    /\ \A x \in w.live : w.room[x] # 0 => w.room[x] \in Open(w) /\ x \in w.rooms[w.room[x]].members
    /\ \A q : q # 0 => Listed(u, q) = IF q = r THEN Listed(w, q) \cup {s} ELSE Listed(w, q)

LEMMA InRoomRooms ==
    ASSUME NEW w, NEW left, Placed(w, left), NEW s \in Sessions, NEW u, NEW r, InRoom(u, w, s, r)
    PROVE  InRoomAs(u, w, s, r)
<1>1. Shape(w) /\ Shape(u) /\ u.live = w.live /\ Open(u) = Open(w) \cup {r}
    BY DEF Placed, InStep, InRoom
<1>2. \A q \in Open(w) : (IsTown(u, q) <=> IsTown(w, q)) /\ (Started(u, q) <=> Started(w, q))
    BY <1>1 DEF InRoom, Like, IsTown, Started
<1>3. \A x \in w.live : w.room[x] # 0 => w.room[x] \in Open(w) /\ x \in w.rooms[w.room[x]].members
    BY DEF Placed, InStep, InItsRoom
<1>4. ASSUME NEW q, q # 0
      PROVE  Listed(u, q) = IF q = r THEN Listed(w, q) \cup {s} ELSE Listed(w, q)
    <2>1. \A x \in w.live : x \in Sessions /\ u.room[x] = IF x = s THEN r ELSE w.room[x]
        BY <1>1 DEF InRoom, Shape
    <2>2. s \in w.live /\ w.room[s] = 0
        BY DEF InRoom
    <2>3. CASE q = r
        BY <1>1, <1>4, <2>1, <2>2, <2>3 DEF Listed
    <2>4. CASE q # r
        BY <1>1, <1>4, <2>1, <2>2, <2>4 DEF Listed
    <2>5. QED
        BY <2>3, <2>4
<1>5. QED
    BY <1>2, <1>3, <1>4 DEF InRoomAs

LEMMA EnteredIsPlaced ==
    ASSUME NEW c, Placed(c.places, c.origin), NEW s \in Sessions, NEW r, NEW e, Entered(e, c, s, r)
    PROVE  Placed(e.places, e.origin)
<1> DEFINE w == c.places
           u == e.places
<1>1. /\ Shape(w) /\ Shape(u) /\ u.live = w.live /\ u.lobby = w.lobby /\ Open(u) = Open(w) \cup {r} /\ s \in u.live
      /\ InRoom(u, w, s, r) /\ w.room[s] = 0 /\ Placed(w, c.origin)
    BY DEF Placed, InStep, InRoom, Entered
<1>2. /\ \A q \in Open(w) : (IsTown(u, q) <=> IsTown(w, q)) /\ (Started(u, q) <=> Started(w, q))
      /\ \A x \in w.live : w.room[x] # 0 => w.room[x] \in Open(w) /\ x \in w.rooms[w.room[x]].members
    <2>1. InRoomAs(u, w, s, r)
        BY <1>1, InRoomRooms
    <2>2. QED
        BY <2>1 DEF InRoomAs
<1>3. \A x \in Sessions : u.room[x] = IF x = s THEN r ELSE w.room[x]
    BY <1>1 DEF InRoom
<1>4. s \in u.rooms[r].members /\ u.rooms[r].lobby = u.lobby[s] /\ r # 0
    <2>1. r # 0
        BY <1>1, PlacesAssumption DEF InRoom, RoomIds
    <2>2. s \in u.rooms[r].members
        <3>1. CASE r \in Open(w)
            BY <1>1, <3>1 DEF InRoom
        <3>2. CASE r \notin Open(w)
            BY <1>1, <3>2 DEF InRoom
        <3>3. QED
            BY <3>1, <3>2
    <2>3. u.rooms[r].lobby = u.lobby[s]
        BY <1>1 DEF InRoom
    <2>4. QED
        BY <2>1, <2>2, <2>3
<1>5. \A q \in Open(w) : /\ u.rooms[q].members = IF q = r THEN w.rooms[q].members \cup {s} ELSE w.rooms[q].members
                         /\ u.rooms[q].lobby = w.rooms[q].lobby
    BY <1>1 DEF InRoom, Like
<1>6. \A x \in Sessions : x # s => e.origin[x] = c.origin[x]
    BY DEF Entered
<1>7. /\ IsTown(u, r) => e.origin[s] = 0 /\ \A q \in Open(w) : s \in w.rooms[q].members => q = r
      /\ ~IsTown(u, r) => e.origin[s] # 0 /\ e.origin[s] = c.origin[s]
    BY DEF Entered
<1>8. InStep(u, {})
    <2> SUFFICES ASSUME NEW x \in u.live, u.room[x] # 0
                 PROVE  u.room[x] \in Open(u) /\ x \in u.rooms[u.room[x]].members
        BY <1>1 DEF InStep, InItsRoom
    <2>1. x \in Sessions /\ x \in w.live
        BY <1>1 DEF Shape
    <2>2. CASE x = s
        BY <1>1, <1>3, <1>4, <2>1, <2>2
    <2>3. CASE x # s
        BY <1>1, <1>2, <1>3, <1>5, <2>1, <2>3
    <2>4. QED
        BY <2>2, <2>3
<1>9. ASSUME NEW q \in Open(u), NEW x \in u.rooms[q].members
      PROVE  /\ x \in u.live /\ u.lobby[x] = u.rooms[q].lobby
             /\ u.room[x] = q \/ (IsTown(u, q) /\ e.origin[x] = q)
    <2>1. CASE x = s /\ q = r
        BY <1>1, <1>3, <1>4, <2>1
    <2>2. CASE ~(x = s /\ q = r)
        <3>1. q \in Open(w) /\ x \in w.rooms[q].members
            BY <1>1, <1>5, <1>9, <2>2 DEF InRoom
        <3>2. /\ x \in w.live /\ w.lobby[x] = w.rooms[q].lobby
              /\ w.room[x] = q \/ (IsTown(w, q) /\ c.origin[x] = q)
            BY <1>1, <3>1 DEF Placed, Listings
        <3>3. x \in Sessions /\ q # 0
            BY <1>1, <3>1, <3>2, PlacesAssumption DEF Shape, RoomIds
        <3>4. CASE x # s
            BY <1>1, <1>2, <1>3, <1>5, <1>6, <3>1, <3>2, <3>3, <3>4
        <3>5. CASE x = s
            <4>1. IsTown(w, q) /\ c.origin[s] = q /\ q # r
                BY <1>1, <2>2, <3>2, <3>3, <3>5
            <4>2. ~IsTown(u, r)
                BY <1>7, <3>1, <3>5, <4>1
            <4>3. QED
                BY <1>1, <1>2, <1>5, <1>7, <3>1, <3>2, <3>5, <4>1, <4>2
        <3>6. QED
            BY <3>4, <3>5
    <2>3. QED
        BY <2>1, <2>2
<1>10. ASSUME NEW x \in Sessions
       PROVE  /\ IsTown(u, u.room[x]) => e.origin[x] = 0
              /\ u.room[x] # 0 /\ ~IsTown(u, u.room[x]) => e.origin[x] # 0
              /\ e.origin[x] # 0 => x \in u.live /\ IsTown(u, e.origin[x]) /\ x \in u.rooms[e.origin[x]].members
    <2>1. /\ IsTown(w, w.room[x]) => c.origin[x] = 0
          /\ w.room[x] # 0 /\ ~IsTown(w, w.room[x]) => c.origin[x] # 0
          /\ c.origin[x] # 0 => x \in w.live /\ IsTown(w, c.origin[x]) /\ x \in w.rooms[c.origin[x]].members
        BY <1>1 DEF Placed, Awaited
    <2>2. c.origin[x] # 0 => /\ c.origin[x] \in Open(w) /\ IsTown(u, c.origin[x])
                             /\ x \in u.rooms[c.origin[x]].members
        <3>1. c.origin[x] # 0 => c.origin[x] \in Open(w)
            BY <2>1 DEF IsTown
        <3>2. QED
            BY <1>2, <1>5, <2>1, <3>1
    <2>3. CASE x = s
        BY <1>1, <1>3, <1>7, <2>2, <2>3
    <2>4. CASE x # s
        <3>1. u.room[x] = w.room[x] /\ e.origin[x] = c.origin[x]
            BY <1>3, <1>6, <2>4
        <3>2. x \notin w.live => w.room[x] = 0
            BY <1>1 DEF Shape
        <3>3. w.room[x] # 0 => (IsTown(u, w.room[x]) <=> IsTown(w, w.room[x]))
            BY <1>2, <3>2
        <3>4. ~IsTown(u, 0)
            BY <1>1, PlacesAssumption DEF IsTown, Shape, RoomIds
        <3>5. QED
            BY <1>1, <2>1, <2>2, <3>1, <3>3, <3>4
    <2>5. QED
        BY <2>3, <2>4
<1>11. \A x \in Sessions \ u.live : u.lobby[x] = 0
    BY <1>1 DEF Placed
<1>12. QED
    BY <1>8, <1>9, <1>10, <1>11 DEF Placed, Listings, Awaited

LEMMA EnteredShows ==
    ASSUME NEW c, Sound(c), NEW s \in Sessions, NEW r, NEW e, Entered(e, c, s, r)
    PROVE  Shows(e) /\ Unheard(e, c, s)
<1> DEFINE w == c.places
           u == e.places
<1>1. /\ Shape(w) /\ Shape(u) /\ u.live = w.live /\ Open(u) = Open(w) \cup {r} /\ s \in u.live
      /\ InRoom(u, w, s, r) /\ w.room[s] = 0 /\ Placed(w, c.origin) /\ Shows(c) /\ Work(c)
      /\ e.departures = c.departures /\ e.back = c.back
    BY DEF Sound, Placed, InStep, InRoom, Entered
<1>2. /\ \A q \in Open(w) : (IsTown(u, q) <=> IsTown(w, q)) /\ (Started(u, q) <=> Started(w, q))
      /\ \A x \in w.live : w.room[x] # 0 => w.room[x] \in Open(w) /\ x \in w.rooms[w.room[x]].members
      /\ \A q : q # 0 => Listed(u, q) = IF q = r THEN Listed(w, q) \cup {s} ELSE Listed(w, q)
    <2>1. InRoomAs(u, w, s, r)
        BY <1>1, InRoomRooms
    <2>2. QED
        BY <2>1 DEF InRoomAs
<1>3. \A x \in Sessions : u.room[x] = IF x = s THEN r ELSE w.room[x]
    BY <1>1 DEF InRoom
<1>4. \A x \in Sessions \ {s} :
          /\ e.player[x].alias = c.player[x].alias
          /\ e.shown[x] = IF x \in Listed(w, r) /\ ~Started(u, r) THEN c.shown[x] \cup {s} ELSE c.shown[x]
          /\ InStartedQuest(w, x) => e.shown[x] \cup e.ghosts[x] = c.shown[x] \cup c.ghosts[x]
    BY DEF Entered
<1>5. ASSUME NEW x \in u.live, u.room[x] # 0
      PROVE  IF Started(u, u.room[x]) THEN Heard(e, x) ELSE Met(e, x)
    <2> DEFINE q == w.room[x]
    <2>1. x \in Sessions /\ x \in w.live
        BY <1>1 DEF Shape
    <2>2. CASE x = s
        BY <1>3, <2>1, <2>2 DEF Entered
    <2>3. CASE x # s
        <3>1. u.room[x] = q /\ q # 0 /\ q \in Open(w) /\ (Started(u, q) <=> Started(w, q))
            BY <1>2, <1>3, <1>5, <2>1, <2>3
        <3>2. x \in Listed(w, r) <=> q = r
            BY <2>1 DEF Listed
        <3>3. e.shown[x] = IF q = r /\ ~Started(u, q) THEN c.shown[x] \cup {s} ELSE c.shown[x]
            BY <1>4, <2>1, <2>3, <3>2
        <3>4. Listed(u, q) = IF q = r THEN Listed(w, q) \cup {s} ELSE Listed(w, q)
            BY <1>2, <3>1
        <3>5. IF Started(w, q) THEN Heard(c, x) ELSE Met(c, x)
            BY <1>1, <2>1, <3>1 DEF Shows
        <3>6. CASE Started(u, q)
            BY <1>1, <3>1, <3>3, <3>4, <3>5, <3>6 DEF Heard
        <3>7. CASE ~Started(u, q)
            <4>1. IF c.player[x].alias = 0 THEN c.shown[x] = Listed(w, q) \ {x} ELSE Listed(w, q) \ {x} \subseteq c.shown[x]
                BY <3>1, <3>5, <3>7 DEF Met
            <4>2. e.player[x].alias = c.player[x].alias
                BY <1>4, <2>1, <2>3
            <4>3. CASE q = r
                <5>1. e.shown[x] = c.shown[x] \cup {s} /\ Listed(u, q) \ {x} = (Listed(w, q) \ {x}) \cup {s}
                    BY <2>3, <3>3, <3>4, <3>7, <4>3
                <5>2. IF e.player[x].alias = 0 THEN e.shown[x] = Listed(u, q) \ {x}
                                               ELSE Listed(u, q) \ {x} \subseteq e.shown[x]
                    BY <4>1, <4>2, <5>1
                <5>3. QED
                    BY <3>1, <3>7, <5>2 DEF Met
            <4>4. CASE q # r
                BY <3>1, <3>3, <3>4, <3>7, <4>1, <4>2, <4>4 DEF Met
            <4>5. QED
                BY <4>3, <4>4
        <3>8. QED
            BY <3>6, <3>7
    <2>4. QED
        BY <2>2, <2>3
<1>6. ASSUME NEW x \in Sessions, e.player[x].alias # 0 PROVE IsTown(u, u.room[x])
    <2>1. CASE x = s
        BY <1>3, <1>6, <2>1 DEF Entered
    <2>2. CASE x # s
        <3>1. IsTown(w, w.room[x]) /\ w.room[x] \in Open(w)
            BY <1>1, <1>4, <1>6, <2>2 DEF Shows, IsTown
        <3>2. QED
            BY <1>2, <1>3, <2>2, <3>1
    <2>3. QED
        BY <2>1, <2>2
<1>7. \A q \in RoomIds : e.departures[q] # {} => Started(u, q)
    <2>1. \A q \in RoomIds : c.departures[q] # {} => Started(w, q) /\ q \in Open(w)
        BY <1>1 DEF Shows, Started
    <2>2. QED
        BY <1>1, <1>2, <2>1
<1>8. Unheard(e, c, s)
    <2> SUFFICES ASSUME NEW x \in Sessions \ {s}, InStartedQuest(w, x) PROVE InStartedQuest(u, x)
        BY <1>4 DEF Unheard
    <2>1. x \in w.live /\ Started(w, w.room[x]) /\ w.room[x] \in Open(w)
        BY DEF InStartedQuest, Started
    <2>2. QED
        BY <1>1, <1>2, <1>3, <2>1 DEF InStartedQuest
<1>9. QED
    BY <1>5, <1>6, <1>7, <1>8 DEF Shows

LEMMA EnteredIsSound ==
    ASSUME NEW c, Sound(c), NEW s \in Sessions, NEW r, NEW e, Entered(e, c, s, r)
    PROVE  Sound(e) /\ Unheard(e, c, s)
<1>1. Shows(e) /\ Unheard(e, c, s)
    BY EnteredShows
<1>2. Placed(e.places, e.origin)
    BY EnteredIsPlaced DEF Sound
<1>3. Counts(e.places, e.player)
    <2>1. Counts(c.places, c.player) /\ e.places.lobby = c.places.lobby /\ e.places.live = c.places.live
        BY DEF Sound, Entered, InRoom
    <2>2. \A x \in Sessions : e.player[x].area = c.player[x].area /\ e.player[x].known = c.player[x].known
        BY DEF Entered
    <2>3. QED
        BY <2>1, <2>2, CountsLike
<1>4. Named(e)
    <2> SUFFICES ASSUME NEW x \in e.places.live, e.places.room[x] # 0
                 PROVE  e.named[x] = IF e.player[x].alias # 0 THEN e.player[x].alias ELSE e.places.room[x]
        BY DEF Named
    <2>1. /\ x \in Sessions /\ x \in c.places.live
          /\ e.places.room[x] = IF x = s THEN r ELSE c.places.room[x]
        BY DEF Entered, InRoom, Shape
    <2>2. CASE x = s
        BY <2>1, <2>2 DEF Entered
    <2>3. CASE x # s
        <3>1. e.named[x] = c.named[x] /\ e.player[x].alias = c.player[x].alias
            BY <2>1, <2>3 DEF Entered
        <3>2. QED
            BY <2>1, <2>3, <3>1 DEF Sound, Named
    <2>4. QED
        BY <2>2, <2>3
<1>5. QED
    BY <1>1, <1>2, <1>3, <1>4 DEF Sound, Entered

LEMMA UnheardTwice ==
    ASSUME NEW e, NEW c, NEW v, NEW s, Unheard(e, c, s), Unheard(c, v, s)
    PROVE  Unheard(e, v, s)
BY DEF Unheard

-----------------------------------------------------------------------------
\* A hunter that left its Town for a quest, and is in no room, keeps it.
LEMMA KeepsItsOrigin ==
    ASSUME NEW v, Sound(v), NEW s \in Sessions, v.origin[s] # 0, ~IsTown(v.places, v.places.room[s])
    PROVE  KeepsTown(v.places, s, TRUE, v.origin[s])
BY DEF Sound, Placed, Awaited, Listings, KeepsTown

LEMMA CreatedIsSound ==
    ASSUME NEW v, Sound(v), NEW s \in v.places.live, v.places.lobby[s] # 0, v.places.next \in RoomIds,
           NEW max \in Capacities, NEW rules \in Rules \ {"started"},
           rules \notin TownRules => v.origin[s] # 0 /\ v.places.room[s] = 0,
           NEW town \in BOOLEAN, town <=> rules \in TownRules,
           NEW c, c = Cleared(Detach(v, s, ~town), s, IF town THEN 0 ELSE v.origin[s]),
           NEW e, e = [c EXCEPT !.places = SetRoom(Create(@, s, max, rules), {s}, v.places.next),
                                !.named[s] = v.places.next]
    PROVE  Sound(e) /\ Hears(e, v, s)
<1> DEFINE t == IF town THEN 0 ELSE v.origin[s]
           w == c.places
           r == v.places.next
           u == SetRoom(Create(w, s, max, rules), {s}, r)
           keep == ~town
<1>1. /\ s \in Sessions /\ Work(v) /\ Shape(v.places) /\ Placed(v.places, v.origin)
      /\ v.origin[s] \in RoomIds \cup {0} /\ v.places.lobby[s] \in Lobbies
    BY DEF Sound, Placed, InStep, Shape, Work
<1>2. TakenOut(c, v, s, keep, t) /\ keep \in BOOLEAN
    BY <1>1, DetachTakesOut
<1>3. KeepsTown(v.places, s, keep, t)
    <2>1. CASE town
        BY <2>1 DEF KeepsTown
    <2>2. CASE ~town
        <3>1. ~IsTown(v.places, v.places.room[s])
            BY <1>1, <2>2, PlacesAssumption DEF IsTown, Shape, RoomIds
        <3>2. KeepsTown(v.places, s, TRUE, v.origin[s])
            BY <1>1, <2>2, <3>1, KeepsItsOrigin
        <3>3. QED
            BY <2>2, <3>2 DEF KeepsTown
    <2>3. QED
        BY <2>1, <2>2
<1> HIDE DEF keep
<1>4. Sound(c)
    BY <1>1, <1>2, <1>3, OutIsSound
<1>5. Hears(c, v, s) /\ w.room[s] = 0
    BY <1>1, <1>2, OutHears
<1>6. /\ w.live = v.places.live /\ w.lobby = v.places.lobby /\ w.next = r /\ Shape(w) /\ Work(c) /\ Placed(w, c.origin)
      /\ c.shown[s] = {} /\ c.origin[s] = t /\ c.player[s].alias = 0
    BY <1>1, <1>2, <1>4 DEF TakenOut, Parted, Sound
<1>7. CreatedBy(u, w, s, max, rules)
    BY <1>1, <1>6, CreateFields
<1>8. /\ Work(e) /\ e.places = u /\ e.player = c.player /\ e.departures = c.departures /\ e.back = c.back
      /\ e.shown = c.shown /\ e.ghosts = c.ghosts /\ e.origin = c.origin
      /\ \A x \in Sessions : e.named[x] = IF x = s THEN r ELSE c.named[x]
    BY <1>6 DEF Work
<1> HIDE DEF u, w, r, t
<1>9. InRoom(u, w, s, r)
    <2>1. /\ Shape(u) /\ u.live = w.live /\ u.lobby = w.lobby /\ Open(u) = Open(w) \cup {r}
          /\ \A q \in Open(w) : q # r /\ u.rooms[q] = w.rooms[q]
          /\ u.rooms[r] = [lobby |-> w.lobby[s], host |-> s, members |-> {s}, max |-> max, rules |-> rules]
          /\ \A x \in Sessions : u.room[x] = IF x = s THEN r ELSE w.room[x]
        BY <1>6, <1>7 DEF CreatedBy
    <2>2. u.rooms[r].members = {s} /\ u.rooms[r].lobby = u.lobby[s]
        BY <2>1
    <2>3. \A q \in Open(w) : Like(u.rooms[q], w.rooms[q])
        BY <2>1 DEF Like
    <2>4. r \in RoomIds
        BY DEF r
    <2>5. QED
        BY <1>5, <1>6, <2>1, <2>2, <2>3, <2>4 DEF InRoom
<1>10. u.rooms[r].rules = rules /\ r \in Open(u)
    BY <1>6, <1>7 DEF CreatedBy
<1>11. ~Started(u, r) /\ (IsTown(u, r) <=> town)
    BY <1>10 DEF Started, IsTown
<1>12. Listed(w, r) = {} /\ Listed(u, r) = {s}
    <2>1. \A x \in w.live : w.room[x] # r
        <3>1. r # 0 /\ r \notin Open(w)
            BY <1>1, <1>6, <1>7, PlacesAssumption DEF CreatedBy, RoomIds, r
        <3>2. QED
            BY <1>6, <3>1 DEF Placed, InStep, InItsRoom
    <2>2. \A x \in u.live : x \in Sessions /\ (u.room[x] = r <=> x = s)
        BY <1>6, <1>9, <2>1 DEF InRoom, Shape
    <2>3. QED
        BY <1>9, <2>1, <2>2 DEF Listed, InRoom
<1>13. IF IsTown(u, r) THEN e.origin[s] = 0 /\ \A q \in Open(w) : s \in w.rooms[q].members => q = r
                       ELSE e.origin[s] # 0 /\ e.origin[s] = c.origin[s] /\ e.player[s].alias = 0
    <2>1. CASE town
        <3>1. \A q \in Open(w) : s \notin w.rooms[q].members
            BY <1>2, <2>1 DEF TakenOut, Parted, w, keep
        <3>2. QED
            BY <1>6, <1>8, <1>11, <2>1, <3>1 DEF t
    <2>2. CASE ~town
        BY <1>6, <1>8, <1>11, <2>2 DEF t
    <2>3. QED
        BY <2>1, <2>2
<1>14. Met(e, s)
    <2>1. e.places.room[s] = r
        BY <1>1, <1>8, <1>9 DEF InRoom
    <2>2. QED
        BY <1>6, <1>8, <1>12, <2>1 DEF Met
<1>15. Entered(e, c, s, r)
    <2>1. /\ e.named[s] = IF e.player[s].alias # 0 THEN e.player[s].alias ELSE r
          /\ \A x \in Sessions \ {s} : e.named[x] = c.named[x]
        BY <1>1, <1>6, <1>8
    <2>2. InRoom(e.places, c.places, s, r) /\ IF Started(e.places, r) THEN Heard(e, s) ELSE Met(e, s)
        BY <1>8, <1>9, <1>11, <1>14 DEF w
    <2>3. \A x \in Sessions \ {s} :
              /\ e.shown[x] = IF x \in Listed(c.places, r) /\ ~Started(e.places, r) THEN c.shown[x] \cup {s} ELSE c.shown[x]
              /\ InStartedQuest(c.places, x) => e.shown[x] \cup e.ghosts[x] = c.shown[x] \cup c.ghosts[x]
        BY <1>8, <1>12 DEF w
    <2>4. QED
        BY <1>8, <1>13, <2>1, <2>2, <2>3 DEF Entered, w
<1>16. Sound(e) /\ Unheard(e, c, s)
    BY <1>1, <1>4, <1>15, EnteredIsSound
<1>17. ~InStartedQuest(e.places, s)
    BY <1>1, <1>8, <1>9, <1>11 DEF InStartedQuest, InRoom
<1>18. QED
    BY <1>5, <1>6, <1>8, <1>16, <1>17, UnheardTwice DEF Hears

-----------------------------------------------------------------------------
\* The others there are told of an arrival, in a quest that runs nobody is.
Arrived(e, v, r, s) ==
    LET there == IF Started(v.places, r) THEN {} ELSE Listed(v.places, r) \ {s}
    IN /\ Work(e) /\ e.places = v.places /\ e.player = v.player /\ e.departures = v.departures
       /\ e.origin = v.origin /\ e.back = v.back /\ e.named = v.named
       /\ \A x \in Sessions :
              /\ e.shown[x] = IF x \in there THEN v.shown[x] \cup {s} ELSE v.shown[x]
              /\ e.ghosts[x] = IF x \in there THEN v.ghosts[x] \ {s} ELSE v.ghosts[x]

LEMMA ArriveFields ==
    ASSUME NEW v, Work(v), NEW r, NEW s \in Sessions
    PROVE  Arrived(Arrive(v, r, s), v, r, s)
<1> DEFINE there == IF Started(v.places, r) THEN {} ELSE Listed(v.places, r) \ {s}
           f == With(v.shown, there, s)
           g == Without(v.ghosts, there, s)
           e == Arrive(v, r, s)
<1>1. v.shown \in [Sessions -> SUBSET Sessions] /\ v.ghosts \in [Sessions -> SUBSET Sessions]
    BY DEF Work
<1> HIDE DEF there, f, g
<1>2. /\ f \in [Sessions -> SUBSET Sessions] /\ g \in [Sessions -> SUBSET Sessions]
      /\ \A x \in Sessions : /\ f[x] = IF x \in there THEN v.shown[x] \cup {s} ELSE v.shown[x]
                             /\ g[x] = IF x \in there THEN v.ghosts[x] \ {s} ELSE v.ghosts[x]
    BY <1>1 DEF With, Without, f, g
<1>3. e = [v EXCEPT !.shown = f, !.ghosts = g]
    BY DEF Arrive, f, g, there
<1> HIDE DEF e
<1>4. /\ Work(e) /\ e.shown = f /\ e.ghosts = g
      /\ e.places = v.places /\ e.player = v.player /\ e.departures = v.departures /\ e.origin = v.origin
      /\ e.back = v.back /\ e.named = v.named
    BY <1>2, <1>3 DEF Work
<1>5. QED
    BY <1>2, <1>4 DEF Arrived, e, there

\* The client reads the roster of the room that it comes into.
CameIn(e, d, u, s, r, t) ==
    LET there == IF Started(u, r) THEN {} ELSE Listed(u, r) \ {s}
    IN /\ Work(e) /\ e.places = u /\ e.player = d.player /\ e.departures = d.departures /\ e.back = d.back
       /\ e.shown[s] = Listed(u, r) \ {s} /\ e.origin[s] = t /\ e.named[s] = r
       /\ \A x \in Sessions \ {s} :
              /\ e.origin[x] = d.origin[x] /\ e.named[x] = d.named[x]
              /\ e.shown[x] = IF x \in there THEN d.shown[x] \cup {s} ELSE d.shown[x]
              /\ e.ghosts[x] = IF x \in there THEN d.ghosts[x] \ {s} ELSE d.ghosts[x]

Seated(u, d, s, r, t) ==
    u = SetRoom(Join(d.places, r, s), {s}, r) /\ t = IF IsTown(places, r) THEN 0 ELSE origin[s]

LEMMA EnterFields ==
    ASSUME NEW d, Work(d), NEW s \in Sessions, NEW r \in RoomIds, NEW u, Shape(u), u.room[s] = r,
           NEW t \in RoomIds \cup {0}, Seated(u, d, s, r, t)
    PROVE  CameIn(Enter(d, s, r), d, u, s, r, t)
<1> DEFINE c == Cleared(d, s, t)
           j == [c EXCEPT !.places = u, !.named[s] = r]
           a == Arrive(j, r, s)
           e == [a EXCEPT !.shown[s] = Roster(u, s, r)]
<1>1. /\ Work(c) /\ c.places = d.places /\ c.player = d.player /\ c.departures = d.departures
      /\ c.back = d.back
      /\ \A x \in Sessions : /\ c.shown[x] = IF x = s THEN {} ELSE d.shown[x]
                             /\ c.ghosts[x] = IF x = s THEN {} ELSE d.ghosts[x]
                             /\ c.origin[x] = IF x = s THEN t ELSE d.origin[x]
                             /\ c.named[x] = IF x = s THEN 0 ELSE d.named[x]
    BY DEF Cleared, Work
<1>2. c = Cleared(d, s, IF IsTown(places, r) THEN 0 ELSE origin[s])
    BY DEF Seated
<1> HIDE DEF c
<1>3. /\ Work(j) /\ j.places = u /\ j.player = c.player /\ j.departures = c.departures /\ j.back = c.back
      /\ j.shown = c.shown /\ j.ghosts = c.ghosts /\ j.origin = c.origin
      /\ \A x \in Sessions : j.named[x] = IF x = s THEN r ELSE c.named[x]
    BY <1>1 DEF Work
<1>4. j = [c EXCEPT !.places = SetRoom(Join(c.places, r, s), {s}, r), !.named[s] = r]
    BY <1>1 DEF Seated
<1> HIDE DEF j
<1>5. Arrived(a, j, r, s)
    BY <1>3, ArriveFields
<1>6. Enter(d, s, r) = e
    BY <1>2, <1>3, <1>4 DEF Enter
<1> HIDE DEF a
<1>7. Roster(u, s, r) = Listed(u, r) \ {s} /\ Roster(u, s, r) \subseteq Sessions
    BY DEF Roster, Listed, Shape
<1>8. Work(a)
    BY <1>5 DEF Arrived
<1>9. /\ Work(e) /\ e.places = a.places /\ e.player = a.player /\ e.departures = a.departures /\ e.back = a.back
      /\ e.ghosts = a.ghosts /\ e.origin = a.origin /\ e.named = a.named
      /\ \A x \in Sessions : e.shown[x] = IF x = s THEN Roster(u, s, r) ELSE a.shown[x]
    BY <1>7, <1>8 DEF Work
<1> HIDE DEF e
<1> DEFINE there == IF Started(u, r) THEN {} ELSE Listed(u, r) \ {s}
<1> HIDE DEF there
<1>10. /\ a.places = u /\ a.player = d.player /\ a.departures = d.departures /\ a.back = d.back
       /\ a.origin = c.origin /\ a.named = j.named
       /\ \A x \in Sessions \ {s} :
              /\ a.shown[x] = IF x \in there THEN d.shown[x] \cup {s} ELSE d.shown[x]
              /\ a.ghosts[x] = IF x \in there THEN d.ghosts[x] \ {s} ELSE d.ghosts[x]
    <2>1. /\ a.places = u /\ a.player = d.player /\ a.departures = d.departures /\ a.back = d.back
          /\ a.origin = c.origin /\ a.named = j.named
        BY <1>1, <1>3, <1>5 DEF Arrived
    <2>2. \A x \in Sessions : /\ a.shown[x] = IF x \in there THEN j.shown[x] \cup {s} ELSE j.shown[x]
                             /\ a.ghosts[x] = IF x \in there THEN j.ghosts[x] \ {s} ELSE j.ghosts[x]
        BY <1>3, <1>5 DEF Arrived, there
    <2>3. \A x \in Sessions \ {s} : j.shown[x] = d.shown[x] /\ j.ghosts[x] = d.ghosts[x]
        BY <1>1, <1>3
    <2>4. QED
        BY <2>1, <2>2, <2>3
<1>11. /\ e.shown[s] = Listed(u, r) \ {s} /\ e.origin[s] = t /\ e.named[s] = r
       /\ \A x \in Sessions \ {s} :
              /\ e.origin[x] = d.origin[x] /\ e.named[x] = d.named[x]
              /\ e.shown[x] = IF x \in there THEN d.shown[x] \cup {s} ELSE d.shown[x]
              /\ e.ghosts[x] = IF x \in there THEN d.ghosts[x] \ {s} ELSE d.ghosts[x]
    BY <1>1, <1>3, <1>7, <1>9, <1>10
<1>12. CameIn(e, d, u, s, r, t)
    BY <1>9, <1>10, <1>11 DEF CameIn, there
<1>13. QED
    BY <1>6, <1>12

\* The place a hunter joins: a Town, or a quest room of the ones it left its Town for.
Joins(s, r) ==
    /\ s \in places.live /\ places.room[s] # r
    /\ r \in Open(places) /\ places.rooms[r].lobby = places.lobby[s]
    /\ IsTown(places, r) \/ (origin[s] # 0 /\ places.room[s] = 0)

KeepsPlace(s, r) == s \in places.rooms[r].members \/ ~IsTown(places, r)

LEMMA JoinLeaves ==
    ASSUME Sound(Now), NEW s \in Sessions, NEW r, Joins(s, r), NEW t, t = IF KeepsPlace(s, r) THEN origin[s] ELSE 0
    PROVE  /\ KeepsTown(places, s, KeepsPlace(s, r), t)
           /\ IsTown(places, r) /\ KeepsPlace(s, r) => t = r
           /\ ~IsTown(places, r) => t # 0 /\ t = origin[s]
<1>1. /\ Placed(places, origin) /\ Sound(Now) /\ Now.places = places /\ Now.origin = origin
    BY DEF Sound, Now
<1>2. r # 0
    BY <1>1, PlacesAssumption DEF Joins, Placed, InStep, Shape, RoomIds
<1>3. IsTown(places, r) /\ s \in places.rooms[r].members => origin[s] = r
    BY <1>1 DEF Placed, Listings, Joins
<1>4. KeepsPlace(s, r) => origin[s] # 0 /\ ~IsTown(places, places.room[s])
    <2>1. ~IsTown(places, 0)
        BY <1>1, PlacesAssumption DEF IsTown, Placed, InStep, Shape, RoomIds
    <2>2. CASE IsTown(places, r)
        <3>1. KeepsPlace(s, r) => origin[s] = r
            BY <1>3, <2>2 DEF KeepsPlace
        <3>2. QED
            BY <1>1, <1>2, <3>1 DEF Placed, Awaited
    <2>3. CASE ~IsTown(places, r)
        BY <2>1, <2>3 DEF Joins
    <2>4. QED
        BY <2>2, <2>3
<1>5. KeepsPlace(s, r) => KeepsTown(places, s, TRUE, origin[s])
    BY <1>1, <1>4, KeepsItsOrigin
<1>6. KeepsTown(places, s, KeepsPlace(s, r), t)
    <2>1. CASE KeepsPlace(s, r)
        BY <1>5, <2>1 DEF KeepsTown
    <2>2. CASE ~KeepsPlace(s, r)
        BY <2>2 DEF KeepsTown
    <2>3. QED
        BY <2>1, <2>2
<1>7. QED
    BY <1>3, <1>4, <1>6 DEF KeepsPlace

\* What is left of the hunter's places when it asks for its new room.
JoinedOut(c, s, r, t) ==
    /\ Sound(c) /\ Hears(c, Now, s) /\ c.places.room[s] = 0 /\ c.player[s].alias = 0 /\ c.origin[s] = t
    /\ c.places.live = places.live /\ c.places.lobby = places.lobby
    /\ \A q \in Open(c.places) : /\ Like(c.places.rooms[q], places.rooms[q])
                                 /\ (IsTown(c.places, q) <=> IsTown(places, q))
    /\ IsTown(places, r) => /\ \A q \in Open(c.places) : s \in c.places.rooms[q].members => q = r
                            /\ s \in places.rooms[r].members => r \in Open(c.places) /\ s \in c.places.rooms[r].members
    /\ ~IsTown(places, r) => t # 0

LEMMA JoinTakesOut ==
    ASSUME Sound(Now), NEW s \in Sessions, NEW r, Joins(s, r), NEW t, t = IF KeepsPlace(s, r) THEN origin[s] ELSE 0
    PROVE  /\ JoinedOut(Cleared(Detach(Now, s, KeepsPlace(s, r)), s, t), s, r, t)
           /\ Work(Detach(Now, s, KeepsPlace(s, r))) /\ t \in RoomIds \cup {0}
<1> DEFINE keep == KeepsPlace(s, r)
           out == Detach(Now, s, keep)
           c == Cleared(out, s, t)
<1>1. /\ KeepsTown(places, s, keep, t)
      /\ IsTown(places, r) /\ keep => t = r
      /\ ~IsTown(places, r) => t # 0 /\ t = origin[s]
    BY JoinLeaves
<1>2. /\ Placed(places, origin) /\ Now.places = places /\ Now.origin = origin /\ origin \in [Sessions -> RoomIds \cup {0}]
    BY DEF Sound, Now, Work
<1>3. t \in RoomIds \cup {0}
    BY <1>2
<1>4. keep \in BOOLEAN
    BY DEF KeepsPlace
<1>5. IsTown(places, r) => (keep <=> s \in places.rooms[r].members)
    BY DEF KeepsPlace
<1> HIDE DEF keep
<1>6. TakenOut(c, Now, s, keep, t) /\ Work(out)
    BY <1>3, <1>4, DetachTakesOut
<1> HIDE DEF c
<1>7. Sound(c)
    BY <1>1, <1>2, <1>4, <1>6, OutIsSound
<1>8. Hears(c, Now, s) /\ c.places.room[s] = 0
    BY <1>4, <1>6, OutHears
<1>9. Parted(c.places, places, s, keep) /\ c.player[s].alias = 0 /\ c.origin[s] = t
    BY <1>2, <1>6 DEF TakenOut
<1>10. \A q \in Open(c.places) : /\ Like(c.places.rooms[q], places.rooms[q])
                                 /\ (IsTown(c.places, q) <=> IsTown(places, q))
    <2>1. PartedAs(c.places, places, origin, s)
        BY <1>2, <1>4, <1>9, PartedRooms
    <2>2. QED
        BY <1>9, <2>1 DEF PartedAs, Parted
<1>11. ASSUME IsTown(places, r)
       PROVE  /\ \A q \in Open(c.places) : s \in c.places.rooms[q].members => q = r
              /\ s \in places.rooms[r].members => r \in Open(c.places) /\ s \in c.places.rooms[r].members
    <2>1. ASSUME NEW q \in Open(c.places), s \in c.places.rooms[q].members PROVE q = r
        <3>1. keep /\ IsTown(places, q) /\ q \in Open(places) /\ s \in places.rooms[q].members
            BY <1>9, <2>1 DEF Parted
        <3>2. QED
            BY <1>1, <1>11, <3>1 DEF KeepsTown
    <2>2. s \in places.rooms[r].members => r \in Open(c.places) /\ s \in c.places.rooms[r].members
        BY <1>5, <1>9, <1>11 DEF Parted, IsTown
    <2>3. QED
        BY <2>1, <2>2
<1>12. JoinedOut(c, s, r, t)
    BY <1>1, <1>7, <1>8, <1>9, <1>10, <1>11 DEF JoinedOut, Parted
<1>13. QED
    BY <1>3, <1>6, <1>12 DEF c, keep

LEMMA JoinedIsSound ==
    ASSUME Sound(Now), NEW s \in Sessions, NEW r, Joins(s, r),
           NEW out, out = Detach(Now, s, KeepsPlace(s, r)), HasSeat(out.places, r, s)
    PROVE  Sound(Enter(out, s, r)) /\ Hears(Enter(out, s, r), Now, s)
<1> DEFINE t == IF KeepsPlace(s, r) THEN origin[s] ELSE 0
           c == Cleared(out, s, t)
           w == out.places
           u == SetRoom(Join(w, r, s), {s}, r)
           te == IF IsTown(places, r) THEN 0 ELSE origin[s]
           e == Enter(out, s, r)
<1>1. JoinedOut(c, s, r, t) /\ Work(out) /\ t \in RoomIds \cup {0}
    BY JoinTakesOut
<1>2. ~IsTown(places, r) => te = t
    BY DEF KeepsPlace
<1>3. IsTown(places, r) => te = 0
    OBVIOUS
<1>4. te \in RoomIds \cup {0}
    BY <1>1, <1>2
<1>5. Seated(u, out, s, r, te)
    BY DEF Seated
<1> HIDE DEF t, te
<1>6. /\ Work(c) /\ c.places = w /\ c.player = out.player /\ c.departures = out.departures /\ c.back = out.back
      /\ \A x \in Sessions : /\ c.shown[x] = IF x = s THEN {} ELSE out.shown[x]
                             /\ c.ghosts[x] = IF x = s THEN {} ELSE out.ghosts[x]
                             /\ c.origin[x] = IF x = s THEN t ELSE out.origin[x]
                             /\ c.named[x] = IF x = s THEN 0 ELSE out.named[x]
    BY <1>1, ClearedFields
<1> HIDE DEF c
<1>7. /\ Sound(c) /\ Placed(w, c.origin) /\ Shape(w) /\ s \in w.live /\ w.room[s] = 0
      /\ w.live = places.live /\ w.lobby = places.lobby /\ r \in Open(w) /\ r \in RoomIds /\ r # 0
    <2>1. Sound(c) /\ Placed(w, c.origin) /\ Shape(w)
        BY <1>1, <1>6 DEF JoinedOut, Sound, Placed, InStep
    <2>2. r \in Open(w)
        BY DEF HasSeat
    <2>3. r \in RoomIds /\ r # 0
        BY <2>1, <2>2, PlacesAssumption DEF Shape, RoomIds
    <2>4. QED
        BY <1>1, <1>6, <2>1, <2>2, <2>3 DEF JoinedOut, Joins
<1>8. JoinedBy(u, w, r, s)
    BY <1>7, JoinFields
<1> HIDE DEF u, w
<1>9. InRoom(u, w, s, r)
    <2>1. u.rooms[r].lobby = w.rooms[r].lobby
        BY <1>7, <1>8 DEF JoinedBy, Like
    <2>2. w.rooms[r].lobby = places.rooms[r].lobby
        BY <1>1, <1>6, <1>7 DEF JoinedOut, Like
    <2>3. u.rooms[r].lobby = u.lobby[s]
        BY <1>7, <1>8, <2>1, <2>2 DEF JoinedBy, Joins
    <2>4. QED
        BY <1>7, <1>8, <2>3 DEF JoinedBy, InRoom
<1>10. CameIn(e, out, u, s, r, te)
    <2>1. Shape(u) /\ u.room[s] = r
        BY <1>8 DEF JoinedBy
    <2>2. QED
        BY <1>1, <1>4, <1>5, <1>7, <2>1, EnterFields
<1> HIDE DEF e
<1>11. InRoomAs(u, w, s, r)
    BY <1>7, <1>9, InRoomRooms
<1>12. /\ Listed(u, r) \ {s} = Listed(w, r) /\ (Started(u, r) <=> Started(w, r))
       /\ (IsTown(u, r) <=> IsTown(places, r))
    <2>1. s \notin Listed(w, r)
        BY <1>7 DEF Listed
    <2>2. IsTown(w, r) <=> IsTown(places, r)
        BY <1>1, <1>6, <1>7 DEF JoinedOut
    <2>3. QED
        BY <1>7, <1>11, <2>1, <2>2 DEF InRoomAs
<1>13. \A x \in Sessions \ {s} :
           /\ e.origin[x] = c.origin[x] /\ e.named[x] = c.named[x]
           /\ e.shown[x] = IF x \in Listed(w, r) /\ ~Started(u, r) THEN c.shown[x] \cup {s} ELSE c.shown[x]
           /\ InStartedQuest(w, x) => e.shown[x] \cup e.ghosts[x] = c.shown[x] \cup c.ghosts[x]
    <2> SUFFICES ASSUME NEW x \in Sessions \ {s}
                 PROVE  /\ e.origin[x] = c.origin[x] /\ e.named[x] = c.named[x]
                        /\ e.shown[x] = IF x \in Listed(w, r) /\ ~Started(u, r) THEN c.shown[x] \cup {s} ELSE c.shown[x]
                        /\ InStartedQuest(w, x) => e.shown[x] \cup e.ghosts[x] = c.shown[x] \cup c.ghosts[x]
        OBVIOUS
    <2>1. /\ c.shown[x] = out.shown[x] /\ c.ghosts[x] = out.ghosts[x] /\ c.origin[x] = out.origin[x]
          /\ c.named[x] = out.named[x]
        BY <1>6
    <2>2. x \in Listed(w, r) /\ InStartedQuest(w, x) => Started(u, r)
        BY <1>12 DEF Listed, InStartedQuest
    <2>3. QED
        BY <1>10, <1>12, <2>1, <2>2 DEF CameIn
<1>14. c.player[s].alias = 0 /\ e.player = c.player /\ e.departures = c.departures /\ e.back = c.back
       /\ e.places = u /\ Work(e) /\ e.shown[s] = Listed(u, r) \ {s} /\ e.origin[s] = te /\ c.origin[s] = t
       /\ e.named[s] = r
    BY <1>1, <1>6, <1>10 DEF JoinedOut, CameIn
<1>15. u.room[s] = r
    BY <1>8 DEF JoinedBy
<1>16. IF Started(u, r) THEN Heard(e, s) ELSE Met(e, s)
    <2>1. Heard(e, s)
        BY <1>14, <1>15 DEF Heard
    <2>2. Met(e, s)
        BY <1>14, <1>15 DEF Met
    <2>3. QED
        BY <2>1, <2>2
<1>17. IF IsTown(u, r) THEN e.origin[s] = 0 /\ \A q \in Open(w) : s \in w.rooms[q].members => q = r
                       ELSE e.origin[s] # 0 /\ e.origin[s] = c.origin[s] /\ e.player[s].alias = 0
    <2>1. CASE IsTown(u, r)
        BY <1>1, <1>3, <1>6, <1>12, <1>14, <2>1 DEF JoinedOut
    <2>2. CASE ~IsTown(u, r)
        BY <1>1, <1>2, <1>12, <1>14, <2>2 DEF JoinedOut
    <2>3. QED
        BY <2>1, <2>2
<1>18. Entered(e, c, s, r)
    <2>1. InRoom(e.places, c.places, s, r)
        BY <1>6, <1>9, <1>14
    <2>2. \A x \in Sessions : e.player[x] = c.player[x]
        BY <1>14
    <2>3. QED
        BY <1>6, <1>13, <1>14, <1>16, <1>17, <2>1, <2>2 DEF Entered
<1>19. Sound(e) /\ Unheard(e, c, s)
    BY <1>7, <1>18, EnteredIsSound
<1>20. InStartedQuest(places, s) => ~InStartedQuest(u, s)
    <2>1. InStartedQuest(places, s) => IsTown(u, r)
        BY <1>7, <1>12, PlacesAssumption DEF Joins, InStartedQuest, Started, Sound, Now, Placed, InStep, Shape, RoomIds
    <2>2. IsTown(u, r) => ~Started(u, r)
        BY DEF IsTown, Started, TownRules
    <2>3. QED
        BY <1>15, <2>1, <2>2 DEF InStartedQuest
<1>21. Hears(e, Now, s)
    <2>1. Unheard(c, Now, s) /\ Now.places = places
        BY <1>1 DEF JoinedOut, Hears, Now
    <2>2. QED
        BY <1>14, <1>19, <1>20, <2>1, UnheardTwice DEF Hears
<1>22. QED
    BY <1>19, <1>21 DEF e

\* A guest that finds no seat has left its room for nothing, but not the Town
\* it went on the quest from.
LEMMA RefusedIsSound ==
    ASSUME Sound(Now), NEW s \in Sessions, NEW r, Joins(s, r),
           NEW out, out = Detach(Now, s, KeepsPlace(s, r)), ~HasSeat(out.places, r, s)
    PROVE  LET e == Cleared(out, s, IF IsTown(places, r) THEN 0 ELSE origin[s]) IN
           Sound(e) /\ Hears(e, Now, s)
<1> DEFINE t == IF KeepsPlace(s, r) THEN origin[s] ELSE 0
           c == Cleared(out, s, t)
<1>1. JoinedOut(c, s, r, t) /\ Work(out) /\ t \in RoomIds \cup {0}
    BY JoinTakesOut
<1>2. c.places = out.places
    BY <1>1, ClearedFields
<1>3. ~(IsTown(places, r) /\ s \in places.rooms[r].members)
    BY <1>1, <1>2 DEF JoinedOut, HasSeat
<1>4. t = IF IsTown(places, r) THEN 0 ELSE origin[s]
    BY <1>3 DEF KeepsPlace
<1>5. Sound(c) /\ Hears(c, Now, s)
    BY <1>1 DEF JoinedOut
<1>6. QED
    BY <1>4, <1>5

-----------------------------------------------------------------------------
\* What no step does to a hunter on a quest or on its way back from one.
Mild(e) ==
    /\ \A x \in Sessions : InStartedQuest(places, x) /\ InStartedQuest(e.places, x) =>
           e.shown[x] \cup e.ghosts[x] = shown[x] \cup ghosts[x]
    /\ \A x \in Sessions :
           LET q == places.room[x] IN
           Started(places, q) /\ IsTown(e.places, e.places.room[x]) /\ e.player[x].alias = q =>
               e.shown[x] \subseteq e.places.rooms[e.places.room[x]].members \cup Listed(e.places, q) \cup back[q]

NowParts ==
    /\ Now.places = places /\ Now.player = player /\ Now.departures = departures /\ Now.shown = shown
    /\ Now.ghosts = ghosts /\ Now.origin = origin /\ Now.named = named /\ Now.back = back

LEMMA NowFields == NowParts
BY DEF Now, NowParts

LEMMA HearsIsMild ==
    ASSUME Sound(Now), NEW s \in Sessions, NEW e, Hears(e, Now, s)
    PROVE  Mild(e)
<1>1. NowParts /\ Shape(places)
    BY NowFields DEF NowParts, Sound, Placed, InStep
<1>2. ASSUME NEW x \in Sessions, InStartedQuest(places, x), InStartedQuest(e.places, x)
      PROVE  e.shown[x] \cup e.ghosts[x] = shown[x] \cup ghosts[x]
    BY <1>1, <1>2 DEF Hears, Unheard, NowParts
<1>3. ASSUME NEW x \in Sessions, Started(places, places.room[x]), IsTown(e.places, e.places.room[x]),
             e.player[x].alias = places.room[x]
      PROVE  FALSE
    <2>1. places.room[x] # 0 /\ InStartedQuest(places, x)
        BY <1>1, <1>3, PlacesAssumption DEF Started, InStartedQuest, Shape, RoomIds
    <2>2. x # s
        BY <1>3, <2>1 DEF Hears
    <2>3. Started(e.places, e.places.room[x])
        BY <1>1, <2>1, <2>2 DEF Hears, Unheard, NowParts, InStartedQuest
    <2>4. QED
        BY <1>3, <2>3 DEF Started, IsTown, TownRules
<1>4. QED
    BY <1>2, <1>3 DEF Mild

\* A handler's outcome; the tables that clients hold follow the Towns.
Settled(e) == Untracked(e) /\ \A a \in Lobbies : table'[a] = TownRows(e.places, a)

Handled == \E e : Settled(e) /\ Sound(e) /\ Mild(e)

LEMMA UpdatedIsFresh ==
    ASSUME NEW w, NEW a, table[a] = TownRows(places, a)
    PROVE  Updated(w, a) = TownRows(w, a)
<1> DEFINE before == TownRows(places, a)
           after == TownRows(w, a)
           ids(rows) == {row.id : row \in rows}
           stale == ids(after \ before) \cup (ids(before) \ ids(after))
<1>1. /\ \A x, y \in before : x.id = y.id => x = y
      /\ \A x, y \in after : x.id = y.id => x = y
    BY DEF TownRows, RoomRow
<1>2. Updated(w, a) = {row \in before : row.id \notin stale} \cup (after \ before)
    BY DEF Updated
<1> HIDE DEF before, after
<1>3. ASSUME NEW row \in before, row.id \notin stale PROVE row \in after
    <2>1. row.id \in ids(before)
        OBVIOUS
    <2>2. row.id \in ids(after) /\ row.id \notin ids(after \ before)
        BY <1>3, <2>1
    <2>3. PICK other \in after : other.id = row.id
        BY <2>2
    <2>4. other \in before
        BY <2>2, <2>3
    <2>5. QED
        BY <1>1, <2>3, <2>4
<1>4. ASSUME NEW row \in after, row \in before PROVE row.id \notin stale
    <2>1. row.id \in ids(after)
        BY <1>4
    <2>2. row.id \notin ids(after \ before)
        <3>1. SUFFICES ASSUME NEW other \in after \ before, other.id = row.id PROVE FALSE
            OBVIOUS
        <3>2. other = row
            BY <1>1, <1>4, <3>1
        <3>3. QED
            BY <1>4, <3>1, <3>2
    <2>3. QED
        BY <2>1, <2>2
<1> HIDE DEF stale, ids
<1>5. {row \in before : row.id \notin stale} \cup (after \ before) = after
    BY <1>3, <1>4
<1>6. QED
    BY <1>2, <1>5 DEF after

LEMMA TrackedSettles ==
    ASSUME TownTableFresh, NEW e, Tracked(e)
    PROVE  Settled(e)
<1>1. \A a \in Lobbies : Updated(e.places, a) = TownRows(e.places, a)
    BY UpdatedIsFresh DEF TownTableFresh
<1>2. QED
    BY <1>1 DEF Tracked, Settled

LEMMA TrackedIsHandled ==
    ASSUME TownsInv, NEW e, Tracked(e), Sound(e), Mild(e)
    PROVE  Handled
<1>1. Settled(e)
    BY TrackedSettles DEF TownsInv
<1>2. QED
    BY <1>1 DEF Handled

LEMMA HeardIsHandled ==
    ASSUME TownsInv, NEW s \in Sessions, NEW e, Tracked(e), Sound(e), Hears(e, Now, s)
    PROVE  Handled
<1>1. Mild(e)
    BY HearsIsMild DEF TownsInv
<1>2. QED
    BY <1>1, TrackedIsHandled

\* A hunter that goes by another number is in a Town, and so on no quest.
LEMMA AliasInTown ==
    ASSUME Sound(Now), NEW x \in Sessions, player[x].alias # 0
    PROVE  IsTown(places, places.room[x]) /\ ~Started(places, places.room[x])
BY NowFields DEF NowParts, Sound, Shows, IsTown, Started, TownRules

\* A handler that changes nothing of what clients show or go by.
LEMMA UnshownIsMild ==
    ASSUME Sound(Now), NEW e, e.shown = shown, e.ghosts = ghosts,
           \A x \in Sessions : e.player[x].alias = player[x].alias
    PROVE  Mild(e)
<1>1. ASSUME NEW x \in Sessions, Started(places, places.room[x]), e.player[x].alias = places.room[x]
      PROVE  FALSE
    <2>1. places.room[x] # 0
        BY <1>1, NowFields, PlacesAssumption DEF NowParts, Started, Sound, Placed, InStep, Shape, RoomIds
    <2>2. QED
        BY <1>1, <2>1, AliasInTown
<1>2. QED
    BY <1>1 DEF Mild

LEMMA NothingIsHandled == ASSUME TownsInv, Tracked(Now) PROVE Handled
<1>1. Sound(Now)
    BY DEF TownsInv
<1>2. Now.shown = shown /\ Now.ghosts = ghosts /\ Now.player = player
    BY NowFields DEF NowParts
<1>3. Mild(Now)
    BY <1>1, <1>2, UnshownIsMild
<1>4. QED
    BY <1>1, <1>3, TrackedIsHandled

-----------------------------------------------------------------------------
LEMMA EndHandled == ASSUME TownsInv, NEW s \in Sessions, End(s) PROVE Handled
<1>1. Sound(EndedBy(Now, s)) /\ Hears(EndedBy(Now, s), Now, s)
    BY EndIsSound DEF TownsInv
<1>2. Tracked(EndedBy(Now, s))
    BY DEF End
<1>3. QED
    BY <1>1, <1>2, HeardIsHandled

LEMMA KicsLoginHandled ==
    ASSUME TownsInv, NEW s \in Sessions, NEW new \in BOOLEAN, KicsLogin(s, new)
    PROVE  Handled
<1>1. LoggedIn(Now, s, new) =
          LET silent == IF s \in places.live THEN DetachSilently(Now, s) ELSE Now
              reset == ResetForRelogin(silent.places, s)
          IN [Cleared(silent, s, 0) EXCEPT !.places = IF new THEN Adopt(reset, s, {}) ELSE reset,
                                           !.player[s].known = TRUE]
    BY NowFields DEF NowParts, LoggedIn
<1>2. Tracked(LoggedIn(Now, s, new)) /\ (new \/ s \in Now.places.live)
    BY <1>1, NowFields DEF NowParts, KicsLogin
<1>3. Sound(LoggedIn(Now, s, new)) /\ Hears(LoggedIn(Now, s, new), Now, s)
    BY <1>2, LoginIsSound DEF TownsInv
<1>4. QED
    BY <1>2, <1>3, HeardIsHandled

\* What a hunter that leaves its room for good has left behind.
Leaver(s) == Cleared(Detach(Now, s, FALSE), s, 0)

LEMMA LeaverFields ==
    ASSUME Sound(Now), NEW s \in places.live
    PROVE  /\ Sound(Leaver(s)) /\ Absent(Leaver(s), s) /\ Hears(Leaver(s), Now, s) /\ Work(Leaver(s))
           /\ Leaver(s).places.live = places.live /\ Leaver(s).places.lobby = places.lobby
           /\ \A x \in Sessions : /\ Leaver(s).player[x].area = player[x].area
                                  /\ Leaver(s).player[x].known = player[x].known
           /\ s \in Sessions
<1>1. s \in Sessions
    BY NowFields DEF NowParts, Sound, Placed, InStep, Shape
<1>2. TakenOut(Leaver(s), Now, s, FALSE, 0)
    BY <1>1, DetachTakesOut DEF Leaver
<1>3. Sound(Leaver(s)) /\ Absent(Leaver(s), s) /\ Hears(Leaver(s), Now, s)
    BY <1>1, <1>2, LeftForGood
<1>4. QED
    BY <1>1, <1>2, <1>3, NowFields DEF NowParts, TakenOut, Parted

LEMMA LogoutHandled == ASSUME TownsInv, NEW s \in Sessions, Logout(s) PROVE Handled
<1> DEFINE c == Leaver(s)
           e == [c EXCEPT !.player[s] = Forgotten, !.places = SetLobby(c.places, s, 0)]
<1>1. Tracked(e) /\ s \in places.live
    BY DEF Logout, Leaver
<1>2. Sound(c) /\ Absent(c, s) /\ Hears(c, Now, s) /\ s \in c.places.live
    BY <1>1, LeaverFields DEF TownsInv
<1>3. LobbySet(e, c, s, 0, Forgotten)
    BY DEF LobbySet
<1> HIDE DEF c, e
<1>4. Sound(e) /\ Hears(e, Now, s)
    BY <1>2, <1>3, ForgottenIsPlayer, UnlobbiedIsSound
<1>5. QED
    BY <1>1, <1>4, HeardIsHandled

\* The Area of a hunter that is in none yet is set with its lobby word.
AreaSet(e, c, s, a, p) ==
    /\ LobbySet(e, c, s, a, p) /\ p \in Players
    /\ p.alias = c.player[s].alias /\ p.area = a /\ p.known = c.player[s].known

LEMMA AreaRecorded ==
    ASSUME NEW c, Work(c), NEW s \in Sessions, NEW a \in Lobbies \cup {0}
    PROVE  AreaSet([c EXCEPT !.places = SetLobby(c.places, s, a), !.player[s].area = a], c, s, a,
                   [c.player[s] EXCEPT !.area = a])
<1> DEFINE p == [c.player[s] EXCEPT !.area = a]
           e == [c EXCEPT !.places = SetLobby(c.places, s, a), !.player[s].area = a]
<1>1. c.player[s] \in Players
    BY DEF Work
<1>2. p \in Players /\ p.alias = c.player[s].alias /\ p.area = a /\ p.known = c.player[s].known
    BY <1>1 DEF Players
<1>3. e = [c EXCEPT !.player[s] = p, !.places = SetLobby(c.places, s, a)]
    BY DEF Work
<1>4. QED
    BY <1>2, <1>3 DEF LobbySet, AreaSet

LEMMA LeaveAreaHandled == ASSUME TownsInv, NEW s \in Sessions, LeaveArea(s) PROVE Handled
<1> DEFINE c == Leaver(s)
           e == [c EXCEPT !.places = SetLobby(c.places, s, 0), !.player[s].area = 0]
           p == [c.player[s] EXCEPT !.area = 0]
<1>1. Tracked(e) /\ s \in places.live
    BY DEF LeaveArea, Leaver, Hunter
<1>2. Sound(c) /\ Absent(c, s) /\ Hears(c, Now, s) /\ s \in c.places.live /\ Work(c)
    BY <1>1, LeaverFields DEF TownsInv
<1> HIDE DEF c
<1>3. AreaSet(e, c, s, 0, p)
    BY <1>2, AreaRecorded
<1>4. LobbySet(e, c, s, 0, p) /\ p \in Players /\ p.alias = 0 /\ p.area = 0
    BY <1>2, <1>3 DEF Absent, AreaSet
<1> HIDE DEF e, p
<1>5. Sound(e) /\ Hears(e, Now, s)
    BY <1>2, <1>4, UnlobbiedIsSound
<1>6. QED
    BY <1>1, <1>5, HeardIsHandled

LEMMA PopulationCounts ==
    ASSUME NEW s \in Sessions, NEW A
    PROVE  Population(A, s) = Cardinality(Counted(player, A) \ {s})
<1>1. {p \in Sessions \ {s} : player[p].known /\ player[p].area \in A} = Counted(player, A) \ {s}
    BY DEF Counted
<1>2. QED
    BY <1>1 DEF Population

LEMMA JoinAreaHandled ==
    ASSUME TownsInv, NEW s \in Sessions, NEW a \in Lobbies, JoinArea(s, a)
    PROVE  Handled
<1> DEFINE c == Leaver(s)
           e == [c EXCEPT !.places = SetLobby(c.places, s, a), !.player[s].area = a]
           p == [c.player[s] EXCEPT !.area = a]
<1>1. CASE AreaFull(s, a)
    BY <1>1, NothingIsHandled DEF JoinArea
<1>2. CASE ~AreaFull(s, a)
    <2>1. Tracked(e) /\ s \in places.live /\ player[s].known
        BY <1>2 DEF JoinArea, Leaver, Hunter
    <2>2. /\ Sound(c) /\ Absent(c, s) /\ Hears(c, Now, s) /\ s \in c.places.live /\ Work(c)
          /\ c.places.lobby = places.lobby /\ c.places.live = places.live
          /\ \A x \in Sessions : c.player[x].area = player[x].area /\ c.player[x].known = player[x].known
        BY <2>1, LeaverFields DEF TownsInv
    <2> HIDE DEF c
    <2>3. AreaSet(e, c, s, a, p)
        BY <2>2, AreaRecorded
    <2>4. LobbySet(e, c, s, a, p) /\ p \in Players /\ p.alias = 0 /\ p.known /\ p.area = a
        BY <2>1, <2>2, <2>3 DEF Absent, AreaSet
    <2> HIDE DEF e, p
    <2>5. /\ e.player[s] = p /\ e.places.lobby[s] = a /\ e.places.live = c.places.live
          /\ \A x \in Sessions : x # s => e.player[x] = c.player[x] /\ e.places.lobby[x] = c.places.lobby[x]
        <3>1. OnlyWordsSet(e, c, s, a, p)
            BY <2>2, <2>4, LobbySetFields
        <3>2. QED
            BY <3>1 DEF OnlyWordsSet
    <2>6. \A A : Counted(c.player, A) = Counted(player, A)
        BY <2>2 DEF Counted
    <2>7. /\ Cardinality(Counted(c.player, {a}) \ {s}) < AreaCapacity
          /\ Cardinality(Counted(c.player, Lobbies) \ {s}) < LandCapacity
        <3>1. \A A : Cardinality(Counted(c.player, A) \ {s}) \in Nat
            BY PlacesAssumption, FS_Subset, FS_CardinalityType DEF Counted
        <3>2. /\ ~(Cardinality(Counted(c.player, {a}) \ {s}) >= AreaCapacity)
              /\ ~(Cardinality(Counted(c.player, Lobbies) \ {s}) >= LandCapacity)
            BY <1>2, <2>6, PopulationCounts DEF AreaFull
        <3>3. /\ Cardinality(Counted(c.player, {a}) \ {s}) \in Nat
              /\ Cardinality(Counted(c.player, Lobbies) \ {s}) \in Nat
            BY <3>1
        <3>4. QED
            BY <3>2, <3>3, CapacityAssumption
    <2>8. Counts(c.places, c.player)
        BY <2>2 DEF Sound
    <2>9. Counts(e.places, e.player)
        BY <2>2, <2>4, <2>5, <2>7, <2>8, CountsOneMore
    <2>10. Sound(e) /\ Hears(e, Now, s)
        BY <2>2, <2>4, <2>9, LobbySetIsSound
    <2>11. QED
        BY <2>1, <2>10, HeardIsHandled
<1>3. QED
    BY <1>1, <1>2

LEMMA LeaveRoomHandled == ASSUME TownsInv, NEW s \in Sessions, LeaveRoom(s) PROVE Handled
<1> DEFINE town == IsTown(places, places.room[s])
           announced == player[s].preparing \/ player[s].departing
           keep == town /\ IsDeparting(player[s])
           t == IF town /\ announced THEN places.room[s] ELSE 0
           e == Cleared(Detach(Now, s, keep), s, t)
<1>1. Tracked(e) /\ s \in places.live
    BY DEF LeaveRoom, Hunter
<1>2. Sound(Now) /\ Placed(places, origin) /\ Now.places = places /\ Shape(places)
    BY NowFields DEF NowParts, TownsInv, Sound, Placed, InStep
<1>3. t \in RoomIds \cup {0} /\ keep \in BOOLEAN
    BY <1>2 DEF Shape
<1>4. t # 0 <=> keep
    <2>1. town => places.room[s] # 0
        BY <1>2, PlacesAssumption DEF IsTown, Shape, RoomIds
    <2>2. QED
        BY <2>1 DEF IsDeparting
<1>5. ASSUME town PROVE /\ s \in places.rooms[places.room[s]].members
                        /\ \A q \in Open(places) : s \in places.rooms[q].members => q = places.room[s]
    <2>1. \A q \in Open(places) : q # 0
        BY <1>2, PlacesAssumption DEF Shape, RoomIds
    <2>2. s \in places.rooms[places.room[s]].members
        BY <1>1, <1>2, <1>5, <2>1 DEF IsTown, Placed, InStep, InItsRoom
    <2>3. \A q \in Open(places) : s \in places.rooms[q].members => q = places.room[s]
        BY <1>2, <1>5, <2>1 DEF Placed, Listings, Awaited
    <2>4. QED
        BY <2>2, <2>3
<1>6. t # 0 => t = places.room[s] /\ town
    OBVIOUS
<1>7. keep => town /\ t = places.room[s]
    BY <1>4, <1>6
<1> HIDE DEF keep, t
<1>8. KeepsTown(Now.places, s, keep, t)
    BY <1>2, <1>4, <1>5, <1>6, <1>7 DEF KeepsTown
<1>9. TakenOut(e, Now, s, keep, t)
    BY <1>2, <1>3, DetachTakesOut
<1> HIDE DEF e
<1>10. Sound(e) /\ Hears(e, Now, s)
    BY <1>2, <1>3, <1>8, <1>9, OutIsSound, OutHears
<1>11. QED
    BY <1>1, <1>10, HeardIsHandled

LEMMA CreateGameRoomHandled ==
    ASSUME TownsInv, NEW s \in Sessions, NEW max \in Capacities, NEW rules \in Rules,
           CreateGameRoom(s, max, rules)
    PROVE  Handled
<1> DEFINE town == rules \in TownRules
           t == IF town THEN 0 ELSE origin[s]
           c == Cleared(Detach(Now, s, ~town), s, t)
           r == places.next
           e == [c EXCEPT !.places = SetRoom(Create(c.places, s, max, rules), {s}, r), !.named[s] = r]
<1>1. CASE town /\ TownCategoryFull(places, places.lobby[s])
    BY <1>1, NothingIsHandled DEF CreateGameRoom
<1>2. CASE ~(town /\ TownCategoryFull(places, places.lobby[s]))
    <2>1. /\ s \in places.live /\ places.lobby[s] # 0 /\ r \in RoomIds
          /\ rules # "started" /\ (town \/ (origin[s] # 0 /\ places.room[s] = 0)) /\ Tracked(e)
        BY <1>2 DEF CreateGameRoom, Hunter
    <2>2. Sound(Now) /\ Now.places = places /\ Now.origin = origin
        BY NowFields DEF NowParts, TownsInv
    <2>3. Sound(e) /\ Hears(e, Now, s)
        <3>1. s \in Now.places.live /\ Now.places.lobby[s] # 0 /\ Now.places.next \in RoomIds
            BY <2>1, <2>2
        <3>2. rules \in Rules \ {"started"} /\ (rules \notin TownRules => Now.origin[s] # 0 /\ Now.places.room[s] = 0)
            BY <2>1, <2>2
        <3>3. c = Cleared(Detach(Now, s, ~town), s, IF town THEN 0 ELSE Now.origin[s])
            BY <2>2
        <3>4. e = [c EXCEPT !.places = SetRoom(Create(@, s, max, rules), {s}, Now.places.next),
                            !.named[s] = Now.places.next]
            BY <2>2
        <3>5. town \in BOOLEAN /\ (town <=> rules \in TownRules)
            OBVIOUS
        <3> HIDE DEF town, c, e
        <3>6. QED
            BY <2>2, <3>1, <3>2, <3>3, <3>4, <3>5, CreatedIsSound
    <2> HIDE DEF e
    <2>4. QED
        BY <2>1, <2>3, HeardIsHandled
<1>3. QED
    BY <1>1, <1>2

LEMMA JoinRoomHandled ==
    ASSUME TownsInv, NEW s \in Sessions, NEW id \in RoomIds, JoinRoom(s, id)
    PROVE  Handled
<1> DEFINE r == ServerRoom(Now, s, id)
           keep == r \in Open(places) /\ (s \in places.rooms[r].members \/ ~IsTown(places, r))
           out == Detach(Now, s, keep)
           refused == Cleared(out, s, IF IsTown(places, r) THEN 0 ELSE origin[s])
<1>1. Asks(s, r) /\ Sound(Now)
    BY DEF JoinRoom, TownsInv
<1>2. /\ r \notin Open(places) \/ places.room[s] = r => Tracked(Now)
      /\ r \in Open(places) /\ places.room[s] # r =>
             IF HasSeat(out.places, r, s) THEN Tracked(Enter(out, s, r)) ELSE Tracked(refused)
    BY DEF JoinRoom
<1>3. CASE r \notin Open(places) \/ places.room[s] = r
    BY <1>2, <1>3, NothingIsHandled
<1>4. CASE r \in Open(places) /\ places.room[s] # r
    <2>1. Joins(s, r)
        BY <1>1, <1>4 DEF Asks, Joins, Hunter, RoomsOf
    <2>2. keep = KeepsPlace(s, r)
        BY <1>4 DEF KeepsPlace
    <2>3. out = Detach(Now, s, KeepsPlace(s, r))
        BY <2>2
    <2> HIDE DEF r, keep, out
    <2>4. CASE HasSeat(out.places, r, s)
        <3>1. Sound(Enter(out, s, r)) /\ Hears(Enter(out, s, r), Now, s)
            BY <1>1, <2>1, <2>3, <2>4, JoinedIsSound
        <3>2. QED
            BY <1>2, <1>4, <2>4, <3>1, HeardIsHandled
    <2>5. CASE ~HasSeat(out.places, r, s)
        <3>1. Sound(refused) /\ Hears(refused, Now, s)
            BY <1>1, <2>1, <2>3, <2>5, RefusedIsSound
        <3>2. Tracked(refused)
            BY <1>2, <1>4, <2>5
        <3> HIDE DEF refused
        <3>3. QED
            BY <3>1, <3>2, HeardIsHandled
    <2>6. QED
        BY <2>4, <2>5
<1>5. QED
    BY <1>3, <1>4

\* A hunter's announcements change nothing but its own record.
Announced(e, s) ==
    /\ Work(e) /\ e.places = places /\ e.departures = departures /\ e.shown = shown /\ e.ghosts = ghosts
    /\ e.origin = origin /\ e.back = back /\ e.named = named
    /\ \A x \in Sessions : /\ e.player[x].alias = player[x].alias
                           /\ e.player[x].area = player[x].area
                           /\ e.player[x].known = player[x].known

LEMMA AnnouncedIsHandled ==
    ASSUME TownsInv, NEW s \in Sessions, NEW e, Announced(e, s), Untracked(e), UNCHANGED table
    PROVE  Handled
<1>1. NowParts /\ Work(Now) /\ Placed(places, origin) /\ Shows(Now) /\ Counts(places, player) /\ Sound(Now)
    BY NowFields DEF NowParts, TownsInv, Sound
<1>2. Shows(e)
    <2>1. /\ \A x \in places.live : places.room[x] # 0 =>
                 IF Started(places, places.room[x]) THEN Heard(Now, x) ELSE Met(Now, x)
          /\ \A x \in Sessions : player[x].alias # 0 => IsTown(places, places.room[x])
          /\ \A r \in RoomIds : departures[r] # {} => Started(places, r)
          /\ places.live \subseteq Sessions
        BY <1>1 DEF Shows, NowParts, Placed, InStep, Shape
    <2>2. \A x \in places.live : (Heard(Now, x) => Heard(e, x)) /\ (Met(Now, x) => Met(e, x))
        BY <1>1, <2>1 DEF Announced, NowParts, Heard, Met
    <2>3. QED
        BY <2>1, <2>2 DEF Announced, Shows
<1>3. Counts(e.places, e.player)
    BY <1>1, CountsLike DEF Announced
<1>4. Sound(e)
    <2>1. Named(e)
        BY <1>1 DEF Announced, Sound, Named, NowParts, Placed, InStep, Shape
    <2>2. QED
        BY <1>1, <1>2, <1>3, <2>1 DEF Announced, Sound
<1>5. Mild(e)
    BY <1>1, UnshownIsMild DEF Announced
<1>6. Settled(e)
    BY DEF Announced, TownsInv, TownTableFresh, Settled
<1>7. QED
    BY <1>4, <1>5, <1>6 DEF Handled

LEMMA PlayerSet ==
    ASSUME Sound(Now), NEW s \in Sessions, NEW p \in Players,
           p.alias = player[s].alias, p.area = player[s].area, p.known = player[s].known
    PROVE  Announced([Now EXCEPT !.player[s] = p], s)
<1>1. NowParts /\ Work(Now)
    BY NowFields DEF Sound
<1> DEFINE f == [player EXCEPT ![s] = p]
           e == [Now EXCEPT !.player[s] = p]
<1>2. e = [Now EXCEPT !.player = f]
    BY <1>1 DEF NowParts, Work
<1>3. player \in [Sessions -> Players]
    BY <1>1 DEF NowParts, Work
<1>4. f \in [Sessions -> Players] /\ \A x \in Sessions : f[x] = IF x = s THEN p ELSE player[x]
    BY <1>3
<1> HIDE DEF e, f
<1>5. /\ Work(e) /\ e.places = places /\ e.player = f /\ e.departures = departures /\ e.shown = shown
      /\ e.ghosts = ghosts /\ e.origin = origin /\ e.back = back /\ e.named = named
    BY <1>1, <1>2, <1>4 DEF NowParts, Work
<1>6. Announced(e, s)
    BY <1>4, <1>5 DEF Announced
<1>7. QED
    BY <1>6 DEF e

LEMMA PrepareDepartureHandled == ASSUME TownsInv, NEW s \in Sessions, PrepareDeparture(s) PROVE Handled
<1> DEFINE p == [player[s] EXCEPT !.preparing = TRUE]
           e == [Now EXCEPT !.player[s] = p]
<1>1. Sound(Now) /\ player[s] \in Players /\ NowParts
    BY NowFields DEF NowParts, TownsInv, Sound, Work
<1>2. p \in Players /\ p.alias = player[s].alias /\ p.area = player[s].area /\ p.known = player[s].known
    BY <1>1 DEF Players
<1>3. e = [Now EXCEPT !.player[s].preparing = TRUE]
    BY <1>1 DEF NowParts, Now
<1>4. Untracked(e) /\ UNCHANGED table
    BY <1>3 DEF PrepareDeparture
<1> HIDE DEF p
<1>5. Announced(e, s)
    BY <1>1, <1>2, PlayerSet
<1> HIDE DEF e
<1>6. QED
    BY <1>4, <1>5, AnnouncedIsHandled

LEMMA PublishProfileHandled ==
    ASSUME TownsInv, NEW s \in Sessions, NEW departing \in BOOLEAN, PublishProfile(s, departing)
    PROVE  Handled
<1> DEFINE p == [player[s] EXCEPT !.departing = departing]
           e == [Now EXCEPT !.player[s] = p]
<1>1. Sound(Now) /\ player[s] \in Players /\ NowParts
    BY NowFields DEF NowParts, TownsInv, Sound, Work
<1>2. p \in Players /\ p.alias = player[s].alias /\ p.area = player[s].area /\ p.known = player[s].known
    BY <1>1 DEF Players
<1>3. e = [Now EXCEPT !.player[s].departing = departing]
    BY <1>1 DEF NowParts, Now
<1>4. Untracked(e) /\ UNCHANGED table
    BY <1>3 DEF PublishProfile
<1> HIDE DEF p
<1>5. Announced(e, s)
    BY <1>1, <1>2, PlayerSet
<1> HIDE DEF e
<1>6. QED
    BY <1>4, <1>5, AnnouncedIsHandled

\* The room that a quest starts in: nobody comes or goes, only its word changes.
LEMMA StartQuestHandled == ASSUME TownsInv, NEW s \in Sessions, StartQuest(s) PROVE Handled
<1> DEFINE r == places.room[s]
           g == [places.rooms[r] EXCEPT !.rules = "started"]
           h == [places.rooms EXCEPT ![r] = g]
           u == [places EXCEPT !.rooms = h]
           e == [Now EXCEPT !.places = u]
<1>1. /\ NowParts /\ Work(Now) /\ Placed(places, origin) /\ Shows(Now) /\ Counts(places, player) /\ Sound(Now)
      /\ Shape(places)
    BY NowFields DEF NowParts, TownsInv, Sound, Placed, InStep
<1>2. r \in Open(places) /\ places.rooms[r].rules = "quest" /\ Tracked([Now EXCEPT !.places.rooms[r].rules = "started"])
    BY DEF StartQuest
<1>3. Tracked(e)
    BY <1>1, <1>2 DEF NowParts
<1>4. g \in GameRooms /\ g.members = places.rooms[r].members /\ g.lobby = places.rooms[r].lobby /\ g.rules = "started"
    BY <1>1, <1>2, RulesAssumption DEF Shape, GameRooms
<1> HIDE DEF g
<1>5. /\ h \in [Open(places) -> GameRooms] /\ h[r] = g
      /\ \A q \in Open(places) : q # r => h[q] = places.rooms[q]
    BY <1>1, <1>2, <1>4 DEF Shape
<1> HIDE DEF h
<1>6. /\ u \in [live : SUBSET Sessions, lobby : [Sessions -> Lobbies \cup {0}],
                room : [Sessions -> RoomIds \cup {0}], rooms : {h}, next : 1 .. MaxRoomId + 1]
      /\ u.live = places.live /\ u.lobby = places.lobby /\ u.room = places.room /\ u.next = places.next /\ u.rooms = h
    BY <1>1 DEF Shape
<1> HIDE DEF u
<1>7. Open(u) = Open(places)
    BY <1>5, <1>6 DEF Open
<1>8. Shape(u)
    BY <1>1, <1>5, <1>6, <1>7 DEF Shape
<1>9. \A q \in Open(places) : u.rooms[q].members = places.rooms[q].members /\ u.rooms[q].lobby = places.rooms[q].lobby
    BY <1>4, <1>5, <1>6
<1>10. \A q : (IsTown(u, q) <=> IsTown(places, q)) /\ (Started(u, q) <=> Started(places, q) \/ q = r)
    BY <1>2, <1>4, <1>5, <1>6, <1>7 DEF IsTown, Started, TownRules
<1>11. \A q : Listed(u, q) = Listed(places, q)
    BY <1>6 DEF Listed
<1>12. Placed(u, origin)
    <2>1. InStep(u, {})
        BY <1>1, <1>6, <1>7, <1>8, <1>9 DEF Placed, InStep, InItsRoom
    <2>2. Listings(u, origin)
        BY <1>1, <1>6, <1>7, <1>9, <1>10 DEF Placed, Listings
    <2>3. Awaited(u, origin)
        BY <1>1, <1>6, <1>9, <1>10 DEF Placed, Awaited, IsTown
    <2>4. QED
        BY <1>1, <1>6, <2>1, <2>2, <2>3 DEF Placed
<1>13. /\ Work(e) /\ e.places = u /\ e.player = player /\ e.departures = departures /\ e.shown = shown
       /\ e.ghosts = ghosts /\ e.origin = origin /\ e.back = back /\ e.named = named
    BY <1>1 DEF NowParts, Work
<1> HIDE DEF e
<1>14. Shows(e)
    <2>1. ASSUME NEW x \in u.live, u.room[x] # 0
          PROVE  IF Started(u, u.room[x]) THEN Heard(e, x) ELSE Met(e, x)
        <3>1. x \in Sessions /\ IF Started(places, places.room[x]) THEN Heard(Now, x) ELSE Met(Now, x)
            BY <1>1, <1>6, <2>1 DEF Shows, NowParts, Shape
        <3>2. Heard(Now, x) => Heard(e, x)
            BY <1>1, <1>6, <1>11, <1>13 DEF Heard, NowParts
        <3>3. Met(Now, x) => Met(e, x)
            BY <1>1, <1>6, <1>11, <1>13 DEF Met, NowParts
        <3>4. CASE places.room[x] = r
            <4>1. ~IsTown(places, r) /\ ~Started(places, r)
                BY <1>2 DEF IsTown, Started, TownRules
            <4>2. player[x].alias = 0
                BY <1>1, <3>1, <3>4, <4>1, AliasInTown
            <4>3. shown[x] \subseteq Listed(places, r)
                BY <1>1, <3>1, <3>4, <4>1, <4>2 DEF Met, NowParts
            <4>4. Heard(e, x)
                BY <1>6, <1>11, <1>13, <3>4, <4>3 DEF Heard
            <4>5. QED
                BY <1>6, <1>10, <3>4, <4>4
        <3>5. CASE places.room[x] # r
            BY <1>6, <1>10, <3>1, <3>2, <3>3, <3>5
        <3>6. QED
            BY <3>4, <3>5
    <2>2. \A x \in Sessions : e.player[x].alias # 0 => IsTown(u, u.room[x])
        BY <1>1, <1>6, <1>10, <1>13 DEF Shows, NowParts
    <2>3. \A q \in RoomIds : e.departures[q] # {} => Started(u, q)
        BY <1>1, <1>10, <1>13 DEF Shows, NowParts
    <2>4. QED
        BY <1>13, <2>1, <2>2, <2>3 DEF Shows
<1>15. Counts(u, player)
    BY <1>1, <1>6, CountsLike
<1>16. Sound(e)
    <2>1. Named(e)
        BY <1>1, <1>6, <1>13 DEF Sound, Named, NowParts
    <2>2. QED
        BY <1>12, <1>13, <1>14, <1>15, <2>1 DEF Sound
<1>17. Mild(e)
    BY <1>1, <1>13, UnshownIsMild
<1>18. QED
    BY <1>3, <1>16, <1>17, TrackedIsHandled DEF e

-----------------------------------------------------------------------------
\* The STAT that ends a quest finds the Town that the hunter left for it.
Returns(s, q, t) ==
    /\ s \in places.live /\ q = places.room[s] /\ q \in Open(places) /\ Started(places, q) /\ q # 0
    /\ t = origin[s] /\ t # 0 /\ t # q /\ t \in Open(places) /\ IsTown(places, t)
    /\ s \in places.rooms[t].members /\ places.rooms[t].lobby = places.lobby[s]
    /\ s \in places.rooms[q].members
    /\ \A x \in Open(places) : s \in places.rooms[x].members => x \in {q, t}

LEMMA ReturnFindsTown ==
    ASSUME Sound(Now), NEW s \in places.live, NEW q, q = places.room[s], Started(places, q),
           NEW t, t \in ListingTowns(places, s)
    PROVE  Returns(s, q, t)
<1>1. Placed(places, origin) /\ Shape(places)
    BY NowFields DEF NowParts, Sound, Placed, InStep
<1>2. q \in Open(places) /\ ~IsTown(places, q)
    BY DEF Started, IsTown, TownRules
<1>3. /\ t \in Open(places) /\ places.rooms[t].lobby = places.lobby[s] /\ IsTown(places, t) /\ t # q
      /\ s \in places.rooms[t].members
    BY DEF ListingTowns, RoomsOf
<1>4. q # 0 /\ t # 0
    BY <1>1, <1>2, <1>3, PlacesAssumption DEF Shape, RoomIds
<1>5. \A x \in Open(places) : s \in places.rooms[x].members => x = q \/ origin[s] = x
    BY <1>1 DEF Placed, Listings
<1>6. origin[s] = t
    BY <1>3, <1>5
<1>7. s \in places.rooms[q].members
    BY <1>1, <1>4 DEF Placed, InStep, InItsRoom
<1>8. QED
    BY <1>2, <1>3, <1>4, <1>5, <1>6, <1>7 DEF Returns

\* On its way the hunter is out of the quest, its Town's list kept, and it
\* will not be missed by the ones that are still there.
OnItsWay(s, q) ==
    [Now EXCEPT !.places = SetRoom(Leave(places, q, {s}), {s}, 0), !.player[s].alias = 0,
                !.departures[q] = IF places.rooms[q].members = {s} THEN {} ELSE departures[q],
                !.shown[s] = {}, !.back[q] = back[q] \cup {s}]

OnItsWayFields(c, s, q) ==
    /\ Work(c) /\ c.places = SetRoom(Leave(places, q, {s}), {s}, 0)
    /\ c.ghosts = ghosts /\ c.origin = origin /\ c.named = named
    /\ \A x \in Sessions : /\ c.player[x].alias = IF x = s THEN 0 ELSE player[x].alias
                           /\ c.player[x].area = player[x].area
                           /\ c.player[x].known = player[x].known
                           /\ c.shown[x] = IF x = s THEN {} ELSE shown[x]
    /\ \A x \in RoomIds : /\ c.back[x] = IF x = q THEN back[x] \cup {s} ELSE back[x]
                          /\ c.departures[x] = IF x = q /\ places.rooms[q].members = {s} THEN {} ELSE departures[x]

LEMMA OnItsWayHas ==
    ASSUME Sound(Now), NEW s \in Sessions, NEW q \in RoomIds
    PROVE  OnItsWayFields(OnItsWay(s, q), s, q)
<1> DEFINE p == [player[s] EXCEPT !.alias = 0]
           f == [player EXCEPT ![s] = p]
           d == [departures EXCEPT ![q] = IF places.rooms[q].members = {s} THEN {} ELSE departures[q]]
           h == [shown EXCEPT ![s] = {}]
           b == [back EXCEPT ![q] = back[q] \cup {s}]
           u == SetRoom(Leave(places, q, {s}), {s}, 0)
           c == OnItsWay(s, q)
<1>1. NowParts /\ Work(Now)
    BY NowFields DEF Sound
<1>2. /\ player \in [Sessions -> Players] /\ departures \in [RoomIds -> SUBSET Sessions]
      /\ shown \in [Sessions -> SUBSET Sessions] /\ back \in [RoomIds -> SUBSET Sessions]
    BY <1>1 DEF NowParts, Work
<1>3. p \in Players /\ p.alias = 0 /\ p.area = player[s].area /\ p.known = player[s].known
    <2>1. player[s] \in Players
        BY <1>2
    <2>2. QED
        BY <2>1 DEF Players
<1>4. c = [Now EXCEPT !.places = u, !.player = f, !.departures = d, !.shown = h, !.back = b]
    BY <1>1 DEF OnItsWay, NowParts
<1> HIDE DEF p
<1>5. /\ f \in [Sessions -> Players] /\ \A x \in Sessions : f[x] = IF x = s THEN p ELSE player[x]
      /\ h \in [Sessions -> SUBSET Sessions] /\ \A x \in Sessions : h[x] = IF x = s THEN {} ELSE shown[x]
      /\ b \in [RoomIds -> SUBSET Sessions]
      /\ \A x \in RoomIds : b[x] = IF x = q THEN back[x] \cup {s} ELSE back[x]
      /\ d \in [RoomIds -> SUBSET Sessions]
      /\ \A x \in RoomIds : d[x] = IF x = q /\ places.rooms[q].members = {s} THEN {} ELSE departures[x]
    BY <1>2, <1>3
<1> HIDE DEF u, f, d, h, b, c
<1>6. /\ Work(c) /\ c.places = u /\ c.player = f /\ c.departures = d /\ c.shown = h /\ c.back = b
      /\ c.ghosts = ghosts /\ c.origin = origin /\ c.named = named
    BY <1>1, <1>4, <1>5 DEF NowParts, Work
<1>7. OnItsWayFields(c, s, q)
    BY <1>3, <1>5, <1>6 DEF OnItsWayFields, u
<1>8. QED
    BY <1>7 DEF c

LEMMA OnItsWayTakenOut ==
    ASSUME Sound(Now), NEW s, NEW q, NEW t, Returns(s, q, t), NEW c, OnItsWayFields(c, s, q)
    PROVE  TakenOut(c, Now, s, TRUE, t) /\ KeepsTown(places, s, TRUE, t)
<1> DEFINE v == Leave(places, q, {s})
           u == SetRoom(v, {s}, 0)
<1>1. NowParts /\ Work(Now) /\ Placed(places, origin) /\ Shape(places) /\ Shows(Now) /\ s \in Sessions
    BY NowFields DEF NowParts, Sound, Placed, InStep, Shape, Returns
<1>2. LeftBy(v, places, q, {s})
    BY <1>1, LeaveFields
<1> HIDE DEF v
<1>3. WordsSet(u, v, {s}, 0)
    BY <1>2, SetRoomFields DEF LeftBy
<1> HIDE DEF u
<1>4. c.places = u /\ Work(c)
    BY DEF OnItsWayFields, u, v
<1>5. Parted(u, places, s, TRUE)
    <2>1. /\ Shape(u) /\ u.live = places.live /\ u.lobby = places.lobby /\ u.next = places.next
          /\ Open(u) = Open(v) /\ u.rooms = v.rooms
          /\ \A x \in Sessions : u.room[x] = IF x = s THEN 0 ELSE places.room[x]
        BY <1>1, <1>2, <1>3 DEF LeftBy, WordsSet, Returns
    <2>2. /\ Open(v) \subseteq Open(places)
          /\ \A x \in Open(places) : x # q \/ places.rooms[q].members \ {s} # {} <=> x \in Open(v)
          /\ \A x \in Open(v) :
                 /\ Like(v.rooms[x], places.rooms[x])
                 /\ v.rooms[x].members = IF x = q THEN places.rooms[q].members \ {s} ELSE places.rooms[x].members
        BY <1>2 DEF LeftBy
    <2>3. \A x \in Open(u) : s \in u.rooms[x].members => IsTown(places, x)
        <3>1. SUFFICES ASSUME NEW x \in Open(u), s \in u.rooms[x].members PROVE IsTown(places, x)
            OBVIOUS
        <3>2. x \in Open(places) /\ s \in places.rooms[x].members /\ x # q
            BY <2>1, <2>2, <3>1
        <3>3. QED
            BY <3>2 DEF Returns
    <2>4. \A x \in Open(places) : IsTown(places, x) => x # q
        BY DEF Returns, IsTown, Started, TownRules
    <2>5. q = places.room[s]
        BY DEF Returns
    <2>6. QED
        BY <2>1, <2>2, <2>3, <2>4, <2>5 DEF Parted
<1>6. /\ c.ghosts = ghosts /\ c.origin = origin /\ c.named = named /\ c.shown[s] = {}
      /\ \A x \in Sessions : /\ c.player[x].alias = IF x = s THEN 0 ELSE player[x].alias
                             /\ c.player[x].area = player[x].area
                             /\ c.player[x].known = player[x].known
                             /\ c.shown[x] = IF x = s THEN {} ELSE shown[x]
    BY <1>1 DEF OnItsWayFields
<1>7. \A x \in RoomIds : /\ c.departures[x] # {} => x \in Open(u) /\ Started(places, x)
                         /\ x \in Open(u) => departures[x] \subseteq c.departures[x]
                         /\ back[x] \subseteq c.back[x]
    <2>1. SUFFICES ASSUME NEW x \in RoomIds
                   PROVE  /\ c.departures[x] # {} => x \in Open(u) /\ Started(places, x)
                          /\ x \in Open(u) => departures[x] \subseteq c.departures[x]
                          /\ back[x] \subseteq c.back[x]
        OBVIOUS
    <2>2. departures[x] # {} => Started(places, x)
        BY <1>1 DEF Shows, NowParts
    <2>3. Started(places, x) => x \in Open(places)
        BY DEF Started
    <2>4. /\ c.back[x] = IF x = q THEN back[x] \cup {s} ELSE back[x]
          /\ c.departures[x] = IF x = q /\ places.rooms[q].members = {s} THEN {} ELSE departures[x]
        BY DEF OnItsWayFields
    <2>5. x \in Open(places) => (x # q \/ places.rooms[q].members \ {s} # {} <=> x \in Open(u))
        BY <1>2, <1>3 DEF LeftBy, WordsSet
    <2>6. places.rooms[q].members \ {s} = {} <=> places.rooms[q].members = {s}
        BY DEF Returns
    <2>7. q \in Open(places)
        BY DEF Returns
    <2>8. QED
        BY <2>2, <2>3, <2>4, <2>5, <2>6, <2>7
<1>8. Forgets(c, Now, s)
    <2>1. SUFFICES ASSUME NEW x \in Sessions \ {s}
                   PROVE  /\ IF x \in Listed(places, q) /\ q # 0
                             THEN c.shown[x] = shown[x] /\ Started(places, q) /\ s \in c.back[q]
                             ELSE c.shown[x] = shown[x]
                          /\ c.shown[x] \cup c.ghosts[x] = shown[x] \cup ghosts[x]
        BY <1>1 DEF Forgets, NowParts, Returns
    <2>2. q \in RoomIds /\ Started(places, q)
        BY <1>1 DEF Returns, Shape
    <2>3. s \in c.back[q]
        BY <2>2 DEF OnItsWayFields
    <2>4. QED
        BY <1>6, <2>1, <2>2, <2>3
<1>9. \A x \in Sessions : c.origin[x] = IF x = s THEN t ELSE origin[x]
    BY <1>6 DEF Returns
<1>10. TakenOut(c, Now, s, TRUE, t)
    BY <1>1, <1>4, <1>5, <1>6, <1>7, <1>8, <1>9 DEF TakenOut, NowParts
<1>11. KeepsTown(places, s, TRUE, t)
    <2>1. ~IsTown(places, q)
        BY DEF Returns, IsTown, Started, TownRules
    <2>2. QED
        BY <2>1 DEF KeepsTown, Returns
<1>12. QED
    BY <1>10, <1>11

\* Back in its Town: it is listed there, and shows who is there and who has not left.
BackInTown(e, u, s, q, t) ==
    LET there == IF Started(u, t) THEN {} ELSE Listed(u, t) \ {s} IN
    /\ Work(e) /\ e.places = u /\ e.named = named
    /\ \A x \in Sessions : /\ e.player[x].alias = IF x = s THEN q ELSE player[x].alias
                           /\ e.player[x].area = player[x].area
                           /\ e.player[x].known = player[x].known
                           /\ e.origin[x] = IF x = s THEN 0 ELSE origin[x]
    /\ \A x \in RoomIds : /\ e.back[x] = IF x = q THEN back[x] \cup {s} ELSE back[x]
                          /\ e.departures[x] = IF x = q /\ places.rooms[q].members = {s} THEN {} ELSE departures[x]
    /\ \A x \in Sessions \ {s} :
           /\ e.shown[x] = IF x \in there THEN shown[x] \cup {s} ELSE shown[x]
           /\ e.ghosts[x] = IF x \in there THEN ghosts[x] \ {s} ELSE ghosts[x]
    /\ e.shown[s] = (shown[s] \cup (Listed(u, t) \ {s})) \ (departures[q] \ places.rooms[t].members)

LEMMA ReturnedFields ==
    ASSUME Sound(Now), NEW s \in Sessions, NEW q \in RoomIds, NEW t \in RoomIds,
           Shape(SetRoom(Leave(places, q, {s}), {s}, t)), SetRoom(Leave(places, q, {s}), {s}, t).room[s] = t
    PROVE  BackInTown(Returned(s, q, t), SetRoom(Leave(places, q, {s}), {s}, t), s, q, t)
<1> DEFINE p == [player[s] EXCEPT !.alias = q]
           f == [player EXCEPT ![s] = p]
           d == [departures EXCEPT ![q] = IF places.rooms[q].members = {s} THEN {} ELSE departures[q]]
           u == SetRoom(Leave(places, q, {s}), {s}, t)
           m == [Now EXCEPT !.places = u, !.player = f, !.departures = d]
           a == Arrive(m, t, s)
           heard == departures[q] \ places.rooms[t].members
           e == [a EXCEPT !.shown[s] = (a.shown[s] \cup Roster(u, s, t)) \ heard,
                          !.ghosts[s] = a.ghosts[s] \ (Roster(u, s, t) \cup heard),
                          !.origin[s] = 0, !.back[q] = a.back[q] \cup {s}]
<1>1. NowParts /\ Work(Now)
    BY NowFields DEF Sound
<1>2. player \in [Sessions -> Players] /\ departures \in [RoomIds -> SUBSET Sessions]
    BY <1>1 DEF NowParts, Work
<1>3. p \in Players /\ p.alias = q /\ p.area = player[s].area /\ p.known = player[s].known
    <2>1. player[s] \in Players
        BY <1>2
    <2>2. QED
        BY <2>1 DEF Players
<1>4. m = [Now EXCEPT !.places = u, !.player[s].alias = q,
                      !.departures[q] = IF places.rooms[q].members = {s} THEN {} ELSE @]
    BY <1>1 DEF NowParts
<1> HIDE DEF p, u
<1>5. /\ f \in [Sessions -> Players] /\ \A x \in Sessions : f[x] = IF x = s THEN p ELSE player[x]
      /\ d \in [RoomIds -> SUBSET Sessions]
      /\ \A x \in RoomIds : d[x] = IF x = q /\ places.rooms[q].members = {s} THEN {} ELSE departures[x]
    BY <1>2, <1>3
<1> HIDE DEF f, d
<1>6. /\ Work(m) /\ m.places = u /\ m.player = f /\ m.departures = d /\ m.shown = shown /\ m.back = back
      /\ m.ghosts = ghosts /\ m.origin = origin /\ m.named = named
    BY <1>1, <1>5 DEF NowParts, Work
<1>7. Returned(s, q, t) = e
    BY <1>4, <1>6 DEF Returned, u
<1> HIDE DEF m
<1>8. Arrived(a, m, t, s)
    BY <1>6, ArriveFields
<1> HIDE DEF a
<1> DEFINE there == IF Started(u, t) THEN {} ELSE Listed(u, t) \ {s}
<1>9. /\ Work(a) /\ a.places = u /\ a.player = f /\ a.departures = d /\ a.back = back /\ a.origin = origin
      /\ a.named = named
      /\ \A x \in Sessions :
             /\ a.shown[x] = IF x \in there THEN shown[x] \cup {s} ELSE shown[x]
             /\ a.ghosts[x] = IF x \in there THEN ghosts[x] \ {s} ELSE ghosts[x]
    BY <1>6, <1>8 DEF Arrived
<1>10. s \notin there
    OBVIOUS
<1> HIDE DEF there
<1>11. Roster(u, s, t) = Listed(u, t) \ {s} /\ Listed(u, t) \subseteq Sessions
    BY DEF Roster, Listed, Shape, u
<1> HIDE DEF heard
<1> DEFINE shows == (shown[s] \cup (Listed(u, t) \ {s})) \ heard
           ghost == a.ghosts[s] \ (Roster(u, s, t) \cup heard)
<1>12. e = [a EXCEPT !.shown[s] = shows, !.ghosts[s] = ghost, !.origin[s] = 0, !.back[q] = back[q] \cup {s}]
    BY <1>9, <1>10, <1>11
<1>13. shows \subseteq Sessions /\ ghost \subseteq Sessions
    BY <1>1, <1>9, <1>11 DEF Work, NowParts
<1> DEFINE fs == [a.shown EXCEPT ![s] = shows]
           fg == [a.ghosts EXCEPT ![s] = ghost]
           fo == [origin EXCEPT ![s] = 0]
           fb == [back EXCEPT ![q] = back[q] \cup {s}]
<1>14. e = [a EXCEPT !.shown = fs, !.ghosts = fg, !.origin = fo, !.back = fb]
    BY <1>9, <1>12, ZenonT(40)
<1> HIDE DEF shows, ghost, e
<1>15. /\ fs \in [Sessions -> SUBSET Sessions] /\ \A x \in Sessions : fs[x] = IF x = s THEN shows ELSE a.shown[x]
       /\ fg \in [Sessions -> SUBSET Sessions] /\ \A x \in Sessions : x # s => fg[x] = a.ghosts[x]
       /\ fo \in [Sessions -> RoomIds \cup {0}] /\ \A x \in Sessions : fo[x] = IF x = s THEN 0 ELSE origin[x]
       /\ fb \in [RoomIds -> SUBSET Sessions]
       /\ \A x \in RoomIds : fb[x] = IF x = q THEN back[x] \cup {s} ELSE back[x]
    <2>1. /\ a.shown \in [Sessions -> SUBSET Sessions] /\ a.ghosts \in [Sessions -> SUBSET Sessions]
          /\ origin \in [Sessions -> RoomIds \cup {0}] /\ back \in [RoomIds -> SUBSET Sessions]
        BY <1>1, <1>9 DEF Work, NowParts
    <2>2. QED
        BY <1>13, <2>1
<1> HIDE DEF fs, fg, fo, fb
<1>16. /\ Work(e) /\ e.places = u /\ e.player = f /\ e.departures = d
       /\ e.shown = fs /\ e.ghosts = fg /\ e.origin = fo /\ e.back = fb /\ e.named = named
    BY <1>9, <1>14, <1>15 DEF Work
<1>17. \A x \in Sessions \ {s} :
           /\ e.shown[x] = IF x \in there THEN shown[x] \cup {s} ELSE shown[x]
           /\ e.ghosts[x] = IF x \in there THEN ghosts[x] \ {s} ELSE ghosts[x]
    BY <1>9, <1>15, <1>16
<1>18. \A x \in Sessions : /\ e.player[x].alias = IF x = s THEN q ELSE player[x].alias
                           /\ e.player[x].area = player[x].area
                           /\ e.player[x].known = player[x].known
                           /\ e.origin[x] = IF x = s THEN 0 ELSE origin[x]
    BY <1>3, <1>5, <1>15, <1>16
<1>19. e.shown[s] = shows
    BY <1>15, <1>16
<1>20. \A x \in RoomIds : /\ e.back[x] = IF x = q THEN back[x] \cup {s} ELSE back[x]
                          /\ e.departures[x] = IF x = q /\ places.rooms[q].members = {s} THEN {} ELSE departures[x]
    BY <1>5, <1>15, <1>16
<1>21. BackInTown(e, u, s, q, t)
    BY <1>16, <1>17, <1>18, <1>19, <1>20 DEF BackInTown, there, shows, heard
<1>22. QED
    BY <1>7, <1>21 DEF u

LEMMA ReturnedPlaces ==
    ASSUME Sound(Now), NEW s, NEW q, NEW t, Returns(s, q, t),
           NEW w, w = SetRoom(Leave(places, q, {s}), {s}, 0), NEW u, u = SetRoom(Leave(places, q, {s}), {s}, t)
    PROVE  /\ InRoom(u, w, s, t) /\ IsTown(u, t) /\ u.rooms[t].members = places.rooms[t].members
           /\ s \in Sessions /\ q \in RoomIds /\ t \in RoomIds /\ u.room[s] = t
           /\ \A x \in Listed(u, t) : x \in places.rooms[t].members
           /\ Listed(places, q) = Listed(u, q) \cup {s}
<1> DEFINE v == Leave(places, q, {s})
<1>1. Placed(places, origin) /\ Shape(places)
    BY NowFields DEF NowParts, Sound, Placed, InStep
<1>2. /\ s \in Sessions /\ s \in places.live /\ q \in RoomIds /\ t \in RoomIds /\ t # q /\ q = places.room[s]
      /\ t \in Open(places) /\ q # 0 /\ t # 0 /\ s \in places.rooms[t].members
    BY <1>1 DEF Returns, Shape
<1>3. LeftBy(v, places, q, {s})
    BY <1>1, LeaveFields
<1>4. w = SetRoom(v, {s}, 0) /\ u = SetRoom(v, {s}, t)
    OBVIOUS
<1> HIDE DEF v
<1>5. WordsSet(w, v, {s}, 0) /\ WordsSet(u, v, {s}, t)
    BY <1>2, <1>3, <1>4, SetRoomFields DEF LeftBy
<1>6. /\ v.live = places.live /\ v.room = places.room /\ v.lobby = places.lobby
      /\ t \in Open(v) /\ Like(v.rooms[t], places.rooms[t]) /\ v.rooms[t].members = places.rooms[t].members
    BY <1>2, <1>3 DEF LeftBy
<1>7. /\ u.live = places.live /\ w.live = places.live /\ u.lobby = places.lobby /\ w.lobby = places.lobby
      /\ u.rooms = v.rooms /\ w.rooms = v.rooms /\ Open(u) = Open(v) /\ Open(w) = Open(v) /\ Shape(u)
      /\ \A x \in Sessions : /\ u.room[x] = IF x = s THEN t ELSE places.room[x]
                             /\ w.room[x] = IF x = s THEN 0 ELSE places.room[x]
    BY <1>2, <1>5, <1>6 DEF WordsSet
<1>8. \A x \in Open(w) :
          /\ Like(u.rooms[x], w.rooms[x])
          /\ u.rooms[x].members = IF x = t THEN w.rooms[x].members \cup {s} ELSE w.rooms[x].members
    BY <1>2, <1>6, <1>7, ZenonT(40) DEF Like
<1>9. u.rooms[t].lobby = u.lobby[s]
    BY <1>6, <1>7 DEF Like, Returns
<1>10. InRoom(u, w, s, t)
    BY <1>2, <1>6, <1>7, <1>8, <1>9 DEF InRoom
<1>11. IsTown(u, t)
    BY <1>6, <1>7 DEF Returns, IsTown, Like
<1>12. \A x \in Listed(u, t) : x \in places.rooms[t].members
    <2>1. SUFFICES ASSUME NEW x \in Listed(u, t), x # s PROVE x \in places.rooms[t].members
        BY <1>2
    <2>2. x \in places.live /\ x \in Sessions /\ places.room[x] = t
        BY <1>1, <1>7, <2>1 DEF Listed, Shape
    <2>3. QED
        BY <1>1, <1>2, <2>2 DEF Placed, InStep, InItsRoom
<1>13. Listed(places, q) = Listed(u, q) \cup {s}
    BY <1>1, <1>2, <1>7 DEF Listed, Shape
<1>14. QED
    BY <1>2, <1>6, <1>7, <1>10, <1>11, <1>12, <1>13

LEMMA ReturnedIsHandled ==
    ASSUME TownsInv, NEW s, NEW q, NEW t, Returns(s, q, t), Tracked(Returned(s, q, t))
    PROVE  Handled
<1> DEFINE c == OnItsWay(s, q)
           w == SetRoom(Leave(places, q, {s}), {s}, 0)
           u == SetRoom(Leave(places, q, {s}), {s}, t)
           e == Returned(s, q, t)
<1>1. Sound(Now) /\ NowParts /\ Work(Now) /\ Shows(Now) /\ Shape(places)
    BY NowFields DEF NowParts, TownsInv, Sound, Placed, InStep
<1>2. /\ InRoom(u, w, s, t) /\ IsTown(u, t) /\ u.rooms[t].members = places.rooms[t].members
      /\ s \in Sessions /\ q \in RoomIds /\ t \in RoomIds /\ u.room[s] = t
      /\ \A x \in Listed(u, t) : x \in places.rooms[t].members
      /\ Listed(places, q) = Listed(u, q) \cup {s}
    BY <1>1, ReturnedPlaces
<1>3. OnItsWayFields(c, s, q)
    BY <1>1, <1>2, OnItsWayHas
<1> HIDE DEF c
<1>4. TakenOut(c, Now, s, TRUE, t) /\ KeepsTown(places, s, TRUE, t)
    BY <1>1, <1>3, OnItsWayTakenOut
<1>5. Sound(c) /\ Hears(c, Now, s)
    <2>1. KeepsTown(Now.places, s, TRUE, t)
        BY <1>1, <1>4 DEF NowParts
    <2>2. QED
        BY <1>1, <1>2, <1>4, <2>1, OutIsSound, OutHears
<1>6. BackInTown(e, u, s, q, t)
    <2>1. Shape(u)
        BY <1>2 DEF InRoom
    <2>2. QED
        BY <1>1, <1>2, <2>1, ReturnedFields
<1>7. c.places = w
    BY <1>3 DEF OnItsWayFields
<1> HIDE DEF u, w, e
<1>8. ~Started(u, t) /\ Started(places, q) /\ q # 0 /\ q = places.room[s] /\ t # q /\ q # t /\ s \in places.live
    BY <1>2 DEF IsTown, Started, TownRules, Returns
<1>9. /\ Work(e) /\ e.places = u /\ e.named = named
      /\ \A x \in Sessions \ {s} :
             /\ e.shown[x] = IF x \in Listed(u, t) THEN shown[x] \cup {s} ELSE shown[x]
             /\ e.ghosts[x] = IF x \in Listed(u, t) THEN ghosts[x] \ {s} ELSE ghosts[x]
             /\ e.origin[x] = origin[x] /\ e.player[x].alias = player[x].alias
      /\ e.origin[s] = 0 /\ e.player[s].alias = q
      /\ e.shown[s] = (shown[s] \cup (Listed(u, t) \ {s})) \ (departures[q] \ places.rooms[t].members)
    BY <1>2, <1>6, <1>8 DEF BackInTown
<1>10. \A x \in Sessions \ {s} : x \in Listed(u, t) <=> x \in Listed(w, t)
    BY <1>2 DEF InRoom, Listed
<1>11. Entered(e, c, s, t)
    <2>1. e.departures = c.departures /\ e.back = c.back
        <3>1. /\ e.departures \in [RoomIds -> SUBSET Sessions] /\ c.departures \in [RoomIds -> SUBSET Sessions]
              /\ e.back \in [RoomIds -> SUBSET Sessions] /\ c.back \in [RoomIds -> SUBSET Sessions]
            BY <1>3, <1>9 DEF OnItsWayFields, Work
        <3>2. \A x \in RoomIds : e.departures[x] = c.departures[x] /\ e.back[x] = c.back[x]
            <4>1. SUFFICES ASSUME NEW x \in RoomIds PROVE e.departures[x] = c.departures[x] /\ e.back[x] = c.back[x]
                OBVIOUS
            <4>2. /\ c.back[x] = IF x = q THEN back[x] \cup {s} ELSE back[x]
                  /\ c.departures[x] = IF x = q /\ places.rooms[q].members = {s} THEN {} ELSE departures[x]
                BY <1>3 DEF OnItsWayFields
            <4>3. /\ e.back[x] = IF x = q THEN back[x] \cup {s} ELSE back[x]
                  /\ e.departures[x] = IF x = q /\ places.rooms[q].members = {s} THEN {} ELSE departures[x]
                BY <1>6 DEF BackInTown
            <4>4. QED
                BY <4>2, <4>3
        <3>3. QED
            BY <3>1, <3>2
    <2>2. \A x \in Sessions : e.player[x].area = c.player[x].area /\ e.player[x].known = c.player[x].known
        BY <1>3, <1>6 DEF OnItsWayFields, BackInTown
    <2>3. \A x \in Sessions \ {s} :
              /\ e.origin[x] = c.origin[x] /\ e.player[x].alias = c.player[x].alias /\ e.named[x] = c.named[x]
              /\ e.shown[x] = IF x \in Listed(w, t) /\ ~Started(u, t) THEN c.shown[x] \cup {s} ELSE c.shown[x]
              /\ InStartedQuest(w, x) => e.shown[x] \cup e.ghosts[x] = c.shown[x] \cup c.ghosts[x]
        <3>1. SUFFICES ASSUME NEW x \in Sessions \ {s}
                       PROVE  /\ e.origin[x] = c.origin[x] /\ e.player[x].alias = c.player[x].alias
                              /\ e.named[x] = c.named[x]
                              /\ e.shown[x] = IF x \in Listed(w, t) /\ ~Started(u, t)
                                              THEN c.shown[x] \cup {s} ELSE c.shown[x]
                              /\ InStartedQuest(w, x) => e.shown[x] \cup e.ghosts[x] = c.shown[x] \cup c.ghosts[x]
            OBVIOUS
        <3>2. /\ c.origin[x] = origin[x] /\ c.player[x].alias = player[x].alias /\ c.shown[x] = shown[x]
              /\ c.ghosts[x] = ghosts[x] /\ c.named[x] = named[x]
            BY <1>3 DEF OnItsWayFields
        <3>3. x \in Listed(w, t) => ~InStartedQuest(w, x)
            <4>1. InRoomAs(u, w, s, t)
                BY <1>2, <1>5, <1>7, InRoomRooms DEF Sound
            <4>2. t \in Open(w) => ~Started(w, t)
                BY <1>8, <4>1 DEF InRoomAs
            <4>3. QED
                BY <4>2 DEF Listed, InStartedQuest, Started
        <3>4. QED
            BY <1>8, <1>9, <1>10, <3>2, <3>3
    <2>4. e.origin[s] = 0 /\ \A x \in Open(w) : s \in w.rooms[x].members => x = t
        <3>1. \A x \in Open(w) : s \in w.rooms[x].members => IsTown(places, x) /\ x \in Open(places)
                                                            /\ s \in places.rooms[x].members
            BY <1>1, <1>4, <1>7 DEF TakenOut, Parted, NowParts
        <3>2. QED
            BY <1>4, <1>9, <3>1 DEF KeepsTown
    <2>5. Met(e, s)
        <3>1. Listed(u, t) \ {s} \subseteq e.shown[s]
            BY <1>2, <1>9
        <3>2. e.player[s].alias # 0
            BY <1>8, <1>9
        <3>3. QED
            BY <1>2, <1>9, <3>1, <3>2 DEF Met
    <2>6. e.named[s] = IF e.player[s].alias # 0 THEN e.player[s].alias ELSE t
        <3>1. ~IsTown(places, q)
            BY <1>8 DEF Started, IsTown, TownRules
        <3>2. player[s].alias = 0
            BY <1>1, <1>2, <1>8, <3>1, AliasInTown
        <3>3. named[s] = q
            BY <1>1, <1>8, <3>2 DEF Sound, Named, NowParts
        <3>4. QED
            BY <1>8, <1>9, <3>3
    <2>7. QED
        BY <1>2, <1>7, <1>8, <1>9, <2>1, <2>2, <2>3, <2>4, <2>5, <2>6 DEF Entered
<1>12. Sound(e) /\ Unheard(e, c, s)
    BY <1>2, <1>5, <1>11, EnteredIsSound
<1>13. Unheard(e, Now, s)
    BY <1>5, <1>12, UnheardTwice DEF Hears
<1>14. Mild(e)
    <2>1. ASSUME NEW x \in Sessions, InStartedQuest(places, x), InStartedQuest(e.places, x)
          PROVE  e.shown[x] \cup e.ghosts[x] = shown[x] \cup ghosts[x]
        <3>1. x # s
            BY <1>2, <1>8, <1>9, <2>1 DEF InStartedQuest
        <3>2. QED
            BY <1>1, <1>13, <2>1, <3>1 DEF Unheard, NowParts
    <2>2. ASSUME NEW x \in Sessions, Started(places, places.room[x]), IsTown(e.places, e.places.room[x]),
                 e.player[x].alias = places.room[x]
          PROVE  e.shown[x] \subseteq e.places.rooms[e.places.room[x]].members \cup Listed(e.places, places.room[x])
                                      \cup back[places.room[x]]
        <3>1. CASE x = s
            <4>1. shown[s] \subseteq Listed(places, q) \cup departures[q] \cup back[q]
                <5>1. Heard(Now, s)
                    BY <1>1, <1>8 DEF Shows, NowParts
                <5>2. QED
                    BY <1>1, <1>8, <5>1 DEF Heard, NowParts
            <4>2. s \in places.rooms[t].members
                BY DEF Returns
            <4>3. e.shown[s] \subseteq places.rooms[t].members \cup Listed(u, q) \cup back[q]
                BY <1>2, <1>9, <4>1, <4>2
            <4>4. QED
                BY <1>2, <1>8, <1>9, <3>1, <4>3
        <3>2. CASE x # s
            <4>1. InStartedQuest(places, x)
                BY <1>1, <2>2, PlacesAssumption DEF InStartedQuest, Started, Shape, RoomIds
            <4>2. Started(e.places, e.places.room[x])
                BY <1>1, <1>13, <3>2, <4>1 DEF Unheard, NowParts, InStartedQuest
            <4>3. QED
                BY <2>2, <4>2 DEF Started, IsTown, TownRules
        <3>3. QED
            BY <3>1, <3>2
    <2>3. QED
        BY <2>1, <2>2 DEF Mild
<1>15. Tracked(e)
    BY DEF e
<1>16. QED
    BY <1>12, <1>14, <1>15, TrackedIsHandled

LEMMA ReturnFromQuestHandled == ASSUME TownsInv, NEW s \in Sessions, ReturnFromQuest(s) PROVE Handled
<1> DEFINE q == places.room[s]
           towns == IF origin[s] \in Open(places) THEN OriginTowns(places, s, places.rooms[origin[s]].rules) ELSE {}
           t == CHOOSE town \in towns : TRUE
<1>1. s \in places.live /\ Started(places, q)
    BY DEF ReturnFromQuest, Hunter
<1>2. CASE Cardinality(towns) # 1
    BY <1>2, NothingIsHandled DEF ReturnFromQuest
<1>3. CASE Cardinality(towns) = 1
    <2>1. Tracked(Returned(s, q, t))
        BY <1>3 DEF ReturnFromQuest
    <2>2. towns # {}
        BY <1>3, FS_EmptySet
    <2>3. t \in towns
        BY <2>2
    <2>4. t \in ListingTowns(places, s)
        BY <2>3 DEF OriginTowns
    <2> HIDE DEF t
    <2>5. Returns(s, q, t)
        BY <1>1, <2>4, ReturnFindsTown DEF TownsInv
    <2>6. QED
        BY <2>1, <2>5, ReturnedIsHandled
<1>4. QED
    BY <1>2, <1>3

-----------------------------------------------------------------------------
\* Whoever came back from a quest room is remembered as long as it is open.
Closed(e) == [e EXCEPT !.back = [r \in RoomIds |-> IF r \in Open(e.places) THEN e.back[r] ELSE {}]]

LEMMA ClosedIsSound == ASSUME NEW e, Sound(e) PROVE Sound(Closed(e))
<1> DEFINE n == Closed(e)
           b == [r \in RoomIds |-> IF r \in Open(e.places) THEN e.back[r] ELSE {}]
<1>1. Work(e) /\ Placed(e.places, e.origin) /\ Shows(e) /\ Counts(e.places, e.player)
    BY DEF Sound
<1>2. n = [e EXCEPT !.back = b]
    BY DEF Closed
<1>3. b \in [RoomIds -> SUBSET Sessions]
    BY <1>1 DEF Work
<1>4. \A r \in RoomIds : r \in Open(e.places) => b[r] = e.back[r]
    OBVIOUS
<1> HIDE DEF b, n
<1>5. /\ Work(n) /\ n.places = e.places /\ n.player = e.player /\ n.departures = e.departures
      /\ n.shown = e.shown /\ n.origin = e.origin /\ n.back = b /\ n.named = e.named
    BY <1>1, <1>2, <1>3 DEF Work
<1>6. Shows(n)
    <2>1. ASSUME NEW x \in e.places.live, e.places.room[x] # 0
          PROVE  IF Started(e.places, e.places.room[x]) THEN Heard(n, x) ELSE Met(n, x)
        <3>1. IF Started(e.places, e.places.room[x]) THEN Heard(e, x) ELSE Met(e, x)
            BY <1>1, <2>1 DEF Shows
        <3>2. Met(e, x) => Met(n, x)
            BY <1>5 DEF Met
        <3>3. ASSUME Started(e.places, e.places.room[x]) PROVE Heard(e, x) => Heard(n, x)
            <4>1. e.places.room[x] \in Open(e.places) /\ e.places.room[x] \in RoomIds
                BY <1>1, <3>3 DEF Started, Placed, InStep, Shape
            <4>2. n.back[e.places.room[x]] = e.back[e.places.room[x]]
                BY <1>4, <1>5, <4>1
            <4>3. QED
                BY <1>5, <4>2 DEF Heard
        <3>4. QED
            BY <3>1, <3>2, <3>3
    <2>2. QED
        BY <1>1, <1>5, <2>1 DEF Shows
<1>7. Sound(n)
    BY <1>1, <1>5, <1>6 DEF Sound, Named
<1>8. QED
    BY <1>7 DEF n

LEMMA HandledKeeps == ASSUME Handled PROVE TownsInv'
<1>1. PICK e : Settled(e) /\ Sound(e)
    BY DEF Handled
<1>2. /\ places' = e.places /\ player' = e.player /\ departures' = e.departures /\ shown' = e.shown
      /\ ghosts' = e.ghosts /\ origin' = e.origin /\ named' = e.named
      /\ back' = [r \in RoomIds |-> IF r \in Open(e.places) THEN e.back[r] ELSE {}]
    BY <1>1 DEF Settled, Untracked
<1>3. Now' = Closed(e)
    <2>1. Work(e)
        BY <1>1 DEF Sound
    <2> DEFINE b == [r \in RoomIds |-> IF r \in Open(e.places) THEN e.back[r] ELSE {}]
    <2>2. Closed(e) = [e EXCEPT !.back = b] /\ back' = b
        BY <1>2 DEF Closed
    <2> HIDE DEF b
    <2>3. [e EXCEPT !.back = b] = [places |-> e.places, player |-> e.player, departures |-> e.departures,
                                   shown |-> e.shown, ghosts |-> e.ghosts, origin |-> e.origin,
                                   named |-> e.named, back |-> b]
        BY <2>1 DEF Work
    <2>4. QED
        BY <1>2, <2>2, <2>3 DEF Now
<1>4. Sound(Closed(e))
    BY <1>1, ClosedIsSound
<1>5. Sound(Now)'
    BY <1>3, <1>4
<1>6. TownTableFresh'
    <2>1. \A a \in Lobbies : table'[a] = TownRows(e.places, a)
        BY <1>1 DEF Settled
    <2>2. QED
        BY <1>2, <2>1 DEF TownTableFresh
<1>7. QED
    BY <1>5, <1>6 DEF TownsInv

\* What the steps do to a hunter on a quest, and on its way back.
Undisturbed ==
    \A s \in Sessions :
        InStartedQuest(places, s) /\ InStartedQuest(places', s) =>
            shown'[s] \cup ghosts'[s] = shown[s] \cup ghosts[s]

Forgetful ==
    \A s \in Sessions :
        LET q == places.room[s] IN
        Started(places, q) /\ IsTown(places', places'.room[s]) /\ player'[s].alias = q =>
            shown'[s] \subseteq places'.rooms[places'.room[s]].members \cup Listed(places', q) \cup back[q]

LEMMA HandledIsMild == ASSUME Handled PROVE Undisturbed /\ Forgetful
<1>1. PICK e : Settled(e) /\ Mild(e)
    BY DEF Handled
<1>2. places' = e.places /\ player' = e.player /\ shown' = e.shown /\ ghosts' = e.ghosts
    BY <1>1 DEF Settled, Untracked
<1>3. Undisturbed
    BY <1>1, <1>2 DEF Mild, Undisturbed
<1>4. Forgetful
    BY <1>1, <1>2 DEF Mild, Forgetful
<1>5. QED
    BY <1>3, <1>4

LEMMA NextHandled == ASSUME TownsInv, Next PROVE Handled
<1>1. CASE \E s \in Sessions : End(s) \/ Logout(s) \/ LeaveArea(s) \/ LeaveRoom(s)
    BY <1>1, EndHandled, LogoutHandled, LeaveAreaHandled, LeaveRoomHandled
<1>2. CASE \E s \in Sessions, new \in BOOLEAN : KicsLogin(s, new)
    BY <1>2, KicsLoginHandled
<1>3. CASE \E s \in Sessions, a \in Lobbies : JoinArea(s, a)
    BY <1>3, JoinAreaHandled
<1>4. CASE \E s \in Sessions, max \in Capacities, rules \in Rules : CreateGameRoom(s, max, rules)
    BY <1>4, CreateGameRoomHandled
<1>5. CASE \E s \in Sessions, id \in RoomIds : JoinRoom(s, id)
    BY <1>5, JoinRoomHandled
<1>6. CASE \E s \in Sessions : PrepareDeparture(s) \/ StartQuest(s) \/ ReturnFromQuest(s)
    BY <1>6, PrepareDepartureHandled, StartQuestHandled, ReturnFromQuestHandled
<1>7. CASE \E s \in Sessions, departing \in BOOLEAN : PublishProfile(s, departing)
    BY <1>7, PublishProfileHandled
<1>8. QED
    BY <1>1, <1>2, <1>3, <1>4, <1>5, <1>6, <1>7 DEF Next

LEMMA TownsInit == Init => TownsInv
<1> SUFFICES ASSUME Init PROVE TownsInv
    OBVIOUS
<1>. USE DEF Init
<1>1. NowParts /\ InStep(NoPlaces, {}) /\ Open(NoPlaces) = {} /\ Shape(NoPlaces)
    BY NowFields, NoPlacesInStep DEF InStep
<1>2. /\ NoPlaces.live = {} /\ \A s \in Sessions : NoPlaces.lobby[s] = 0 /\ NoPlaces.room[s] = 0
    BY DEF NoPlaces
<1>3. Work(Now)
    <2>1. Forgotten \in Players
        BY ForgottenIsPlayer
    <2>2. player \in [Sessions -> Players]
        BY <2>1
    <2>3. QED
        BY <2>2 DEF Now, Work
<1>4. \A r : ~IsTown(NoPlaces, r) /\ ~Started(NoPlaces, r)
    BY <1>1 DEF IsTown, Started
<1>5. Placed(places, origin)
    BY <1>1, <1>2, <1>4 DEF Placed, Listings, Awaited
<1>6. Shows(Now)
    BY <1>1, <1>2 DEF Shows, NowParts, Forgotten
<1>7. Counts(places, player)
    <2>1. \A A : 0 \notin A => Counted(player, A) = {}
        BY DEF Counted, Forgotten
    <2>2. Cardinality({}) = 0
        BY FS_EmptySet
    <2>3. \A a \in Lobbies : Counted(player, {a}) = {}
        BY <2>1, PlacesAssumption
    <2>4. Counted(player, Lobbies) = {}
        BY <2>1, PlacesAssumption
    <2>5. \A s \in Sessions : player[s].area = 0 /\ places.lobby[s] = 0
        BY <1>2 DEF Forgotten
    <2>6. /\ \A a \in Lobbies : Cardinality(Counted(player, {a})) <= AreaCapacity
          /\ Cardinality(Counted(player, Lobbies)) <= LandCapacity
        <3>1. 0 <= AreaCapacity /\ 0 <= LandCapacity
            BY CapacityAssumption
        <3>2. \A a \in Lobbies : Cardinality(Counted(player, {a})) = 0
            BY <2>2, <2>3
        <3>3. Cardinality(Counted(player, Lobbies)) = 0
            BY <2>2, <2>4
        <3>4. QED
            BY <3>1, <3>2, <3>3
    <2>7. QED
        BY <2>5, <2>6 DEF Counts
<1>8. TownTableFresh
    BY <1>1 DEF TownTableFresh, TownRows, RoomsOf
<1>9. QED
    BY <1>1, <1>2, <1>3, <1>5, <1>6, <1>7, <1>8 DEF TownsInv, Sound, Named, NowParts

LEMMA TownsStutter == ASSUME TownsInv, UNCHANGED vars PROVE TownsInv' /\ Undisturbed /\ Forgetful
<1>1. Now' = Now /\ TownTableFresh'
    BY DEF vars, Now, TownsInv, TownTableFresh
<1>2. TownsInv'
    BY <1>1 DEF TownsInv
<1>3. Undisturbed
    BY DEF vars, Undisturbed
<1>4. Forgetful
    <2>1. \A s \in Sessions : Started(places, places.room[s]) /\ IsTown(places, places.room[s]) => FALSE
        BY DEF Started, IsTown, TownRules
    <2>2. QED
        BY <2>1 DEF vars, Forgetful
<1>5. QED
    BY <1>2, <1>3, <1>4

-----------------------------------------------------------------------------
LEMMA TownsTyped == TownsInv => TypeOK
<1> SUFFICES ASSUME TownsInv PROVE TypeOK
    OBVIOUS
<1>1. NowParts /\ Work(Now) /\ Shape(places) /\ Shows(Now) /\ TownTableFresh
    BY NowFields DEF NowParts, TownsInv, Sound, Placed, InStep
<1>2. places \in Places
    BY <1>1, ShapeIsPlaces
<1>3. \A r \in RoomIds : departures[r] # {} => Started(places, r)
    BY <1>1 DEF Shows, NowParts
<1>4. ASSUME NEW a \in Lobbies, NEW row \in table[a] PROVE row \in Rows
    <2>1. table[a] = TownRows(places, a)
        BY <1>1 DEF TownTableFresh
    <2>2. PICK r \in Open(places) : IsTown(places, r) /\ row = RoomRow(places, r)
        BY <1>4, <2>1 DEF TownRows, RoomsOf
    <2>3. /\ r \in RoomIds /\ IsFiniteSet(places.rooms[r].members)
          /\ places.rooms[r].rules \in TownRules
        BY <1>1, <2>2, PlacesAssumption, FS_Subset DEF Shape, GameRooms, IsTown
    <2>4. Cardinality(places.rooms[r].members) \in Nat
        BY <2>3, FS_CardinalityType
    <2>5. QED
        BY <2>2, <2>3, <2>4 DEF RoomRow, Rows
<1>5. QED
    BY <1>1, <1>2, <1>3, <1>4 DEF TypeOK, Work, Players, NowParts

LEMMA OneTownLists == TownsInv => ListedOnce
<1> SUFFICES ASSUME TownsInv, NEW s \in Sessions
             PROVE  Cardinality({t \in Open(places) : IsTown(places, t) /\ s \in places.rooms[t].members}) <= 1
    BY DEF ListedOnce
<1> DEFINE T == {t \in Open(places) : IsTown(places, t) /\ s \in places.rooms[t].members}
<1>1. Placed(places, origin)
    BY NowFields DEF NowParts, TownsInv, Sound
<1>2. \A t \in T : t # 0 /\ (places.room[s] = t \/ origin[s] = t)
    BY <1>1, PlacesAssumption DEF Placed, InStep, Shape, RoomIds, Listings
<1>3. IsTown(places, places.room[s]) => origin[s] = 0
    BY <1>1 DEF Placed, Awaited
<1>4. \A t \in T : IsTown(places, t)
    OBVIOUS
<1> HIDE DEF T
<1>5. \A t, x \in T : t = x
    BY <1>2, <1>3, <1>4
<1>6. CASE T = {}
    BY <1>6, FS_EmptySet DEF T
<1>7. CASE T # {}
    <2>1. PICK t \in T : T = {t}
        BY <1>5, <1>7
    <2>2. Cardinality(T) = 1
        BY <2>1, FS_Singleton
    <2>3. QED
        BY <2>2 DEF T
<1>8. QED
    BY <1>6, <1>7

LEMMA NoAreaOverfull == TownsInv => AreaNotOverfull
<1> SUFFICES ASSUME TownsInv PROVE AreaNotOverfull
    OBVIOUS
<1>1. Counts(places, player) /\ Shape(places)
    BY NowFields DEF NowParts, TownsInv, Sound, Placed, InStep
<1>2. \A A : IsFiniteSet(Counted(player, A)) /\ Cardinality(Counted(player, A)) \in Nat
    <2>1. \A A : Counted(player, A) \in SUBSET Sessions
        BY DEF Counted
    <2>2. QED
        BY <2>1, PlacesAssumption, FS_Subset, FS_CardinalityType
<1>3. ASSUME NEW a \in Lobbies
      PROVE  Cardinality({s \in places.live : places.lobby[s] = a}) <= AreaCapacity
    <2> DEFINE S == {s \in places.live : places.lobby[s] = a}
    <2>1. S \in SUBSET Counted(player, {a})
        BY <1>1, PlacesAssumption DEF Counts, Counted, Shape
    <2> HIDE DEF S
    <2>2. Cardinality(S) <= Cardinality(Counted(player, {a})) /\ Cardinality(S) \in Nat
        BY <1>2, <2>1, FS_Subset, FS_CardinalityType
    <2>3. Cardinality(Counted(player, {a})) <= AreaCapacity /\ Cardinality(Counted(player, {a})) \in Nat
        BY <1>1, <1>2 DEF Counts
    <2>4. QED
        BY <2>2, <2>3, CapacityAssumption DEF S
<1>4. Cardinality({s \in places.live : places.lobby[s] # 0}) <= LandCapacity
    <2> DEFINE S == {s \in places.live : places.lobby[s] # 0}
    <2>1. S \in SUBSET Counted(player, Lobbies)
        BY <1>1 DEF Counts, Counted, Shape
    <2> HIDE DEF S
    <2>2. Cardinality(S) <= Cardinality(Counted(player, Lobbies)) /\ Cardinality(S) \in Nat
        BY <1>2, <2>1, FS_Subset, FS_CardinalityType
    <2>3. Cardinality(Counted(player, Lobbies)) <= LandCapacity /\ Cardinality(Counted(player, Lobbies)) \in Nat
        BY <1>1, <1>2 DEF Counts
    <2>4. QED
        BY <2>2, <2>3, CapacityAssumption DEF S
<1>5. QED
    BY <1>3, <1>4 DEF AreaNotOverfull

LEMMA TownsInvIsSound == TownsInv => TownsSound
<1> SUFFICES ASSUME TownsInv PROVE TownsSound
    OBVIOUS
<1>1. NowParts /\ Placed(places, origin) /\ Shape(places) /\ Shows(Now) /\ TownTableFresh
    BY NowFields DEF NowParts, TownsInv, Sound, Placed, InStep
<1>2. SessionsRoomHasIt
    BY <1>1 DEF Placed, InStep, InItsRoom, SessionsRoomHasIt
<1>3. HuntersMeet
    BY <1>1 DEF Shows, Met, NowParts, HuntersMeet
<1>4. PlaceKept
    <2>1. \A r \in Open(places) : r # 0
        BY <1>1, PlacesAssumption DEF Shape, RoomIds
    <2>2. places.live \subseteq Sessions
        BY <1>1 DEF Shape
    <2>3. QED
        BY <1>1, <2>1, <2>2 DEF Placed, Awaited, PlaceKept
<1>5. QED
    BY <1>1, <1>2, <1>3, <1>4, TownsTyped, OneTownLists, NoAreaOverfull DEF TownsSound

\* Whatever leaves, joins, logins, ends and returns interleave (plugin.py:78-107,
\* 404-463, 821-898, 910-1114): every session is a member of the room that its
\* word names, at most one Town lists a hunter, the hunters of a Town or a
\* waiting quest room show each other, the Town that a hunter left for a quest
\* keeps its place, the Town tables that were read are those of the Areas, and
\* no Area and no Land holds more than its capacity.
THEOREM TownsAreSound == Spec => []TownsSound
<1>1. Init => TownsInv
    BY TownsInit
<1>2. TownsInv /\ [Next]_vars => TownsInv'
    BY NextHandled, HandledKeeps, TownsStutter
<1>3. TownsInv => TownsSound
    BY TownsInvIsSound
<1>4. QED
    BY <1>1, <1>2, <1>3, PTL DEF Spec

\* No step tells a hunter on a quest anything, and one that is back in its Town
\* shows nobody who left the quest room while it was away and is not in that
\* Town, those that came back before it aside (plugin.py:59-66, 821-842, 876-882).
THEOREM HuntersHearNothingAway == Spec => HunterSteps
<1>1. Init => TownsInv
    BY TownsInit
<1>2. TownsInv /\ [Next]_vars => TownsInv'
    BY NextHandled, HandledKeeps, TownsStutter
<1>3. TownsInv /\ [Next]_vars => [Undisturbed]_vars /\ [Forgetful]_vars
    BY NextHandled, HandledIsMild
<1>4. Spec => [][Undisturbed]_vars /\ [][Forgetful]_vars
    BY <1>1, <1>2, <1>3, PTL DEF Spec
<1>5. QED
    BY <1>4 DEF HunterSteps, QuestHearsNothing, ReturnForgetsDeparted, Undisturbed, Forgetful

-----------------------------------------------------------------------------
(***************************************************************************)
(* The answers.                                                            *)
(***************************************************************************)

\* A set that is read in pages.
LEMMA SetIsRead ==
    ASSUME NEW S, IsFiniteSet(S)
    PROVE  RowsRead(ListPages(Seqs!SetToSeq(S), PageRows)) = S
<1> DEFINE n == Cardinality(S)
           f == Seqs!SetToSeq(S)
<1>1. n \in Nat /\ ExistsBijection(1 .. n, S)
    BY FS_CardinalityType
<1>2. PICK g \in Bijection(1 .. n, S) : TRUE
    BY <1>1 DEF ExistsBijection
<1>3. f \in [1 .. n -> S] /\ IsInjective(f)
    <2>1. g \in [1 .. n -> S] /\ IsInjective(g)
        BY <1>2 DEF Bijection, Injection
    <2>2. Seqs!Cardinality(S) = n
        BY DEF Seqs!Cardinality, Cardinality
    <2>3. QED
        BY <2>1, <2>2 DEF Seqs!SetToSeq, IsInjective, Seqs!IsInjective
<1> HIDE DEF f
<1>4. QED
    BY <1>3, EnumerationIsRead, PageAssumption DEF f

\* What the answers are made of.
Answering ==
    /\ Shape(places) /\ places.live \subseteq Sessions /\ Placed(places, origin)
    /\ \A s \in places.live : places.room[s] # 0 =>
           /\ places.room[s] \in Open(places) /\ s \in places.rooms[places.room[s]].members
           /\ named[s] = IF player[s].alias # 0 THEN player[s].alias ELSE places.room[s]
    /\ \A r \in Open(places) : r # 0 /\ \A s \in places.rooms[r].members :
           s \in places.live /\ player[s].known /\ player[s].area = places.lobby[s] /\ places.lobby[s] \in Lobbies
    /\ \A s \in Sessions : player[s].area # 0 => player[s].known /\ s \in places.live
    /\ \A s \in Sessions : places.lobby[s] # 0 => player[s].area = places.lobby[s]

LEMMA InvAnswers == ASSUME TownsInv PROVE Answering
<1>1. Sound(Now) /\ NowParts /\ Shape(places) /\ Placed(places, origin)
    BY NowFields DEF NowParts, TownsInv, Sound, Placed, InStep
<1>2. places.live \subseteq Sessions
    BY <1>1 DEF Shape
<1>3. Counts(places, player) /\ InStep(places, {})
    BY <1>1 DEF NowParts, Sound, Placed
<1>4. ASSUME NEW s \in places.live, places.room[s] # 0
      PROVE  /\ places.room[s] \in Open(places) /\ s \in places.rooms[places.room[s]].members
             /\ named[s] = IF player[s].alias # 0 THEN player[s].alias ELSE places.room[s]
    BY <1>1, <1>3, <1>4 DEF InStep, InItsRoom, Sound, Named, NowParts
<1>5. ASSUME NEW s \in Sessions, places.lobby[s] # 0 PROVE player[s].known /\ player[s].area = places.lobby[s]
    BY <1>3, <1>5 DEF Counts, Counted
<1>6. ASSUME NEW r \in Open(places), NEW s \in places.rooms[r].members
      PROVE  s \in places.live /\ player[s].known /\ player[s].area = places.lobby[s] /\ places.lobby[s] \in Lobbies
    <2>1. s \in places.live /\ places.lobby[s] = places.rooms[r].lobby
        BY <1>1 DEF Placed, Listings
    <2>2. places.rooms[r].lobby \in Lobbies /\ places.rooms[r].lobby # 0
        BY <1>1, PlacesAssumption DEF Shape, GameRooms
    <2>3. QED
        BY <1>2, <1>5, <2>1, <2>2
<1>7. \A r \in Open(places) : r # 0
    BY <1>1, PlacesAssumption DEF Shape, RoomIds
<1>8. \A s \in Sessions : player[s].area # 0 => player[s].known /\ s \in places.live
    BY <1>3 DEF Counts
<1>9. QED
    BY <1>1, <1>2, <1>4, <1>5, <1>6, <1>7, <1>8 DEF Answering

\* The id that a client knows its room by leads to that room.
LEMMA NameLeads ==
    ASSUME Answering, NEW s \in places.live, places.room[s] # 0
    PROVE  ServerRoom(Now, s, named[s]) = places.room[s]
<1>1. named[s] = IF player[s].alias # 0 THEN player[s].alias ELSE places.room[s]
    BY DEF Answering
<1>2. QED
    BY <1>1, NowFields DEF NowParts, ServerRoom

LEMMA NamesMeet == ASSUME Answering PROVE RoomNamesMeet
<1> SUFFICES ASSUME NEW s \in places.live, places.room[s] # 0
             PROVE  /\ ServerRoom(Now, s, named[s]) = places.room[s]
                    /\ \A v \in Listed(places, places.room[s]) : ProfileFor(v, ServerProfile(s, named[s])) = named[v]
    BY DEF RoomNamesMeet
<1>1. ServerRoom(Now, s, named[s]) = places.room[s]
    BY NameLeads
<1>2. ASSUME NEW v \in Listed(places, places.room[s]) PROVE ProfileFor(v, places.room[s]) = named[v]
    <2>1. v \in places.live /\ places.room[v] = places.room[s]
        BY DEF Listed
    <2>2. named[v] = IF player[v].alias # 0 THEN player[v].alias ELSE places.room[v]
        BY <2>1 DEF Answering
    <2>3. QED
        BY <2>1, <2>2 DEF ProfileFor
<1>3. QED
    BY <1>1, <1>2 DEF ServerProfile

\* The Area list, by an id and by a name.
LEMMA AreaIsFound ==
    ASSUME NEW a \in Lobbies
    PROVE  /\ QueryArea(a, a, 0, 1) = QueryArea(0, 0, a, 1)
           /\ RowsRead(QueryArea(0, 0, a, 1)) = {AreaRow(a)}
<1> DEFINE Rows1(found) ==
             LET rows == InOrder({x \in found : Cardinality({b \in found : b < x}) < 1})
             IN ListPages([i \in DOMAIN rows |-> AreaRow(rows[i])], PageRows)
<1>1. a \in Nat /\ a # 0 /\ \A b \in Lobbies : b \in Nat
    BY PlacesAssumption
<1>2. {a} \cap Lobbies = {a} /\ {b \in Lobbies : a # 0 /\ a <= b /\ b <= a} = {a}
    <2>1. \A b \in Lobbies : a # 0 /\ a <= b /\ b <= a <=> b = a
        BY <1>1
    <2>2. QED
        BY <2>1, Zenon
<1>3. QueryArea(a, a, 0, 1) = Rows1({b \in Lobbies : a # 0 /\ a <= b /\ b <= a})
    BY DEF QueryArea
<1>4. QueryArea(0, 0, a, 1) = Rows1({a} \cap Lobbies)
    BY <1>1 DEF QueryArea
<1>5. {x \in {a} : Cardinality({b \in {a} : b < x}) < 1} = {a}
    <2>1. {b \in {a} : b < a} = {}
        BY <1>1
    <2>2. Cardinality({b \in {a} : b < a}) = 0
        BY <2>1, FS_EmptySet
    <2>3. QED
        BY <2>2
<1>6. RowsRead(Rows1({a})) = {AreaRow(a)}
    <2> DEFINE ids == InOrder({x \in {a} : Cardinality({b \in {a} : b < x}) < 1})
               row == [x \in {a} |-> AreaRow(x)]
               rows == [i \in DOMAIN ids |-> AreaRow(ids[i])]
    <2>1. ids = InOrder({a}) /\ IsFiniteSet({a}) /\ {a} \subseteq Nat
        BY <1>1, <1>5, FS_Singleton
    <2>2. \A i \in DOMAIN InOrder({a}) : InOrder({a})[i] \in {a}
        BY <2>1, InOrderLists
    <2>3. rows = [i \in DOMAIN InOrder({a}) |-> row[InOrder({a})[i]]]
        <3> HIDE DEF ids
        <3>1. \A i \in DOMAIN ids : row[ids[i]] = AreaRow(ids[i])
            BY <2>1, <2>2
        <3>2. QED
            BY <2>1, <3>1
    <2>4. Rows1({a}) = ListPages(rows, PageRows)
        OBVIOUS
    <2> HIDE DEF rows, row, ids
    <2>5. RowsRead(ListPages(rows, PageRows)) = {row[x] : x \in {a}}
        BY <2>1, <2>3, ListingIsRead, PageAssumption, SMTT(30)
    <2>6. row[a] = AreaRow(a)
        BY DEF row
    <2>7. QED
        BY <2>4, <2>5, <2>6
<1> HIDE DEF Rows1
<1>7. QED
    BY <1>2, <1>3, <1>4, <1>6

\* The Town table read over its pages.
LEMMA TableIsRead ==
    ASSUME TownsInv, NEW a \in Lobbies
    PROVE  {row \in RowsRead(QueryGameRooms(a)) : row.rules \in TownRules} = table[a]
<1> DEFINE S == RoomsOf(places, a)
           ids == InOrder(S)
           row == [r \in S |-> RoomRow(places, r)]
           rows == [i \in DOMAIN ids |-> RoomRow(places, ids[i])]
<1>1. IsFiniteSet(S) /\ S \subseteq Nat
    <2>1. S \subseteq RoomIds
        BY InvAnswers DEF RoomsOf, Shape, Answering
    <2>2. IsFiniteSet(RoomIds) /\ RoomIds \subseteq Nat
        BY FS_Interval, PlacesAssumption DEF RoomIds
    <2> HIDE DEF S
    <2>3. QED
        BY <2>1, <2>2, FS_Subset
<1>2. QueryGameRooms(a) = ListPages(rows, PageRows)
    BY DEF QueryGameRooms
<1> HIDE DEF S
<1>3. \A i \in DOMAIN ids : ids[i] \in S
    BY <1>1, InOrderLists
<1>4. rows = [i \in DOMAIN InOrder(S) |-> row[InOrder(S)[i]]]
    <2>1. \A i \in DOMAIN InOrder(S) : row[InOrder(S)[i]] = RoomRow(places, InOrder(S)[i])
        BY <1>3
    <2>2. QED
        BY <2>1
<1> HIDE DEF rows, row, ids
<1>5. RowsRead(ListPages(rows, PageRows)) = {row[r] : r \in S}
    BY <1>1, <1>4, ListingIsRead, PageAssumption
<1>6. RowsRead(QueryGameRooms(a)) = {RoomRow(places, r) : r \in S}
    BY <1>2, <1>5 DEF row
<1>7. table[a] = {RoomRow(places, r) : r \in {r \in S : IsTown(places, r)}}
    BY DEF TownsInv, TownTableFresh, TownRows, S
<1>8. \A r \in S : RoomRow(places, r).rules \in TownRules <=> IsTown(places, r)
    BY DEF RoomRow, IsTown, S, RoomsOf
<1>9. QED
    BY <1>6, <1>7, <1>8

\* The hunters that a hunter's Friend search finds.
Finds(s, p, a) == \E row \in SearchUsers(s, p) : row.area = a

LEMMA FoundHunter ==
    ASSUME NEW s, NEW p, NEW a
    PROVE  Finds(s, p, a) <=> player[p].known /\ p \in places.live /\ p # s /\ player[p].area = a
<1>. USE DEF Finds
<1>1. CASE player[p].known /\ p \in places.live /\ p # s
    <2>1. SearchUsers(s, p) = {[area |-> player[p].area, room |-> places.room[p]]}
        BY <1>1 DEF SearchUsers
    <2>2. QED
        BY <1>1, <2>1
<1>2. CASE ~(player[p].known /\ p \in places.live /\ p # s)
    <2>1. SearchUsers(s, p) = {}
        BY <1>2 DEF SearchUsers
    <2>2. QED
        BY <1>2, <2>1
<1>3. QED
    BY <1>1, <1>2

\* Rosters and user counts of an Area, and a hunter's own part in them.
LEMMA AreaAnswers ==
    ASSUME Answering, NEW a \in Lobbies, NEW s \in places.live
    PROVE  LET found == {p \in Sessions : \E row \in SearchUsers(s, p) : row.area = a} IN
           /\ RowsRead(QueryUser(s, "area", a)) = found
           /\ AreaPopulation(a) = Cardinality(found) + (IF player[s].area = a THEN 1 ELSE 0)
           /\ places.lobby[s] = a => s \in {p \in Sessions : player[p].area = a} /\ IdleLimit(s) # "none"
<1> DEFINE found == {p \in Sessions : \E row \in SearchUsers(s, p) : row.area = a}
           there == {p \in Sessions \ {s} : player[p].known /\ player[p].area = a}
           all == {p \in Sessions : player[p].known /\ player[p].area = a}
<1>1. a # 0 /\ s \in Sessions
    BY PlacesAssumption DEF Answering
<1>2. there \subseteq places.live /\ IsFiniteSet(there) /\ s \notin there
    <2>1. there \subseteq Sessions
        OBVIOUS
    <2>2. \A p \in there : p \in places.live
        BY <1>1 DEF Answering
    <2>3. QED
        BY <2>1, <2>2, FS_Subset, PlacesAssumption
<1>3. found = there
    <2>1. ASSUME NEW p \in Sessions
          PROVE  (\E row \in SearchUsers(s, p) : row.area = a) <=> p \in there
        <3>1. p \in there <=> player[p].known /\ p \in places.live /\ p # s /\ player[p].area = a
            BY <1>2
        <3> HIDE DEF there
        <3>2. Finds(s, p, a) <=> player[p].known /\ p \in places.live /\ p # s /\ player[p].area = a
            BY FoundHunter
        <3>3. QED
            BY <3>1, <3>2 DEF Finds
    <2>2. there \subseteq Sessions
        OBVIOUS
    <2> HIDE DEF there
    <2>3. QED
        BY <2>1, <2>2, Zenon
<1>4. RowsRead(QueryUser(s, "area", a)) = there
    <2>1. {p \in there \cap places.live : player[p].known} = there
        BY <1>2
    <2>2. QueryUser(s, "area", a) = ListPages(Seqs!SetToSeq({p \in there \cap places.live : player[p].known}), PageRows)
        BY DEF QueryUser
    <2> HIDE DEF there
    <2>3. QED
        BY <1>2, <2>1, <2>2, SetIsRead
<1>5. AreaPopulation(a) = Cardinality(there) + (IF player[s].area = a THEN 1 ELSE 0)
    <2>1. AreaPopulation(a) = Cardinality(all)
        BY DEF AreaPopulation
    <2>2. all = IF player[s].area = a THEN there \cup {s} ELSE there
        BY <1>1 DEF Answering
    <2> HIDE DEF there, all
    <2>3. Cardinality(there) \in Nat
        BY <1>2, FS_CardinalityType
    <2>4. CASE player[s].area = a
        <3>1. Cardinality(there \cup {s}) = Cardinality(there) + 1
            BY <1>2, FS_AddElement
        <3>2. QED
            BY <2>1, <2>2, <2>4, <3>1
    <2>5. CASE player[s].area # a
        BY <2>1, <2>2, <2>3, <2>5
    <2>6. QED
        BY <2>4, <2>5
<1>6. places.lobby[s] = a => player[s].area = a /\ IdleLimit(s) # "none"
    <2> SUFFICES ASSUME places.lobby[s] = a PROVE player[s].area = a /\ IdleLimit(s) # "none"
        OBVIOUS
    <2>1. player[s].area = a
        BY <1>1 DEF Answering
    <2>2. QED
        BY <1>1, <2>1 DEF IdleLimit
<1> HIDE DEF found, there
<1>7. QED
    BY <1>1, <1>3, <1>4, <1>5, <1>6 DEF found

\* A room's roster and user count, by the name that the asking client uses.
LEMMA RoomAnswers ==
    ASSUME Answering, NEW s \in places.live, NEW r \in Open(places), player[s].alias # r
    PROVE  LET id == IF places.room[s] = r THEN named[s] ELSE r
               users == QueryAttribute(s, "room", id)
           IN /\ users = Cardinality(places.rooms[r].members)
              /\ RowsRead(QueryUser(s, "room", id)) = IF places.room[s] = r THEN Listed(places, r)
                                                      ELSE places.rooms[r].members
<1> DEFINE id == IF places.room[s] = r THEN named[s] ELSE r
           there == IF places.room[s] = r THEN Listed(places, r) ELSE places.rooms[r].members
<1>1. r # 0 /\ ServerRoom(Now, s, id) = r
    <2>1. r # 0
        BY DEF Answering
    <2>2. CASE places.room[s] = r
        BY <2>1, <2>2, NameLeads
    <2>3. CASE places.room[s] # r
        BY <2>1, <2>3, NowFields DEF ServerRoom, NowParts
    <2>4. QED
        BY <2>1, <2>2, <2>3
<1> HIDE DEF id
<1>2. \A p \in places.rooms[r].members : p \in places.live /\ player[p].known
    BY DEF Answering
<1>3. \A p \in Listed(places, r) : p \in places.live /\ player[p].known
    <2>1. \A p \in Listed(places, r) : p \in places.live /\ places.room[p] = r
        BY DEF Listed
    <2>2. \A p \in Listed(places, r) : p \in places.rooms[r].members
        BY <1>1, <2>1 DEF Answering
    <2>3. QED
        BY <1>2, <2>1, <2>2
<1>4. /\ IsFiniteSet(there) /\ {p \in there \cap places.live : player[p].known} = there
    <2>1. \A p \in there : p \in places.live /\ player[p].known
        BY <1>2, <1>3
    <2> HIDE DEF there
    <2>2. there \subseteq Sessions
        BY <2>1 DEF Answering
    <2>3. QED
        BY <2>1, <2>2, FS_Subset, PlacesAssumption
<1>5. QueryUser(s, "room", id) = ListPages(Seqs!SetToSeq({p \in there \cap places.live : player[p].known}), PageRows)
    BY <1>1 DEF QueryUser
<1>6. QueryAttribute(s, "room", id) = Cardinality(places.rooms[r].members)
    BY <1>1 DEF QueryAttribute
<1>7. RowsRead(QueryUser(s, "room", id)) = there
    <2> HIDE DEF there
    <2>1. QED
        BY <1>4, <1>5, SetIsRead
<1>8. QED
    BY <1>6, <1>7 DEF id

LEMMA AgreeingQueries == ASSUME TownsInv PROVE QueriesAgree
<1>1. Answering
    BY InvAnswers
<1>2. QED
    BY <1>1, AreaIsFound, TableIsRead, AreaAnswers, RoomAnswers DEF QueriesAgree

LEMMA FriendsHaveNames == ASSUME Answering PROVE FriendStatusHasName
<1> SUFFICES ASSUME NEW s \in places.live, NEW p \in places.live, NEW row \in SearchUsers(s, p), row.room # 0
             PROVE  SearchRooms(row.room) # {} /\ RowsRead(QueryArea(0, 0, row.area, 1)) # {}
    BY DEF FriendStatusHasName
<1>1. row = [area |-> player[p].area, room |-> places.room[p]]
    BY DEF SearchUsers
<1>2. row.area = player[p].area /\ row.room = places.room[p]
    BY <1>1
<1>3. places.room[p] \in Open(places) /\ p \in places.rooms[places.room[p]].members
    BY <1>2 DEF Answering
<1>4. player[p].area \in Lobbies
    BY <1>3 DEF Answering
<1>5. SearchRooms(places.room[p]) # {}
    BY <1>3 DEF SearchRooms
<1>6. RowsRead(QueryArea(0, 0, player[p].area, 1)) # {}
    BY <1>4, AreaIsFound
<1>7. QED
    BY <1>2, <1>5, <1>6

LEMMA ShownSenders == ASSUME TownsInv PROVE SendersAreShown
<1> SUFFICES ASSUME NEW s \in places.live
             PROVE  /\ ~InStartedQuest(places, s) =>
                         \A p \in Send(s) \cup ChangeUserProperty(s) : s \in shown[p] /\ ~InStartedQuest(places, p)
                    /\ \A p \in ChangeUserProperty(s) : ~InStartedQuest(places, p) /\ p \in SendTarget(p)
                    /\ InStartedQuest(places, s) =>
                         \A reliable, embedded \in BOOLEAN : LobbyKeepalive(s, reliable, embedded) # "callback"
    BY DEF SendersAreShown
<1>1. Shows(Now) /\ NowParts
    BY NowFields DEF TownsInv, Sound
<1>2. ASSUME NEW p \in Send(s), ~InStartedQuest(places, s)
      PROVE  s \in shown[p] /\ ~InStartedQuest(places, p) /\ p \in places.live
    <2>1. p \in places.live /\ p # s /\ places.room[p] = places.room[s] /\ places.room[p] # 0
        BY DEF Send, Listed
    <2>2. ~Started(places, places.room[p])
        BY <1>2, <2>1 DEF InStartedQuest
    <2>3. Met(Now, p)
        BY <1>1, <2>1, <2>2 DEF Shows, NowParts
    <2>4. s \in Listed(places, places.room[p]) \ {p}
        BY <2>1 DEF Listed
    <2>5. QED
        BY <1>1, <2>1, <2>2, <2>3, <2>4 DEF Met, NowParts, InStartedQuest
<1>3. ASSUME NEW p \in ChangeUserProperty(s) PROVE p \in Send(s) /\ ~InStartedQuest(places, s)
    BY DEF ChangeUserProperty
<1>4. ASSUME InStartedQuest(places, s), NEW reliable \in BOOLEAN, NEW embedded \in BOOLEAN
      PROVE  LobbyKeepalive(s, reliable, embedded) # "callback"
    BY <1>4 DEF LobbyKeepalive
<1>5. \A p \in ChangeUserProperty(s) : ~InStartedQuest(places, p) /\ p \in SendTarget(p)
    BY <1>2, <1>3 DEF SendTarget
<1>6. QED
    BY <1>2, <1>3, <1>4, <1>5

\* What the plugin answers in any state (plugin.py:78-107, 191-261, 306-509,
\* 633-782, 1042-1072): the id by which a client knows its room leads there,
\* Area lists, counts, rosters and searches count the same hunters, a Friend
\* status can look up the names it shows, and whoever is sent chat or a profile
\* shows its sender.
THEOREM TownAnswersAgree == Spec => []TownAnswersSound
<1>1. Init => TownsInv
    BY TownsInit
<1>2. TownsInv /\ [Next]_vars => TownsInv'
    BY NextHandled, HandledKeeps, TownsStutter
<1>3. TownsInv => TownAnswersSound
    BY InvAnswers, NamesMeet, AgreeingQueries, FriendsHaveNames, ShownSenders DEF TownAnswersSound
<1>4. QED
    BY <1>1, <1>2, <1>3, PTL DEF Spec

=============================================================================
