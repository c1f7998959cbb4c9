------------------------- MODULE AutoModellistaProofs -------------------------
(***************************************************************************)
(* Auto Modellista's rooms, for any sessions, lobbies and limits: no       *)
(* session is left in a room that is gone, and the transition after a race *)
(* is a barrier.  Beta1 implements the release's rooms, so both hold of it *)
(* too.                                                                    *)
(*                                                                         *)
(* The barrier is about what was reported since the race began, the code   *)
(* about the reports that it keeps.  ReportsKept relates them, in open     *)
(* rooms only: the reports of a room that has gone stay until the next     *)
(* tick, which is harmless as its number is never given out again.         *)
(*                                                                         *)
(* What handlers answer is a function of the state, so that it agrees is   *)
(* proved of every state of the invariant.                                 *)
(***************************************************************************)
EXTENDS LobbyAnswers, RoomsProofs

ReportsKept ==
    /\ gameState \in [RoomIds -> States]
    /\ reports \in [RoomIds -> [Sessions -> SUBSET Families]]
    /\ finished \in [RoomIds -> [Sessions -> SUBSET Families]]
    /\ \A r \in Open(places), s \in Sessions : reports[r][s] \subseteq finished[r][s]

\* While a race has its members, what is kept is what was reported, and
\* somebody has not reported both.
RacesRun ==
    /\ race \in [RoomIds -> {"none", "on", "over"}]
    /\ \A r \in RoomIds : race[r] = "on" =>
           /\ gameState[r] \notin {"init", "result"}
           /\ \A s \in Listed(places, r) : reports[r][s] = finished[r][s]
           /\ \E s \in Listed(places, r) : finished[r][s] # Families

\* A host whose client is in its room shows everybody else of the room.
Shown(w, tables) ==
    /\ tables \in [RoomIds -> [Sessions -> 0 .. 2]]
    /\ \A r \in RoomIds : HostIn(w, r) =>
           \A s \in Listed(w, r) \ {w.rooms[r].host} : tables[r][s] >= 1

RoomsInv == InStep(places, {}) /\ ReportsKept /\ RacesRun /\ Shown(places, slots)

\* What TransitionIsBarrier says of one step.
Barrier ==
    \A r \in RoomIds :
        gameState[r] # "result" /\ gameState'[r] = "result" =>
            \A s \in Listed(places, r) : finished'[r][s] = Families

\* Nobody comes into a room that somebody is in.
NobodyCame ==
    \A r \in RoomIds : Listed(places', r) \subseteq Listed(places, r) \/ Listed(places, r) = {}

-----------------------------------------------------------------------------
LEMMA PrunedKeeps ==
    ASSUME NEW w, InStep(w, {}), NEW R
    PROVE  /\ InStep(Pruned(w, R), {}) /\ Shrinks(Pruned(w, R), w)
           /\ Pruned(w, R).live = w.live /\ Pruned(w, R).room = w.room
           /\ Pruned(w, R).next = w.next /\ Pruned(w, R).lobby = w.lobby
<1> DEFINE Left(r) == IF r \in R THEN {m \in w.rooms[r].members : m \in w.live /\ w.room[m] # 0}
                                 ELSE w.rooms[r].members
           open == {r \in Open(w) : Left(r) # {}}
           v == Pruned(w, R)
<1>1. v = [w EXCEPT !.rooms = [r \in open |-> [w.rooms[r] EXCEPT !.members = Left(r)]]]
    BY DEF Pruned, InStep, Shape
<1>2. \A r \in Open(w) : Left(r) \subseteq w.rooms[r].members /\ w.rooms[r] \in GameRooms
    BY DEF InStep, Shape
<1>3. ASSUME NEW s \in w.live, w.room[s] # 0 PROVE w.room[s] \in Open(w) /\ s \in Left(w.room[s])
    BY <1>3 DEF InStep, InItsRoom
<1>4. open \subseteq Open(w) /\ \A r \in Open(w) : r \in open <=> Left(r) # {}
    OBVIOUS
<1> HIDE DEF Left, open
<1>5. \A r \in Open(w) :
          /\ [w.rooms[r] EXCEPT !.members = Left(r)] \in GameRooms
          /\ [w.rooms[r] EXCEPT !.members = Left(r)].host = w.rooms[r].host
          /\ [w.rooms[r] EXCEPT !.members = Left(r)].members = Left(r)
    BY <1>2, FewerFit
<1>6. /\ v \in [live : SUBSET Sessions, lobby : [Sessions -> Lobbies \cup {0}],
                room : [Sessions -> RoomIds \cup {0}], rooms : {v.rooms}, next : 1 .. MaxRoomId + 1]
      /\ v.live = w.live /\ v.room = w.room /\ v.next = w.next /\ v.lobby = w.lobby
      /\ v.rooms = [r \in open |-> [w.rooms[r] EXCEPT !.members = Left(r)]]
    BY <1>1 DEF InStep, Shape
<1> HIDE DEF v
<1>7. Open(v) = open /\ v.rooms \in [open -> GameRooms]
    BY <1>4, <1>5, <1>6 DEF Open
<1>8. \A r \in open : v.rooms[r].host = w.rooms[r].host /\ v.rooms[r].members = Left(r)
    BY <1>4, <1>5, <1>6
<1>9. Shape(v)
    BY <1>4, <1>6, <1>7 DEF InStep, Shape
<1>10. \A s \in v.live : InItsRoom(v, s)
    BY <1>3, <1>4, <1>6, <1>7, <1>8 DEF InItsRoom
<1>11. Shrinks(v, w)
    BY <1>4, <1>6, <1>7, <1>8 DEF Shrinks
<1>12. QED
    BY <1>6, <1>9, <1>10, <1>11 DEF InStep, v

\* A session's end takes it out of its room's table; its own word goes with it.
LEMMA TimedOutKeeps ==
    ASSUME NEW w, InStep(w, {}), NEW s
    PROVE  InStep(TimedOut(w, s), {s}) /\ Shrinks(TimedOut(w, s), w)
<1> DEFINE r == w.room[s]
<1>1. CASE r \notin Open(w)
    BY <1>1, ShrinksNot DEF TimedOut, InStep
<1>2. CASE r \in Open(w) /\ w.rooms[r].host = s
    <2>1. TimedOut(w, s) = Leave(SetRoom(w, Listed(w, r) \ {s}, 0), r, w.rooms[r].members)
        BY <1>2 DEF TimedOut
    <2>2. QED
        BY <2>1, CloseButKeeps
<1>3. CASE r \in Open(w) /\ w.rooms[r].host # s
    <2>1. TimedOut(w, s) = Leave(w, r, {s})
        BY <1>3 DEF TimedOut
    <2>2. InStep(Leave(w, r, {s}), {s}) /\ Shrinks(Leave(w, r, {s}), w)
        BY LeaveKeeps
    <2>3. QED
        BY <2>1, <2>2
<1>4. QED
    BY <1>1, <1>2, <1>3

LEMMA EndedKeeps ==
    ASSUME NEW w, InStep(w, {}), NEW s \in Sessions
    PROVE  LET v == Remove(TimedOut(w, s), s) IN InStep(v, {}) /\ Shrinks(v, w) /\ v.room[s] = 0
<1> DEFINE u == TimedOut(w, s)
           v == Remove(u, s)
<1>1. InStep(u, {s}) /\ Shrinks(u, w)
    BY TimedOutKeeps
<1> HIDE DEF u
<1>2. InStep(v, {}) /\ Shrinks(v, u) /\ s \notin v.live
    BY <1>1, RemoveKeeps
<1> HIDE DEF v
<1>3. v.room[s] = 0
    BY <1>2 DEF InStep, Shape
<1>4. QED
    BY <1>1, <1>2, <1>3, ShrinksTwice DEF u, v

\* Everything a handler does to the rooms keeps the invariant, when what it
\* makes of the places is in step and a room that it opens is reset.
LEMMA ActKeeps ==
    ASSUME RoomsInv, NEW w, InStep(w, {}), NEW R, Open(w) \subseteq Open(places) \cup R,
           NEW tables, Shown(w, tables), Act(w, R, tables)
    PROVE  RoomsInv' /\ Barrier /\ places' = w
<1>1. /\ places' = w
      /\ gameState' = [r \in RoomIds |-> IF r \in R THEN "init" ELSE gameState[r]]
      /\ reports' = [r \in RoomIds |-> IF r \in R THEN NoReports ELSE reports[r]]
      /\ finished' = [r \in RoomIds |-> IF r \in R \/ r \notin Open(w) THEN NoReports ELSE finished[r]]
      /\ race' = [r \in RoomIds |-> IF r \in R \/ Listed(w, r) # Listed(places, r) THEN "none" ELSE race[r]]
      /\ slots' = [r \in RoomIds |-> IF HostIn(w, r) THEN tables[r] ELSE Nobody]
    BY DEF Act
<1>2. NoReports \in [Sessions -> SUBSET Families] /\ \A s \in Sessions : NoReports[s] = {}
    BY DEF NoReports
<1>3. Open(w) \subseteq RoomIds
    BY DEF InStep, Shape
<1>4. InStep(places, {})'
    BY <1>1
<1>5. ReportsKept'
    <2>1. /\ gameState' \in [RoomIds -> States]
          /\ reports' \in [RoomIds -> [Sessions -> SUBSET Families]]
          /\ finished' \in [RoomIds -> [Sessions -> SUBSET Families]]
        BY <1>1, <1>2 DEF RoomsInv, ReportsKept, States
    <2>2. \A r \in Open(w), s \in Sessions : reports'[r][s] \subseteq finished'[r][s]
        BY <1>1, <1>2, <1>3 DEF RoomsInv, ReportsKept
    <2>3. QED
        BY <1>1, <2>1, <2>2 DEF ReportsKept, Open
<1>6. Barrier
    BY <1>1 DEF Barrier
<1>7. RacesRun'
    <2>1. ASSUME NEW r \in RoomIds, race'[r] = "on"
          PROVE  /\ race[r] = "on" /\ r \notin R /\ Listed(w, r) = Listed(places, r)
                 /\ r \in Open(w)
        <3>1. race[r] = "on" /\ r \notin R /\ Listed(w, r) = Listed(places, r)
            BY <1>1, <2>1
        <3>2. PICK s : s \in Listed(w, r)
            BY <3>1 DEF RoomsInv, RacesRun
        <3>3. r # 0
            BY PlacesAssumption DEF RoomIds
        <3>4. QED
            BY <3>1, <3>2, <3>3 DEF Listed, InStep, InItsRoom
    <2>2. Listed(places, 0)' = Listed(w, 0) /\ \A r : Listed(places, r)' = Listed(w, r)
        BY <1>1 DEF Listed
    <2>3. race' \in [RoomIds -> {"none", "on", "over"}]
        BY <1>1 DEF RoomsInv, RacesRun
    <2>4. QED
        BY <1>1, <2>1, <2>2, <2>3 DEF RoomsInv, RacesRun
<1>8. Shown(places, slots)'
    <2>1. Nobody \in [Sessions -> 0 .. 2]
        BY DEF Nobody
    <2>2. slots' \in [RoomIds -> [Sessions -> 0 .. 2]]
        BY <1>1, <2>1 DEF Shown
    <2>3. \A r \in RoomIds : HostIn(w, r) => \A s \in Listed(w, r) \ {w.rooms[r].host} : slots'[r][s] >= 1
        BY <1>1 DEF Shown
    <2>4. QED
        BY <1>1, <2>2, <2>3 DEF Shown, HostIn, Listed, Open
<1>9. QED
    BY <1>1, <1>4, <1>5, <1>6, <1>7, <1>8 DEF RoomsInv

\* When sessions only leave, the hosts that are still there show what they did.
LEMMA LeftAreShown ==
    ASSUME RoomsInv, NEW w, Shape(w), Shrinks(w, places)
    PROVE  Shown(w, slots) /\ \A r \in RoomIds : Listed(w, r) \subseteq Listed(places, r)
<1>0. Shape(places) /\ \A r \in RoomIds : r # 0
    BY PlacesAssumption DEF RoomsInv, InStep, RoomIds
<1>1. \A r \in RoomIds : Listed(w, r) \subseteq Listed(places, r)
    BY <1>0, ListedShrinks
<1>2. \A r \in RoomIds : HostIn(w, r) => HostIn(places, r) /\ w.rooms[r].host = places.rooms[r].host
    <2> SUFFICES ASSUME NEW r \in RoomIds, HostIn(w, r)
                 PROVE  HostIn(places, r) /\ w.rooms[r].host = places.rooms[r].host
        OBVIOUS
    <2>1. /\ r \in Open(w) /\ r \in Open(places) /\ w.room[w.rooms[r].host] = r
          /\ w.rooms[r].host = places.rooms[r].host
        BY DEF HostIn, Shrinks
    <2>2. w.rooms[r].host \in Sessions
        BY <2>1 DEF Shape, GameRooms
    <2>3. QED
        BY <1>0, <2>1, <2>2 DEF HostIn, Shrinks
<1>3. QED
    BY <1>1, <1>2 DEF RoomsInv, Shown

\* A handler in which sessions only leave keeps the invariant, whether or not
\* the host's client is told of one that is in no room any more.
LEMMA LeavingKeeps ==
    ASSUME RoomsInv, NEW w, InStep(w, {}), Shrinks(w, places), NEW R, NEW tables, Act(w, R, tables),
           \/ tables = slots
           \/ \E q \in RoomIds, t \in Sessions : w.room[t] = 0 /\ tables = Forgotten(slots, q, t)
    PROVE  RoomsInv' /\ Barrier /\ NobodyCame
<1>0. Shape(w) /\ \A r \in RoomIds : r # 0
    BY PlacesAssumption DEF InStep, RoomIds
<1>1. \A r \in RoomIds : Listed(w, r) \subseteq Listed(places, r)
    BY <1>0, LeftAreShown
<1>3. Shown(w, slots)
    BY <1>0, LeftAreShown
<1>4. Shown(w, tables)
    <2>1. CASE tables = slots
        BY <1>3, <2>1
    <2>2. ASSUME NEW q \in RoomIds, NEW t \in Sessions, w.room[t] = 0, tables = Forgotten(slots, q, t)
          PROVE  Shown(w, tables)
        <3>1. slots \in [RoomIds -> [Sessions -> 0 .. 2]] /\ slots[q] \in [Sessions -> 0 .. 2]
            BY <1>3 DEF Shown
        <3>2. [slots[q] EXCEPT ![t] = 0] \in [Sessions -> 0 .. 2]
            BY <3>1
        <3>3. tables = [slots EXCEPT ![q] = [slots[q] EXCEPT ![t] = 0]]
            BY <2>2, <3>1 DEF Forgotten
        <3>4. tables \in [RoomIds -> [Sessions -> 0 .. 2]]
            BY <3>1, <3>2, <3>3
        <3>5. \A r \in RoomIds, s \in Sessions : r # q \/ s # t => tables[r][s] = slots[r][s]
            BY <3>1, <3>3
        <3>6. \A r \in RoomIds : \A s \in Listed(w, r) : s \in Sessions /\ s # t
            BY <1>0, <2>2 DEF Listed, Shape
        <3>7. QED
            BY <1>3, <3>4, <3>5, <3>6 DEF Shown
    <2>3. QED
        BY <2>1, <2>2
<1>5. Open(w) \subseteq Open(places) \cup R
    BY DEF Shrinks
<1>6. RoomsInv' /\ Barrier /\ places' = w
    BY <1>4, <1>5, ActKeeps
<1>7. NobodyCame
    BY <1>1, <1>6 DEF NobodyCame
<1>8. QED
    BY <1>6, <1>7

-----------------------------------------------------------------------------
LEMMA EndsKeep ==
    ASSUME RoomsInv, NEW s, End(s) \/ Logout(s) PROVE RoomsInv' /\ Barrier /\ NobodyCame
<1> DEFINE told == ToldOfEnd(places, s, slots)
           u == TimedOut(places, s)
           v == SetLobby(SetRoom(u, {s}, 0), s, 0)
<1>0. s \in Sessions /\ InStep(places, {}) /\ Shape(places)
    BY DEF End, Logout, RoomsInv, InStep, Shape
<1>1. told = slots \/ \E q \in RoomIds : told = Forgotten(slots, q, s)
    BY <1>0 DEF ToldOfEnd, Shape
<1> HIDE DEF told
<1>2. CASE End(s)
    <2>1. Act(Remove(u, s), ResetBy(places, s), told)
        BY <1>2 DEF End, told
    <2>2. InStep(Remove(u, s), {}) /\ Shrinks(Remove(u, s), places) /\ Remove(u, s).room[s] = 0
        BY <1>0, EndedKeeps
    <2> HIDE DEF u
    <2>3. QED
        BY <1>0, <1>1, <2>1, <2>2, LeavingKeeps
<1>3. CASE Logout(s)
    <2>1. Act(v, ResetBy(places, s), told)
        BY <1>3 DEF Logout, told
    <2>2. InStep(u, {s}) /\ Shrinks(u, places)
        BY <1>0, TimedOutKeeps
    <2> HIDE DEF u
    <2> DEFINE x == SetRoom(u, {s}, 0)
    <2>3. InStep(x, {}) /\ Shrinks(x, u) /\ WordsSet(x, u, {s}, 0)
        BY <2>2, SetOutKeeps, SetRoomFields DEF InStep
    <2>4. x.room[s] = 0
        BY <1>0, <2>2, <2>3 DEF WordsSet, InStep, Shape
    <2> HIDE DEF x
    <2>5. InStep(v, {}) /\ Shrinks(v, x) /\ v.room[s] = 0
        BY <2>3, <2>4, SetLobbyKeeps DEF x
    <2> HIDE DEF v
    <2>6. Shrinks(v, places)
        BY <2>2, <2>3, <2>5, ShrinksTwice
    <2>7. QED
        BY <1>0, <1>1, <2>1, <2>5, <2>6, LeavingKeeps
<1>4. QED
    BY <1>2, <1>3

LEMMA KicsKeeps ==
    ASSUME RoomsInv, NEW s \in Sessions, NEW new \in BOOLEAN,
           NEW E \in AtMostOne(Sessions), NEW U \in AtMostOne(Sessions), KicsLogin(s, new, E, U)
    PROVE  RoomsInv' /\ Barrier /\ NobodyCame
<1> DEFINE e == CHOOSE e \in E : TRUE
           w1 == IF E = {} THEN places ELSE Remove(TimedOut(places, e), e)
           told == IF E = {} THEN slots ELSE ToldOfEnd(places, e, slots)
           w2 == ResetForRelogin(w1, s)
           w3 == IF new THEN Adopt(w2, s, U) ELSE w2
           R == UNION {ResetBy(places, d) : d \in E}
<1>0. InStep(places, {}) /\ Shape(places) /\ (E # {} => e \in Sessions)
    BY DEF RoomsInv, InStep, AtMostOne
<1>1. Act(w3, R, told)
    BY DEF KicsLogin
<1>2. told = slots \/ (E # {} /\ \E q \in RoomIds : told = Forgotten(slots, q, e))
    BY <1>0 DEF ToldOfEnd, Shape
<1> HIDE DEF e
<1>3. InStep(w1, {}) /\ Shrinks(w1, places) /\ (E # {} => w1.room[e] = 0)
    BY <1>0, EndedKeeps, ShrinksNot
<1> HIDE DEF w1
<1>4. InStep(w2, {}) /\ Shrinks(w2, w1)
    BY <1>3, ResetKeeps
<1> HIDE DEF w2
<1>5. InStep(w3, {}) /\ Shrinks(w3, w2)
    BY <1>4, AdoptKeeps, ShrinksNot
<1> HIDE DEF w3, told, R
<1>6. Shrinks(w3, w1) /\ Shrinks(w3, places)
    BY <1>3, <1>4, <1>5, ShrinksTwice
<1>7. E # {} => w3.room[e] = 0
    BY <1>0, <1>3, <1>6 DEF Shrinks
<1>8. QED
    BY <1>0, <1>1, <1>2, <1>5, <1>6, <1>7, LeavingKeeps

\* The new room's host is the only session in it.
LEMMA CreateRoomKeeps ==
    ASSUME RoomsInv, NEW s, NEW max \in Capacities, NEW rules \in Rules, CreateGameRoom(s, max, rules)
    PROVE  RoomsInv' /\ Barrier /\ NobodyCame
<1> DEFINE l == places.lobby[s]
           w == Pruned(places, RoomsOf(places, l))
           v == SetRoom(Create(w, s, max, rules), {s}, w.next)
           tables == [slots EXCEPT ![w.next] = Nobody]
<1>0. InStep(places, {}) /\ Shape(places) /\ s \in Sessions /\ \A r \in RoomIds : r # 0
    BY PlacesAssumption DEF CreateGameRoom, RoomsInv, InStep, Shape, RoomIds
<1>1. /\ InStep(w, {}) /\ Shrinks(w, places) /\ s \in w.live
      /\ w.next \in RoomIds /\ w.lobby = places.lobby
    BY <1>0, PrunedKeeps DEF CreateGameRoom
<1>2. CASE l \in Lobbies /\ Act(v, {w.next}, tables)
    <2>1. w.lobby[s] \in Lobbies
        BY <1>1, <1>2
    <2> HIDE DEF w
    <2>0. OpenedBy(v, w, s)
        BY <1>1, <2>1, CreateKeeps
    <2> HIDE DEF v
    <2>2. /\ InStep(v, {}) /\ v.live = w.live /\ Open(v) = Open(w) \cup {w.next}
          /\ \A q \in Open(w) : q # w.next /\ v.rooms[q].host = w.rooms[q].host
          /\ v.rooms[w.next].host = s
          /\ \A t \in Sessions : v.room[t] = IF t = s THEN w.next ELSE w.room[t]
        BY <2>0 DEF OpenedBy
    <2>3. \A t \in Sessions : w.room[t] # w.next
        BY <1>0, <1>1, <2>2 DEF InStep, InItsRoom, Shape
    <2>4. \A t \in Sessions : places.room[t] # w.next
        BY <1>0, <1>1, <2>3, PrunedKeeps DEF w
    <2>5. \A r \in RoomIds : r # w.next => Listed(v, r) \subseteq Listed(places, r)
        <3>1. \A r \in RoomIds : Listed(w, r) \subseteq Listed(places, r)
            BY <1>0, <1>1, ListedShrinks DEF InStep
        <3>2. \A r \in RoomIds : r # w.next => Listed(v, r) \subseteq Listed(w, r)
            BY <1>1, <2>2 DEF Listed, InStep, Shape
        <3>3. QED
            BY <3>1, <3>2
    <2>6. Listed(v, w.next) \subseteq {s} /\ Listed(places, w.next) = {}
        BY <1>0, <1>1, <2>2, <2>3, <2>4 DEF Listed, InStep, Shape
    <2>7. ASSUME NEW r \in RoomIds, HostIn(v, r), r # w.next
          PROVE  HostIn(places, r) /\ v.rooms[r].host = places.rooms[r].host
        <3>1. r \in Open(w) /\ v.rooms[r].host = w.rooms[r].host /\ v.room[v.rooms[r].host] = r
            BY <2>2, <2>7 DEF HostIn
        <3>2. w.rooms[r].host \in Sessions
            BY <1>1, <3>1 DEF InStep, Shape, GameRooms
        <3>3. w.room[w.rooms[r].host] = r
            BY <2>2, <2>7, <3>1, <3>2
        <3>4. QED
            BY <1>0, <1>1, <3>1, <3>2, <3>3 DEF Shrinks, HostIn
    <2>8. Shown(v, tables)
        <3>1. slots \in [RoomIds -> [Sessions -> 0 .. 2]] /\ Nobody \in [Sessions -> 0 .. 2]
            BY DEF RoomsInv, Shown, Nobody
        <3>2. /\ tables \in [RoomIds -> [Sessions -> 0 .. 2]]
              /\ \A r \in RoomIds : r # w.next => tables[r] = slots[r]
            BY <1>1, <3>1
        <3> HIDE DEF tables
        <3>3. ASSUME NEW r \in RoomIds, HostIn(v, r), NEW t \in Listed(v, r) \ {v.rooms[r].host}
              PROVE  tables[r][t] >= 1
            <4>1. r # w.next
                BY <2>2, <2>6, <3>3
            <4>2. t \in Listed(places, r) \ {places.rooms[r].host} /\ HostIn(places, r)
                BY <2>5, <2>7, <3>3, <4>1
            <4>3. QED
                BY <3>2, <4>1, <4>2 DEF RoomsInv, Shown
        <3>4. QED
            BY <3>2, <3>3 DEF Shown
    <2> HIDE DEF tables
    <2>9. Open(v) \subseteq Open(places) \cup {w.next}
        BY <1>1, <2>2 DEF Shrinks
    <2>10. RoomsInv' /\ Barrier /\ places' = v
        BY <1>2, <2>2, <2>8, <2>9, ActKeeps
    <2>11. NobodyCame
        BY <2>5, <2>6, <2>10 DEF NobodyCame
    <2>12. QED
        BY <2>10, <2>11
<1>3. CASE Act(w, {}, slots)
    <2> HIDE DEF w
    <2>1. QED
        BY <1>1, <1>3, LeavingKeeps
<1>4. CASE Act(places, {}, slots)
    BY <1>0, <1>4, LeavingKeeps, ShrinksNot
<1>5. QED
    BY <1>2, <1>3, <1>4 DEF CreateGameRoom

LEMMA LeavesKeep ==
    ASSUME RoomsInv, NEW s, NEW l, JoinLobby(s, l) \/ LeaveRoom(s) \/ LeaveLobby(s)
    PROVE  RoomsInv' /\ Barrier /\ NobodyCame
<1> DEFINE w == LeftRoom(s)
<1>0. s \in Sessions /\ s \in places.live /\ InStep(places, {}) /\ places.room[s] \in RoomIds \cup {0}
    BY DEF JoinLobby, LeaveRoom, LeaveLobby, RoomsInv, InStep, Shape
<1>1. InStep(w, {}) /\ Shrinks(w, places) /\ w.room[s] = 0
    BY <1>0, LeaveOwnKeeps DEF LeftRoom
<1>2. \/ ToldOfLeave(s) = slots
      \/ \E q \in RoomIds : ToldOfLeave(s) = Forgotten(slots, q, s)
    BY <1>0 DEF ToldOfLeave
<1> HIDE DEF w
<1>3. \A k \in Lobbies \cup {0} : /\ InStep(SetLobby(w, s, k), {}) /\ Shrinks(SetLobby(w, s, k), places)
                                 /\ SetLobby(w, s, k).room[s] = 0
    BY <1>1, SetLobbyKeeps, ShrinksTwice
<1>4. CASE JoinLobby(s, l)
    <2>1. \/ l \in Lobbies /\ Act(SetLobby(w, s, l), {}, slots)
          \/ Act(w, {}, slots)
        BY <1>4 DEF JoinLobby, LeftRoom, w
    <2>2. QED
        BY <1>1, <1>3, <2>1, LeavingKeeps
<1>5. CASE LeaveRoom(s)
    <2>1. Act(w, {places.room[s]} \cap RoomIds, ToldOfLeave(s))
        BY <1>5 DEF LeaveRoom, w
    <2>2. QED
        BY <1>0, <1>1, <1>2, <2>1, LeavingKeeps
<1>6. CASE LeaveLobby(s)
    <2>1. Act(SetLobby(w, s, 0), {places.room[s]} \cap RoomIds, ToldOfLeave(s))
        BY <1>6 DEF LeaveLobby, w
    <2>2. QED
        BY <1>0, <1>2, <1>3, <2>1, LeavingKeeps
<1>7. QED
    BY <1>4, <1>5, <1>6

\* A joiner is shown by the host's client; a host that comes back is shown
\* everybody who stayed.
LEMMA JoinRoomKeeps ==
    ASSUME RoomsInv, NEW s, NEW r, JoinRoom(s, r)
    PROVE  /\ RoomsInv' /\ Barrier
           /\ \A q \in RoomIds : Listed(places', q) \subseteq Listed(places, q) \cup (IF q = r THEN {s} ELSE {})
<1> DEFINE w == Pruned(places, {r})
           v == SetRoom(Join(w, r, s), {s}, r)
           told == [slots EXCEPT ![r] = IF w.rooms[r].host = s THEN Seated(Listed(w, r) \ {s}) ELSE Inserted(@, s)]
<1>0. InStep(places, {}) /\ Shape(places) /\ s \in Sessions /\ \A q \in RoomIds : q # 0
    BY PlacesAssumption DEF JoinRoom, RoomsInv, InStep, Shape, RoomIds
<1>1. InStep(w, {}) /\ Shrinks(w, places) /\ s \in w.live
    BY <1>0, PrunedKeeps DEF JoinRoom
<1>2. CASE HasSeat(w, r, s) /\ Act(v, {r}, told)
    <2> HIDE DEF w
    <2>1. r \in Open(w) /\ r \in RoomIds
        BY <1>1, <1>2 DEF HasSeat, InStep, Shape
    <2>2. /\ InStep(v, {}) /\ v.live = w.live /\ Open(v) = Open(w)
          /\ \A q \in Open(w) : v.rooms[q].host = w.rooms[q].host
          /\ \A t \in Sessions : v.room[t] = IF t = s THEN r ELSE w.room[t]
        BY <1>1, <1>2, JoinKeeps
    <2> HIDE DEF v
    <2>3. \A q \in RoomIds : Listed(w, q) \subseteq Listed(places, q)
        BY <1>0, <1>1, ListedShrinks DEF InStep
    <2>4. \A q \in RoomIds : Listed(v, q) \subseteq Listed(w, q) \cup (IF q = r THEN {s} ELSE {})
        BY <1>1, <2>2 DEF Listed, InStep, Shape
    <2>5. ASSUME NEW q \in RoomIds, HostIn(v, q), v.rooms[q].host # s
          PROVE  HostIn(places, q) /\ v.rooms[q].host = places.rooms[q].host
        <3>1. q \in Open(w) /\ v.rooms[q].host = w.rooms[q].host /\ v.room[v.rooms[q].host] = q
            BY <2>2, <2>5 DEF HostIn
        <3>2. w.rooms[q].host \in Sessions
            BY <1>1, <3>1 DEF InStep, Shape, GameRooms
        <3>3. w.room[w.rooms[q].host] = q
            BY <2>2, <2>5, <3>1, <3>2
        <3>4. QED
            BY <1>0, <1>1, <3>1, <3>2, <3>3 DEF Shrinks, HostIn
    <2>6. Shown(v, told)
        <3> DEFINE table == IF w.rooms[r].host = s THEN Seated(Listed(w, r) \ {s}) ELSE Inserted(slots[r], s)
        <3>1. slots \in [RoomIds -> [Sessions -> 0 .. 2]] /\ slots[r] \in [Sessions -> 0 .. 2]
            BY <2>1 DEF RoomsInv, Shown
        <3>2. /\ Seated(Listed(w, r) \ {s}) \in [Sessions -> 0 .. 2]
              /\ \A t \in Sessions : t \in Listed(w, r) \ {s} => Seated(Listed(w, r) \ {s})[t] = 1
            BY DEF Seated
        <3>3. /\ Inserted(slots[r], s) \in [Sessions -> 0 .. 2]
              /\ Inserted(slots[r], s)[s] >= 1
              /\ \A t \in Sessions : t # s => Inserted(slots[r], s)[t] = slots[r][t]
            BY <1>0, <3>1 DEF Inserted
        <3>4. table \in [Sessions -> 0 .. 2] /\ told = [slots EXCEPT ![r] = table]
            BY <3>1, <3>2, <3>3
        <3> HIDE DEF table, told
        <3>5. /\ told \in [RoomIds -> [Sessions -> 0 .. 2]]
              /\ \A q \in RoomIds : told[q] = IF q = r THEN table ELSE slots[q]
            BY <2>1, <3>1, <3>4
        <3>6. ASSUME NEW q \in RoomIds, HostIn(v, q), NEW t \in Listed(v, q) \ {v.rooms[q].host}
              PROVE  told[q][t] >= 1
            <4>0. t \in Sessions /\ q \in Open(w) /\ v.rooms[q].host = w.rooms[q].host
                BY <1>1, <2>2, <3>6 DEF Listed, HostIn, InStep, Shape
            <4>1. CASE v.rooms[q].host = s
                <5>1. q = r
                    BY <1>0, <2>2, <3>6, <4>1 DEF HostIn
                <5>2. t \in Listed(w, r) \ {s} /\ w.rooms[r].host = s
                    BY <2>4, <3>6, <4>0, <4>1, <5>1
                <5>3. QED
                    <6>1. table = Seated(Listed(w, r) \ {s}) /\ told[q] = table
                        BY <3>5, <5>1, <5>2 DEF table
                    <6>2. told[q][t] = 1
                        BY <3>2, <4>0, <5>2, <6>1
                    <6>3. QED
                        BY <6>2
            <4>2. CASE v.rooms[q].host # s /\ t \in Listed(places, q)
                <5>1. slots[q][t] >= 1
                    BY <2>5, <3>6, <4>2 DEF RoomsInv, Shown
                <5>2. CASE q # r
                    BY <3>5, <5>1, <5>2
                <5>3. CASE q = r
                    BY <3>3, <3>5, <4>0, <4>2, <5>1, <5>3 DEF table
                <5>4. QED
                    BY <5>2, <5>3
            <4>3. CASE v.rooms[q].host # s /\ t \notin Listed(places, q)
                <5>1. q = r /\ t = s
                    BY <2>3, <2>4, <3>6, <4>3
                <5>2. QED
                    BY <3>3, <3>5, <4>0, <4>3, <5>1 DEF table
            <4>4. QED
                BY <4>1, <4>2, <4>3
        <3>7. QED
            BY <3>5, <3>6 DEF Shown
    <2> HIDE DEF told
    <2>7. Open(v) \subseteq Open(places) \cup {r}
        BY <1>1, <2>2 DEF Shrinks
    <2>8. RoomsInv' /\ Barrier /\ places' = v
        BY <1>2, <2>2, <2>6, <2>7, ActKeeps
    <2>9. QED
        BY <2>3, <2>4, <2>8
<1>3. CASE Act(w, {}, slots)
    <2>1. places' = w /\ \A q \in RoomIds : Listed(w, q) \subseteq Listed(places, q)
        BY <1>0, <1>1, <1>3, ListedShrinks DEF Act, InStep
    <2> HIDE DEF w
    <2>2. RoomsInv' /\ Barrier
        BY <1>1, <1>3, LeavingKeeps
    <2>3. QED
        BY <2>1, <2>2
<1>4. QED
    BY <1>2, <1>3 DEF JoinRoom

LEMMA QueryKeeps ==
    ASSUME RoomsInv, NEW R, QueryRooms(R) \/ Tick PROVE RoomsInv' /\ Barrier /\ NobodyCame
<1>1. /\ InStep(Pruned(places, R), {}) /\ Shrinks(Pruned(places, R), places)
      /\ InStep(places, {}) /\ Shrinks(places, places)
    BY PrunedKeeps, ShrinksNot DEF RoomsInv
<1>2. CASE QueryRooms(R)
    BY <1>1, <1>2, LeavingKeeps DEF QueryRooms
<1>3. CASE Tick
    BY <1>1, <1>3, LeavingKeeps DEF Tick
<1>4. QED
    BY <1>2, <1>3

-----------------------------------------------------------------------------
\* Reports are kept and counted for the sessions of the room; the transition
\* goes out when all of them have reported both.
LEMMA ReportKeeps ==
    ASSUME RoomsInv, NEW s \in places.live, NEW r \in Open(places), NEW tag \in Families, Report(s, r, tag)
    PROVE  RoomsInv' /\ Barrier /\ NobodyCame
<1> DEFINE reported == Reported(r, s, tag)
<1>0. /\ r \in RoomIds /\ s \in Sessions /\ places.live \subseteq Sessions
      /\ Open(places) \subseteq RoomIds
    BY DEF RoomsInv, InStep, Shape
<1>1. /\ InStep(places, {})' /\ Shrinks(places', places)
      /\ places'.live = places.live /\ places'.room = places.room
      /\ Open(places') \subseteq Open(places) /\ slots' = slots
    <2> DEFINE w == Pruned(places, {r})
    <2>1. InStep(w, {}) /\ Shrinks(w, places) /\ w.live = places.live /\ w.room = places.room
        BY PrunedKeeps DEF RoomsInv
    <2> HIDE DEF w
    <2>2. places' = w /\ slots' = slots
        BY DEF Report, w
    <2>3. QED
        BY <2>1, <2>2 DEF Shrinks
<1>2. /\ reported \in [Sessions -> SUBSET Families]
      /\ \A t \in Sessions : reported[t] \subseteq IF t = s THEN finished[r][t] \cup {tag} ELSE finished[r][t]
    BY <1>0 DEF Reported, RoomsInv, ReportsKept
<1>3. /\ finished' \in [RoomIds -> [Sessions -> SUBSET Families]]
      /\ \A q \in RoomIds, t \in Sessions :
             finished'[q][t] = IF q = r /\ t = s THEN finished[q][t] \cup {tag} ELSE finished[q][t]
    BY <1>0 DEF Report, RoomsInv, ReportsKept
<1> HIDE DEF reported
<1>4. \/ /\ Complete(r, reported)
         /\ gameState' = [gameState EXCEPT ![r] = "result"]
         /\ reports' = [reports EXCEPT ![r] = NoReports]
      \/ /\ gameState' = [gameState EXCEPT ![r] = State(r, tag)]
         /\ reports' = [reports EXCEPT ![r] = reported]
    BY DEF Report, reported
<1>5. State(r, tag) \in States /\ (State(r, tag) = "result" => gameState[r] = "result")
    BY <1>0 DEF State, States, RoomsInv, ReportsKept
<1>6. NoReports \in [Sessions -> SUBSET Families] /\ \A t \in Sessions : NoReports[t] = {}
    BY DEF NoReports
<1>7. ReportsKept'
    <2>1. gameState' \in [RoomIds -> States]
        BY <1>0, <1>4, <1>5 DEF RoomsInv, ReportsKept, States
    <2>2. /\ reports' \in [RoomIds -> [Sessions -> SUBSET Families]]
          /\ \A q \in RoomIds : q # r => reports'[q] = reports[q]
          /\ reports'[r] = NoReports \/ reports'[r] = reported
        <3>1. PICK x \in [Sessions -> SUBSET Families] :
                  x \in {NoReports, reported} /\ reports' = [reports EXCEPT ![r] = x]
            BY <1>2, <1>4, <1>6
        <3>2. QED
            BY <1>0, <3>1 DEF RoomsInv, ReportsKept
    <2>3. \A q \in Open(places), t \in Sessions : reports'[q][t] \subseteq finished'[q][t]
        <3> SUFFICES ASSUME NEW q \in Open(places), NEW t \in Sessions
                     PROVE  reports'[q][t] \subseteq finished'[q][t]
            OBVIOUS
        <3>1. CASE q = r
            BY <1>0, <1>2, <1>3, <1>6, <2>2, <3>1
        <3>2. CASE q # r
            BY <1>0, <1>3, <2>2, <3>2 DEF RoomsInv, ReportsKept
        <3>3. QED
            BY <3>1, <3>2
    <2>4. QED
        BY <1>1, <1>3, <2>1, <2>2, <2>3 DEF ReportsKept, Open
<1>8. Barrier
    <2> SUFFICES ASSUME NEW q \in RoomIds, gameState[q] # "result", gameState'[q] = "result",
                        NEW t \in Listed(places, q)
                 PROVE  finished'[q][t] = Families
        BY DEF Barrier
    <2>1. q = r /\ Complete(r, reported)
        BY <1>0, <1>4, <1>5 DEF RoomsInv, ReportsKept
    <2>2. t \in Sessions /\ reported[t] = Families
        BY <1>0, <2>1 DEF Complete, Listed
    <2>3. Families \subseteq finished'[q][t] /\ finished'[q][t] \subseteq Families
        <3>1. finished'[r][t] \in SUBSET Families
            BY <1>0, <1>3, <2>2
        <3>2. reported[t] \subseteq finished'[r][t]
            BY <1>0, <1>2, <1>3, <2>2
        <3>3. QED
            BY <2>1, <2>2, <3>1, <3>2
    <2>4. QED
        BY <2>3
<1>9. RacesRun'
    <2>1. \A q : Listed(places, q)' = Listed(places, q)
        BY <1>1 DEF Listed
    <2>2. \/ /\ Complete(r, reported) /\ race' = [race EXCEPT ![r] = IF @ = "on" THEN "over" ELSE @]
             /\ gameState' = [gameState EXCEPT ![r] = "result"]
             /\ reports' = [reports EXCEPT ![r] = NoReports]
          \/ /\ ~Complete(r, reported) /\ race' = race
             /\ gameState' = [gameState EXCEPT ![r] = State(r, tag)]
             /\ reports' = [reports EXCEPT ![r] = reported]
        BY DEF Report, reported
    <2>3. race' \in [RoomIds -> {"none", "on", "over"}]
        BY <1>0, <2>2 DEF RoomsInv, RacesRun
    <2>4. ASSUME NEW q \in RoomIds, race'[q] = "on"
          PROVE  /\ gameState'[q] \notin {"init", "result"}
                 /\ \A t \in Listed(places, q) : reports'[q][t] = finished'[q][t]
                 /\ \E t \in Listed(places, q) : finished'[q][t] # Families
        <3>1. race[q] = "on"
            BY <1>0, <2>2, <2>4 DEF RoomsInv, RacesRun
        <3>2. CASE q # r
            <4>1. gameState'[q] = gameState[q] /\ reports'[q] = reports[q]
                BY <1>0, <2>2, <3>2 DEF RoomsInv, ReportsKept
            <4>2. \A t \in Listed(places, q) : finished'[q][t] = finished[q][t]
                BY <1>0, <1>3, <3>2 DEF Listed
            <4>3. QED
                BY <3>1, <4>1, <4>2 DEF RoomsInv, RacesRun
        <3>3. CASE q = r
            <4>1. /\ ~Complete(r, reported)
                  /\ gameState'[r] = State(r, tag) /\ reports'[r] = reported
                BY <1>0, <2>2, <2>4, <3>3 DEF RoomsInv, ReportsKept, RacesRun
            <4>2. \A t \in Listed(places, r) : reported[t] = finished'[r][t]
                <5>1. \A t \in Listed(places, r) : t \in Sessions
                    BY <1>0 DEF Listed
                <5>2. \A t \in Listed(places, r) :
                          reported[t] = IF t = s THEN reports[r][t] \cup {tag} ELSE reports[r][t]
                    BY <5>1 DEF Reported, reported
                <5>3. \A t \in Listed(places, r) : reports[r][t] = finished[r][t]
                    BY <3>1, <3>3 DEF RoomsInv, RacesRun
                <5>4. QED
                    BY <1>0, <1>3, <5>1, <5>2, <5>3
            <4>3. State(r, tag) \notin {"init", "result"}
                BY <3>1, <3>3 DEF RoomsInv, RacesRun, State
            <4>4. QED
                BY <3>3, <4>1, <4>2, <4>3 DEF Complete
        <3>4. QED
            BY <3>2, <3>3
    <2>5. QED
        BY <2>1, <2>3, <2>4 DEF RacesRun
<1>10. Shown(places, slots)' /\ NobodyCame
    <2>1. Shape(places')
        BY <1>1 DEF InStep
    <2>2. Shown(places', slots) /\ \A q \in RoomIds : Listed(places', q) \subseteq Listed(places, q)
        BY <1>1, <2>1, LeftAreShown
    <2>3. QED
        BY <1>1, <2>2 DEF Shown, NobodyCame
<1>11. QED
    BY <1>1, <1>7, <1>8, <1>9, <1>10 DEF RoomsInv

LEMMA SendKeeps ==
    ASSUME RoomsInv, NEW s \in Sessions, NEW tag \in Tags, RoomGameSend(s, tag)
    PROVE  RoomsInv' /\ Barrier /\ NobodyCame
<1> DEFINE r == places.room[s]
<1>1. s \in places.live /\ r \in Open(places) /\ r \in RoomIds
    BY DEF RoomGameSend, RoomsInv, InStep, InItsRoom, Shape
<1>2. CASE StartRace(s, r)
    <2>1. NoReports \in [Sessions -> SUBSET Families]
        BY DEF NoReports
    <2>2. ReportsKept'
        BY <1>1, <1>2, <2>1 DEF StartRace, RoomsInv, ReportsKept, States, InStep, Shape
    <2>3. Barrier
        BY <1>1, <1>2 DEF StartRace, Barrier, RoomsInv, ReportsKept
    <2>4. RacesRun'
        <3>1. \A q : Listed(places, q)' = Listed(places, q)
            BY <1>2 DEF StartRace, Listed
        <3>2. s \in Listed(places, r) /\ NoReports[s] # Families
            BY <1>1 DEF Listed, NoReports, Families
        <3>3. \A q \in RoomIds \ {r} : /\ gameState'[q] = gameState[q] /\ race'[q] = race[q]
                                       /\ reports'[q] = reports[q] /\ finished'[q] = finished[q]
            BY <1>1, <1>2 DEF StartRace, RoomsInv, ReportsKept, RacesRun
        <3>4. /\ gameState'[r] = "sync" /\ reports'[r] = NoReports /\ finished'[r] = NoReports
              /\ race' \in [RoomIds -> {"none", "on", "over"}]
            BY <1>1, <1>2 DEF StartRace, RoomsInv, ReportsKept, RacesRun
        <3>5. QED
            BY <3>1, <3>2, <3>3, <3>4 DEF RoomsInv, RacesRun
    <2>5. QED
        BY <1>2, <2>2, <2>3, <2>4 DEF StartRace, RoomsInv, NobodyCame
<1>3. CASE tag \in Families /\ Report(s, r, tag)
    BY <1>1, <1>3, ReportKeeps
<1>4. CASE /\ gameState' = [gameState EXCEPT ![r] = State(r, tag)]
           /\ UNCHANGED <<places, reports, slots, finished, race>>
    <2>0. gameState[r] \notin {"init", "result"} => State(r, tag) \notin {"init", "result"}
        BY DEF State
    <2>1. State(r, tag) \in States /\ (State(r, tag) = "result" => gameState[r] = "result")
        BY <1>1 DEF State, States, RoomsInv, ReportsKept
    <2>2. ReportsKept' /\ Barrier
        BY <1>1, <1>4, <2>1 DEF RoomsInv, ReportsKept, Barrier
    <2>3. RacesRun'
        <3>1. \A q : Listed(places, q)' = Listed(places, q)
            BY <1>4 DEF Listed
        <3>2. \A q \in RoomIds : gameState'[q] = IF q = r THEN State(r, tag) ELSE gameState[q]
            BY <1>1, <1>4 DEF RoomsInv, ReportsKept
        <3>3. QED
            BY <1>4, <2>0, <3>1, <3>2 DEF RoomsInv, RacesRun
    <2>4. QED
        BY <1>4, <2>2, <2>3 DEF RoomsInv, NobodyCame
<1>5. QED
    BY <1>2, <1>3, <1>4 DEF RoomGameSend

-----------------------------------------------------------------------------
LEMMA RoomsInvInit == Init => RoomsInv
<1> SUFFICES ASSUME Init PROVE RoomsInv
    OBVIOUS
<1>1. Open(places) = {}
    BY NoPlacesInStep DEF Init
<1>2. ReportsKept
    BY <1>1 DEF Init, ReportsKept, NoReports, States
<1>3. RacesRun
    BY DEF Init, RacesRun
<1>4. Shown(places, slots)
    BY <1>1 DEF Init, Shown, HostIn, Nobody
<1>5. QED
    BY <1>2, <1>3, <1>4, NoPlacesInStep DEF Init, RoomsInv

\* Every step but a join, which Beta1 counts differently.
LEMMA QuietKeeps ==
    ASSUME RoomsInv,
           \/ \E s \in Sessions : End(s) \/ Logout(s) \/ LeaveRoom(s) \/ LeaveLobby(s)
           \/ \E s \in Sessions, new \in BOOLEAN, E \in AtMostOne(Sessions), U \in AtMostOne(Sessions) :
                KicsLogin(s, new, E, U)
           \/ \E s \in Sessions, max \in Capacities, rules \in Rules : CreateGameRoom(s, max, rules)
           \/ \E s \in Sessions, l \in Lobbies \cup {0} : JoinLobby(s, l)
           \/ \E R \in {RoomsOf(places, l) : l \in Lobbies} \cup {{r} : r \in RoomIds} : QueryRooms(R)
           \/ Tick
           \/ \E s \in Sessions, tag \in Tags : RoomGameSend(s, tag)
    PROVE  RoomsInv' /\ Barrier /\ NobodyCame
BY EndsKeep, KicsKeeps, CreateRoomKeeps, LeavesKeep, QueryKeeps, SendKeeps

LEMMA RoomsInvStep == RoomsInv /\ [Next]_vars => RoomsInv' /\ Barrier
<1> SUFFICES ASSUME RoomsInv, [Next]_vars PROVE RoomsInv' /\ Barrier
    OBVIOUS
<1>1. CASE UNCHANGED vars
    <2>1. InStep(places, {})' /\ Shown(places, slots)'
        BY <1>1 DEF vars, RoomsInv, Shown, HostIn, Listed, Open
    <2>2. ReportsKept' /\ RacesRun' /\ Barrier
        BY <1>1 DEF vars, RoomsInv, ReportsKept, RacesRun, Listed, Open, Barrier
    <2>3. QED
        BY <2>1, <2>2 DEF RoomsInv
<1>2. ASSUME NEW s \in Sessions, NEW r \in RoomIds, JoinRoom(s, r) PROVE RoomsInv' /\ Barrier
    BY <1>2, JoinRoomKeeps
<1>3. QED
    BY <1>1, <1>2, QuietKeeps DEF Next

LEMMA InvImpliesReturns == RoomsInv => FinishedRaceReturns
BY DEF RoomsInv, RacesRun, FinishedRaceReturns

LEMMA InvImpliesTypes == RoomsInv => TypeOK
BY ShapeIsPlaces DEF RoomsInv, InStep, ReportsKept, RacesRun, Shown, TypeOK

LEMMA InvImpliesShown == RoomsInv => NobodyInvisible
BY DEF RoomsInv, Shown, NobodyInvisible

LEMMA InvImpliesRooms == RoomsInv => SessionsRoomHasIt
BY DEF RoomsInv, InStep, InItsRoom, SessionsRoomHasIt

\* A session's room word names an open room that has it as a member
\* (plugin.py:112-155, 905-930, core/game/handlers.py:156-176).
THEOREM SessionsKeepTheirRooms == Spec => []SessionsRoomHasIt
BY RoomsInvInit, RoomsInvStep, InvImpliesRooms, PTL DEF Spec

\* In a race whose members have all stayed, nobody waits for the transition
\* once everybody has reported (plugin.py:691-774).
THEOREM FinishedRacesReturn == Spec => []FinishedRaceReturns
BY RoomsInvInit, RoomsInvStep, InvImpliesReturns, PTL DEF Spec

\* The transition goes out only when every session in the room has reported
\* both families since this race's start (plugin.py:691-774).
THEOREM TransitionWaitsForAll == Spec => TransitionIsBarrier
<1>1. RoomsInv /\ [Next]_vars => RoomsInv'
    BY RoomsInvStep
<1>2. RoomsInv /\ [Next]_vars =>
          [\A r \in RoomIds :
              gameState[r] # "result" /\ gameState'[r] = "result" =>
                  \A s \in Listed(places, r) : finished'[r][s] = Families]_vars
    BY RoomsInvStep DEF Barrier
<1>3. QED
    BY <1>1, <1>2, RoomsInvInit, PTL DEF Spec, TransitionIsBarrier

-----------------------------------------------------------------------------
\* Beta1.  A count is at least the sessions in the room, and not of another room.
CountInv == count \in [Sessions -> 0 .. Cardinality(Sessions)] /\ CountNeverShort

\* A step keeps this when nobody comes into a room whose sessions it does not count.
LEMMA CountedKeeps ==
    ASSUME RoomsInv, RoomsInv', CountInv, NEW S, Counted(S),
           \A s \in Sessions \ S : s \in places'.live /\ places'.room[s] # 0 /\ places'.room[s] = places.room[s] =>
               s \in places.live /\ Listed(places', places.room[s]) \subseteq Listed(places, places.room[s])
    PROVE  CountInv'
<1> DEFINE r(s) == places'.room[s]
<1>1. /\ Shape(places') /\ \A s \in places'.live : InItsRoom(places', s)
    BY DEF RoomsInv, InStep
<1>2. \A s \in Sessions :
          count'[s] = IF s \in S /\ r(s) \in Open(places') THEN Cardinality(places'.rooms[r(s)].members)
                      ELSE IF r(s) = 0 \/ r(s) # places.room[s] THEN 0 ELSE count[s]
    BY DEF Counted
<1>3. \A M \in SUBSET Sessions : /\ IsFiniteSet(M) /\ Cardinality(M) \in 0 .. Cardinality(Sessions)
                               /\ \A L \in SUBSET M : Cardinality(L) <= Cardinality(M)
    <2> SUFFICES ASSUME NEW M \in SUBSET Sessions
                 PROVE  /\ IsFiniteSet(M) /\ Cardinality(M) \in 0 .. Cardinality(Sessions)
                        /\ \A L \in SUBSET M : Cardinality(L) <= Cardinality(M)
        OBVIOUS
    <2>1. IsFiniteSet(M) /\ Cardinality(M) <= Cardinality(Sessions)
        BY PlacesAssumption, FS_Subset
    <2>2. Cardinality(M) \in Nat /\ Cardinality(Sessions) \in Nat
        BY <2>1, PlacesAssumption, FS_CardinalityType
    <2>3. \A L \in SUBSET M : Cardinality(L) <= Cardinality(M)
        BY <2>1, FS_Subset
    <2>4. QED
        BY <2>1, <2>2, <2>3
<1>4. \A q \in Open(places') : places'.rooms[q].members \in SUBSET Sessions
    BY <1>1 DEF Shape, GameRooms
<1>5. \A s \in Sessions : count'[s] \in 0 .. Cardinality(Sessions)
    <2>1. 0 \in 0 .. Cardinality(Sessions)
        BY <1>3
    <2>2. QED
        BY <1>2, <1>3, <1>4, <2>1 DEF CountInv
<1>6. count' \in [Sessions -> 0 .. Cardinality(Sessions)]
    BY <1>5 DEF Counted
<1>7. ASSUME NEW s \in places'.live, count'[s] # 0
      PROVE  Cardinality(Listed(places', r(s))) <= count'[s]
    <2>0. s \in Sessions /\ Listed(places', r(s)) \in SUBSET Sessions
        BY <1>1 DEF Shape, Listed
    <2>1. r(s) # 0 /\ r(s) \in Open(places')
        <3>1. 0 \notin Open(places')
            BY <1>1, PlacesAssumption DEF Shape, RoomIds
        <3>2. QED
            BY <1>1, <1>2, <1>7, <2>0, <3>1 DEF InItsRoom
    <2>2. CASE s \in S
        <3>1. Listed(places', r(s)) \subseteq places'.rooms[r(s)].members
            BY <1>1, <2>1 DEF Listed, InItsRoom
        <3>2. QED
            BY <1>2, <1>3, <1>4, <2>0, <2>1, <2>2, <3>1
    <2>3. CASE s \notin S
        <3>1. r(s) = places.room[s] /\ count'[s] = count[s]
            BY <1>2, <1>7, <2>0, <2>1, <2>3
        <3>2. s \in places.live /\ Listed(places', r(s)) \subseteq Listed(places, r(s))
            BY <2>0, <2>1, <2>3, <3>1
        <3>3. Cardinality(Listed(places, r(s))) <= count[s] /\ count[s] \in 0 .. Cardinality(Sessions)
            BY <1>7, <2>0, <3>1, <3>2 DEF CountInv, CountNeverShort
        <3>4. Listed(places, r(s)) \in SUBSET Sessions
            BY DEF RoomsInv, InStep, Shape, Listed
        <3>5. /\ Cardinality(Listed(places', r(s))) <= Cardinality(Listed(places, r(s)))
              /\ Cardinality(Listed(places', r(s))) \in Nat /\ Cardinality(Listed(places, r(s))) \in Nat
            BY <1>3, <2>0, <3>2, <3>4
        <3>6. QED
            BY <3>1, <3>3, <3>5
    <2>4. QED
        BY <2>2, <2>3
<1>8. CountNeverShort'
    BY <1>7 DEF CountNeverShort, Listed
<1>9. QED
    BY <1>6, <1>8 DEF CountInv

\* When nobody came into a room that somebody is in, any counting will do.
LEMMA QuietCounts ==
    ASSUME RoomsInv, RoomsInv', CountInv, NobodyCame, NEW S, Counted(S)
    PROVE  CountInv'
<1>1. Shape(places) /\ Shape(places')
    BY DEF RoomsInv, InStep
<1>2. ASSUME NEW s \in Sessions, places'.room[s] # 0, places'.room[s] = places.room[s]
      PROVE  s \in places.live /\ Listed(places', places.room[s]) \subseteq Listed(places, places.room[s])
    <2>1. s \in Listed(places, places.room[s]) /\ places.room[s] \in RoomIds
        BY <1>1, <1>2 DEF Shape, Listed
    <2>2. QED
        BY <2>1 DEF NobodyCame, Listed
<1>3. QED
    BY <1>2, CountedKeeps

\* A join is counted by everybody who was in the room before.
LEMMA JoinCounts ==
    ASSUME RoomsInv, CountInv, NEW s \in Sessions, NEW r \in RoomIds, BetaJoinRoom(s, r)
    PROVE  RoomsInv' /\ CountInv'
<1> DEFINE S == IF places.room[s] # r /\ places'.room[s] = r THEN Listed(places', r) \ {s} ELSE {}
<1>1. JoinRoom(s, r) /\ Counted(S)
    BY DEF BetaJoinRoom
<1>2. /\ RoomsInv'
      /\ \A q \in RoomIds : Listed(places', q) \subseteq Listed(places, q) \cup (IF q = r THEN {s} ELSE {})
    BY <1>1, JoinRoomKeeps
<1>3. Shape(places) /\ Shape(places')
    BY <1>2 DEF RoomsInv, InStep
<1>4. ASSUME NEW t \in Sessions \ S, t \in places'.live, places'.room[t] # 0, places'.room[t] = places.room[t]
      PROVE  t \in places.live /\ Listed(places', places.room[t]) \subseteq Listed(places, places.room[t])
    <2>1. t \in places.live /\ places.room[t] \in RoomIds /\ t \in Listed(places', places.room[t])
        BY <1>3, <1>4 DEF Shape, Listed
    <2>2. CASE places.room[t] # r
        BY <1>2, <2>1, <2>2
    <2>3. CASE places.room[t] = r
        <3>1. places.room[s] = r \/ places'.room[s] # r
            BY <1>4, <2>1, <2>3
        <3>2. s \in Listed(places', r) => s \in Listed(places, r)
            BY <1>3, <1>4, <2>3, <3>1 DEF Listed, Shape
        <3>3. QED
            BY <1>2, <2>1, <2>3, <3>2
    <2>4. QED
        BY <2>2, <2>3
<1> HIDE DEF S
<1>5. QED
    BY <1>1, <1>2, <1>4, CountedKeeps

LEMMA BetaInvInit == BetaInit => Init /\ RoomsInv /\ CountInv
<1> SUFFICES ASSUME BetaInit PROVE Init /\ RoomsInv /\ CountInv
    OBVIOUS
<1>1. 0 \in 0 .. Cardinality(Sessions)
    BY PlacesAssumption, FS_CardinalityType
<1>2. places.live = {}
    BY DEF BetaInit, Init, NoPlaces
<1>3. CountInv
    BY <1>1, <1>2 DEF BetaInit, CountInv, CountNeverShort
<1>4. QED
    BY <1>3, RoomsInvInit DEF BetaInit

LEMMA BetaStep ==
    RoomsInv /\ CountInv /\ [BetaNext]_betaVars => [Next]_vars /\ RoomsInv' /\ CountInv'
<1> SUFFICES ASSUME RoomsInv, CountInv, [BetaNext]_betaVars PROVE [Next]_vars /\ RoomsInv' /\ CountInv'
    OBVIOUS
<1>1. CASE UNCHANGED betaVars
    <2>1. UNCHANGED vars /\ UNCHANGED <<places, count>>
        BY <1>1 DEF betaVars, vars
    <2>2. CountInv'
        BY <2>1 DEF CountInv, CountNeverShort, Listed
    <2>3. QED
        BY <2>1, <2>2, RoomsInvStep
<1>2. ASSUME NEW s \in Sessions, QueryAttribute(s) PROVE Next /\ RoomsInv' /\ CountInv'
    <2>1. QueryRooms({places.room[s]}) /\ places.room[s] \in RoomIds /\ Counted({s})
        BY <1>2 DEF QueryAttribute, RoomsInv, InStep, Shape
    <2>2. RoomsInv' /\ NobodyCame
        BY <2>1, QueryKeeps
    <2>3. QED
        BY <2>1, <2>2, QuietCounts DEF Next
<1>3. ASSUME NEW s \in Sessions, NEW r \in RoomIds, BetaJoinRoom(s, r) PROVE Next /\ RoomsInv' /\ CountInv'
    BY <1>3, JoinCounts DEF BetaJoinRoom, Next
<1>4. ASSUME NEW s \in Sessions, BetaLeaveRoom(s) PROVE Next /\ RoomsInv' /\ CountInv'
    <2>1. LeaveRoom(s) /\ \E S : Counted(S)
        BY <1>4 DEF BetaLeaveRoom
    <2>2. QED
        BY <2>1, LeavesKeep, QuietCounts DEF Next
<1>5. CASE Quiet
    <2>1. RoomsInv' /\ NobodyCame /\ Counted({})
        BY <1>5, QuietKeeps DEF Quiet
    <2>2. Next
        BY <1>5 DEF Quiet, Next
    <2>3. QED
        BY <2>1, <2>2, QuietCounts
<1>6. QED
    BY <1>1, <1>2, <1>3, <1>4, <1>5 DEF BetaNext

\* Beta1 adds counts to the release's rooms and changes nothing about them
\* (automodellista_beta1/plugin.py).
THEOREM BetaImplementsRelease == BetaSpec => Spec
BY BetaInvInit, BetaStep, PTL DEF BetaSpec, Spec

\* The places of the players, what their clients show and the race they are in
\* agree, in the release and in Beta1 (automodellista/plugin.py,
\* automodellista_beta1/plugin.py:87-127, 319-349).
THEOREM RaceRoomsAreSound == BetaSpec => []RaceRoomsSound
<1>1. RoomsInv /\ CountInv => RaceRoomsSound
    BY InvImpliesTypes, InvImpliesRooms, InvImpliesShown, InvImpliesReturns
    DEF CountInv, RaceRoomsSound, BetaTypeOK
<1>2. QED
    BY <1>1, BetaInvInit, BetaStep, PTL DEF BetaSpec

-----------------------------------------------------------------------------
\* What the handlers answer, for any players, lobbies and datagrams.
IsUnit(u) ==
    /\ u = Request(u.cmd, u.channel, u.arg)
    /\ u.multi = FALSE /\ u.acks = TRUE /\ u.reliable = TRUE

\* A request as it is handled: the first of its datagram has its number, an
\* embedded one has none.
Handled(m, s, u) ==
    /\ m.from = s /\ m.cmd = u.cmd /\ m.channel = u.channel /\ m.arg = u.arg
    /\ m.reliable = TRUE /\ m.acks = TRUE /\ (m.multi = TRUE \/ m.multi = FALSE)

AtHead(m, s, u) == Handled(m, s, u) /\ m.embedded = FALSE /\ m.number = Number

Inside(m, s, u) == Handled(m, s, u) /\ m.embedded = TRUE /\ m.number = 0 /\ m.multi = FALSE

LEMMA RequestFields ==
    ASSUME NEW c, NEW d, NEW a
    PROVE  IsUnit(Request(c, d, a)) /\ Request(c, d, a).cmd = c /\ Request(c, d, a).channel = d /\ Request(c, d, a).arg = a
BY DEF IsUnit, Request

LEMMA DecodedFirst ==
    ASSUME NEW s, NEW u, IsUnit(u), NEW e, NEW m,
           m = Decode(Single(u), s)[1] \/ m = Decode(Bundle(u, e), s)[1]
    PROVE  AtHead(m, s, u)
<1> DEFINE v == [u EXCEPT !.multi = TRUE]
           F(x) == [cmd |-> x.cmd, channel |-> x.channel, arg |-> x.arg, multi |-> x.multi, acks |-> x.acks,
                    reliable |-> x.reliable, from |-> s, embedded |-> FALSE, number |-> Number]
<1>1. /\ v.multi = TRUE /\ v.acks = TRUE /\ v.reliable = TRUE
      /\ v.cmd = u.cmd /\ v.channel = u.channel /\ v.arg = u.arg
    <2>1. v = [Request(u.cmd, u.channel, u.arg) EXCEPT !.multi = TRUE]
        BY DEF IsUnit
    <2>2. QED
        BY <2>1 DEF Request
<1>2. /\ Single(u).units = <<u>> /\ Single(u).whole = TRUE /\ Single(u).number = Number
      /\ Bundle(u, e).units = <<v, e>> /\ Bundle(u, e).whole = TRUE /\ Bundle(u, e).number = Number
    BY DEF Single, Bundle
<1> HIDE DEF v
<1>3. m = F(u) \/ m = F(v)
    <2>1. /\ DOMAIN <<u>> = 1 .. 1 /\ <<u>>[1] = u /\ 1 \in DOMAIN <<u>>
          /\ DOMAIN <<v, e>> = 1 .. 2 /\ <<v, e>>[1] = v /\ 1 \in DOMAIN <<v, e>>
        OBVIOUS
    <2>2. ~\E j \in 1 .. 1 - 1 : <<u>>[j].multi \/ <<v, e>>[j].multi
        OBVIOUS
    <2>3. Decode(Single(u), s)[1] = F(u)
        BY <1>2, <2>1, <2>2 DEF Decode
    <2>4. Decode(Bundle(u, e), s)[1] = F(v)
        BY <1>2, <2>1, <2>2 DEF Decode
    <2>5. QED
        BY <2>3, <2>4
<1>4. \A x : /\ F(x).cmd = x.cmd /\ F(x).channel = x.channel /\ F(x).arg = x.arg /\ F(x).multi = x.multi
             /\ F(x).acks = x.acks /\ F(x).reliable = x.reliable /\ F(x).from = s
             /\ F(x).embedded = FALSE /\ F(x).number = Number
    OBVIOUS
<1>5. u.multi = FALSE /\ u.acks = TRUE /\ u.reliable = TRUE
    BY DEF IsUnit
<1> HIDE DEF F
<1>6. CASE m = F(u)
    BY <1>4, <1>5, <1>6, Zenon DEF AtHead, Handled
<1>7. CASE m = F(v)
    BY <1>1, <1>4, <1>7, Zenon DEF AtHead, Handled
<1>8. QED
    BY <1>3, <1>6, <1>7

LEMMA DecodedEmbedded ==
    ASSUME NEW s, NEW u, IsUnit(u), NEW e, IsUnit(e)
    PROVE  Inside(Decode(Bundle(u, e), s)[2], s, e)
<1> DEFINE v == [u EXCEPT !.multi = TRUE]
           m == Decode(Bundle(u, e), s)[2]
<1>1. v.multi = TRUE
    <2>1. v = [Request(u.cmd, u.channel, u.arg) EXCEPT !.multi = TRUE]
        BY DEF IsUnit
    <2>2. QED
        BY <2>1 DEF Request
<1>2. Bundle(u, e).units = <<v, e>> /\ Bundle(u, e).whole = TRUE /\ Bundle(u, e).number = Number
    BY DEF Bundle
<1> HIDE DEF v
<1>3. /\ DOMAIN <<v, e>> = 1 .. 2 /\ <<v, e>>[2] = e /\ 2 \in DOMAIN <<v, e>>
      /\ \E j \in 1 .. 2 - 1 : <<v, e>>[j].multi
    BY <1>1
<1>4. m = [cmd |-> e.cmd, channel |-> e.channel, arg |-> e.arg, multi |-> e.multi, acks |-> e.acks,
           reliable |-> e.reliable, from |-> s, embedded |-> TRUE, number |-> 0]
    BY <1>2, <1>3 DEF Decode
<1>5. /\ m.cmd = e.cmd /\ m.channel = e.channel /\ m.arg = e.arg /\ m.multi = e.multi /\ m.acks = e.acks
      /\ m.reliable = e.reliable /\ m.from = s /\ m.embedded = TRUE /\ m.number = 0
    BY <1>4
<1>6. e.multi = FALSE /\ e.acks = TRUE /\ e.reliable = TRUE
    BY DEF IsUnit
<1> HIDE DEF m
<1>7. Inside(m, s, e)
    BY <1>5, <1>6, Zenon DEF Inside, Handled
<1>8. QED
    BY <1>7 DEF m


\* A packet acknowledges at most its sender's datagram, and Beta1's relays
\* acknowledge nothing to the others.
Proper(p, m, beta) ==
    /\ p.to = m.from /\ p.response => p.ack = Number
    /\ beta /\ p.to # m.from /\ p.cmd = "send" => ~p.response

\* The packet answers its sender with its number.
AcksSender(p, m) == p.to = m.from /\ p.response = TRUE /\ p.ack = Number

AllProper(packets, m, beta) == \A p \in packets : Proper(p, m, beta)

LEMMA ReplyIsProper ==
    ASSUME NEW m, NEW cmd, NEW beta
    PROVE  LET p == Reply(m, cmd, Number) IN
           Proper(p, m, beta) /\ AcksSender(p, m)
<1> DEFINE p == Reply(m, cmd, Number)
<1>1. p.to = m.from /\ p.response = TRUE /\ p.ack = Number
    BY DEF Reply
<1>2. Proper(p, m, beta)
    BY <1>1, Zenon DEF Proper
<1>3. QED
    BY <1>1, <1>2, Zenon DEF AcksSender

\* What goes out besides the replies.
LEMMA DirectIsProper ==
    ASSUME NEW m, NEW beta, NEW t, NEW cmd, NEW response,
           response = FALSE \/ t = m.from \/ cmd = "chat"
    PROVE  Proper(Direct(m, t, cmd, response), m, beta)
<1> DEFINE p == Direct(m, t, cmd, response)
<1>1. p.to = t /\ p.cmd = cmd /\ p.ack = LastNumber(m, t) /\ p.response = response
    BY DEF Direct
<1>2. p.to = m.from => p.ack = Number
    BY <1>1 DEF LastNumber
<1>3. p.to # m.from /\ p.cmd = "send" => response = FALSE
    BY <1>1
<1> HIDE DEF p
<1>4. p.to # m.from /\ p.cmd = "send" => ~p.response
    BY <1>1, <1>3, Zenon
<1>5. Proper(p, m, beta)
    BY <1>2, <1>4, Zenon DEF Proper
<1>6. QED
    BY <1>5 DEF p

LEMMA RelaysAreProper ==
    ASSUME NEW m, NEW beta \in BOOLEAN, NEW p,
           p \in LobbyChat(m) \cup RoomChat(m) \cup RoomGamePackets(m, beta) \cup TargetRelay(m)
    PROVE  Proper(p, m, beta)
<1>1. CASE p \in LobbyChat(m) \cup RoomChat(m)
    <2>1. \E t : p = Direct(m, t, "chat", TRUE)
        BY <1>1 DEF LobbyChat, RoomChat
    <2>2. QED
        BY <2>1, DirectIsProper
<1>2. CASE p \in TargetRelay(m)
    <2>1. \E t : p = Direct(m, t, "target", FALSE)
        BY <1>2 DEF TargetRelay
    <2>2. QED
        BY <2>1, DirectIsProper
<1>3. CASE p \in RoomGamePackets(m, beta)
    <2>1. PICK t : p = Direct(m, t, "send", RelayResponds(m, beta))
        BY <1>3 DEF RoomGamePackets
    <2>2. CASE beta = TRUE
        <3>1. RelayResponds(m, beta) = FALSE
            BY <2>2, Zenon DEF RelayResponds
        <3>2. QED
            BY <2>1, <3>1, DirectIsProper
    <2>3. CASE beta = FALSE
        <3>1. p.to = t /\ p.ack = LastNumber(m, t)
            BY <2>1 DEF Direct
        <3>2. p.to = m.from => p.ack = Number
            BY <3>1 DEF LastNumber
        <3>3. QED
            BY <2>3, <3>2, Zenon DEF Proper
    <2>4. QED
        BY <2>2, <2>3
<1>4. QED
    BY <1>1, <1>2, <1>3

\* Answers in the form that the two lemmas before it are about.
LEMMA AnswerForms ==
    ASSUME NEW m, NEW beta \in BOOLEAN,
           m.cmd \in {"send", "target", "change", "echo", "users", "leave"},
           NEW p \in Answers(m, beta)
    PROVE  \/ p \in LobbyChat(m) \cup RoomChat(m) \cup RoomGamePackets(m, beta) \cup TargetRelay(m)
           \/ /\ \E cmd : p = Reply(m, cmd, m.number)
              /\ \/ m.cmd \in {"echo", "users"}
                 \/ m.cmd = "send" /\ ~(OwnsNoAck(m) /\ ~m.multi)
                 \/ m.cmd = "target" /\ ~(m.embedded /\ m.reliable)
           \/ \E cmd : p = Reply(m, cmd, AckForRequest(m))
<1>1. CASE m.cmd = "send"
    <2>1. p \in Send(m, beta)
        BY <1>1 DEF Answers
    <2>2. \/ p \in LobbyChat(m) \cup RoomChat(m) \cup RoomGamePackets(m, beta)
          \/ ~(OwnsNoAck(m) /\ ~m.multi) /\ p = Reply(m, "ack", m.number)
        BY <2>1 DEF Send, TransportAck
    <2>3. QED
        BY <1>1, <2>2
<1>2. CASE m.cmd = "target"
    <2>1. p \in SendTarget(m)
        BY <1>2 DEF Answers
    <2>2. p \in TargetRelay(m) \/ (~(m.embedded /\ m.reliable) /\ p = Reply(m, "ack", m.number))
        BY <2>1 DEF SendTarget, TransportAck
    <2>3. QED
        BY <1>2, <2>2
<1>3. CASE m.cmd = "change"
    BY <1>3 DEF Answers, ChangeAck
<1>4. CASE m.cmd = "leave"
    BY <1>4 DEF Answers, LeaveResult
<1>5. CASE m.cmd = "echo"
    BY <1>5 DEF Answers, Echo
<1>6. CASE m.cmd = "users"
    BY <1>6 DEF Answers, LobbyUserQuery
<1>7. QED
    BY <1>1, <1>2, <1>3, <1>4, <1>5, <1>6

LEMMA FirstIsAcked ==
    ASSUME NEW s, NEW u \in Heads(s), NEW m, AtHead(m, s, u), NEW beta \in BOOLEAN
    PROVE  AllProper(Answers(m, beta), m, beta) /\ \E p \in Answers(m, beta) : AcksSender(p, m)
<1>1. m.cmd \in {"send", "users", "echo", "target"}
    BY RequestFields DEF Heads, AtHead, Handled
<1>2. m.number = Number /\ AckForRequest(m) = Number /\ ~m.embedded
    <2>1. m.number = Number /\ m.embedded = FALSE
        BY Zenon DEF AtHead
    <2>2. QED
        BY <2>1 DEF AckForRequest, LastNumber, Number
<1>3. ASSUME NEW p \in Answers(m, beta) PROVE Proper(p, m, beta)
    <2>1. \/ p \in LobbyChat(m) \cup RoomChat(m) \cup RoomGamePackets(m, beta) \cup TargetRelay(m)
          \/ \E cmd : p = Reply(m, cmd, Number)
        BY <1>1, <1>2, <1>3, AnswerForms
    <2>2. QED
        BY <2>1, RelaysAreProper, ReplyIsProper, Zenon
<1>4. \E cmd : Reply(m, cmd, Number) \in Answers(m, beta)
    <2>1. CASE m.cmd = "send"
        BY <1>2, <2>1 DEF Answers, Send, OwnsNoAck, TransportAck
    <2>2. CASE m.cmd = "target"
        BY <1>2, <2>2 DEF Answers, SendTarget, TransportAck
    <2>3. CASE m.cmd = "users"
        BY <1>2, <2>3 DEF Answers, LobbyUserQuery
    <2>4. CASE m.cmd = "echo"
        BY <1>2, <2>4 DEF Answers, Echo
    <2>5. QED
        BY <1>1, <2>1, <2>2, <2>3, <2>4
<1>5. QED
    BY <1>3, <1>4, ReplyIsProper DEF AllProper

LEMMA EmbeddedIsProper ==
    ASSUME NEW s, NEW e \in Embedded, NEW m, Inside(m, s, e), NEW beta \in BOOLEAN
    PROVE  AllProper(Answers(m, beta), m, beta)
<1>1. m.cmd \in {"send", "change", "leave", "target"}
    BY RequestFields DEF Embedded, Inside, Handled
<1>2. AckForRequest(m) = Number
    BY DEF AckForRequest, LastNumber, Inside
<1>3. OwnsNoAck(m) /\ ~m.multi /\ m.embedded /\ m.reliable
    BY Zenon DEF OwnsNoAck, Inside, Handled
<1>4. ASSUME NEW p \in Answers(m, beta) PROVE Proper(p, m, beta)
    <2>1. \/ p \in LobbyChat(m) \cup RoomChat(m) \cup RoomGamePackets(m, beta) \cup TargetRelay(m)
          \/ \E cmd : p = Reply(m, cmd, Number)
        BY <1>1, <1>2, <1>3, <1>4, AnswerForms
    <2>2. QED
        BY <2>1, RelaysAreProper, ReplyIsProper, Zenon
<1>5. QED
    BY <1>4 DEF AllProper

\* What SenderIsAcked says of the packets that answer one request.
Acked(packets, s) == {p.ack : p \in {q \in packets : q.to = s /\ q.response}}

Unrelayed(packets, s) == \A p \in packets : p.to # s /\ p.cmd = "send" => ~p.response

LEMMA PacketsAreAcked ==
    ASSUME NEW packets, NEW beta \in BOOLEAN, NEW m, AllProper(packets, m, beta)
    PROVE  /\ Acked(packets, m.from) \subseteq {Number}
           /\ beta => Unrelayed(packets, m.from)
           /\ (\E p \in packets : AcksSender(p, m)) => Acked(packets, m.from) = {Number}
<1>1. Acked(packets, m.from) \subseteq {Number}
    BY Zenon DEF Proper, AllProper, Acked
<1>2. beta => Unrelayed(packets, m.from)
    BY Zenon DEF Proper, AllProper, Unrelayed
<1>3. ASSUME NEW p \in packets, AcksSender(p, m) PROVE Acked(packets, m.from) = {Number}
    <2>1. p \in {q \in packets : q.to = m.from /\ q.response}
        BY <1>3, Zenon DEF AcksSender
    <2>2. Number \in Acked(packets, m.from)
        BY <1>3, <2>1, Zenon DEF Acked, AcksSender
    <2>3. QED
        BY <1>1, <2>2
<1>4. QED
    BY <1>1, <1>2, <1>3

LEMMA FirstsAreAcked ==
    ASSUME NEW s \in Sessions, NEW m \in Firsts[s]
    PROVE  /\ Acked(HeadAnswers(m, "hold", FALSE), s) = {Number}
           /\ \A beta \in BOOLEAN : /\ Acked(HeadAnswers(m, "deliver", beta), s) = {Number}
                                    /\ beta => Unrelayed(HeadAnswers(m, "deliver", beta), s)
<1>1. PICK u \in Heads(s) : m = Decode(Single(u), s)[1] \/ m = Decode(Bundle(u, u), s)[1]
    BY DEF Firsts
<1>2. IsUnit(u)
    BY <1>1, RequestFields DEF Heads
<1>3. AtHead(m, s, u)
    BY <1>1, <1>2, DecodedFirst
<1>4. m.from = s /\ m.number = Number
    BY <1>3 DEF AtHead, Handled
<1>5. Acked(HeadAnswers(m, "hold", FALSE), s) = {Number}
    <2>1. HeadAnswers(m, "hold", FALSE) = {Reply(m, "ack", Number)}
        BY <1>4 DEF HeadAnswers, TransportAck
    <2>2. AllProper({Reply(m, "ack", Number)}, m, FALSE) /\ AcksSender(Reply(m, "ack", Number), m)
        BY ReplyIsProper DEF AllProper
    <2>3. QED
        BY <1>4, <2>1, <2>2, PacketsAreAcked
<1>6. ASSUME NEW beta \in BOOLEAN
      PROVE  /\ Acked(HeadAnswers(m, "deliver", beta), s) = {Number}
             /\ beta => Unrelayed(HeadAnswers(m, "deliver", beta), s)
    <2>1. HeadAnswers(m, "deliver", beta) = Answers(m, beta)
        BY DEF HeadAnswers
    <2>2. AllProper(Answers(m, beta), m, beta) /\ \E p \in Answers(m, beta) : AcksSender(p, m)
        BY <1>1, <1>3, FirstIsAcked
    <2>3. QED
        BY <1>4, <2>1, <2>2, PacketsAreAcked
<1>7. QED
    BY <1>5, <1>6

LEMMA OthersAreProper ==
    ASSUME NEW s \in Sessions, NEW m \in Others[s], NEW beta \in BOOLEAN
    PROVE  Acked(Answers(m, beta), s) \subseteq {Number} /\ (beta => Unrelayed(Answers(m, beta), s))
<1>1. PICK u \in Heads(s), e \in Embedded : m = Decode(Bundle(u, e), s)[2]
    BY DEF Others
<1>2. IsUnit(u) /\ IsUnit(e)
    BY <1>1, RequestFields DEF Heads, Embedded
<1>3. Inside(m, s, e)
    BY <1>1, <1>2, DecodedEmbedded
<1>4. AllProper(Answers(m, beta), m, beta)
    BY <1>1, <1>3, EmbeddedIsProper
<1>5. m.from = s
    BY <1>3, Zenon DEF Inside, Handled
<1>6. QED
    BY <1>4, <1>5, PacketsAreAcked

LEMMA SendersAreAcked == ASSUME places.live \subseteq Sessions PROVE SenderIsAcked
<1>1. ASSUME NEW s \in places.live
      PROVE  /\ \A m \in Firsts[s] :
                  /\ Acked(HeadAnswers(m, "hold", FALSE), s) = {Number}
                  /\ \A beta \in BOOLEAN : /\ Acked(HeadAnswers(m, "deliver", beta), s) = {Number}
                                           /\ beta => Unrelayed(HeadAnswers(m, "deliver", beta), s)
             /\ \A m \in Others[s], beta \in BOOLEAN :
                  Acked(Answers(m, beta), s) \subseteq {Number} /\ (beta => Unrelayed(Answers(m, beta), s))
    BY FirstsAreAcked, OthersAreProper
<1>2. QED
    BY <1>1, Zenon DEF SenderIsAcked, Acked, Unrelayed

-----------------------------------------------------------------------------
\* What the lists and the counts say, for any places in step.
ListedOf(w, r) == {m \in w.rooms[r].members : m \in w.live /\ w.room[m] # 0}

LEMMA LobbyRows ==
    LET rows == Range(QueryLobbies) IN
    /\ TakenEntries(MultiLobbyUsers(TRUE)) = rows
    /\ \A row \in rows : row.users = LobbyUsers(row.lobby)
<1> DEFINE ids == LobbyIds
           n == Cardinality(AllLobbies)
           rows == QueryLobbies
           F(i) == [lobby |-> ids[i], users |-> UsersIn(ids[i])]
           entries == MultiLobbyUsers(TRUE)
           Reliable(e) == e.reliable = TRUE
<1>1. n \in Nat /\ ids \in [1 .. n -> AllLobbies]
    <2>1. IsFiniteSet(AllLobbies) /\ AllLobbies \subseteq Nat
        BY PlacesAssumption, MoreLobbiesAssumption, FS_Union DEF AllLobbies
    <2>2. QED
        BY <2>1, InOrderLists DEF LobbyIds
<1> HIDE DEF ids, n
<1>2. rows = [i \in 1 .. n |-> F(i)]
    <2>1. DOMAIN LobbyIds = 1 .. n /\ ids = LobbyIds
        BY <1>1 DEF ids
    <2>2. QED
        BY <2>1 DEF QueryLobbies
<1>3. entries = [i \in 1 .. n |-> Entry(rows[i], TRUE)]
    <2>1. DOMAIN QueryLobbies = 1 .. n
        BY <1>2
    <2>2. QED
        BY <2>1 DEF MultiLobbyUsers
<1>4. \A i \in 1 .. n : /\ entries[i].lobby = ids[i] /\ entries[i].users = UsersIn(ids[i])
                        /\ Reliable(entries[i])
    <2>1. \A row : Entry(row, TRUE).lobby = row.lobby /\ Entry(row, TRUE).users = row.users
                  /\ Reliable(Entry(row, TRUE))
        BY DEF Entry
    <2>2. \A i \in 1 .. n : rows[i].lobby = ids[i] /\ rows[i].users = UsersIn(ids[i])
        BY <1>2
    <2> HIDE DEF rows, entries, Reliable
    <2>3. \A i \in 1 .. n : entries[i] = Entry(rows[i], TRUE)
        BY <1>3
    <2>4. QED
        BY <2>1, <2>2, <2>3
<1> HIDE DEF rows, entries
<1>5. DOMAIN entries = 1 .. n /\ DOMAIN rows = 1 .. n
    BY <1>2, <1>3
<1>6. {k \in DOMAIN entries : \A j \in 1 .. k : entries[j].reliable} = 1 .. n
    <2>1. \A k \in 1 .. n : \A j \in 1 .. k : j \in 1 .. n
        BY <1>1
    <2>2. \A i \in 1 .. n : entries[i].reliable
        BY <1>4, Zenon
    <2>3. QED
        BY <1>5, <2>1, <2>2, Zenon
<1>7. TakenEntries(entries) = {F(i) : i \in 1 .. n}
    <2>1. TakenEntries(entries) = {[lobby |-> entries[i].lobby, users |-> entries[i].users] : i \in 1 .. n}
        BY <1>6, Zenon DEF TakenEntries
    <2>2. QED
        BY <1>4, <2>1
<1>8. Range(rows) = {F(i) : i \in 1 .. n}
    BY <1>2, <1>5 DEF Range
<1>9. \A i \in 1 .. n : F(i).users = LobbyUsers(F(i).lobby)
    BY <1>1 DEF LobbyUsers
<1>10. QED
    BY <1>7, <1>8, <1>9 DEF rows, entries

\* A room looks the same whether it is pruned alone or with its lobby's.
LEMMA PrunedRoom ==
    ASSUME NEW w, InStep(w, {}), NEW R, NEW r \in R
    PROVE  /\ r \in Open(Pruned(w, R)) <=> r \in Open(w) /\ ListedOf(w, r) # {}
           /\ r \in Open(Pruned(w, R)) =>
                /\ Pruned(w, R).rooms[r].members = ListedOf(w, r)
                /\ Pruned(w, R).rooms[r].lobby = w.rooms[r].lobby
                /\ Pruned(w, R).rooms[r].max = w.rooms[r].max
<1> DEFINE Left(q) == IF q \in R THEN {m \in w.rooms[q].members : m \in w.live /\ w.room[m] # 0}
                                 ELSE w.rooms[q].members
           open == {q \in Open(w) : Left(q) # {}}
           v == Pruned(w, R)
<1>1. v = [w EXCEPT !.rooms = [q \in open |-> [w.rooms[q] EXCEPT !.members = Left(q)]]]
    BY DEF Pruned
<1>2. Left(r) = ListedOf(w, r) /\ (r \in open <=> r \in Open(w) /\ ListedOf(w, r) # {})
    BY DEF ListedOf
<1> HIDE DEF Left, open
<1>3. v.rooms = [q \in open |-> [w.rooms[q] EXCEPT !.members = Left(q)]]
    BY <1>1 DEF InStep, Shape
<1> HIDE DEF v
<1>4. Open(v) = open /\ (r \in open => v.rooms[r] = [w.rooms[r] EXCEPT !.members = Left(r)])
    BY <1>3 DEF Open
<1>5. r \in Open(w) => w.rooms[r] \in GameRooms
    BY DEF InStep, Shape
<1>6. QED
    BY <1>2, <1>4, <1>5 DEF GameRooms, v

LEMMA RoomRows ==
    ASSUME InStep(places, {}), NEW l \in Lobbies, NEW row \in QueryGameRooms(l)
    PROVE  row.users = RoomUsers(row.room) /\ row.users <= row.max /\ Cardinality(QueryUser(row.room)) <= row.users
<1> DEFINE v == Pruned(places, RoomsOf(places, l))
<1>1. PICK r \in RoomsOf(v, l) : row = [room |-> r, users |-> Cardinality(v.rooms[r].members), max |-> v.rooms[r].max]
    BY DEF QueryGameRooms
<1>2. InStep(v, {}) /\ Open(v) \subseteq Open(places)
    BY PrunedKeeps DEF Shrinks
<1>3. r \in Open(v) /\ v.rooms[r].lobby = l /\ r \in Open(places)
    BY <1>1, <1>2 DEF RoomsOf
<1>4. r \in RoomsOf(places, l)
    <2>1. CASE r \in RoomsOf(places, l)
        BY <2>1
    <2>2. CASE r \notin RoomsOf(places, l)
        <3> DEFINE Left(q) == IF q \in RoomsOf(places, l) THEN {m \in places.rooms[q].members : m \in places.live /\ places.room[m] # 0}
                                                          ELSE places.rooms[q].members
                   open == {q \in Open(places) : Left(q) # {}}
        <3>1. v = [places EXCEPT !.rooms = [q \in open |-> [places.rooms[q] EXCEPT !.members = Left(q)]]]
            BY DEF Pruned
        <3> HIDE DEF Left, open
        <3>2. v.rooms = [q \in open |-> [places.rooms[q] EXCEPT !.members = Left(q)]]
            BY <3>1 DEF InStep, Shape
        <3>3. v.rooms[r] = [places.rooms[r] EXCEPT !.members = Left(r)]
            BY <1>3, <3>2 DEF Open
        <3>4. v.rooms[r].lobby = places.rooms[r].lobby
            BY <1>3, <3>3 DEF InStep, Shape, GameRooms
        <3>5. QED
            BY <1>3, <3>4 DEF RoomsOf
    <2>3. QED
        BY <2>1, <2>2
<1>5. v.rooms[r].members = ListedOf(places, r) /\ ListedOf(places, r) # {}
    BY <1>3, <1>4, PrunedRoom
<1>6. RoomUsers(r) = Cardinality(ListedOf(places, r))
    BY <1>3, <1>5, PrunedRoom DEF RoomUsers
<1>7. /\ v.rooms[r] \in GameRooms /\ IsFiniteSet(v.rooms[r].members)
      /\ Cardinality(v.rooms[r].members) <= v.rooms[r].max
    <2>1. v.rooms[r] \in GameRooms
        BY <1>2, <1>3 DEF InStep, Shape
    <2>2. QED
        BY <2>1, PlacesAssumption, FS_Subset DEF GameRooms
<1>8. QueryUser(r) \in SUBSET v.rooms[r].members
    <2>1. r # 0
        BY <1>1, <1>3, PlacesAssumption DEF InStep, Shape, RoomIds
    <2>2. ASSUME NEW t \in Listed(places, r) PROVE t \in ListedOf(places, r)
        BY <2>1, <2>2 DEF Listed, ListedOf, InStep, InItsRoom
    <2> HIDE DEF v
    <2>3. QED
        BY <1>5, <2>2 DEF QueryUser
<1>9. Cardinality(QueryUser(r)) <= Cardinality(v.rooms[r].members)
    BY <1>7, <1>8, FS_Subset
<1> HIDE DEF v
<1>10. row.room = r /\ row.users = Cardinality(v.rooms[r].members) /\ row.max = v.rooms[r].max
    BY <1>1
<1>11. QED
    BY <1>5, <1>6, <1>7, <1>9, <1>10

\* A datagram of one request has no outer unit.
Alone(m, s, c, a) == m.cmd = "send" /\ m.channel = c /\ m.arg = a /\ m.from = s /\ m.multi = FALSE

LEMMA DecodedAlone ==
    ASSUME NEW s, NEW c, NEW a
    PROVE  Alone(Decode(Single(Request("send", c, a)), s)[1], s, c, a)
<1> DEFINE u == Request("send", c, a)
           m == Decode(Single(u), s)[1]
<1>1. IsUnit(u) /\ u.cmd = "send" /\ u.channel = c /\ u.arg = a
    BY RequestFields
<1> HIDE DEF u
<1>2. Single(u).units = <<u>> /\ Single(u).whole = TRUE /\ Single(u).number = Number
    BY DEF Single
<1>3. DOMAIN <<u>> = 1 .. 1 /\ <<u>>[1] = u /\ 1 \in DOMAIN <<u>> /\ ~\E j \in 1 .. 1 - 1 : <<u>>[j].multi
    OBVIOUS
<1>4. m = [cmd |-> u.cmd, channel |-> u.channel, arg |-> u.arg, multi |-> u.multi, acks |-> u.acks,
           reliable |-> u.reliable, from |-> s, embedded |-> FALSE, number |-> Number]
    BY <1>2, <1>3 DEF Decode
<1>5. m.cmd = u.cmd /\ m.channel = u.channel /\ m.arg = u.arg /\ m.from = s /\ m.multi = u.multi
    BY <1>4
<1>6. u.multi = FALSE
    BY <1>1, Zenon DEF IsUnit
<1> HIDE DEF m
<1>7. Alone(m, s, c, a)
    BY <1>1, <1>5, <1>6, Zenon DEF Alone
<1>8. QED
    BY <1>7 DEF m, u

\* Whom a request's packets other than its ACK go to.
Relayed(m) == RoomGamePackets(m, FALSE)

To(m) == {p.to : p \in {q \in Answers(m, FALSE) : q.cmd # "ack"}}

LEMMA SendReaches ==
    ASSUME NEW m, NEW s, NEW c, NEW a, Alone(m, s, c, a)
    PROVE  /\ c = "lobby_chat" => To(m) = {p.to : p \in LobbyChat(m)}
           /\ c = "room_chat" => To(m) = {p.to : p \in RoomChat(m)}
           /\ c \notin {"lobby_chat", "room_chat"} => To(m) = {p.to : p \in Relayed(m)}
<1>1. m.cmd = "send" /\ m.channel = c /\ ~m.multi /\ Answers(m, FALSE) = Send(m, FALSE)
    <2>1. m.cmd = "send" /\ m.channel = c
        BY DEF Alone
    <2>2. ~m.multi
        BY Zenon DEF Alone
    <2>3. QED
        BY <2>1, <2>2 DEF Answers
<1>2. \A p \in TransportAck(m) : p.cmd = "ack"
    BY DEF TransportAck, Reply
<1>3. \A p \in LobbyChat(m) \cup RoomChat(m) \cup Relayed(m) : p.cmd # "ack"
    <2>1. ASSUME NEW p \in LobbyChat(m) \cup RoomChat(m) PROVE p.cmd # "ack"
        <3>1. PICK t : p = Direct(m, t, "chat", TRUE)
            BY <2>1 DEF LobbyChat, RoomChat
        <3>2. QED
            BY <3>1 DEF Direct
    <2>2. ASSUME NEW p \in Relayed(m) PROVE p.cmd # "ack"
        <3>1. PICK t : p = Direct(m, t, "send", RelayResponds(m, FALSE))
            BY <2>2 DEF Relayed, RoomGamePackets
        <3>2. QED
            BY <3>1 DEF Direct
    <2>3. QED
        BY <2>1, <2>2
<1>4. ASSUME NEW P, NEW A, Send(m, FALSE) = A \cup P, \A p \in A : p.cmd = "ack", \A p \in P : p.cmd # "ack"
      PROVE  To(m) = {p.to : p \in P}
    BY <1>1, <1>4 DEF To
<1> DEFINE A == IF OwnsNoAck(m) /\ ~m.multi THEN {} ELSE TransportAck(m)
<1>5. \A p \in A : p.cmd = "ack"
    BY <1>2
<1>6. /\ c = "lobby_chat" => Send(m, FALSE) = A \cup LobbyChat(m)
      /\ c = "room_chat" => Send(m, FALSE) = A \cup RoomChat(m)
      /\ c \notin {"lobby_chat", "room_chat"} => Send(m, FALSE) = A \cup Relayed(m)
    BY <1>1 DEF Send, Relayed
<1> HIDE DEF A
<1>7. QED
    BY <1>3, <1>4, <1>5, <1>6

LEMMA ChatReaches ==
    ASSUME InStep(places, {}), NEW s \in places.live
    PROVE  LET l == places.lobby[s]
               r == places.room[s]
           IN /\ l # 0 => Cardinality(To(Texts[s]["lobby_chat"])) = LobbyUsers(l) - 1
              /\ r # 0 => To(Texts[s]["room_chat"]) = QueryUser(r) \ {s} /\ To(Starts[s]) = QueryUser(r)
<1> DEFINE l == places.lobby[s]
           r == places.room[s]
           text == Texts[s]["lobby_chat"]
           talk == Texts[s]["room_chat"]
           start == Starts[s]
           here == {t \in places.live : places.lobby[t] = l}
<1>1. s \in Sessions /\ places.live \subseteq Sessions /\ l \in Lobbies \cup {0}
    BY DEF InStep, Shape
<1>2. /\ Alone(text, s, "lobby_chat", "text") /\ Alone(talk, s, "room_chat", "text")
      /\ Alone(start, s, "room", "start")
    <2>1. /\ text = Decode(Single(Request("send", "lobby_chat", "text")), s)[1]
          /\ talk = Decode(Single(Request("send", "room_chat", "text")), s)[1]
          /\ start = Decode(Single(Request("send", "room", "start")), s)[1]
        BY <1>1 DEF Texts, Starts
    <2> HIDE DEF text, talk, start
    <2>2. QED
        BY <2>1, DecodedAlone
<1> HIDE DEF text, talk, start
<1>3. ASSUME l # 0 PROVE Cardinality(To(text)) = LobbyUsers(l) - 1
    <2>1. To(text) = here \ {s}
        <3>1. To(text) = {p.to : p \in LobbyChat(text)}
            BY <1>2, SendReaches
        <3> DEFINE D(t) == Direct(text, t, "chat", TRUE)
        <3>2. LobbyChat(text) = {D(t) : t \in here \ {s}}
            BY <1>2, <1>3 DEF LobbyChat, Alone
        <3>3. \A t : D(t).to = t
            BY DEF Direct
        <3> HIDE DEF here, D
        <3>4. QED
            BY <3>1, <3>2, <3>3
    <2>2. IsFiniteSet(here) /\ s \in here
        BY <1>1, PlacesAssumption, FS_Subset
    <2>3. LobbyUsers(l) = Cardinality(here)
        BY <1>1, <1>3 DEF LobbyUsers, UsersIn, AllLobbies
    <2> HIDE DEF here
    <2>4. QED
        BY <2>1, <2>2, <2>3, FS_RemoveElement
<1>4. ASSUME r # 0 PROVE To(talk) = QueryUser(r) \ {s} /\ To(start) = QueryUser(r)
    <2>1. To(talk) = {p.to : p \in RoomChat(talk)} /\ To(start) = {p.to : p \in Relayed(start)}
        BY <1>2, SendReaches
    <2> DEFINE C(t) == Direct(talk, t, "chat", TRUE)
               D(t) == Direct(start, t, "send", RelayResponds(start, FALSE))
    <2>2. RoomChat(talk) = {C(t) : t \in Listed(places, r) \ {s}}
        BY <1>2, <1>4 DEF RoomChat, Alone
    <2>3. Relayed(start) = {D(t) : t \in Listed(places, r)}
        BY <1>2, <1>4 DEF Relayed, RoomGamePackets, Alone
    <2>4. \A t : C(t).to = t /\ D(t).to = t
        BY DEF Direct
    <2> HIDE DEF C, D
    <2>5. To(talk) = Listed(places, r) \ {s}
        BY <2>1, <2>2, <2>4
    <2>6. To(start) = Listed(places, r)
        BY <2>1, <2>3, <2>4
    <2>7. QED
        BY <2>5, <2>6 DEF QueryUser
<1>5. QED
    BY <1>3, <1>4 DEF text, talk, start

LEMMA CountsDoAgree == RoomsInv => CountsAgree
<1> SUFFICES ASSUME RoomsInv PROVE CountsAgree
    OBVIOUS
<1>1. InStep(places, {})
    BY DEF RoomsInv
<1>2. LET rows == Range(QueryLobbies) IN
      /\ TakenEntries(MultiLobbyUsers(TRUE)) = rows
      /\ \A row \in rows : row.users = LobbyUsers(row.lobby)
    BY LobbyRows
<1>3. \A l \in Lobbies : \A row \in QueryGameRooms(l) :
        row.users = RoomUsers(row.room) /\ row.users <= row.max /\ Cardinality(QueryUser(row.room)) <= row.users
    BY <1>1, RoomRows
<1>4. \A s \in places.live :
        LET l == places.lobby[s]
            r == places.room[s]
        IN /\ l # 0 => Cardinality(To(Texts[s]["lobby_chat"])) = LobbyUsers(l) - 1
           /\ r # 0 => To(Texts[s]["room_chat"]) = QueryUser(r) \ {s} /\ To(Starts[s]) = QueryUser(r)
    BY <1>1, ChatReaches
<1>5. QED
    BY <1>2, <1>3, <1>4 DEF CountsAgree, To

\* Whatever a client's datagram holds, its sender is acknowledged the number of
\* the datagram and no other, and Beta1's relays acknowledge nothing to the
\* others (automodellista/plugin.py:529-547, 787-797, automodellista_beta1/plugin.py:118-132).
THEOREM DatagramsAreAckedOnce == BetaSpec => []SenderIsAcked
<1>1. RoomsInv => SenderIsAcked
    BY SendersAreAcked DEF RoomsInv, InStep, Shape
<1>2. QED
    BY <1>1, BetaInvInit, BetaStep, PTL DEF BetaSpec

\* Lists, counts and recipients say the same of every lobby and room
\* (automodellista/plugin.py:160-289, 877-914, 970-1058).
THEOREM ListsAndCountsAgree == BetaSpec => []CountsAgree
BY CountsDoAgree, BetaInvInit, BetaStep, PTL DEF BetaSpec

=============================================================================
