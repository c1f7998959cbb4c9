--------------------------- MODULE OutbreakAnswers ---------------------------
(***************************************************************************)
(* What the Outbreak plugins answer in a state: Area lists, user counts,   *)
(* room lists, rosters and searches, and whom the packets reach that one   *)
(* client sends another.  These handlers change nothing; the answers of    *)
(* different handlers must tell the client the same story.                 *)
(***************************************************************************)
EXTENDS Outbreak2

Seqs == INSTANCE SequencesExt

CONSTANT PageRows       \* rows that fit one reply

ASSUME PageAssumption == PageRows \in Nat \ {0}

Rooms2 == game = "outbreak2"

-----------------------------------------------------------------------------
AreaPopulation(a) == Cardinality({p \in places.live : places.lobby[p] = a})

AreaRow(a) == [id |-> a, users |-> AreaPopulation(a), capacity |-> AreaCapacity]

(* Areas by a range of names, else by the name or id `is`; 0 stands for an
   absent condition, and the names, of one family, are ordered like ids. *)
AreaSearch(low, high, is, limit) ==
  LET found == IF low # 0 /\ high # 0 THEN {a \in Lobbies : low <= a /\ a <= high} ELSE {is} \cap Lobbies
  IN {AreaRow(a) : a \in {a \in found : Cardinality({b \in found : b < a}) < limit}}

(* USER and MAXI of a room or an Area, 0 for one that does not exist. *)
AttributeOf(channel, id) ==
  IF channel = "room" /\ id \in Open(places)
  THEN [USER |-> Cardinality(places.rooms[id].members), MAXI |-> places.rooms[id].max]
  ELSE IF channel = "area" /\ id \in Lobbies THEN [USER |-> AreaPopulation(id), MAXI |-> AreaCapacity]
  ELSE [USER |-> 0, MAXI |-> 0]

AttributeOf2(channel, id) == AttributeOf(channel, id)

QueryGameRooms(a) ==
  LET ids == InOrder(OpenRooms(places, a))
  IN ListPages([i \in DOMAIN ids |-> RoomRow(places, ids[i])], PageRows)

QueryUser(r) == ListPages(Seqs!SetToSeq(IF r \in Open(places) THEN Roster(places, r) ELSE {}), PageRows)

(* A client back from a scenario asks for room 0, its own. *)
QueryUser2(s, r) == QueryUser(IF r = 0 THEN places.room[s] ELSE r)

(* The friend search finds a player that is logged in, and where it is. *)
SearchUsers(s) ==
  IF player[s].known /\ s \in places.live THEN {[area |-> places.lobby[s], room |-> places.room[s]]} ELSE {}

SearchUsers2(s) == SearchUsers(s)

SearchRow(r) == [id |-> r, users |-> Cardinality(places.rooms[r].members), rules |-> places.rooms[r].rules]

SearchRooms(r) == {SearchRow(q) : q \in {r} \cap Open(places)}

(* A room, or the first rooms of an Area whose rules the masks let through. *)
SearchRooms2(r, a, rules) ==
  LET found == {q \in IF r # 0 THEN {r} \cap Open(places) ELSE RoomsOf(places, a) : places.rooms[q].rules \in rules}
  IN {SearchRow(q) : q \in {q \in found : Cardinality({p \in found : p < q}) < MaxListedRooms}}

-----------------------------------------------------------------------------
(* A new profile goes to the room's members in the lobby. *)
ChangeUserProperty(s) ==
  IF places.room[s] \in Open(places)
  THEN {p \in Listed(places, places.room[s]) \ {s} : Reachable(Now, p)} ELSE {}

ChangeUserProperty2(s) == ChangeUserProperty(s)

(* A fault: any session is sent the packet. *)
SendTargetAny(s, p) == {p} \cap places.live

(* A waiting-room packet goes to the session it names. *)
SendTarget(s, p) == {q \in {p} \cap places.live : Reachable(Now, q)}

SendTarget2(s, p) == {q \in {p} \cap places.live : Reachable2(q)}

(* An echo is mirrored outside scenarios; a reliable one is ACKed in one,
   unless the packet that carries it is. *)
Echo(s, reliable, embedded) ==
  IF ~player[s].scenario THEN "mirrored" ELSE IF reliable /\ ~embedded THEN "acked" ELSE "dropped"

Echo2(s, reliable, embedded) == Echo(s, reliable, embedded)

-----------------------------------------------------------------------------
(* What a client is told of a room or an Area by one query is what another
   one says: user counts, lists read over their pages, rosters and friend
   searches (plugin.py:211-315, 471-519; outbreak2/plugin.py:233-371). *)
QueriesAgree ==
  /\ \A a \in Lobbies :
       LET users == AttributeOf("area", a).USER IN
       /\ [id |-> a, users |-> users, capacity |-> AreaCapacity] \in AreaSearch(0, 0, a, 1) \cap AreaSearch(1, a, 0, a)
       /\ users = Cardinality({s \in Sessions : \E row \in SearchUsers(s) : row.area = a})
       /\ RowsRead(QueryGameRooms(a)) = table[a]
  /\ \A r \in Open(places) :
       LET users == AttributeOf("room", r).USER IN
       /\ users = Cardinality(RowsRead(QueryUser(r))) /\ users <= AttributeOf2("room", r).MAXI
       /\ users = Cardinality({s \in Sessions : \E row \in SearchUsers2(s) : row.room = r})
       /\ \A row \in SearchRooms(r) : row.users = users
  /\ \A s \in places.live : places.room[s] # 0 => s \in RowsRead(QueryUser2(s, 0))

(* A friend search leads to the player: it finds who is logged in and nobody
   else, and the room it names can be looked up, in File#2 also among the
   rooms of its Area, started ones included (471-519, 301-336). *)
FriendFound ==
  \A s \in Sessions :
    /\ SearchUsers(s) # {} <=> s \in places.live /\ player[s].known
    /\ \A row \in SearchUsers(s) :
         row.room # 0 =>
           /\ SearchRooms(row.room) # {}
           /\ Rooms2 => SearchRooms2(row.room, 0, Rules) \in {SearchRooms(row.room)}

(* A profile reaches exactly the clients in the lobby that show its owner, a
   waiting-room packet everybody it is meant for in the lobby, and neither
   these nor an echo's reply reach a client in a scenario (417-438, 574-628). *)
PacketsMeet ==
  \A s \in places.live :
    /\ \A p \in places.live \ {s} :
         /\ p \in ChangeUserProperty(s) <=> s \in roster[p] /\ ~player[p].scenario
         /\ ChangeUserProperty2(s) = ChangeUserProperty(s)
         /\ s \in roster[p] /\ ~player[p].scenario => p \in SendTarget(s, p) \cap SendTarget2(s, p)
         /\ player[p].scenario => p \notin SendTarget(s, p) \cup SendTarget2(s, p)
    /\ \A reliable, embedded \in BOOLEAN :
         player[s].scenario =>
           "mirrored" \notin {Echo(s, reliable, embedded), Echo2(s, reliable, embedded)}

(* Every answer to a query, a friend search and a relay fits what the asking client has
   been shown by the callbacks. *)
OutbreakAnswersSound ==
  /\ RelaysMeet
  /\ RelaysMeet2
  /\ QueriesAgree
  /\ FriendFound
  /\ PacketsMeet

=============================================================================
