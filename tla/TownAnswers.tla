----------------------------- MODULE TownAnswers -----------------------------
(***************************************************************************)
(* What the Monster Hunter plugin answers in a state: Area and Town lists, *)
(* user counts, rosters and Friend searches, and whom chat, profiles and   *)
(* directed packets reach.  These handlers change nothing but what         *)
(* MonsterHunter has as PublishProfile and PrepareDeparture.               *)
(*                                                                         *)
(* The client has published its profile before it enters an Area.          *)
(***************************************************************************)
EXTENDS MonsterHunter

Seqs == INSTANCE SequencesExt

CONSTANT PageRows       \* rows that fit one reply

ASSUME PageAssumption == PageRows \in Nat \ {0}

-----------------------------------------------------------------------------
(* A fault: the count of the session words, not of the plugin's records. *)
AreaPopulationWords(a) == Cardinality({p \in places.live : places.lobby[p] = a /\ places.room[p] = 0})

AreaPopulation(a) == Cardinality({p \in Sessions : player[p].known /\ player[p].area = a})

AreaRow(a) == [id |-> a, users |-> AreaPopulation(a)]

(* An Area by its id, else by a range of names; 0 stands for an absent
   condition, and names are ordered like ids. *)
QueryArea(low, high, oid, limit) ==
  LET found == IF oid # 0 THEN {oid} \cap Lobbies ELSE {a \in Lobbies : low # 0 /\ low <= a /\ a <= high}
      rows == InOrder({a \in found : Cardinality({b \in found : b < a}) < limit})
  IN ListPages([i \in DOMAIN rows |-> AreaRow(rows[i])], PageRows)

(* The users of an Area, or of a room by the name the asking client uses: the
   listed hunters, those away on a quest included. *)
QueryAttribute(s, channel, id) ==
  LET r == ServerRoom(Now, s, id) IN
  IF channel = "area" THEN AreaPopulation(id)
  ELSE IF r \in Open(places) THEN Cardinality(places.rooms[r].members) ELSE 0

QueryGameRooms(a) ==
  LET ids == InOrder(RoomsOf(places, a))
  IN ListPages([i \in DOMAIN ids |-> RoomRow(places, ids[i])], PageRows)

(* A room's roster, or the other hunters of an Area. *)
QueryUser(s, channel, id) ==
  LET r == ServerRoom(Now, s, id)
      there == IF channel = "area" THEN {p \in Sessions \ {s} : player[p].known /\ player[p].area = id}
               ELSE IF r \in Open(places) /\ places.room[s] # r THEN places.rooms[r].members
               ELSE Listed(places, r)
  IN ListPages(Seqs!SetToSeq({p \in there \cap places.live : player[p].known}), PageRows)

(* The Friend search of s for p; it never finds the searcher. *)
SearchUsers(s, p) ==
  IF player[p].known /\ p \in places.live /\ p # s
  THEN {[area |-> player[p].area, room |-> places.room[p]]} ELSE {}

SearchRooms(r) == {[id |-> q, rules |-> places.rooms[q].rules] : q \in {r} \cap Open(places)}

-----------------------------------------------------------------------------
Send(s) == IF places.room[s] = 0 THEN {} ELSE Listed(places, places.room[s]) \ {s}

(* A directed packet goes to any session; the one that prepares a departure
   goes to the host itself. *)
SendTarget(p) == {p} \cap places.live

(* A fault: a profile goes into a started quest. *)
ChangeUserPropertyQuest(s) == Send(s)

(* A profile goes to the room, but not into a started quest. *)
ChangeUserProperty(s) == IF InStartedQuest(places, s) THEN {} ELSE Send(s)

(* A keepalive, a profile or an echo, is answered by its reply callback only
   while that callback is in memory. *)
LobbyKeepalive(s, reliable, embedded) ==
  IF ~InStartedQuest(places, s) THEN "callback" ELSE IF reliable /\ ~embedded THEN "acked" ELSE "dropped"

(* Which silence limit a session has. *)
IdleLimit(s) ==
  IF InStartedQuest(places, s) THEN "quest"
  ELSE IF player[s].area # 0 \/ places.room[s] # 0 THEN "lobby" ELSE "none"

(* A published profile names its owner's Town in server ids; each viewer is
   told the id it knows the Town by. *)
ServerProfile(s, id) == ServerRoom(Now, s, id)

ProfileFor(v, id) == IF player[v].alias # 0 /\ id = places.room[v] THEN player[v].alias ELSE id

-----------------------------------------------------------------------------
(* Whatever quests a hunter has been on, the id it knows its room by leads
   to its room, in its own requests and in the profiles that it is shown:
   members of one Town are shown each other's quests (78-107, 1042-1072). *)
RoomNamesMeet ==
  \A s \in places.live :
    LET r == places.room[s] IN
    r # 0 =>
      /\ ServerRoom(Now, s, named[s]) = r
      /\ \A v \in Listed(places, r) : ProfileFor(v, ServerProfile(s, named[s])) = named[v]

(* The Area list, user counts, rosters read over their pages, the Town table
   and Friend searches count the same hunters; no hunter in an Area or a Town
   is missing, and each has a silence limit (306-463, 243-261). *)
QueriesAgree ==
  /\ \A a \in Lobbies :
       /\ RowsRead(QueryArea(a, a, 0, 1)) = RowsRead(QueryArea(0, 0, a, 1))
       /\ {row \in RowsRead(QueryGameRooms(a)) : row.rules \in TownRules} = table[a]
       /\ \A s \in places.live :
            LET found == {p \in Sessions : \E row \in SearchUsers(s, p) : row.area = a} IN
            /\ RowsRead(QueryUser(s, "area", a)) = found
            /\ AreaPopulation(a) = Cardinality(found) + (IF player[s].area = a THEN 1 ELSE 0)
            /\ places.lobby[s] = a => s \in {p \in Sessions : player[p].area = a} /\ IdleLimit(s) # "none"
  /\ \A s \in places.live : \A r \in Open(places) :
       LET id == IF places.room[s] = r THEN named[s] ELSE r
           users == QueryAttribute(s, "room", id)
       IN player[s].alias # r => \* the quest room it came back from is its Town's name
            /\ users = Cardinality(places.rooms[r].members)
            /\ RowsRead(QueryUser(s, "room", id)) = IF places.room[s] = r THEN Listed(places, r)
                                                    ELSE places.rooms[r].members

(* The Friend status of a hunter that is found in a room can look up the room
   and the Area it names: without the Area's name the console hangs (306-318,
   465-509). *)
FriendStatusHasName ==
  \A s, p \in places.live : \A row \in SearchUsers(s, p) :
    row.room # 0 => SearchRooms(row.room) # {} /\ RowsRead(QueryArea(0, 0, row.area, 1)) # {}

(* Whoever is sent chat or a profile in a Town or a waiting quest shows the
   sender, and a hunter in a started quest is sent no callback of its lobby,
   not even as the answer to a keepalive (191-233, 633-677, 744-782). *)
SendersAreShown ==
  \A s \in places.live :
    /\ ~InStartedQuest(places, s) =>
         \A p \in Send(s) \cup ChangeUserProperty(s) : s \in shown[p] /\ ~InStartedQuest(places, p)
    /\ \A p \in ChangeUserProperty(s) : ~InStartedQuest(places, p) /\ p \in SendTarget(p)
    /\ InStartedQuest(places, s) =>
         \A reliable, embedded \in BOOLEAN : LobbyKeepalive(s, reliable, embedded) # "callback"

(* Every answer to a query, a friend status and a relay fits what the asking client has
   been shown by the callbacks. *)
TownAnswersSound ==
  /\ RoomNamesMeet
  /\ QueriesAgree
  /\ FriendStatusHasName
  /\ SendersAreShown

=============================================================================
