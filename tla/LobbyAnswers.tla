---------------------------- MODULE LobbyAnswers ----------------------------
(***************************************************************************)
(* What the Auto Modellista plugins answer in a state: the counts and      *)
(* lists of lobbies and rooms, whom chat and game packets reach, and what  *)
(* acknowledges the requests of one datagram.  A client bundles requests   *)
(* behind an outer one; only the outer request has a number.  `beta`       *)
(* selects Beta1's handlers.                                               *)
(***************************************************************************)
EXTENDS AutoModellistaBeta1

CONSTANT MoreLobbies    \* lobbies of the configuration that nobody enters (a bound)

ASSUME MoreLobbiesAssumption == IsFiniteSet(MoreLobbies) /\ MoreLobbies \subseteq Nat \ {0}

AllLobbies == Lobbies \cup MoreLobbies

Number == 2             \* the number of the client's datagram: its last accepted one
OtherNumber == 1        \* the last number accepted from another session

-----------------------------------------------------------------------------
UsersIn(l) == Cardinality({s \in places.live : places.lobby[s] = l})

LobbyIds == InOrder(AllLobbies)

QueryLobbies ==
  LET ids == LobbyIds IN [i \in DOMAIN ids |-> [lobby |-> ids[i], users |-> UsersIn(ids[i])]]

Entry(row, reliable) == [lobby |-> row.lobby, users |-> row.users, reliable |-> reliable]

(* A fault: the entries after the first are sent unreliably. *)
MultiLobbyUsersFirst(reliable) ==
  LET rows == QueryLobbies IN [i \in DOMAIN rows |-> Entry(rows[i], reliable /\ i = 1)]

(* The release's burst: an entry for every lobby, with the outer's bit. *)
MultiLobbyUsers(reliable) ==
  LET rows == QueryLobbies IN [i \in DOMAIN rows |-> Entry(rows[i], reliable)]

(* The client's window takes the leading run of reliable entries. *)
TakenEntries(entries) ==
  {[lobby |-> entries[i].lobby, users |-> entries[i].users] :
     i \in {k \in DOMAIN entries : \A j \in 1 .. k : entries[j].reliable}}

LobbyUsers(l) == IF l \in AllLobbies THEN UsersIn(l) ELSE 0

(* A fault: the members are counted before the gone ones are dropped. *)
RoomUsersUnpruned(r) == IF r \in Open(places) THEN Cardinality(places.rooms[r].members) ELSE 0

RoomUsers(r) ==
  LET w == Pruned(places, {r}) IN IF r \in Open(w) THEN Cardinality(w.rooms[r].members) ELSE 0

QueryGameRooms(l) ==
  LET w == Pruned(places, RoomsOf(places, l))
  IN {[room |-> r, users |-> Cardinality(w.rooms[r].members), max |-> w.rooms[r].max] : r \in RoomsOf(w, l)}

QueryUser(r) == Listed(places, r)

-----------------------------------------------------------------------------
(* The requests of a datagram: a broken one is dropped whole, and whatever
   follows a multi unit is embedded and has no number of its own. *)
Decode(d, s) ==
  IF ~d.whole THEN << >>
  ELSE [i \in DOMAIN d.units |->
          LET u == d.units[i]
              embedded == \E j \in 1 .. i - 1 : d.units[j].multi
          IN [cmd |-> u.cmd, channel |-> u.channel, arg |-> u.arg, multi |-> u.multi, acks |-> u.acks,
              reliable |-> u.reliable, from |-> s, embedded |-> embedded, number |-> IF embedded THEN 0 ELSE d.number]]

LastNumber(m, t) == IF t = m.from THEN Number ELSE OtherNumber

AckForRequest(m) == IF m.number # 0 THEN m.number ELSE LastNumber(m, m.from)

(* An answer to a reliable request is reliable, a bare ACK is not. *)
Reply(m, cmd, ack) ==
  [to |-> m.from, cmd |-> cmd, ack |-> ack, response |-> TRUE, reliable |-> cmd # "ack" /\ m.reliable]

Direct(m, t, cmd, response) ==
  [to |-> t, cmd |-> cmd, ack |-> LastNumber(m, t), response |-> response, reliable |-> TRUE]

TransportAck(m) == {Reply(m, "ack", m.number)}

LobbyChat(m) ==
  LET l == places.lobby[m.from] IN
  IF l = 0 THEN {}
  ELSE {Direct(m, t, "chat", TRUE) : t \in {t \in places.live \ {m.from} : places.lobby[t] = l}}

RoomChat(m) ==
  LET r == places.room[m.from] IN
  IF r = 0 THEN {} ELSE {Direct(m, t, "chat", TRUE) : t \in Listed(places, r) \ {m.from}}

(* Beta1 clears the bit with which the sender's packet acknowledged. *)
RelayResponds(m, beta) == m.acks /\ ~beta

(* A game packet goes to the others of the room, a start to everybody; the
   post-game transition it may bring is Report in AutoModellista. *)
RoomGamePackets(m, beta) ==
  LET r == places.room[m.from] IN
  IF r = 0 THEN {}
  ELSE {Direct(m, t, "send", RelayResponds(m, beta)) :
          t \in Listed(places, r) \ (IF m.arg = "start" THEN {} ELSE {m.from})}

(* The outer packet of a bundle owns its only ACK. *)
OwnsNoAck(m) == m.embedded /\ m.number = 0 /\ m.reliable

(* A fault: the embedded sends are acknowledged as well. *)
SendEach(m, beta) ==
  TransportAck(m) \cup
    CASE m.channel = "lobby_chat" -> IF m.multi THEN {} ELSE LobbyChat(m)
      [] m.channel = "room_chat" /\ ~m.multi -> RoomChat(m)
      [] OTHER -> RoomGamePackets(m, beta)

(* A send that leads a bundle is a room packet whatever its channel, but
   lobby chat is then only acknowledged. *)
Send(m, beta) ==
  (IF OwnsNoAck(m) /\ ~m.multi THEN {} ELSE TransportAck(m)) \cup
    CASE m.channel = "lobby_chat" -> IF m.multi THEN {} ELSE LobbyChat(m)
      [] m.channel = "room_chat" /\ ~m.multi -> RoomChat(m)
      [] OTHER -> RoomGamePackets(m, beta)

(* The relay keeps the channel of the packet but not its response bit. *)
TargetRelay(m) == {Direct(m, t, "target", FALSE) : t \in {m.arg} \cap places.live}

SendTarget(m) == (IF m.embedded /\ m.reliable THEN {} ELSE TransportAck(m)) \cup TargetRelay(m)

ChangeAck(m) == {Reply(m, "result", AckForRequest(m))}

Echo(m) == {Reply(m, "echo", m.number)}

(* A lobby's users, asked for alone or at the head of a bundle; the release's
   burst answers the embedded queries with the first. *)
LobbyUserQuery(m, beta) ==
  IF m.embedded /\ ~(beta /\ m.multi) THEN {} ELSE {Reply(m, "users", m.number)}

LeaveResult(m) == {Reply(m, "result", AckForRequest(m))}

Answers(m, beta) ==
  CASE m.cmd = "send" -> Send(m, beta)
    [] m.cmd = "target" -> SendTarget(m)
    [] m.cmd = "change" -> ChangeAck(m)
    [] m.cmd = "echo" -> Echo(m)
    [] m.cmd = "users" -> LobbyUserQuery(m, beta)
    [] m.cmd = "leave" -> LeaveResult(m)

(* What answers the datagram's first request: one that the window holds back or
   has seen is acknowledged and nothing of the datagram is run. *)
HeadAnswers(m, receipt, beta) == IF receipt = "deliver" THEN Answers(m, beta) ELSE TransportAck(m)

-----------------------------------------------------------------------------
Request(cmd, channel, arg) ==
  [cmd |-> cmd, channel |-> channel, arg |-> arg, multi |-> FALSE, acks |-> TRUE, reliable |-> TRUE]

(* What the clients put at the head of a datagram and what they embed. *)
Heads(s) ==
  {Request("send", "room", "start"), Request("send", "lobby_chat", "text"), Request("send", "room_chat", "text"),
   Request("users", "lobby", 0), Request("echo", "lobby", 0), Request("target", "room", s)}

Embedded ==
  {Request("send", "room", "over"), Request("send", "lobby_chat", "text"), Request("send", "room_chat", "text"),
   Request("change", "room", 0), Request("leave", "room", 0)} \cup {Request("target", "room", t) : t \in Sessions}

Single(u) == [units |-> <<u>>, number |-> Number, whole |-> TRUE]

Bundle(u, e) == [units |-> <<[u EXCEPT !.multi = TRUE], e>>, number |-> Number, whole |-> TRUE]

Firsts ==
  [s \in Sessions |-> {Decode(Single(u), s)[1] : u \in Heads(s)} \cup {Decode(Bundle(u, u), s)[1] : u \in Heads(s)}]

Others == [s \in Sessions |-> {Decode(Bundle(u, e), s)[2] : u \in Heads(s), e \in Embedded}]

Texts == [s \in Sessions |-> [c \in {"lobby_chat", "room_chat"} |-> Decode(Single(Request("send", c, "text")), s)[1]]]

Starts == [s \in Sessions |-> Decode(Single(Request("send", "room", "start")), s)[1]]

(* The sender of a datagram, alone or a bundle, run, held or repeated, is
   acknowledged its number and no other: Beta1's client takes an ACK of a
   number that is not in flight as a reason to stop resending all of them.
   For the same reason no game packet that Beta1's server relays to the others
   acknowledges anything (plugin.py:529-547, 787-797, beta1 118-132). *)
SenderIsAcked ==
  \A s \in places.live :
    LET Acks(packets) == {p.ack : p \in {q \in packets : q.to = s /\ q.response}}
        NoneRelayed(packets) == \A p \in packets : p.to # s /\ p.cmd = "send" => ~p.response
    IN /\ \A m \in Firsts[s] :
            /\ Acks(HeadAnswers(m, "hold", FALSE)) = {Number}
            /\ \A beta \in BOOLEAN :
                 LET packets == HeadAnswers(m, "deliver", beta) IN
                 Acks(packets) = {Number} /\ (beta => NoneRelayed(packets))
       /\ \A m \in Others[s], beta \in BOOLEAN :
            LET packets == Answers(m, beta) IN
            Acks(packets) \subseteq {Number} /\ (beta => NoneRelayed(packets))

(* The lobby list, single counts, Beta1's and the burst as far as the client
   takes it say the same of every lobby, empty ones included; the room list
   and a room's user count agree and cover its roster; chat and game packets
   reach exactly the others that are counted, or on the roster (160-289,
   877-914, 970-1058). *)
CountsAgree ==
  /\ LET rows == Range(QueryLobbies) IN
       /\ TakenEntries(MultiLobbyUsers(TRUE)) = rows
       /\ \A row \in rows : row.users = LobbyUsers(row.lobby)
  /\ \A l \in Lobbies : \A row \in QueryGameRooms(l) :
       row.users = RoomUsers(row.room) /\ row.users <= row.max /\ Cardinality(QueryUser(row.room)) <= row.users
  /\ \A s \in places.live :
       LET To(m) == {p.to : p \in {q \in Answers(m, FALSE) : q.cmd # "ack"}}
           l == places.lobby[s]
           r == places.room[s]
       IN /\ l # 0 => Cardinality(To(Texts[s]["lobby_chat"])) = LobbyUsers(l) - 1
          /\ r # 0 => To(Texts[s]["room_chat"]) = QueryUser(r) \ {s} /\ To(Starts[s]) = QueryUser(r)

=============================================================================
