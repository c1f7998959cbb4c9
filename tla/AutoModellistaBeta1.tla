------------------------- MODULE AutoModellistaBeta1 -------------------------
(***************************************************************************)
(* Auto Modellista Beta1 (plugins/automodellista_beta1/plugin.py): the      *)
(* release plugin's rooms, with a room user count pushed to the members     *)
(* after the callbacks of a join or a leave.  A count is 0 until the client *)
(* has one for the room it is in.                                           *)
(***************************************************************************)
EXTENDS AutoModellista

VARIABLE count    \* what each session's client shows as the users of its room

betaVars == <<vars, count>>

BetaTypeOK == TypeOK /\ count \in [Sessions -> 0 .. Cardinality(Sessions)]

(* A fault: the count of the listed sessions before the step. *)
CountedBefore(S) ==
  count' = [s \in Sessions |->
              LET r == places'.room[s] IN
              IF s \in S THEN Cardinality(Listed(places, r))
              ELSE IF r = 0 \/ r # places.room[s] THEN 0 ELSE count[s]]

(* After a step the sessions S, all in one room, hold its member count. *)
Counted(S) ==
  count' = [s \in Sessions |->
              LET r == places'.room[s] IN
              IF s \in S /\ r \in Open(places') THEN Cardinality(places'.rooms[r].members)
              ELSE IF r = 0 \/ r # places.room[s] THEN 0 ELSE count[s]]

(* A join is pushed when it told anybody, to everybody but the joiner. *)
BetaJoinRoom(s, r) ==
  /\ JoinRoom(s, r)
  /\ Counted(IF places.room[s] # r /\ places'.room[s] = r THEN Listed(places', r) \ {s} ELSE {})

(* A leave of the room is pushed, one of the lobby is not. *)
BetaLeaveRoom(s) ==
  /\ LeaveRoom(s)
  /\ Counted(IF places.room[s] = 0 THEN {} ELSE Listed(places', places.room[s]))

(* A client asks for the user count of its own room. *)
QueryAttribute(s) ==
  /\ s \in places.live /\ places.room[s] # 0
  /\ QueryRooms({places.room[s]})
  /\ Counted({s})

(* Everything else is the release plugin's and pushes nothing. *)
Quiet ==
  /\ \/ \E s \in Sessions : End(s) \/ Logout(s) \/ LeaveLobby(s)
     \/ \E s \in Sessions, new \in BOOLEAN, E \in AtMostOne(Sessions), U \in AtMostOne(Sessions) :
          KicsLogin(s, new, E, U)
     \/ \E s \in Sessions, max \in Capacities, rules \in Rules : CreateGameRoom(s, max, rules)
     \/ \E s \in Sessions, l \in Lobbies \cup {0} : JoinLobby(s, l)
     \/ \E R \in {RoomsOf(places, l) : l \in Lobbies} \cup {{r} : r \in RoomIds} : QueryRooms(R)
     \/ Tick
     \/ \E s \in Sessions, tag \in Tags : RoomGameSend(s, tag)
  /\ Counted({})

BetaInit == Init /\ count = [s \in Sessions |-> 0]

BetaNext ==
  \/ \E s \in Sessions, r \in RoomIds : BetaJoinRoom(s, r)
  \/ \E s \in Sessions : BetaLeaveRoom(s) \/ QueryAttribute(s)
  \/ Quiet

BetaSpec == BetaInit /\ [][BetaNext]_betaVars

-----------------------------------------------------------------------------
(* A room user count is never short: it covers every session that is in the
   room, whichever joins, silent leaves and prunes came between the pushes
   (automodellista_beta1/plugin.py:87-127, 319-349). *)
CountNeverShort ==
  \A s \in places.live :
    count[s] # 0 => Cardinality(Listed(places, places.room[s])) <= count[s]

(* The places of the players, what their clients show and the race they are in agree,
   in the release and in Beta1, whatever joins, leaves, reports and timeouts interleave. *)
RaceRoomsSound ==
  /\ BetaTypeOK
  /\ SessionsRoomHasIt
  /\ NobodyInvisible
  /\ FinishedRaceReturns
  /\ CountNeverShort

=============================================================================
