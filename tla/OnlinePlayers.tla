---------------------------- MODULE OnlinePlayers ----------------------------
(***************************************************************************)
(* The logged-in players of one game in the shared store (core/online.py,  *)
(* storage/sql.py SqlOnlinePlayerStore).  The game server is the only      *)
(* writer of its game's rows; companion services read them whenever they   *)
(* need them.                                                              *)
(***************************************************************************)
EXTENDS Integers, FiniteSets

CONSTANTS
    Sessions,
    Areas,         \* lobby ids; 0 is none
    Away,          \* not in the table
    MaxLogins      \* bound: logins

ASSUME OnlineAssumption ==
    /\ IsFiniteSet(Sessions) /\ Areas \subseteq Nat /\ 0 \in Areas /\ Away \notin Nat /\ MaxLogins \in Nat

VARIABLES
    online,    \* the row of each session, or Away
    logins     \* the last login serial

onlineVars == <<online, logins>>

Player == [area : Areas, serial : 1 .. MaxLogins]

OnlineTypeOK == online \in [Sessions -> Player \cup {Away}] /\ logins \in 0 .. MaxLogins

OnlineInit == online = [s \in Sessions |-> Away] /\ logins = 0

Listed == {s \in Sessions : online[s] # Away}

\* INSERT OR IGNORE, then UPDATE: a session that is listed keeps its area.  A
\* reader between the two statements sees serial 0 of a player that was not
\* listed; it sees the next serial later, like that of any other login.
LoginOnline(s) ==
    /\ logins < MaxLogins /\ logins' = logins + 1
    /\ online' = [online EXCEPT ![s] = [area |-> IF @ = Away THEN 0 ELSE @.area, serial |-> logins + 1]]

SetArea(s, area) ==
    /\ online[s] # Away
    /\ online' = [online EXCEPT ![s].area = area]
    /\ UNCHANGED logins

LogoutOnline(s) ==
    /\ online[s] # Away
    /\ online' = [online EXCEPT ![s] = Away]
    /\ UNCHANGED logins

\* The game server starts again: nobody is logged in to it.
ClearOnline ==
    /\ Listed # {}
    /\ online' = [s \in Sessions |-> Away]
    /\ UNCHANGED logins

GameServer ==
    \/ \E s \in Sessions : LoginOnline(s) \/ LogoutOnline(s) \/ \E a \in Areas : SetArea(s, a)
    \/ ClearOnline

=============================================================================
