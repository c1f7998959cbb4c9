------------------------------ MODULE AppFlows ------------------------------
(***************************************************************************)
(* How the Capcom APP service tells the connection kinds of the Monster    *)
(* Hunter public beta apart (monsterhunter/flows.py AppFlowTracker and its *)
(* use in service.py): each login owns one WORLD -> POSTWORLD -> LAND      *)
(* progression, and a connection is attributed to a login of its client.   *)
(*                                                                         *)
(* Every connection has its own thread.  It lists the online players       *)
(* before it takes the tracker's lock, so it may catch up with a list that *)
(* another thread has already gone beyond.                                 *)
(***************************************************************************)
EXTENDS OnlinePlayers, Sequences, SequencesExt, FiniteSets, FiniteSetsExt, Listings

CONSTANTS
    Clients,           \* FlowKey: the host and login of a client
    ClientOf,          \* the client of each session
    Connections,       \* bound: APP connections that are open at once
    MaxFallback        \* MAX_FALLBACK_CLIENTS

ASSUME FlowsAssumption ==
    IsFiniteSet(Clients) /\ ClientOf \in [Sessions -> Clients] /\ MaxFallback \in Nat \ {0}

VARIABLES
    flows,    \* the tracker
    conns     \* the connection threads

flowVars == <<online, logins, flows, conns>>

Phases == {"APP1", "WORLD", "POSTWORLD", "LAND"}
NoFlow == Away
ASSUME NoFlowIsNothing == NoFlow \notin Phases \cup Sessions
Closed == [at |-> "closed"]

FlowsTypeOK ==
    /\ OnlineTypeOK
    /\ flows.serial \in [Sessions -> 0 .. MaxLogins]
    /\ flows.phase \in [Sessions -> Phases \cup {NoFlow}]
    /\ flows.pending \in [Clients -> Seq(Sessions)]
    /\ flows.active \in [Clients -> Sessions \cup {NoFlow}]
    /\ flows.fallback \in Seq([client : Clients, phase : Phases]) /\ Len(flows.fallback) <= MaxFallback
    /\ \A c \in Connections : conns[c].at \in {"closed", "listed", "synced", "open"}

\* serial 0 stands for no entry: the session is not tracked.  The sessions that
\* have a key are the tracked ones.
FlowsInit ==
    /\ OnlineInit
    /\ flows = [serial |-> [s \in Sessions |-> 0], phase |-> [s \in Sessions |-> NoFlow],
                pending |-> [k \in Clients |-> <<>>], active |-> [k \in Clients |-> NoFlow], fallback |-> <<>>]
    /\ conns = [c \in Connections |-> Closed]

Tracked(t) == {s \in Sessions : t.serial[s] # 0}

\* The last released phase of a client, if it is still kept.
Fallback(t, k) ==
    LET kept == {i \in DOMAIN t.fallback : t.fallback[i].client = k}
    IN IF kept = {} THEN NoFlow ELSE t.fallback[Min(kept)].phase

WithoutFallback(t, k) == [t EXCEPT !.fallback = Kept(@, [client : Clients \ {k}, phase : Phases])]

\* A fault: the least recently seen client is kept too.
RememberEvery(t, k, phase) ==
    [t EXCEPT !.fallback = Append(@, [client |-> k, phase |-> phase])]

\* The newest entry is last; the least recently seen one goes.
RememberFallback(t, k, phase) ==
    LET kept == Append(WithoutFallback(t, k).fallback, [client |-> k, phase |-> phase])
    IN [t EXCEPT !.fallback = IF Len(kept) > MaxFallback THEN Tail(kept) ELSE kept]

-----------------------------------------------------------------------------
Forget(t, s) ==
    LET k == ClientOf[s]
        dropped == [t EXCEPT !.serial[s] = 0, !.phase[s] = NoFlow,
                             !.active[k] = IF @ = s THEN NoFlow ELSE @,
                             !.pending[k] = Kept(@, Sessions \ {s})]
    IN IF \E o \in Tracked(dropped) : ClientOf[o] = k THEN dropped
       ELSE WithoutFallback([dropped EXCEPT !.pending[k] = <<>>], k)

\* A fault: a login starts the flow of its session over.
ArmRewound(t, s) ==
    LET k == ClientOf[s]
    IN [t EXCEPT !.phase[s] = "WORLD",
                 !.pending[k] = IF t.active[k] # s /\ s \notin ToSet(@) THEN Append(@, s) ELSE @]

\* A fault: the flow that is active is queued once more.
ArmTwice(t, s) ==
    LET k == ClientOf[s]
    IN [t EXCEPT !.phase[s] = IF @ = NoFlow THEN "WORLD" ELSE @,
                 !.pending[k] = IF s \notin ToSet(@) THEN Append(@, s) ELSE @]

ArmWorld(t, s) ==
    LET k == ClientOf[s]
    IN [t EXCEPT !.phase[s] = IF @ = NoFlow THEN "WORLD" ELSE @,
                 !.pending[k] = IF t.active[k] # s /\ s \notin ToSet(@) THEN Append(@, s) ELSE @]

\* The sessions of a list are forgotten one by one, or armed.
Forgotten(t, gone) ==
    LET after[i \in 0 .. Len(gone)] == IF i = 0 THEN t ELSE Forget(after[i - 1], gone[i])
    IN after[Len(gone)]

Armed(t, list, new) ==
    LET after[i \in 0 .. Len(new)] ==
            IF i = 0 THEN t ELSE ArmWorld([after[i - 1] EXCEPT !.serial[new[i]] = list[new[i]].serial], new[i])
    IN after[Len(new)]

\* Logged-out sessions are forgotten, then each new login is armed in login order.
Synced(t, list) ==
    LET listed == {s \in Sessions : list[s] # NoFlow}
        forgotten == Forgotten(t, Ordered(Tracked(t) \ listed, Sessions \X Sessions))
        new == {s \in listed : forgotten.serial[s] # list[s].serial}
    IN Armed(forgotten, list, Ordered(new, {p \in new \X new : list[p[1]].serial < list[p[2]].serial}))

\* The active flow, else the first pending one that still exists, else the fallback.
Claimed(t, k) ==
    LET alive == {i \in DOMAIN t.pending[k] : t.phase[t.pending[k][i]] # NoFlow}
    IN IF t.active[k] # NoFlow /\ t.phase[t.active[k]] # NoFlow
       THEN [flows |-> t, owner |-> t.active[k], phase |-> t.phase[t.active[k]]]
       ELSE IF alive # {}
       THEN LET s == t.pending[k][Min(alive)]
            IN [flows |-> [t EXCEPT !.active[k] = s, !.pending[k] = SubSeq(@, Min(alive) + 1, Len(@))],
                owner |-> s, phase |-> t.phase[s]]
       ELSE LET rest == [t EXCEPT !.active[k] = NoFlow, !.pending[k] = <<>>]
                phase == Fallback(rest, k)
            IN [flows |-> IF phase = NoFlow THEN rest ELSE RememberFallback(rest, k, phase),
                owner |-> NoFlow, phase |-> IF phase = NoFlow THEN "APP1" ELSE phase]

Advanced(t, k, owner, phase) ==
    IF owner = NoFlow THEN RememberFallback(t, k, phase)
    ELSE IF t.phase[owner] # NoFlow THEN [t EXCEPT !.phase[owner] = phase] ELSE t

\* A fault: the phase of a finished flow is not remembered for its client.
ReleasedBare(t, k, owner) ==
    IF owner = NoFlow THEN t
    ELSE [t EXCEPT !.phase[owner] = IF @ # NoFlow THEN "LAND" ELSE @, !.active[k] = IF @ = owner THEN NoFlow ELSE @]

Released(t, k, owner) ==
    LET ended == IF owner = NoFlow THEN t
                 ELSE [t EXCEPT !.phase[owner] = IF @ # NoFlow THEN "LAND" ELSE @,
                                !.active[k] = IF @ = owner THEN NoFlow ELSE @]
    IN RememberFallback(ended, k, "LAND")

-----------------------------------------------------------------------------
\* A client connects: its thread lists the players (_players).
Connect(c, k) ==
    /\ conns[c] = Closed
    /\ conns' = [conns EXCEPT ![c] = [at |-> "listed", client |-> k, list |-> online]]
    /\ UNCHANGED <<online, logins, flows>>

Sync(c) ==
    /\ conns[c].at = "listed"
    /\ flows' = Synced(flows, conns[c].list)
    /\ conns' = [conns EXCEPT ![c] = [at |-> "synced", client |-> conns[c].client]]
    /\ UNCHANGED <<online, logins>>

\* A first request in time is 1007 (World) or another online one; a client
\* that waits is in APP1, whatever the tracker says.
Claim(c) ==
    LET k == conns[c].client
        claimed == Claimed(flows, k)
    IN /\ conns[c].at = "synced"
       /\ flows' = claimed.flows
       /\ \E opener \in {"world", "online", "waits"} :
            conns' = [conns EXCEPT ![c] =
                [at |-> "open", client |-> k, owner |-> claimed.owner,
                 phase |-> IF opener = "waits" THEN "APP1"
                           ELSE IF claimed.phase # "APP1" THEN claimed.phase
                           ELSE IF opener = "world" THEN "WORLD" ELSE "LAND"]]
       /\ UNCHANGED <<online, logins>>

\* 1007, and 6501 or 6502 of a World connection, move its flow on.
Request(c, phase) ==
    /\ conns[c].at = "open"
    /\ phase = "LAND" => conns[c].phase = "WORLD"
    /\ conns' = [conns EXCEPT ![c].phase = phase]
    /\ flows' = Advanced(flows, conns[c].client, conns[c].owner, phase)
    /\ UNCHANGED <<online, logins>>

\* 1004 completes the connection.
Complete(c) ==
    LET k == conns[c].client
        owner == conns[c].owner
    IN /\ conns[c].at = "open"
       /\ flows' = CASE conns[c].phase = "APP1" -> flows
                     [] conns[c].phase = "WORLD" -> Advanced(flows, k, owner, "POSTWORLD")
                     [] conns[c].phase = "POSTWORLD" -> Advanced(flows, k, owner, "LAND")
                     [] OTHER -> Released(flows, k, owner)
       /\ conns' = [conns EXCEPT ![c] = Closed]
       /\ UNCHANGED <<online, logins>>

\* The client is gone, or its connection is broken.
Drop(c) ==
    /\ conns[c].at = "open"
    /\ conns' = [conns EXCEPT ![c] = Closed]
    /\ UNCHANGED <<online, logins, flows>>

FlowsNext ==
    \/ \E c \in Connections :
        \/ \E k \in Clients : Connect(c, k)
        \/ Sync(c) \/ Claim(c) \/ Complete(c) \/ Drop(c)
        \/ \E phase \in {"WORLD", "LAND"} : Request(c, phase)
    \/ GameServer /\ UNCHANGED <<flows, conns>>

FlowsSpec == FlowsInit /\ [][FlowsNext]_flowVars

-----------------------------------------------------------------------------
\* Whatever the threads interleave, the next connection of a client with a
\* tracked login is never taken for APP1: its flow is active or pending, or it
\* has been released and the client's fallback says so (claim).
TrackedHasFlow ==
    Cardinality(Clients) <= MaxFallback
        => \A s \in Tracked(flows) : Claimed(flows, ClientOf[s]).phase # "APP1"

\* A login is attributed to one connection kind at a time: it waits once, or it
\* is active, and only for its own client (arm_world, claim).
FlowsDisjoint ==
    \A k \in Clients :
        /\ IsInjective(flows.pending[k])
        /\ \A s \in ToSet(flows.pending[k]) \cup ({flows.active[k]} \ {NoFlow}) :
            ClientOf[s] = k /\ s \in Tracked(flows)
        /\ flows.active[k] = NoFlow \/ ~Contains(flows.pending[k], flows.active[k])

\* A repeated login does not rewind its session's flow (arm_world): a thread
\* that catches up changes no phase of a session that it keeps.
ReloginKeepsPhase ==
    [][(\E c \in Connections : Sync(c)) =>
        \A s \in Tracked(flows) \cap Tracked(flows') : flows'.phase[s] = flows.phase[s]]_flowVars

\* Flows, pending logins and connections agree while threads catch up with the table of
\* online players in any order.
FlowsSound ==
  /\ FlowsTypeOK
  /\ TrackedHasFlow
  /\ FlowsDisjoint

=============================================================================
