--------------------------- MODULE SessionTransport ---------------------------
(***************************************************************************)
(* The receive loop of the UDP server (udp_server.py run) over the engine: *)
(* which reliable packets it still resends, to where and for whom, while   *)
(* clients change ports, log in again, take over each other's ports and    *)
(* time out.  One pass of the loop handles at most one datagram, then at   *)
(* most one tick, then every packet in flight.                             *)
(*                                                                         *)
(* The order within one session is SendWindow's subject: deferred packets  *)
(* and framed links, which share the fate of the packets in flight here,   *)
(* are left out.                                                           *)
(***************************************************************************)
EXTENDS SessionRegistry, Naturals

CONSTANTS
    MaxSeq,       \* bound: the highest reliable number of one numbering
    MaxNumbering  \* bound: KICS logins of one session

ASSUME SessionTransportAssumption ==
    /\ None \notin Nat
    /\ MaxSeq \in Nat
    /\ MaxNumbering \in Nat

VARIABLES
    numbering,     \* how many KICS logins each session has had (history)
    requestNumber, \* session.request_number
    acked,         \* numbers the client has ACKed since its KICS (history)
    pending,       \* _reliable_pending
    phase,         \* where the loop is
    todo           \* keys the resend pass has still to look at

vars == <<registry, numbering, requestNumber, acked, pending, phase, todo>>

Numbers == 0 .. MaxSeq

\* A packet in flight: its key in _reliable_pending, and the numbering it
\* belongs to (history).
Packets == [at : Endpoints, session : Sessions, seq : Numbers, numbering : 0 .. MaxNumbering]
Keys == [at : Endpoints, session : Sessions, seq : Numbers]
Packet(s, e, n) == [at |-> e, session |-> s, seq |-> n, numbering |-> numbering[s]]
KeyOf(q) == [at |-> q.at, session |-> q.session, seq |-> q.seq]

TypeOK ==
    /\ RegistryTypeOK
    /\ numbering \in [Sessions -> 0 .. MaxNumbering]
    /\ requestNumber \in [Sessions -> 0 .. MaxSeq + 1]
    /\ acked \in [Sessions -> SUBSET Numbers]
    /\ pending \subseteq Packets
    /\ phase \in {"receive", "tick", "resend"}
    /\ todo \subseteq Keys

-----------------------------------------------------------------------------
(***************************************************************************)
(* The tables.                                                             *)
(***************************************************************************)

\* The packets of one key prefix (endpoint, session).
Of(p, e, s) == {q \in p : q.at = e /\ q.session = s}

\* Storing packets under their keys replaces what was there.
Store(p, new) ==
    {q \in p : \A n \in new : KeyOf(q) # KeyOf(n)} \cup new

\* A fault: a session that has ended is still sent to.
ReachableOrGone(r) == {s \in Sessions : requestNumber[s] <= MaxSeq}

\* Sessions of registry r that can be sent another packet.
Reachable(r) == {s \in Sessions : Known(r, s) /\ requestNumber[s] <= MaxSeq}

\* One new reliable packet for each session of to, at the endpoint that
\* registry r knows.
Fresh(r, to) ==
    {Packet(s, r.endpoint[s], requestNumber[s]) : s \in to}

Cost(s, to) == IF s \in to THEN 1 ELSE 0

Send(r, p, to) ==
    /\ pending' = Store(p, Fresh(r, to))
    /\ requestNumber' = [s \in Sessions |-> requestNumber[s] + Cost(s, to)]

\* Two faults: what was in flight to the old port is dropped, or a KICS login
\* forgets nothing.
FollowedByDropping(p, s, old, new) == p \ Of(p, old, s)

ForgottenNothing(p, s) == p

\* _move_session_transport: what was in flight to the old port goes to the new.
Followed(p, s, old, new) ==
    Store(p \ Of(p, old, s), {[q EXCEPT !.at = new] : q \in Of(p, old, s)})

\* _forget_session_reliables, on any port.
Forgotten(p, s) == {q \in p : q.session # s}

-----------------------------------------------------------------------------
(***************************************************************************)
(* The datagram.                                                           *)
(***************************************************************************)

\* A packet of session s from port e, with or without an ACK (of number a).
\* ACKs are taken by the port they come from, before the session follows its
\* client to that port.  (A client whose header does not carry its session id
\* yet is found by its port: the case e = registry.endpoint[s].)
Datagram(s, e) ==
    /\ phase = "receive"
    /\ Known(registry, s)
    /\ registry' = Follow(registry, s, e)
    /\ \E a \in {None} \cup {n \in Numbers : n < requestNumber[s]} :
        LET unacked == {q \in pending : KeyOf(q) # [at |-> e, session |-> s, seq |-> a]}
        IN  /\ acked' = [acked EXCEPT ![s] = @ \cup ({a} \ {None})]
            /\ \E to \in SUBSET Reachable(registry') :
                Send(registry', Followed(unacked, s, registry.endpoint[s], e), to)
    /\ phase' = "tick"
    /\ UNCHANGED <<numbering, todo>>

\* A bootstrap login from port e starts a runtime session anew; its answer is
\* reliable when the client's header already carried the session's id.
BootstrapLogin(s, e) ==
    /\ phase = "receive"
    /\ registry' = Adopt(registry, s, e)
    /\ \E reliable \in BOOLEAN :
        /\ requestNumber' = [requestNumber EXCEPT ![s] = IF reliable THEN 1 ELSE 0]
        /\ pending' = IF reliable THEN Store(pending, {Packet(s, e, 0)}) ELSE pending
    /\ acked' = [acked EXCEPT ![s] = {}]
    /\ phase' = "tick"
    /\ UNCHANGED <<numbering, todo>>

\* KICS login of session s from port e (bootstrap port h).  A session named in
\* its header follows to that port first.  The session that is found at e
\* afterwards is the one whose packets are forgotten; the answer is unreliable,
\* and others are told of the session this login ended.
KicsLogin(s, e) ==
    /\ phase = "receive"
    /\ numbering[s] < MaxNumbering
    /\ \E h \in EndpointsOf[s], newLogin \in BOOLEAN, header \in HeadersFrom(e) \cup {None} :
        LET r == IF header = None THEN registry ELSE Follow(registry, header, e)
            p == IF header = None THEN pending
                 ELSE Followed(pending, header, registry.endpoint[header], e)
        IN  /\ registry' = LoggedIn(r, s, e, h, newLogin)
            /\ \E to \in SUBSET (Reachable(registry') \ {s}) :
                /\ pending' = Store(Forgotten(p, GetByEndpoint(registry', e)),
                                    Fresh(registry', to))
                /\ requestNumber' = [t \in Sessions |->
                                        IF t = s THEN 0 ELSE requestNumber[t] + Cost(t, to)]
    /\ numbering' = [numbering EXCEPT ![s] = @ + 1]
    /\ acked' = [acked EXCEPT ![s] = {}]
    /\ phase' = "tick"
    /\ UNCHANGED todo

NoDatagram ==
    /\ phase = "receive"
    /\ phase' = "tick"
    /\ UNCHANGED <<registry, numbering, requestNumber, acked, pending, todo>>

-----------------------------------------------------------------------------
(***************************************************************************)
(* The tick: idle sessions end, plugins send what is due.                  *)
(***************************************************************************)

\* A fault: the port of an idle session stays bound.
EndIdleKeepingBinding(s) ==
    /\ phase = "tick"
    /\ Known(registry, s)
    /\ registry' = [registry EXCEPT !.endpoint = [@ EXCEPT ![s] = None]]
    /\ UNCHANGED <<numbering, requestNumber, acked, pending, phase, todo>>

\* One session that has been idle for too long.
EndIdle(s) ==
    /\ phase = "tick"
    /\ Known(registry, s)
    /\ registry' = Remove(registry, s)
    /\ UNCHANGED <<numbering, requestNumber, acked, pending, phase, todo>>

\* What the tick has to send; then the resend pass takes the keys in flight.
TickSends ==
    /\ phase = "tick"
    /\ \E to \in SUBSET Reachable(registry) : Send(registry, pending, to)
    /\ phase' = "resend"
    /\ todo' = {KeyOf(q) : q \in pending'}
    /\ UNCHANGED <<registry, numbering, acked>>

-----------------------------------------------------------------------------
(***************************************************************************)
(* The resend pass.                                                        *)
(***************************************************************************)

\* _retransmit_due looks at the packets one key at a time.  A packet's prefix
\* is dropped when its session is gone or elsewhere, and when the peer was
\* silent for the timeout, which ends the session.  A resend changes nothing
\* here.
OwnerOf(k) == Resolve(registry, k.at, k.session)

\* A fault: a session that has moved on still counts as there.
OwnerAnywhere(k) == OwnerOf(k) # None

OwnerPresent(k) == OwnerOf(k) # None /\ registry.endpoint[OwnerOf(k)] = k.at

InFlight(k) == k \in {KeyOf(q) : q \in pending}

Skip(k) ==
    /\ ~InFlight(k)
    /\ UNCHANGED <<registry, requestNumber, pending>>

DropMissing(k) ==
    /\ InFlight(k)
    /\ ~OwnerPresent(k)
    /\ pending' = pending \ Of(pending, k.at, k.session)
    /\ UNCHANGED <<registry, requestNumber>>

Resend(k) ==
    /\ InFlight(k)
    /\ OwnerPresent(k)
    /\ UNCHANGED <<registry, requestNumber, pending>>

Timeout(k) ==
    /\ InFlight(k)
    /\ OwnerPresent(k)
    /\ registry' = Remove(registry, OwnerOf(k))
    /\ \E to \in SUBSET Reachable(registry') :
        Send(registry', pending \ Of(pending, k.at, k.session), to)

ResendPass(k) ==
    /\ phase = "resend"
    /\ k \in todo
    /\ Skip(k) \/ DropMissing(k) \/ Resend(k) \/ Timeout(k)
    /\ todo' = todo \ {k}
    /\ UNCHANGED <<numbering, acked, phase>>

EndPass ==
    /\ phase = "resend"
    /\ todo = {}
    /\ phase' = "receive"
    /\ UNCHANGED <<registry, numbering, requestNumber, acked, pending, todo>>

-----------------------------------------------------------------------------
Init ==
    /\ Empty
    /\ numbering = [s \in Sessions |-> 0]
    /\ requestNumber = [s \in Sessions |-> 0]
    /\ acked = [s \in Sessions |-> {}]
    /\ pending = {}
    /\ phase = "receive"
    /\ todo = {}

Next ==
    \/ \E s \in Sessions : \E e \in EndpointsOf[s] :
        Datagram(s, e) \/ BootstrapLogin(s, e) \/ KicsLogin(s, e)
    \/ NoDatagram
    \/ \E s \in Sessions : EndIdle(s)
    \/ TickSends
    \/ \E k \in todo : ResendPass(k)
    \/ EndPass

Spec == Init /\ [][Next]_vars

-----------------------------------------------------------------------------
(***************************************************************************)
(* Properties.                                                             *)
(***************************************************************************)

\* Whatever another session does - logs in, times out, takes over a port - a
\* live session's packets stay in flight at its own port until it ACKs them.
LivePacketsKept ==
    \A s \in Sessions : Known(registry, s) =>
        \A n \in 0 .. requestNumber[s] - 1 :
            n \in acked[s] \/ Packet(s, registry.endpoint[s], n) \in pending

\* "Drop reliable transport state for sessions that no longer exist or left
\* that endpoint" (udp_server.py:610): after a resend pass nothing obsolete
\* is in flight.
PassDropsObsolete ==
    phase = "receive" =>
        \A q \in pending : registry.endpoint[q.session] = q.at

\* A KICS login restarts the numbers: no packet of an earlier numbering is
\* sent to a client that would take it for a new one.
NoOldNumbering ==
    \A q \in pending : Known(registry, q.session) => q.numbering = numbering[q.session]

\* A session is timed out only for a packet of its own; timing out an obsolete
\* one "would end the session's new login" (udp_server.py:612-614).  The code
\* breaks it where hosts share ports: a packet of an ended session is resent at
\* a port that another session took over, and its timeout ends that session.
TimeoutEndsOwner ==
    [][\A k \in todo : ResendPass(k) /\ Timeout(k) => OwnerOf(k) = k.session]_vars

\* The variables have their types, and no pass over the sessions loses a packet that a
\* client which is still there has yet to acknowledge (udp_server.py:326-360, 609-720).
TransportInv ==
  /\ TypeOK
  /\ LivePacketsKept

=============================================================================
