------------------------------ MODULE SendWindow ------------------------------
(***************************************************************************)
(* Reliable packets of one session on their way to its client, as the UDP  *)
(* server keeps them (udp_server.py): tracked until ACKed, at most Window  *)
(* numbers past the oldest unACKed one on the wire, later ones deferred,   *)
(* resent until ACKed, forgotten when the session ends or logs in again.   *)
(*                                                                         *)
(* A packet is its reliable number.  The network loses, repeats, delays    *)
(* and reorders packets and ACKs; none of an old numbering is left when a  *)
(* KICS login starts a new one.                                            *)
(***************************************************************************)
EXTENDS Integers, Sequences, FiniteSets

CONSTANTS
    Window,     \* _MAX_INFLIGHT_RELIABLE_PER_SESSION, and the client's receive window
    MaxSeq,     \* bound: the highest reliable number of one numbering
    Burst,      \* bound: reliable messages one datagram or tick produces for the session
    MaxRestarts \* bound: KICS logins after the first

ASSUME SendWindowAssumption ==
    /\ Window \in Nat \ {0}
    /\ MaxSeq \in Nat
    /\ Burst \in Nat
    /\ MaxRestarts \in Nat

VARIABLES
    numbering,     \* how many KICS logins have restarted the numbers (history)
    alive,         \* the engine knows the session
    requestNumber, \* session.request_number
    pending,       \* the session's sequence numbers in _reliable_pending
    deferred,      \* its queue in _deferred_reliable
    wire,          \* copies on their way to the client
    stored,        \* client: numbers received ahead of a missing one
    delivered,     \* client: numbers handed to the game, in order (history)
    acks           \* ACKs on their way to the server

server == <<numbering, alive, requestNumber, pending, deferred>>
client == <<stored, delivered>>
vars == <<server, wire, client, acks>>

Numbers == 0 .. MaxSeq

\* What the client has received: it delivers 0, 1, 2, ... without gaps.
Expected == Len(delivered)
Received == (0 .. Expected - 1) \cup stored

\* Every number handed to the transport so far and not held back.
Launched == requestNumber - Len(deferred)

TypeOK ==
    /\ numbering \in 0 .. MaxRestarts
    /\ alive \in BOOLEAN
    /\ requestNumber \in 0 .. MaxSeq + 1
    /\ pending \subseteq Numbers
    /\ deferred \in Seq(Numbers)
    /\ wire \subseteq Numbers
    /\ stored \subseteq Numbers
    /\ delivered \in Seq(Numbers)
    /\ acks \subseteq Numbers

-----------------------------------------------------------------------------
(***************************************************************************)
(* The server: one action per pass of its receive loop that touches the    *)
(* session.                                                                *)
(***************************************************************************)

\* A fault: only the count of in-flight packets is checked.
HasRoomByCount(p, s) == Cardinality(p) < Window

\* _inflight_window_has_room for number s behind the in-flight numbers p.
HasRoom(p, s) ==
    /\ Cardinality(p) < Window
    /\ \A oldest \in p : s - oldest < Window

\* The first n numbers of a queue, as a set.
Prefix(queue, n) == {queue[i] : i \in 1 .. n}

\* A fault: the number is taken after the counter is advanced.
AllocateLate(k) == [i \in 1 .. k |-> requestNumber + i]

\* allocate_sequence, for the next k reliable messages.
Allocate(k) == [i \in 1 .. k |-> requestNumber + i - 1]

\* A fault: a new packet that fits overtakes the deferred ones.
SendMessagesOvertaking(p, k) ==
    LET queue == Allocate(k) \o deferred
    IN  \E n \in 0 .. Len(queue) :
            /\ \A i \in 1 .. n : HasRoom(p \cup Prefix(queue, i - 1), queue[i])
            /\ n < Len(queue) => ~HasRoom(p \cup Prefix(queue, n), queue[n + 1])
            /\ pending' = p \cup Prefix(queue, n)
            /\ wire' = wire \cup Prefix(queue, n)
            /\ deferred' = SubSeq(queue, n + 1, Len(queue))
            /\ requestNumber' = requestNumber + k

\* _send_messages with k new reliable messages while p is in flight: the
\* deferred ones go first, as far as the window has room, and whatever does
\* not fit waits behind them.
SendMessages(p, k) ==
    LET queue == deferred \o Allocate(k)
    IN  \E n \in 0 .. Len(queue) :
            /\ \A i \in 1 .. n : HasRoom(p \cup Prefix(queue, i - 1), queue[i])
            /\ n < Len(queue) => ~HasRoom(p \cup Prefix(queue, n), queue[n + 1])
            /\ pending' = p \cup Prefix(queue, n)
            /\ wire' = wire \cup Prefix(queue, n)
            /\ deferred' = SubSeq(queue, n + 1, Len(queue))
            /\ requestNumber' = requestNumber + k

\* How many reliable messages a handler or tick can produce: none for a
\* session that is gone.
Outputs == {k \in 0 .. Burst : requestNumber + k <= MaxSeq + 1 /\ (~alive => k = 0)}

\* A datagram (of any client) or a tick that ACKs nothing of this session.
Serve ==
    /\ \E k \in Outputs : SendMessages(pending, k)
    /\ UNCHANGED <<numbering, alive, client, acks>>

\* Two faults: an ACK is taken as cumulative, or frees a slot that no
\* deferred packet is moved into.
ServeCumulativeAck(s) ==
    /\ s \in acks
    /\ acks' \in {acks, acks \ {s}}
    /\ \E k \in Outputs : SendMessages(pending \ (0 .. s), k)
    /\ UNCHANGED <<numbering, alive, client>>

ServeAckWithoutFlush(s) ==
    /\ s \in acks
    /\ acks' \in {acks, acks \ {s}}
    /\ pending' = pending \ {s}
    /\ UNCHANGED <<numbering, alive, requestNumber, deferred, wire, client>>

\* A datagram that ACKs number s: retired first, then handled.  The network
\* may have kept a copy of the ACK.
ServeAck(s) ==
    /\ s \in acks
    /\ acks' \in {acks, acks \ {s}}
    /\ \E k \in Outputs : SendMessages(pending \ {s}, k)
    /\ UNCHANGED <<numbering, alive, client>>

\* _retransmit_due: a due packet is sent again.
Resend(s) ==
    /\ alive
    /\ s \in pending
    /\ wire' = wire \cup {s}
    /\ UNCHANGED <<server, client, acks>>

\* _timeout_session: the client owed an ACK for the whole timeout.
Timeout ==
    /\ alive
    /\ pending # {}
    /\ alive' = FALSE
    /\ pending' = {}
    /\ deferred' = <<>>
    /\ UNCHANGED <<numbering, requestNumber, wire, client, acks>>

\* The engine ends the session (idle, superseded by another login).
EndSession ==
    /\ alive
    /\ alive' = FALSE
    /\ UNCHANGED <<numbering, requestNumber, pending, deferred, wire, client, acks>>

\* A fault: the packets in flight stay behind.
DropDeferredOnly ==
    /\ ~alive
    /\ pending # {}
    /\ deferred' = <<>>
    /\ UNCHANGED <<numbering, alive, requestNumber, pending, wire, client, acks>>

\* _drop_missing_session_pending, on the next resend pass.
DropMissing ==
    /\ ~alive
    /\ pending # {}
    /\ pending' = {}
    /\ deferred' = <<>>
    /\ UNCHANGED <<numbering, alive, requestNumber, wire, client, acks>>

\* Two faults: the login forgets to drop the packets in flight, or to
\* restart the numbers.
KicsKeepingPending ==
    /\ numbering < MaxRestarts
    /\ numbering' = numbering + 1
    /\ alive' = TRUE
    /\ requestNumber' = 0
    /\ deferred' = <<>>
    /\ wire' = {}
    /\ stored' = {}
    /\ delivered' = <<>>
    /\ acks' = {}
    /\ UNCHANGED pending

KicsKeepingNumbers ==
    /\ numbering < MaxRestarts
    /\ numbering' = numbering + 1
    /\ alive' = TRUE
    /\ pending' = {}
    /\ deferred' = <<>>
    /\ wire' = {}
    /\ stored' = {}
    /\ delivered' = <<>>
    /\ acks' = {}
    /\ UNCHANGED requestNumber

\* KICS login: restart_reliable (or a new Session) and
\* _forget_session_reliables; the client restarts too.
Kics ==
    /\ numbering < MaxRestarts
    /\ numbering' = numbering + 1
    /\ alive' = TRUE
    /\ requestNumber' = 0
    /\ pending' = {}
    /\ deferred' = <<>>
    /\ wire' = {}
    /\ stored' = {}
    /\ delivered' = <<>>
    /\ acks' = {}

-----------------------------------------------------------------------------
(***************************************************************************)
(* The client (core/sessions.py:15-22, udp_server.py:230-249) and the      *)
(* network.                                                                *)
(***************************************************************************)

\* The last number the client hands on once it has s.
RunEnd(s) ==
    CHOOSE e \in s .. MaxSeq :
        /\ (s + 1) .. e \subseteq stored
        /\ e + 1 \notin stored

\* One copy arrives (the network may keep another): handed on in order with
\* what was stored behind it, stored ahead of a gap as far as the receive
\* window reaches, or recognised as a duplicate; ACKed in each case.
ClientReceive(s) ==
    /\ s \in wire
    /\ wire' \in {wire, wire \ {s}}
    /\ \/ /\ s \in Received
          /\ acks' = acks \cup {s}
          /\ UNCHANGED client
       \/ /\ s = Expected
          /\ delivered' = delivered \o [i \in 1 .. (RunEnd(s) - s + 1) |-> s + i - 1]
          /\ stored' = stored \ (s .. RunEnd(s))
          /\ acks' = acks \cup {s}
       \/ /\ s \in (Expected + 1 .. Expected + Window - 1) \ stored
          /\ stored' = stored \cup {s}
          /\ acks' = acks \cup {s}
          /\ UNCHANGED delivered
       \/ /\ s >= Expected + Window
          /\ UNCHANGED <<client, acks>>
    /\ UNCHANGED server

LosePacket(s) ==
    /\ s \in wire
    /\ wire' = wire \ {s}
    /\ UNCHANGED <<server, client, acks>>

LoseAck(s) ==
    /\ s \in acks
    /\ acks' = acks \ {s}
    /\ UNCHANGED <<server, client, wire>>

-----------------------------------------------------------------------------
Init ==
    /\ numbering = 0
    /\ alive = TRUE
    /\ requestNumber = 0
    /\ pending = {}
    /\ deferred = <<>>
    /\ wire = {}
    /\ stored = {}
    /\ delivered = <<>>
    /\ acks = {}

ServerStep ==
    \/ Serve
    \/ \E s \in Numbers : ServeAck(s) \/ Resend(s)
    \/ Timeout \/ EndSession \/ DropMissing
    \/ Kics

NetworkStep == \E s \in Numbers : ClientReceive(s) \/ LosePacket(s) \/ LoseAck(s)

Next == ServerStep \/ NetworkStep

Spec == Init /\ [][Next]_vars

\* The loop's resend pass reaches every due packet and every ended session,
\* and of the copies and ACKs sent again and again not all are lost.
Fairness ==
    /\ WF_vars(DropMissing)
    /\ \A s \in Numbers :
        /\ WF_vars(Resend(s))
        /\ SF_vars(ClientReceive(s))
        /\ SF_vars(ServeAck(s))

FairSpec == Spec /\ Fairness

-----------------------------------------------------------------------------
(***************************************************************************)
(* Properties.                                                             *)
(***************************************************************************)

\* Every number given out to a live session is with the client, in flight or
\* deferred: the client never waits behind a number nobody will send again.
NothingLost ==
    alive => \A s \in 0 .. requestNumber - 1 :
                s \in Received \/ s \in pending \/ \E i \in 1 .. Len(deferred) : deferred[i] = s

\* "A missing oldest packet cannot be buried under more than the peer can
\* buffer behind that gap" (udp_server.py:246-248): no copy that reaches the
\* client is beyond its receive window.
NeverBuried == \A s \in wire : s < Expected + Window

\* No lost wake-up: packets are deferred only while the window is full.
DeferredWaits == deferred # <<>> => ~HasRoom(pending, deferred[1])

\* Deferred packets keep their order and come after all that was sent.
DeferredInOrder ==
    /\ \A i \in 1 .. Len(deferred) : deferred[i] = Launched + i - 1
    /\ \A s \in pending \cup wire : s < Launched

\* Inductive form: all that was sent and is not yet with the client is in
\* flight, and what is in flight spans at most one window.
SendInv ==
    /\ TypeOK
    /\ DeferredInOrder
    /\ \A a, b \in pending : b - a < Window
    /\ \A i \in 1 .. Expected : delivered[i] = i - 1
    /\ Expected <= Launched
    /\ stored \subseteq 0 .. Launched - 1
    /\ Expected \notin stored
    /\ acks \subseteq Received
    /\ (alive \/ deferred # <<>>) =>
            \A s \in 0 .. Launched - 1 : s \in Received \/ s \in pending
    /\ NeverBuried

\* Every packet of a session that lives on reaches the game.
EverythingDelivered ==
    \A n \in 0 .. MaxRestarts, s \in Numbers :
        (alive /\ numbering = n /\ s < requestNumber)
            ~> (~alive \/ numbering # n \/ s < Expected)

\* Every packet in flight is retired in the end, so no window stays shut.
EverythingRetired == \A s \in Numbers : s \in pending ~> s \notin pending

\* The send window delivers as the abstract specification says.
Delivery == INSTANCE ReliableDelivery WITH submitted <- requestNumber
DeliverySpec == Delivery!Spec
=============================================================================
