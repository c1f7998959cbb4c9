----------------------------- MODULE ReceiveWindow -----------------------------
(***************************************************************************)
(* Reliable receive order of one session, as the engine keeps it for the   *)
(* packets its client sends (core/sessions.py accept_incoming,             *)
(* core/engine.py _handle_in_order and _handle_datagram_messages).         *)
(*                                                                         *)
(* A reliable datagram is its sequence number.  The client resends a       *)
(* number until it is ACKed and the network may lose, delay, repeat and    *)
(* reorder every copy, so any number the client has used may arrive at any *)
(* time; one ACK may be lost.  The session lives throughout (its end is    *)
(* SessionTransport's subject).                                            *)
(***************************************************************************)
EXTENDS Integers, Sequences

CONSTANTS
    MaxSeq,      \* bound: the highest reliable number of one numbering
    MaxRestarts, \* bound: KICS logins after the first
    FirstAlone   \* TRUE: the client waits for the ACK of packet 0 before it sends packet 1

ASSUME ReceiveWindowAssumption ==
    /\ MaxSeq \in Nat
    /\ MaxRestarts \in Nat
    /\ FirstAlone \in BOOLEAN

VARIABLES
    numbering,  \* how many KICS logins have restarted the numbers (history)
    sent,       \* client: its next reliable number
    unacked,    \* client: numbers it still resends
    last,       \* session.last_incoming_sequence
    held,       \* keys of session.held_reliable
    handled,    \* numbers whose handler has run since the KICS, in order (history)
    acks        \* ACKs on their way to the client

vars == <<numbering, sent, unacked, last, held, handled, acks>>

Numbers == 0 .. MaxSeq

HandledNumbers == {handled[i] : i \in 1 .. Len(handled)}

TypeOK ==
    /\ numbering \in 0 .. MaxRestarts
    /\ sent \in 0 .. MaxSeq + 1
    /\ unacked \subseteq Numbers
    /\ last \in -1 .. MaxSeq
    /\ held \subseteq Numbers
    /\ handled \in Seq(Numbers)
    /\ acks \subseteq Numbers

-----------------------------------------------------------------------------
(***************************************************************************)
(* The session.                                                            *)
(***************************************************************************)

\* A fault: a packet ahead of a missing one is handled at once.
ReceiptSkippingGap(s) ==
    IF last < 0 THEN "deliver"
    ELSE IF s <= last THEN "duplicate"
    ELSE "deliver"

\* accept_incoming: what to do with one received reliable sequence.
Receipt(s) ==
    IF last < 0 THEN "deliver"
    ELSE IF s <= last \/ s \in held THEN "duplicate"
    ELSE IF s = last + 1 THEN "deliver"
    ELSE "hold"

\* A fault: held packets are forgotten.
RunEndWithoutHeld(s) == s

\* The last number handled when number s is: held packets follow as long as
\* the next one is held.
RunEnd(s) ==
    CHOOSE e \in s .. MaxSeq :
        /\ (s + 1) .. e \subseteq held
        /\ e + 1 \notin held

\* In order: the handler runs, then every held datagram that comes next.
\* A handler's reply ACKs its request; one that returns nothing or raises
\* leaves it to the ACK of the resent copy.
Deliver(s) ==
    /\ Receipt(s) = "deliver"
    /\ last' = RunEnd(s)
    /\ held' = held \ (s .. RunEnd(s))
    /\ handled' = handled \o [i \in 1 .. (RunEnd(s) - s + 1) |-> s + i - 1]
    /\ \E answered \in SUBSET (s .. RunEnd(s)) : acks' = acks \cup answered
    /\ UNCHANGED <<numbering, sent, unacked>>

\* Two faults: the packet is ACKed and dropped, as for a duplicate, or stored
\* under the number after its own.
HoldWithoutStoring(s) ==
    /\ Receipt(s) = "hold"
    /\ acks' = acks \cup {s}
    /\ UNCHANGED <<numbering, sent, unacked, last, held, handled>>

HoldUnderNext(s) ==
    /\ Receipt(s) = "hold"
    /\ held' = held \cup {s + 1}
    /\ acks' = acks \cup {s}
    /\ UNCHANGED <<numbering, sent, unacked, last, handled>>

\* Ahead of a missing number: stored and ACKed.
Hold(s) ==
    /\ Receipt(s) = "hold"
    /\ held' = held \cup {s}
    /\ acks' = acks \cup {s}
    /\ UNCHANGED <<numbering, sent, unacked, last, handled>>

\* A fault: a resent copy is ignored.
DuplicateWithoutAck(s) ==
    /\ Receipt(s) = "duplicate"
    /\ UNCHANGED vars

\* Already handled or held: ACKed again, not run again.
Duplicate(s) ==
    /\ Receipt(s) = "duplicate"
    /\ acks' = acks \cup {s}
    /\ UNCHANGED <<numbering, sent, unacked, last, held, handled>>

\* Any copy of a number the client has used arrives.
Receive(s) ==
    /\ s < sent
    /\ Deliver(s) \/ Hold(s) \/ Duplicate(s)

-----------------------------------------------------------------------------
(***************************************************************************)
(* The client and the network, as core/sessions.py describes them.         *)
(***************************************************************************)

Init ==
    /\ numbering = 0
    /\ sent = 0
    /\ unacked = {}
    /\ last = -1
    /\ held = {}
    /\ handled = <<>>
    /\ acks = {}

ClientSend ==
    /\ sent <= MaxSeq
    /\ FirstAlone => (sent = 0 \/ 0 \notin unacked)
    /\ sent' = sent + 1
    /\ unacked' = unacked \cup {sent}
    /\ UNCHANGED <<numbering, last, held, handled, acks>>

ClientAcked(s) ==
    /\ s \in acks
    /\ unacked' = unacked \ {s}
    /\ acks' = acks \ {s}
    /\ UNCHANGED <<numbering, sent, last, held, handled>>

LoseAck(s) ==
    /\ s \in acks
    /\ acks' = acks \ {s}
    /\ UNCHANGED <<numbering, sent, unacked, last, held, handled>>

\* KICS login: the client zeroes its reliable counter when it sends it, and
\* restart_reliable zeroes the session's when it is handled.  Packets and
\* ACKs of the old numbering are assumed to be gone by then.
Kics ==
    /\ numbering < MaxRestarts
    /\ numbering' = numbering + 1
    /\ sent' = 0
    /\ unacked' = {}
    /\ last' = -1
    /\ held' = {}
    /\ handled' = <<>>
    /\ acks' = {}

Next ==
    \/ ClientSend
    \/ \E s \in Numbers : Receive(s) \/ ClientAcked(s) \/ LoseAck(s)
    \/ Kics

Spec == Init /\ [][Next]_vars

\* A resent packet arrives in the end, and one of its ACKs gets through:
\* the client resends until ACKed, over a network that loses any one copy
\* but not all of them.
Fairness ==
    \A s \in Numbers :
        /\ WF_vars(Receive(s) /\ s \in unacked)
        /\ SF_vars(ClientAcked(s))

FairSpec == Spec /\ Fairness

-----------------------------------------------------------------------------
(***************************************************************************)
(* Properties.                                                             *)
(***************************************************************************)

\* A gap is never skipped (core/sessions.py:15-22): the handlers ran for
\* 0, 1, 2, ... of the current numbering and for nothing else.
GapNeverSkipped == \A i \in 1 .. Len(handled) : handled[i] = i - 1

\* Whatever the first number accepted was, no number after it is skipped,
\* repeated or taken out of order.
ConsecutiveOnceStarted ==
    \A i \in 1 .. Len(handled) - 1 : handled[i + 1] = handled[i] + 1

\* An ACK is a promise: the client never resends a number it saw ACKed, so
\* its packet must have been handled or be held.
AckedIsKept ==
    \A s \in 0 .. sent - 1 : s \notin unacked => s \in HandledNumbers \cup held

\* Nothing ready is left behind: every held datagram waits for a number that
\* has not arrived, and was sent by the client in this numbering.
HeldWaitsForGap == held \subseteq (last + 2) .. (sent - 1)

\* Inductive form of the above, for any first number: the window position is
\* the last number handled, and nothing is held before the first one.
WindowInv ==
    /\ TypeOK
    /\ last = IF handled = <<>> THEN -1 ELSE handled[Len(handled)]
    /\ last < sent
    /\ handled = <<>> => held = {}
    /\ ConsecutiveOnceStarted
    /\ HeldWaitsForGap

\* With packet 0 alone on the wire: the handled numbers are 0 .. last, every
\* ACK given stands for a packet that is kept, and no second packet was sent
\* before the first was handled.
FirstAloneInv ==
    /\ WindowInv
    /\ Len(handled) = last + 1
    /\ GapNeverSkipped
    /\ last < 0 => sent <= 1
    /\ acks \subseteq (0 .. last) \cup held
    /\ \A s \in 0 .. sent - 1 : s \notin unacked => s \in (0 .. last) \cup held

\* Every packet the client sent is handled, unless it logs in again.
EveryPacketHandled ==
    \A n \in 0 .. MaxRestarts, s \in Numbers :
        (numbering = n /\ s < sent) ~> (numbering # n \/ s \in HandledNumbers)

\* The client can stop resending every packet, also when a handler returned
\* no answer or its ACK was lost.
EveryPacketAcked ==
    \A n \in 0 .. MaxRestarts, s \in Numbers :
        (numbering = n /\ s < sent) ~> (numbering # n \/ s \notin unacked)

\* The receive window delivers as the abstract specification says.
Delivery == INSTANCE ReliableDelivery WITH submitted <- sent, delivered <- handled
DeliverySpec == Delivery!Spec
=============================================================================
