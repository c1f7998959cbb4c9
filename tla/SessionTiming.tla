---------------------------- MODULE SessionTiming ----------------------------
(***************************************************************************)
(* Time in one session (udp_server.py run and _FramedLink, core/engine.py  *)
(* tick): resends on their timers, the silence rule, keepalives, the idle  *)
(* limit, and for Auto Modellista Beta1 the framed link, which sends one   *)
(* datagram per two frames and lets ACKs ride on queued messages.          *)
(*                                                                         *)
(* Times are ages, in passes of the loop that advance the clock.  The      *)
(* window and the order of reliable numbers are SendWindow's subject.      *)
(***************************************************************************)
EXTENDS Integers, Sequences, FiniteSets, Functions

CONSTANTS
    Slots,         \* bound: reliable packets in flight
    Requests,      \* the client's reliable requests that wait for their ACK
    Nil,
    ReliableTimeout,   \* reliable_timeout_seconds
    Interval,      \* keepalive_interval_seconds
    IdleLimit,     \* session_idle_limit, or session_max_idle_seconds
    MinFrames,     \* _FRAMED_MIN_FRAMES
    Pace,          \* pace_ms of a datagram
    FramedWait,    \* resend_wait_seconds
    RttLow, RttHigh, RttInit, Growth,   \* limits, start and growth of the RTT estimate
    Delay,         \* the time a client takes to ACK
    MaxTries,      \* bound: resends that are told apart
    MaxQueue       \* bound: messages of the lobby that wait in the link

ASSUME TimingAssumption ==
    /\ {ReliableTimeout, Interval, IdleLimit, MinFrames, Pace, FramedWait, Growth, Delay} \subseteq Nat \ {0}
    /\ {RttLow, RttHigh} \subseteq Nat \ {0} /\ RttInit \in RttLow .. RttHigh
    /\ {MaxTries, MaxQueue} \subseteq Nat /\ IsFiniteSet(Slots) /\ Slots # {}

VARIABLES
    framed,      \* the game's framed_sender
    calm,        \* nothing is lost, and the client polls and ACKs in time
    client,      \* the client: "polling", "deaf" for a while, or "gone"
    heard,       \* client: how long it has owed the ACK of a packet
    server,      \* the session's state in the engine and the transport
    owed         \* the client's requests whose ACK has not left (history)

timingVars == <<framed, calm, client, heard, server, owed>>

\* An age is counted up to the value beyond which nothing depends on it.
Older(n, most) == IF n < most THEN n + 1 ELSE n
MaxLast == IF FramedWait > RttHigh + MaxTries THEN FramedWait ELSE RttHigh + MaxTries

Tracked == [keepalive : BOOLEAN, first : 0 .. ReliableTimeout, last : 0 .. MaxLast, tries : 0 .. MaxTries, waiting : BOOLEAN]

ASSUME NilAssumption == Nil \notin Slots \cup Requests \cup Nat \cup Tracked

\* A message in the link: its packet, or Nil, and the ACK it carries, or Nil.
Entries == [packet : Slots \cup {Nil}, ack : Requests \cup {Nil}]

Servers ==
    [known : BOOLEAN, kept : BOOLEAN, silent : 0 .. IdleLimit, since : 0 .. Pace + 1,
     pending : [Slots -> Tracked \cup {Nil}], queue : Seq(Entries), rtt : RttLow .. RttHigh]

TimingTypeOK ==
    /\ framed \in BOOLEAN /\ calm \in BOOLEAN
    /\ client \in {"polling", "deaf", "gone"}
    /\ heard \in [Slots -> 0 .. Delay \cup {Nil}]
    /\ server \in Servers
    /\ owed \subseteq Requests

-----------------------------------------------------------------------------
InQueue(v, s) == \E i \in DOMAIN v.queue : v.queue[i].packet = s
Free(v) == {s \in Slots : v.pending[s] = Nil /\ ~InQueue(v, s) /\ heard[s] = Nil}
Carried(v) == {v.queue[i].ack : i \in DOMAIN v.queue} \ {Nil}

New(keepalive) == [keepalive |-> keepalive, first |-> 0, last |-> 0, tries |-> 0, waiting |-> framed]

Add(v, s, ack) == [v EXCEPT !.queue = Append(@, [packet |-> s, ack |-> ack])]

\* _send_encoded_message: tracked, and sent or put into the link.
Track(v, s, keepalive, ack) ==
    LET tracked == [v EXCEPT !.pending[s] = New(keepalive)]
    IN  IF framed THEN Add(tracked, s, ack) ELSE tracked

\* A fault: an ACK replaces the one that a message carries already.
AddAckOver(v, ack) ==
    IF v.queue # <<>> THEN [v EXCEPT !.queue[1].ack = ack] ELSE Add(v, Nil, ack)

\* add_ack: on the first message that has none, else alone.
AddAck(v, ack) ==
    LET bare == {i \in DOMAIN v.queue : v.queue[i].ack = Nil}
    IN  IF bare # {} THEN [v EXCEPT !.queue[CHOOSE i \in bare : \A j \in bare : i <= j].ack = ack]
        ELSE Add(v, Nil, ack)

\* An ended session; with what was in flight goes the endpoint's estimate.
Gone(v) ==
    [v EXCEPT !.known = FALSE, !.pending = [s \in Slots |-> Nil], !.queue = <<>>,
              !.rtt = IF \E s \in Slots : v.pending[s] # Nil THEN RttInit ELSE @]

-----------------------------------------------------------------------------
AgedPacket(p) == [p EXCEPT !.first = Older(@, ReliableTimeout), !.last = Older(@, MaxLast)]

\* The clock advances.
Aged(v) ==
    [v EXCEPT !.silent = Older(@, IdleLimit), !.since = Older(@, Pace + 1),
              !.pending = [s \in Slots |-> IF v.pending[s] = Nil THEN Nil ELSE AgedPacket(v.pending[s])]]

\* _keep_idle_sessions_alive: one keepalive per silence.
KeptAlive(v) ==
    IF v.silent < Interval \/ v.kept \/ Free(v) = {} THEN v
    ELSE [Track(v, CHOOSE s \in Free(v) : TRUE, TRUE, Nil) EXCEPT !.kept = TRUE]

\* A fault: a session whose client has answered a keepalive is not idle.
TickedKept(v) == IF v.silent >= IdleLimit /\ ~v.kept THEN Gone(v) ELSE KeptAlive(v)

Ticked(v) == IF v.silent >= IdleLimit THEN Gone(v) ELSE KeptAlive(v)

\* Two faults: keepalives end a session too, or the silence before the packet
\* was sent counts.
OverdueAny(v, s) == v.silent >= ReliableTimeout /\ v.pending[s].first >= ReliableTimeout

OverdueSilence(v, s) == ~v.pending[s].keepalive /\ v.silent >= ReliableTimeout

\* _peer_is_inactive, for a packet other than a keepalive.
Overdue(v, s) == ~v.pending[s].keepalive /\ v.silent >= ReliableTimeout /\ v.pending[s].first >= ReliableTimeout

\* _retransmit_wait.
Wait(v, p) == IF framed THEN FramedWait ELSE v.rtt + p.tries

Due(v, s) == v.pending[s] # Nil /\ ~v.pending[s].waiting /\ v.pending[s].last >= Wait(v, v.pending[s])

\* The packets' messages in some order, without the ACK that the first copy carried.
InOrder(due) == CHOOSE f \in Bijection(1 .. Cardinality(due), due) : TRUE

Bare(due) == [i \in 1 .. Cardinality(due) |-> [packet |-> InOrder(due)[i], ack |-> Nil]]

\* A fault: a resend is queued again in every pass.
RequeuedAlways(v, due) ==
    [v EXCEPT !.queue = @ \o Bare(due)]

\* Resends wait in the link.
Requeued(v, due) ==
    [v EXCEPT !.queue = @ \o Bare(due),
              !.pending = [s \in Slots |-> IF s \in due THEN [v.pending[s] EXCEPT !.waiting = TRUE] ELSE v.pending[s]]]

Tries(n) == IF n < MaxTries THEN n + 1 ELSE n

Sent(v, due) ==
    [v EXCEPT !.pending = [s \in Slots |-> IF s \in due THEN [v.pending[s] EXCEPT !.last = 0, !.tries = Tries(@)]
                                           ELSE v.pending[s]]]

\* _retransmit_due.
Retransmitted(v) ==
    LET due == {s \in Slots : Due(v, s)}
    IN  IF \E s \in Slots : v.pending[s] # Nil /\ Overdue(v, s) THEN Gone(v)
        ELSE IF framed THEN Requeued(v, due) ELSE Sent(v, due)

\* pop_due: the head leaves after two frames when it carries an ACK, else
\* when the line is free again.
Pops(v) ==
    /\ v.queue # <<>>
    /\ v.since >= MinFrames
    /\ v.queue[1].ack # Nil \/ v.since > Pace

\* _pump_framed_links.
Pumped(v) ==
    IF ~Pops(v) THEN v
    ELSE LET s == v.queue[1].packet
             tracked == s # Nil /\ v.pending[s] # Nil
         IN  [v EXCEPT !.queue = Tail(@), !.since = 0,
                       !.pending = IF tracked THEN [@ EXCEPT ![s].last = 0, ![s].waiting = FALSE] ELSE @]

-----------------------------------------------------------------------------
\* The packets that left in the step to v.
Left(v) ==
    {s \in Slots : v.pending[s] # Nil /\ ~v.pending[s].waiting /\ v.pending[s].last = 0}

\* The client's side of a step that sent `sent`, of which some may be lost.
Hears(sent, aged) ==
    \E got \in SUBSET sent :
        /\ calm => got = sent
        /\ client # "polling" => got = {}
        /\ heard' = [s \in Slots |-> IF s \in got /\ heard[s] = Nil THEN 0
                                     ELSE IF aged /\ heard[s] # Nil /\ heard[s] < Delay THEN heard[s] + 1
                                     ELSE heard[s]]

\* A pass in which time goes by: the tick, the resends, the framed link.
Pass ==
    LET v == Pumped(Retransmitted(Ticked(Aged(server))))
    IN  /\ server.known
        /\ calm => \A s \in Slots : heard[s] # Nil => heard[s] < Delay
        /\ server' = v
        /\ Hears(Left(v), TRUE)
        /\ owed' = IF v.known THEN owed \cap Carried(v) ELSE {}
        /\ UNCHANGED <<framed, calm, client>>

Alive(v) == [v EXCEPT !.silent = 0, !.kept = FALSE]

\* A fault: the sample is not clamped.
SampleRaw(v, p) == p.last + (IF p.tries = 0 THEN 0 ELSE p.tries * v.rtt + 1 + p.tries)

\* _sample_rtt: limits, and at most `Growth` times the old estimate.
Sample(v, p) ==
    LET elapsed == p.last + (IF p.tries = 0 THEN 0 ELSE p.tries * v.rtt + 1 + p.tries)
        atLeast == IF elapsed < RttLow THEN RttLow ELSE elapsed
        clamped == IF atLeast > RttHigh THEN RttHigh ELSE atLeast
    IN  IF clamped > v.rtt * Growth THEN v.rtt * Growth ELSE clamped

\* _clear_reliable_pending.
Retired(v, s) ==
    IF v.pending[s] = Nil THEN v
    ELSE [v EXCEPT !.pending[s] = Nil, !.rtt = IF framed THEN @ ELSE Sample(v, v.pending[s])]

\* The client's ACK of a packet; it may get lost.
ClientAck(s) ==
    /\ client = "polling" /\ heard[s] # Nil
    /\ heard' = [heard EXCEPT ![s] = Nil]
    /\ server' \in {Retired(Alive(server), s)} \cup (IF calm THEN {} ELSE {server})
    /\ UNCHANGED <<framed, calm, client, owed>>

\* A reliable request, ACKed alone or by an answer that is reliable itself.
ClientRequest(r) ==
    /\ client = "polling" /\ server.known /\ r \notin owed /\ Len(server.queue) < MaxQueue
    /\ \/ /\ server' = IF framed THEN AddAck(Alive(server), r) ELSE Alive(server)
          /\ Hears({}, FALSE)
       \/ \E s \in Free(server) :
            /\ server' = Track(Alive(server), s, FALSE, r)
            /\ Hears(IF framed THEN {} ELSE {s}, FALSE)
    /\ owed' = IF framed THEN owed \cup {r} ELSE owed
    /\ UNCHANGED <<framed, calm, client>>

\* What other players' datagrams send to this client.
Relay ==
    /\ server.known /\ Len(server.queue) < MaxQueue
    /\ \/ /\ framed
          /\ server' = Add(server, Nil, Nil)
          /\ Hears({}, FALSE)
       \/ \E s \in Free(server) :
            /\ server' = Track(server, s, FALSE, Nil)
            /\ Hears(IF framed THEN {} ELSE {s}, FALSE)
    /\ UNCHANGED <<framed, calm, client, owed>>

\* The client between a race and the lobby polls nothing; it comes back, or not.
ClientTurns ==
    /\ ~calm /\ client # "gone"
    /\ client' \in {"polling", "deaf", "gone"} \ {client}
    /\ UNCHANGED <<framed, calm, heard, server, owed>>

NewSession ==
    [known |-> TRUE, silent |-> 0, kept |-> FALSE, pending |-> [s \in Slots |-> Nil],
     queue |-> <<>>, since |-> Pace + 1, rtt |-> RttInit]

TimingInit ==
    /\ framed \in BOOLEAN /\ calm \in BOOLEAN
    /\ client = "polling" /\ heard = [s \in Slots |-> Nil]
    /\ server = NewSession /\ owed = {}

\* A client whose session was ended logs in again, also one that was gone,
\* before the transport forgets its endpoint or after.
Login ==
    /\ ~server.known /\ client' = "polling"
    /\ server' \in {NewSession, [NewSession EXCEPT !.rtt = server.rtt]}
    /\ heard' = [s \in Slots |-> Nil]
    /\ UNCHANGED <<framed, calm, owed>>

TimingNext ==
    \/ Pass
    \/ \E s \in Slots : ClientAck(s)
    \/ \E r \in Requests : ClientRequest(r)
    \/ Relay
    \/ ClientTurns
    \/ Login

TimingSpec == TimingInit /\ [][TimingNext]_timingVars

-----------------------------------------------------------------------------
\* A client that ACKs in time and loses nothing is never given up, however
\* long it has nothing to say: silence counts from a packet's first send, and
\* keepalives keep it from being idle (udp_server.py:640-655, engine.py:350-374).
CalmClientKept == calm => server.known

\* A client that is gone is ended at the idle limit at the latest.
GoneClientEnded == server.known => server.silent < IdleLimit

\* A client that owes no more than keepalives is not ended before the idle
\* limit: they are only resent (udp_server.py:626-638).
KeepalivesPatient ==
    [][server.known /\ ~server'.known /\ (\A s \in Slots : server.pending[s] # Nil => server.pending[s].keepalive)
           => server.silent + 1 >= IdleLimit]_timingVars

\* Every ACK that is owed waits on one message of the link, and no message
\* carries one that has left: a stale ACK stops the client's resends
\* (udp_server.py:570-578).
AcksRideOnce ==
    framed => /\ Carried(server) = owed
              /\ \A i, j \in DOMAIN server.queue :
                    server.queue[i].ack = server.queue[j].ack /\ server.queue[i].ack # Nil => i = j

\* A packet that waits for the link is in it, once: the resend timer leaves
\* it alone until it has been sent (udp_server.py:40-42, 566).
WaitingIsQueued ==
    \A s \in Slots :
        server.pending[s] # Nil =>
            Cardinality({i \in DOMAIN server.queue : server.queue[i].packet = s})
                = IF server.pending[s].waiting THEN 1 ELSE 0

\* A client that answers in time is kept and one that is gone is ended, and the link's
\* queue, its ACKs and the resend timers agree about every packet.
TimingSound ==
  /\ TimingTypeOK
  /\ CalmClientKept
  /\ GoneClientEnded
  /\ AcksRideOnce
  /\ WaitingIsQueued

=============================================================================
