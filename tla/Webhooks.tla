------------------------------ MODULE Webhooks ------------------------------
(***************************************************************************)
(* Announcements (opensnap/webhooks/dispatcher.py): any thread queues an   *)
(* event, one worker posts them; a timer queues the events of a new day.   *)
(***************************************************************************)
EXTENDS Naturals, Sequences, FiniteSets

CONSTANTS
    NoEvent,
    MaxDay,        \* bound: midnights
    MaxNews        \* bound: events that are not of a day

ASSUME WebhooksAssumption == MaxDay \in Nat /\ MaxNews \in Nat

VARIABLES
    day,           \* what the clock says
    seen,          \* the day the timer saw last
    queue,
    posting,       \* the worker's event and attempt
    sent,          \* history: events queued, in order
    taken          \* history: events the receiver took in, in order

webhookVars == <<day, seen, queue, posting, sent, taken>>

\* The Market's and the Event's rotation both follow the day of the year.
DayEvents == <<[kind |-> "market", of |-> day], [kind |-> "event", of |-> day]>>

News == Cardinality({i \in DOMAIN sent : sent[i].kind = "news"})

WebhooksTypeOK ==
    /\ day \in 0 .. MaxDay /\ seen \in 0 .. day
    /\ Len(queue) <= Len(sent) /\ Len(taken) <= 2 * Len(sent)
    /\ posting # NoEvent => posting.attempt \in 0 .. 1

WebhooksInit ==
    /\ day = 0 /\ seen = 0
    /\ queue = <<>> /\ posting = NoEvent
    /\ sent = <<>> /\ taken = <<>>

Midnight ==
    /\ day < MaxDay /\ day' = day + 1
    /\ UNCHANGED <<seen, queue, posting, sent, taken>>

Send(events) == queue' = queue \o events /\ sent' = sent \o events

\* A fault: the day is not kept.
CheckForgets ==
    /\ day # seen /\ Len(sent) < 2 * MaxDay + MaxNews
    /\ Send(DayEvents)
    /\ UNCHANGED <<day, seen, posting, taken>>

\* The timer sees that the date is another one.
Check ==
    /\ day # seen
    /\ seen' = day
    /\ Send(DayEvents)
    /\ UNCHANGED <<day, posting, taken>>

\* Another thread announces something: a course record, a result.
Announce ==
    /\ News < MaxNews
    /\ Send(<<[kind |-> "news", of |-> News]>>)
    /\ UNCHANGED <<day, seen, posting, taken>>

TakeEvent ==
    /\ posting = NoEvent /\ queue # <<>>
    /\ posting' = [event |-> Head(queue), attempt |-> 0]
    /\ queue' = Tail(queue)
    /\ UNCHANGED <<day, seen, sent, taken>>

Posted ==
    /\ posting # NoEvent
    /\ taken' = Append(taken, posting.event) /\ posting' = NoEvent
    /\ UNCHANGED <<day, seen, queue, sent>>

\* A fault: every 429 is waited for.
AgainAlways ==
    /\ posting # NoEvent
    /\ posting' = [posting EXCEPT !.attempt = @ + 1]
    /\ UNCHANGED <<day, seen, queue, sent, taken>>

\* 429 with a wait that is short enough: the worker waits, and tries once more.
Again ==
    /\ posting # NoEvent /\ posting.attempt = 0
    /\ posting' = [posting EXCEPT !.attempt = 1]
    /\ UNCHANGED <<day, seen, queue, sent, taken>>

\* Refused: the event is dropped.
Refused ==
    /\ posting # NoEvent
    /\ posting' = NoEvent
    /\ UNCHANGED <<day, seen, queue, sent, taken>>

\* A fault: an answer that did not come is tried again too.
UnansweredAgain ==
    /\ posting # NoEvent
    /\ posting' = IF posting.attempt = 0 THEN [posting EXCEPT !.attempt = 1] ELSE NoEvent
    /\ taken' \in {taken, Append(taken, posting.event)}
    /\ UNCHANGED <<day, seen, queue, sent>>

\* No answer: the receiver may have taken the event in.  It is not tried again.
Unanswered ==
    /\ posting # NoEvent
    /\ posting' = NoEvent
    /\ taken' \in {taken, Append(taken, posting.event)}
    /\ UNCHANGED <<day, seen, queue, sent>>

\* The process stops: what is queued is lost, and the day is the new one's.
Restart ==
    /\ queue # <<>> \/ posting # NoEvent \/ seen # day
    /\ queue' = <<>> /\ posting' = NoEvent /\ seen' = day
    /\ UNCHANGED <<day, sent, taken>>

WebhooksNext ==
    Midnight \/ Check \/ Announce \/ TakeEvent \/ Posted \/ Again \/ Refused \/ Unanswered \/ Restart

WebhooksSpec == WebhooksInit /\ [][WebhooksNext]_webhookVars

-----------------------------------------------------------------------------
\* The receiver takes in what was sent in that order and nothing twice, with
\* refusals, lost answers and restarts in between.
TakenInOrder ==
    \A i, j \in DOMAIN taken : i < j =>
        \E k, l \in DOMAIN sent : k < l /\ sent[k] = taken[i] /\ sent[l] = taken[j]
            /\ \A n \in DOMAIN sent : sent[n] = taken[i] => n = k

\* Each day is announced once at most, and as the day the clients are served.
DayAnnouncedOnce ==
    \A i, j \in DOMAIN sent : sent[i].kind = "market" /\ sent[i] = sent[j] => i = j

\* Events leave the queue in their order and a day is announced once, though the other
\* side fails and the worker retries.
WebhooksSound ==
  /\ WebhooksTypeOK
  /\ TakenInOrder
  /\ DayAnnouncedOnce

=============================================================================
