-------------------------- MODULE ReceiveWindowProofs --------------------------
(***************************************************************************)
(* Proofs about ReceiveWindow: type correctness, the order of what the     *)
(* handlers run, the promise an ACK makes, and that the window implements  *)
(* ReliableDelivery.  Everything holds for every MaxSeq and MaxRestarts.   *)
(***************************************************************************)
EXTENDS ReceiveWindow, SequenceTheorems, WellFoundedInduction, TLAPS

-----------------------------------------------------------------------------
(***************************************************************************)
(* The run of held datagrams one delivery hands on.                        *)
(***************************************************************************)

\* RunEnd is well defined: some number from s on is followed by a number that
\* is not held, because nothing is held beyond MaxSeq; the least such one ends
\* the run.
LEMMA RunEndProperties ==
    ASSUME NEW s \in Numbers, held \subseteq Numbers
    PROVE  /\ RunEnd(s) \in s .. MaxSeq
           /\ (s + 1) .. RunEnd(s) \subseteq held
           /\ RunEnd(s) + 1 \notin held
<1> DEFINE Stops == {e \in s .. MaxSeq : e + 1 \notin held}
<1>1. Stops \subseteq Nat /\ MaxSeq \in Stops
    BY ReceiveWindowAssumption DEF Numbers
<1>2. PICK e \in Stops : \A d \in Stops : ~ (<<d, e>> \in OpToRel(<, Nat))
    BY <1>1, NatLessThanWellFounded, WFMin
<1>3. \A d \in Stops : ~ (d < e)
    BY <1>1, <1>2 DEF OpToRel
<1>4. (s + 1) .. e \subseteq held
    <2> SUFFICES ASSUME NEW k \in (s + 1) .. e, k \notin held PROVE FALSE
        OBVIOUS
    <2>1. k - 1 \in Stops
        BY <1>1 DEF Numbers
    <2>2. QED
        BY <1>1, <1>3, <2>1
<1>5. QED
    BY <1>1, <1>4 DEF RunEnd

\* What one in-order delivery does to the history: it appends the numbers
\* s .. RunEnd(s), so its last element becomes the new window position.
LEMMA DeliverHistory ==
    ASSUME NEW s \in Numbers, TypeOK, Deliver(s)
    PROVE  /\ handled' \in Seq(Numbers)
           /\ Len(handled') = Len(handled) + (last' - s + 1)
           /\ \A i \in 1 .. Len(handled') :
                 handled'[i] = IF i <= Len(handled) THEN handled[i]
                                                   ELSE s + (i - Len(handled)) - 1
           /\ last' \in s .. MaxSeq
           /\ last' = RunEnd(s)
<1> DEFINE k == RunEnd(s) - s + 1
           run == [i \in 1 .. k |-> s + i - 1]
<1>1. RunEnd(s) \in s .. MaxSeq
    BY RunEndProperties DEF TypeOK
<1>2. k \in Nat /\ k = last' - s + 1
    BY <1>1 DEF Deliver, Numbers
<1>3. \A i \in 1 .. k : s + i - 1 \in Numbers
    BY <1>1, ReceiveWindowAssumption DEF Numbers
<1>4. run \in Seq(Numbers) /\ Len(run) = k
    BY <1>2, <1>3
<1>5. handled \in Seq(Numbers)
    BY DEF TypeOK
<1>6. handled' = handled \o run
    BY DEF Deliver
<1>. HIDE DEF run, k
<1>7. /\ handled' \in Seq(Numbers)
      /\ Len(handled') = Len(handled) + k
      /\ \A i \in 1 .. Len(handled) + k :
            handled'[i] = IF i <= Len(handled) THEN handled[i] ELSE run[i - Len(handled)]
    BY <1>4, <1>5, <1>6, ConcatProperties
<1>8. \A i \in 1 .. k : run[i] = s + i - 1
    BY DEF run
<1>9. Len(handled) \in Nat
    BY <1>5
<1>10. ASSUME NEW i \in 1 .. Len(handled')
       PROVE  handled'[i] = IF i <= Len(handled) THEN handled[i]
                                                 ELSE s + (i - Len(handled)) - 1
    <2>1. i > Len(handled) => i - Len(handled) \in 1 .. k
        BY <1>2, <1>7, <1>9
    <2>2. QED
        BY <1>2, <1>7, <1>8, <1>9, <2>1
<1>11. last' = RunEnd(s)
    BY DEF Deliver
<1>12. QED
    BY <1>1, <1>2, <1>7, <1>10, <1>11

-----------------------------------------------------------------------------
(***************************************************************************)
(* The invariant of the window, whatever number comes first.               *)
(***************************************************************************)

LEMMA InitWindowInv == Init => WindowInv
<1> SUFFICES ASSUME Init PROVE WindowInv
    OBVIOUS
<1>1. handled = <<>> /\ Len(handled) = 0
    BY DEF Init
<1>2. TypeOK
    BY <1>1, ReceiveWindowAssumption DEF Init, TypeOK, Numbers
<1>3. QED
    BY <1>1, <1>2 DEF Init, WindowInv, ConsecutiveOnceStarted, HeldWaitsForGap

\* A delivery starts right after the last number handled, or is the first.
LEMMA DeliverWindowInv ==
    ASSUME WindowInv, NEW s \in Numbers, s < sent, Deliver(s)
    PROVE  WindowInv'
<1> USE ReceiveWindowAssumption
<1>1. TypeOK /\ s \in Nat /\ sent \in Nat /\ last \in Int /\ Len(handled) \in Nat
    BY DEF WindowInv, TypeOK, Numbers
<1>2. RunEnd(s) \in s .. MaxSeq /\ (s + 1) .. RunEnd(s) \subseteq held /\ RunEnd(s) + 1 \notin held
    BY <1>1, RunEndProperties DEF TypeOK
<1>3. /\ handled' \in Seq(Numbers)
      /\ Len(handled') = Len(handled) + (last' - s + 1)
      /\ \A i \in 1 .. Len(handled') :
            handled'[i] = IF i <= Len(handled) THEN handled[i]
                                              ELSE s + (i - Len(handled)) - 1
      /\ last' \in s .. MaxSeq
      /\ last' = RunEnd(s)
    BY <1>1, DeliverHistory
<1>4. /\ Receipt(s) = "deliver"
      /\ held' = held \ (s .. RunEnd(s))
      /\ \E answered \in SUBSET (s .. RunEnd(s)) : acks' = acks \cup answered
      /\ UNCHANGED <<numbering, sent, unacked>>
    BY DEF Deliver
<1>5. TypeOK'
    <2>1. acks' \subseteq Numbers
        <3>1. s .. RunEnd(s) \subseteq Numbers
            BY <1>1, <1>2 DEF Numbers
        <3>2. PICK answered \in SUBSET (s .. RunEnd(s)) : acks' = acks \cup answered
            BY <1>4
        <3>3. QED
            BY <1>1, <3>1, <3>2 DEF TypeOK
    <2>2. held' \subseteq Numbers
        BY <1>1, <1>4 DEF TypeOK
    <2>3. last' \in -1 .. MaxSeq
        BY <1>1, <1>3
    <2>4. QED
        BY <1>1, <1>3, <1>4, <2>1, <2>2, <2>3 DEF TypeOK
<1>6. /\ last < sent
      /\ held \subseteq (last + 2) .. (sent - 1)
      /\ handled = <<>> => held = {}
      /\ last = IF handled = <<>> THEN -1 ELSE handled[Len(handled)]
      /\ \A i \in 1 .. Len(handled) - 1 : handled[i + 1] = handled[i] + 1
    BY DEF WindowInv, HeldWaitsForGap, ConsecutiveOnceStarted
<1>7. last' < sent'
    <2>1. CASE RunEnd(s) = s
        BY <1>3, <1>4, <2>1
    <2>2. CASE RunEnd(s) \in held
        BY <1>1, <1>3, <1>4, <1>6, <2>2
    <2>3. QED
        BY <1>1, <1>2, <2>1, <2>2
<1>8. handled' # <<>> /\ last' = handled'[Len(handled')]
    BY <1>1, <1>3
<1>9. handled = <<>> \/ s = last + 1
    <2>1. handled # <<>> => last \in Numbers
        BY <1>1, <1>6, ElementOfSeq DEF TypeOK
    <2>2. handled # <<>> => ~ (last < 0)
        BY <1>1, <2>1 DEF Numbers
    <2>3. QED
        BY <1>4, <2>2 DEF Receipt
<1>10. ConsecutiveOnceStarted'
    <2> SUFFICES ASSUME NEW i \in 1 .. Len(handled') - 1
                 PROVE  handled'[i + 1] = handled'[i] + 1
        BY DEF ConsecutiveOnceStarted
    <2>1. i \in 1 .. Len(handled') /\ i + 1 \in 1 .. Len(handled') /\ i \in Nat
        BY <1>1, <1>3
    <2>2. CASE i + 1 <= Len(handled)
        <3>1. handled'[i + 1] = handled[i + 1] /\ handled'[i] = handled[i]
            BY <1>1, <1>3, <2>1, <2>2
        <3>2. i \in 1 .. Len(handled) - 1
            BY <1>1, <2>1, <2>2
        <3>3. QED
            BY <1>6, <3>1, <3>2
    <2>3. CASE i = Len(handled)
        <3>1. handled # <<>> /\ last = handled[i]
            BY <1>1, <1>6, <2>1, <2>3
        <3>2. QED
            BY <1>1, <1>3, <1>9, <2>1, <2>3, <3>1
    <2>4. CASE i > Len(handled)
        BY <1>1, <1>3, <2>1, <2>4
    <2>5. QED
        BY <1>1, <2>1, <2>2, <2>3, <2>4
<1>11. HeldWaitsForGap'
    <2> SUFFICES ASSUME NEW h \in held' PROVE h >= last' + 2 /\ h <= sent' - 1 /\ h \in Int
        BY <1>1, <1>3, <1>4 DEF HeldWaitsForGap
    <2>1. h \in held /\ h \notin s .. RunEnd(s) /\ h \in Int
        BY <1>1, <1>4 DEF TypeOK, Numbers
    <2>2. s = last + 1 /\ h >= last + 2 /\ h <= sent - 1
        <3>1. h \in (last + 2) .. (sent - 1)
            BY <1>6, <2>1
        <3>2. handled # <<>>
            BY <1>6, <2>1
        <3>3. QED
            BY <1>1, <1>9, <3>1, <3>2
    <2>3. h # last' + 1
        BY <1>2, <1>3, <2>1
    <2>4. h >= last' + 2
        <3>1. h \notin s .. last' /\ last' \in Int
            BY <1>1, <1>3, <2>1
        <3>2. h \in Int /\ h >= s + 1
            BY <1>1, <2>1, <2>2
        <3>3. CASE h <= last'
            <4>1. h \in s .. last'
                BY <1>1, <3>1, <3>2, <3>3
            <4>2. QED
                BY <3>1, <4>1
        <3>4. \A a, b \in Int : ~ (a <= b) /\ a # b + 1 => a >= b + 2
            OBVIOUS
        <3>5. QED
            BY <2>3, <3>1, <3>2, <3>3, <3>4
    <2>5. QED
        BY <1>1, <1>4, <2>1, <2>2, <2>4
<1>12. QED
    BY <1>5, <1>7, <1>8, <1>10, <1>11 DEF WindowInv

LEMMA NextWindowInv == WindowInv /\ [Next]_vars => WindowInv'
<1> USE ReceiveWindowAssumption
<1> SUFFICES ASSUME WindowInv, [Next]_vars PROVE WindowInv'
    OBVIOUS
<1>0. TypeOK
    BY DEF WindowInv
<1>1. CASE ClientSend
    BY <1>0, <1>1 DEF ClientSend, WindowInv, TypeOK, Numbers, ConsecutiveOnceStarted,
                      HeldWaitsForGap
<1>2. ASSUME NEW s \in Numbers, Receive(s) PROVE WindowInv'
    <2>1. CASE Deliver(s)
        BY <1>2, <2>1, DeliverWindowInv DEF Receive
    <2>2. CASE Hold(s)
        <3>1. last >= 0 /\ s >= last + 2 /\ s < sent
            BY <1>0, <1>2, <2>2 DEF Hold, Receipt, Receive, TypeOK, Numbers
        <3>2. handled # <<>>
            BY <1>0, <3>1 DEF WindowInv
        <3>3. QED
            BY <1>0, <2>2, <3>1, <3>2 DEF Hold, WindowInv, TypeOK, Numbers,
               ConsecutiveOnceStarted, HeldWaitsForGap
    <2>3. CASE Duplicate(s)
        BY <1>0, <2>3 DEF Duplicate, WindowInv, TypeOK, Numbers, ConsecutiveOnceStarted,
                          HeldWaitsForGap
    <2>4. QED
        BY <1>2, <2>1, <2>2, <2>3 DEF Receive
<1>3. ASSUME NEW s \in Numbers, ClientAcked(s) \/ LoseAck(s) PROVE WindowInv'
    BY <1>0, <1>3 DEF ClientAcked, LoseAck, WindowInv, TypeOK, Numbers,
                      ConsecutiveOnceStarted, HeldWaitsForGap
<1>4. CASE Kics
    <2>1. handled' = <<>> /\ Len(handled') = 0
        BY <1>4 DEF Kics
    <2>2. TypeOK'
        BY <1>0, <1>4, <2>1 DEF Kics, TypeOK, Numbers
    <2>3. QED
        BY <1>4, <2>1, <2>2 DEF Kics, WindowInv, ConsecutiveOnceStarted, HeldWaitsForGap
<1>5. CASE UNCHANGED vars
    BY <1>0, <1>5 DEF vars, WindowInv, TypeOK, Numbers, ConsecutiveOnceStarted, HeldWaitsForGap
<1>6. QED
    BY <1>1, <1>2, <1>3, <1>4, <1>5 DEF Next

-----------------------------------------------------------------------------
(***************************************************************************)
(* The theorems.                                                           *)
(***************************************************************************)

\* The window's invariant, for any network and any client.
THEOREM WindowInvariant == Spec => []WindowInv
    BY InitWindowInv, NextWindowInv, PTL DEF Spec

\* Type correctness.
THEOREM TypeCorrect == Spec => []TypeOK
<1>1. WindowInv => TypeOK
    BY DEF WindowInv
<1>2. QED
    BY <1>1, WindowInvariant, PTL

\* However packets are reordered, repeated or lost: after the first number
\* accepted, the handlers run for every following number once and in order.
THEOREM NeverSkipsOnceStarted == Spec => []ConsecutiveOnceStarted
<1>1. WindowInv => ConsecutiveOnceStarted
    BY DEF WindowInv
<1>2. QED
    BY <1>1, WindowInvariant, PTL

\* No held datagram that is ready to run is left behind.
THEOREM HeldIsNeverReady == Spec => []HeldWaitsForGap
<1>1. WindowInv => HeldWaitsForGap
    BY DEF WindowInv
<1>2. QED
    BY <1>1, WindowInvariant, PTL

-----------------------------------------------------------------------------
(***************************************************************************)
(* The client that waits for its first ACK.                                *)
(***************************************************************************)

\* Under the invariant the handled numbers are exactly 0 .. last.
LEMMA HandledUpToLast ==
    ASSUME FirstAloneInv
    PROVE  HandledNumbers = 0 .. last
<1>1. last \in Int /\ Len(handled) = last + 1 /\ Len(handled) \in Nat
    BY DEF FirstAloneInv, WindowInv, TypeOK
<1>2. \A i \in 1 .. Len(handled) : handled[i] = i - 1
    BY DEF FirstAloneInv, GapNeverSkipped
<1>3. \A n \in 0 .. last : n + 1 \in 1 .. Len(handled) /\ handled[n + 1] = n
    BY <1>1, <1>2
<1>4. QED
    BY <1>1, <1>2, <1>3 DEF HandledNumbers

LEMMA InitFirstAloneInv == Init => FirstAloneInv
<1> SUFFICES ASSUME Init PROVE FirstAloneInv
    OBVIOUS
<1>1. WindowInv
    BY InitWindowInv
<1>2. handled = <<>> /\ Len(handled) = 0
    BY DEF Init
<1>3. QED
    BY <1>1, <1>2 DEF Init, FirstAloneInv, GapNeverSkipped

\* A delivery continues the numbers 0 .. last: the first number of all is 0,
\* because the client has sent nothing else yet.
LEMMA DeliverFirstAloneInv ==
    ASSUME FirstAloneInv, WindowInv', NEW s \in Numbers, s < sent, Deliver(s)
    PROVE  FirstAloneInv'
<1> USE ReceiveWindowAssumption
<1>1. TypeOK /\ s \in Nat /\ sent \in Nat /\ last \in Int /\ last >= -1
    <2>1. TypeOK
        BY DEF FirstAloneInv, WindowInv
    <2>2. QED
        BY <2>1 DEF TypeOK, Numbers
<1>2. /\ Len(handled) = last + 1
      /\ \A i \in 1 .. Len(handled) : handled[i] = i - 1
      /\ last < 0 => sent <= 1
      /\ acks \subseteq (0 .. last) \cup held
      /\ \A n \in 0 .. sent - 1 : n \notin unacked => n \in (0 .. last) \cup held
    BY DEF FirstAloneInv, GapNeverSkipped
<1>3. /\ Receipt(s) = "deliver"
      /\ held' = held \ (s .. RunEnd(s))
      /\ \E answered \in SUBSET (s .. RunEnd(s)) : acks' = acks \cup answered
      /\ UNCHANGED <<numbering, sent, unacked>>
    BY DEF Deliver
<1>4. /\ Len(handled') = Len(handled) + (last' - s + 1)
      /\ \A i \in 1 .. Len(handled') :
            handled'[i] = IF i <= Len(handled) THEN handled[i]
                                              ELSE s + (i - Len(handled)) - 1
      /\ last' \in s .. MaxSeq
      /\ last' = RunEnd(s)
    BY <1>1, DeliverHistory
<1>5. s = last + 1
    <2>1. CASE last < 0
        BY <1>1, <1>2, <2>1
    <2>2. CASE ~ (last < 0)
        BY <1>3, <2>2 DEF Receipt
    <2>3. QED
        BY <2>1, <2>2
<1>6. Len(handled') = last' + 1 /\ last' \in Nat
    BY <1>1, <1>2, <1>4, <1>5
<1>7. GapNeverSkipped'
    <2> SUFFICES ASSUME NEW i \in 1 .. Len(handled') PROVE handled'[i] = i - 1
        BY DEF GapNeverSkipped
    <2>1. CASE i <= Len(handled)
        <3>1. i \in 1 .. Len(handled)
            BY <1>1, <1>2, <1>6, <2>1
        <3>2. QED
            BY <1>2, <1>4, <2>1, <3>1
    <2>2. CASE ~ (i <= Len(handled))
        <3>1. handled'[i] = s + (i - Len(handled)) - 1
            BY <1>4, <2>2
        <3>2. QED
            BY <1>1, <1>2, <1>5, <1>6, <3>1
    <2>3. QED
        BY <2>1, <2>2
<1>8. (0 .. last) \cup held \subseteq (0 .. last') \cup held'
    <2>1. 0 .. last \subseteq 0 .. last'
        BY <1>1, <1>4, <1>5
    <2>2. s .. RunEnd(s) \subseteq 0 .. last'
        BY <1>1, <1>4
    <2>3. QED
        BY <1>3, <2>1, <2>2
<1>9. acks' \subseteq (0 .. last') \cup held'
    <2>1. PICK answered \in SUBSET (s .. RunEnd(s)) : acks' = acks \cup answered
        BY <1>3
    <2>2. s .. RunEnd(s) \subseteq 0 .. last'
        BY <1>1, <1>4
    <2>3. QED
        BY <1>2, <1>8, <2>1, <2>2
<1>10. \A n \in 0 .. sent' - 1 : n \notin unacked' => n \in (0 .. last') \cup held'
    BY <1>2, <1>3, <1>8
<1>11. QED
    BY <1>6, <1>7, <1>9, <1>10 DEF FirstAloneInv

LEMMA NextFirstAloneInv ==
    ASSUME FirstAlone
    PROVE  FirstAloneInv /\ [Next]_vars => FirstAloneInv'
<1> USE ReceiveWindowAssumption
<1> SUFFICES ASSUME FirstAloneInv, [Next]_vars PROVE FirstAloneInv'
    OBVIOUS
<1>1. WindowInv /\ WindowInv' /\ TypeOK
    BY NextWindowInv DEF FirstAloneInv, WindowInv
<1>2. CASE ClientSend
    <2>1. sent \in Nat /\ sent' = sent + 1 /\ unacked' = unacked \cup {sent}
        BY <1>1, <1>2 DEF ClientSend, TypeOK
    <2>2. UNCHANGED <<last, held, handled, acks>> /\ (sent = 0 \/ 0 \notin unacked)
        BY <1>2 DEF ClientSend
    <2>3. last < 0 => sent = 0
        <3>1. last < 0 => held = {}
            <4>1. Len(handled) = last + 1 /\ last \in -1 .. MaxSeq /\ handled \in Seq(Numbers)
                BY <1>1 DEF TypeOK, FirstAloneInv
            <4>2. last < 0 => handled = <<>>
                BY <4>1
            <4>3. QED
                BY <1>1, <4>2 DEF WindowInv
        <3>2. sent # 0 => 0 \in (0 .. last) \cup held
            BY <2>1, <2>2 DEF FirstAloneInv
        <3>3. QED
            BY <1>1, <3>1, <3>2 DEF TypeOK
    <2>4. \A n \in 0 .. sent' - 1 : n \notin unacked' => n \in 0 .. sent - 1 /\ n \notin unacked
        BY <2>1
    <2>5. QED
        BY <1>1, <2>1, <2>2, <2>3, <2>4 DEF FirstAloneInv, GapNeverSkipped
<1>3. ASSUME NEW s \in Numbers, Receive(s) PROVE FirstAloneInv'
    <2>1. CASE Deliver(s)
        BY <1>1, <1>3, <2>1, DeliverFirstAloneInv DEF Receive
    <2>2. CASE Hold(s)
        BY <1>1, <2>2 DEF Hold, FirstAloneInv, GapNeverSkipped
    <2>3. CASE Duplicate(s)
        <3>1. last \in Int /\ s \in Nat
            BY <1>1 DEF TypeOK, Numbers
        <3>2. s \in (0 .. last) \cup held
            BY <2>3, <3>1 DEF Duplicate, Receipt
        <3>3. QED
            BY <1>1, <2>3, <3>2 DEF Duplicate, FirstAloneInv, GapNeverSkipped
    <2>4. QED
        BY <1>3, <2>1, <2>2, <2>3 DEF Receive
<1>4. ASSUME NEW s \in Numbers, ClientAcked(s) PROVE FirstAloneInv'
    BY <1>1, <1>4 DEF ClientAcked, FirstAloneInv, GapNeverSkipped
<1>5. ASSUME NEW s \in Numbers, LoseAck(s) PROVE FirstAloneInv'
    BY <1>1, <1>5 DEF LoseAck, FirstAloneInv, GapNeverSkipped
<1>6. CASE Kics
    <2>1. handled' = <<>> /\ Len(handled') = 0
        BY <1>6 DEF Kics
    <2>2. QED
        BY <1>1, <1>6, <2>1 DEF Kics, FirstAloneInv, GapNeverSkipped
<1>7. CASE UNCHANGED vars
    BY <1>1, <1>7 DEF vars, FirstAloneInv, GapNeverSkipped
<1>8. QED
    BY <1>2, <1>3, <1>4, <1>5, <1>6, <1>7 DEF Next

\* For a client that sends packet 0 of a numbering alone (core/sessions.py:15-22)
\* the handlers run for 0, 1, 2, ... and every ACK stands for a packet that is
\* handled or held.
THEOREM FirstAloneInvariant == FirstAlone => (Spec => []FirstAloneInv)
<1> SUFFICES ASSUME FirstAlone PROVE Spec => []FirstAloneInv
    OBVIOUS
<1>1. Init => FirstAloneInv
    BY InitFirstAloneInv
<1>2. FirstAloneInv /\ [Next]_vars => FirstAloneInv'
    BY NextFirstAloneInv
<1>3. QED
    BY <1>1, <1>2, PTL DEF Spec

\* A gap is never skipped: the handlers run for 0, 1, 2, ... and nothing else.
THEOREM NeverSkipsAGap == FirstAlone => (Spec => []GapNeverSkipped)
<1>1. FirstAloneInv => GapNeverSkipped
    BY DEF FirstAloneInv
<1>2. QED
    BY <1>1, FirstAloneInvariant, PTL

\* A number the client saw ACKed has been handled or is held.
THEOREM AckIsAPromise == FirstAlone => (Spec => []AckedIsKept)
<1>1. FirstAloneInv => AckedIsKept
    BY HandledUpToLast DEF FirstAloneInv, AckedIsKept
<1>2. QED
    BY <1>1, FirstAloneInvariant, PTL

-----------------------------------------------------------------------------
(***************************************************************************)
(* The refinement.                                                         *)
(***************************************************************************)

\* Under the invariant the history is the abstract one: the first last + 1
\* numbers.
LEMMA HandledIsFirstNumbers ==
    FirstAloneInv => /\ handled = Delivery!FirstNumbers(Len(handled))
                     /\ Len(handled) \in 0 .. sent
<1> SUFFICES ASSUME FirstAloneInv
             PROVE  /\ handled = Delivery!FirstNumbers(Len(handled))
                    /\ Len(handled) \in 0 .. sent
    OBVIOUS
<1>1. handled \in Seq(Numbers) /\ Len(handled) \in Nat
    BY DEF FirstAloneInv, WindowInv, TypeOK
<1>2. handled = [i \in 1 .. Len(handled) |-> handled[i]]
    BY <1>1
<1>3. \A i \in 1 .. Len(handled) : handled[i] = i - 1
    BY DEF FirstAloneInv, GapNeverSkipped
<1>4. Len(handled) \in 0 .. sent
    BY <1>1 DEF FirstAloneInv, WindowInv, TypeOK
<1>5. handled = [i \in 1 .. Len(handled) |-> i - 1]
    BY <1>2, <1>3
<1>6. QED
    BY <1>4, <1>5 DEF Delivery!FirstNumbers

LEMMA HandledIsFirstNumbersNext ==
    FirstAloneInv' => (/\ handled = Delivery!FirstNumbers(Len(handled))
                       /\ Len(handled) \in 0 .. sent)'
    BY HandledIsFirstNumbers, PTL

LEMMA StepRefines ==
    ASSUME FirstAloneInv, FirstAloneInv', [Next]_vars
    PROVE  [Delivery!Next]_(Delivery!vars)
<1> USE DEF Delivery!vars
<1>1. /\ handled' = Delivery!FirstNumbers(Len(handled'))
      /\ Len(handled') \in 0 .. sent'
      /\ Len(handled) \in 0 .. sent
      /\ sent \in Nat
    <2>1. Len(handled) \in 0 .. sent /\ sent \in Nat
        BY HandledIsFirstNumbers DEF FirstAloneInv, WindowInv, TypeOK
    <2>2. handled' = Delivery!FirstNumbers(Len(handled')) /\ Len(handled') \in 0 .. sent'
        BY HandledIsFirstNumbersNext
    <2>3. QED
        BY <2>1, <2>2
<1>2. CASE ClientSend
    BY <1>1, <1>2 DEF ClientSend, Delivery!Next, Delivery!Submit
<1>3. ASSUME NEW s \in Numbers, Receive(s) PROVE [Delivery!Next]_(Delivery!vars)
    <2>1. CASE Deliver(s)
        <3>1. sent' = sent
            BY <2>1 DEF Deliver
        <3>2. Len(handled') \in Len(handled) .. sent
            <4>1. Len(handled') = Len(handled) + (last' - s + 1) /\ last' \in s .. MaxSeq
                BY <2>1, DeliverHistory DEF FirstAloneInv, WindowInv
            <4>2. QED
                BY <1>1, <3>1, <4>1, ReceiveWindowAssumption DEF Numbers
        <3>3. QED
            BY <1>1, <3>1, <3>2 DEF Delivery!Next, Delivery!Deliver
    <2>2. CASE Hold(s) \/ Duplicate(s)
        BY <2>2 DEF Hold, Duplicate
    <2>3. QED
        BY <1>3, <2>1, <2>2 DEF Receive
<1>4. ASSUME NEW s \in Numbers, ClientAcked(s) \/ LoseAck(s)
      PROVE  [Delivery!Next]_(Delivery!vars)
    BY <1>4 DEF ClientAcked, LoseAck
<1>5. CASE Kics
    BY <1>5 DEF Kics, Delivery!Next, Delivery!Restart
<1>6. CASE UNCHANGED vars
    BY <1>6 DEF vars
<1>7. QED
    BY <1>2, <1>3, <1>4, <1>5, <1>6 DEF Next

\* The receive window implements in-order delivery, exactly once.
THEOREM WindowImplementsDelivery == FirstAlone => (Spec => DeliverySpec)
<1>1. Init => Delivery!Init
    BY DEF Init, Delivery!Init
<1>2. FirstAloneInv /\ FirstAloneInv' /\ [Next]_vars => [Delivery!Next]_(Delivery!vars)
    BY StepRefines
<1>3. QED
    BY <1>1, <1>2, FirstAloneInvariant, PTL DEF Spec, DeliverySpec, Delivery!Spec
=============================================================================
