--------------------------- MODULE SendWindowProofs ---------------------------
(***************************************************************************)
(* Proofs about SendWindow: no reliable number of a live session is lost,  *)
(* the client's receive window is never overrun, deferred packets wait for *)
(* room only, and the window implements ReliableDelivery.  Everything      *)
(* holds for every Window, MaxSeq, Burst and MaxRestarts.                  *)
(***************************************************************************)
EXTENDS SendWindow, SequenceTheorems, WellFoundedInduction, TLAPS

-----------------------------------------------------------------------------
(***************************************************************************)
(* Sequences of consecutive numbers.                                       *)
(***************************************************************************)

\* The run of stored packets that one arrival lets the client hand on.
LEMMA RunEndProperties ==
    ASSUME NEW s \in Numbers, stored \subseteq Numbers
    PROVE  /\ RunEnd(s) \in s .. MaxSeq
           /\ (s + 1) .. RunEnd(s) \subseteq stored
           /\ RunEnd(s) + 1 \notin stored
<1> DEFINE Stops == {e \in s .. MaxSeq : e + 1 \notin stored}
<1>1. Stops \subseteq Nat /\ MaxSeq \in Stops
    BY SendWindowAssumption DEF Numbers
<1>2. PICK e \in Stops : \A d \in Stops : ~ (<<d, e>> \in OpToRel(<, Nat))
    BY <1>1, NatLessThanWellFounded, WFMin
<1>3. \A d \in Stops : ~ (d < e)
    BY <1>1, <1>2 DEF OpToRel
<1>4. (s + 1) .. e \subseteq stored
    <2> SUFFICES ASSUME NEW k \in (s + 1) .. e, k \notin stored PROVE FALSE
        OBVIOUS
    <2>1. k - 1 \in Stops
        BY <1>1 DEF Numbers
    <2>2. QED
        BY <1>1, <1>3, <2>1
<1>5. QED
    BY <1>1, <1>4 DEF RunEnd

\* The deferred packets and k new ones are the numbers from Launched on.
LEMMA QueueIsConsecutive ==
    ASSUME SendInv, NEW k \in Nat, requestNumber + k <= MaxSeq + 1,
           NEW queue, queue = deferred \o Allocate(k)
    PROVE  /\ queue \in Seq(Numbers)
           /\ Len(queue) = Len(deferred) + k
           /\ Len(deferred) \in Nat
           /\ Launched \in Nat
           /\ \A i \in 1 .. Len(queue) : queue[i] = Launched + i - 1
<1> USE SendWindowAssumption
<1>1. /\ deferred \in Seq(Numbers) /\ Len(deferred) \in Nat
      /\ requestNumber \in Nat
      /\ \A i \in 1 .. Len(deferred) : deferred[i] = Launched + i - 1
      /\ Launched >= 0
    <2>1. TypeOK /\ DeferredInOrder /\ Expected <= Launched
        BY DEF SendInv
    <2>2. Expected \in Nat
        BY <2>1 DEF TypeOK, Expected
    <2>3. QED
        BY <2>1, <2>2 DEF TypeOK, DeferredInOrder, Numbers, Launched
<1>2. Launched \in Nat /\ requestNumber = Launched + Len(deferred)
    BY <1>1 DEF Launched
<1> DEFINE new == Allocate(k)
<1>3. new \in Seq(Numbers) /\ Len(new) = k /\ \A i \in 1 .. k : new[i] = requestNumber + i - 1
    BY <1>1 DEF Allocate, Numbers
<1> HIDE DEF new
<1>4. /\ queue \in Seq(Numbers)
      /\ Len(queue) = Len(deferred) + k
      /\ \A i \in 1 .. Len(deferred) + k :
            queue[i] = IF i <= Len(deferred) THEN deferred[i] ELSE new[i - Len(deferred)]
    <2>1. queue = deferred \o new
        BY DEF new
    <2>2. QED
        BY <1>1, <1>3, <2>1, ConcatProperties
<1>5. ASSUME NEW i \in 1 .. Len(queue) PROVE queue[i] = Launched + i - 1
    <2>1. CASE i <= Len(deferred)
        BY <1>1, <1>4, <2>1
    <2>2. CASE ~ (i <= Len(deferred))
        <3>1. i - Len(deferred) \in 1 .. k
            BY <1>1, <1>4, <2>2
        <3>2. QED
            BY <1>1, <1>2, <1>3, <1>4, <2>2, <3>1
    <2>3. QED
        BY <2>1, <2>2
<1>6. QED
    BY <1>1, <1>2, <1>4, <1>5

\* n of the deferred and the k new packets are launched behind p, each within
\* the window, and the rest is deferred.
Launches(p, k, n) ==
    /\ n <= Len(deferred) + k
    /\ pending' = p \cup (Launched .. Launched + n - 1)
    /\ wire' = wire \cup (Launched .. Launched + n - 1)
    /\ \A b \in Launched .. Launched + n - 1 :
          \A a \in p \cup (Launched .. b - 1) : b - a < Window
    /\ deferred' \in Seq(Numbers)
    /\ Len(deferred') = Len(deferred) + k - n
    /\ \A i \in 1 .. Len(deferred') : deferred'[i] = Launched + n + i - 1
    /\ requestNumber' = requestNumber + k
    /\ Launched' = Launched + n

\* What _send_messages does with them: it launches the next n numbers, each
\* within the window, and defers the rest.
LEMMA SendMessagesProperties ==
    ASSUME SendInv, NEW p \in SUBSET pending, NEW k \in Nat,
           requestNumber + k <= MaxSeq + 1, SendMessages(p, k)
    PROVE  \E n \in Nat : Launches(p, k, n)
<1> USE SendWindowAssumption
<1> DEFINE queue == deferred \o Allocate(k)
<1>1. /\ queue \in Seq(Numbers)
      /\ Len(queue) = Len(deferred) + k
      /\ Len(deferred) \in Nat
      /\ Launched \in Nat
      /\ \A i \in 1 .. Len(queue) : queue[i] = Launched + i - 1
    BY QueueIsConsecutive
<1>2. PICK n \in 0 .. Len(queue) :
            /\ \A i \in 1 .. n : HasRoom(p \cup Prefix(queue, i - 1), queue[i])
            /\ pending' = p \cup Prefix(queue, n)
            /\ wire' = wire \cup Prefix(queue, n)
            /\ deferred' = SubSeq(queue, n + 1, Len(queue))
            /\ requestNumber' = requestNumber + k
    BY DEF SendMessages
<1> HIDE DEF queue
<1>3. ASSUME NEW m \in 0 .. Len(queue) PROVE Prefix(queue, m) = Launched .. Launched + m - 1
    <2>1. \A i \in 1 .. m : queue[i] = Launched + i - 1
        BY <1>1
    <2>2. \A b \in Launched .. Launched + m - 1 : b - Launched + 1 \in 1 .. m /\ queue[b - Launched + 1] = b
        BY <1>1, <2>1
    <2>3. Launched \in Nat /\ m \in Nat
        BY <1>1
    <2>4. Prefix(queue, m) \subseteq Launched .. Launched + m - 1
        <3> SUFFICES ASSUME NEW i \in 1 .. m PROVE queue[i] \in Launched .. Launched + m - 1
            BY DEF Prefix
        <3>1. QED
            BY <2>1, <2>3
    <2>5. Launched .. Launched + m - 1 \subseteq Prefix(queue, m)
        BY <2>2 DEF Prefix
    <2>6. QED
        BY <2>4, <2>5
<1>4. ASSUME NEW b \in Launched .. Launched + n - 1
      PROVE  \A a \in p \cup (Launched .. b - 1) : b - a < Window
    <2> DEFINE i == b - Launched + 1
    <2>1. i \in 1 .. n /\ i - 1 \in 0 .. Len(queue) /\ queue[i] = b /\ Launched + (i - 1) - 1 = b - 1
        BY <1>1
    <2>2. HasRoom(p \cup Prefix(queue, i - 1), queue[i])
        BY <1>2, <2>1
    <2>3. Prefix(queue, i - 1) = Launched .. b - 1
        BY <1>3, <2>1
    <2>4. QED
        BY <2>1, <2>2, <2>3 DEF HasRoom
<1>5. /\ deferred' \in Seq(Numbers)
      /\ Len(deferred') = Len(deferred) + k - n
      /\ \A i \in 1 .. Len(deferred') : deferred'[i] = Launched + n + i - 1
    <2>1. n + 1 \in 1 .. Len(queue) + 1 /\ Len(queue) \in n .. Len(queue)
        BY <1>1
    <2>2. /\ SubSeq(queue, n + 1, Len(queue)) \in Seq(Numbers)
          /\ Len(SubSeq(queue, n + 1, Len(queue))) = Len(queue) - n
          /\ \A i \in 1 .. Len(queue) - n : SubSeq(queue, n + 1, Len(queue))[i] = queue[n + i]
        BY <1>1, <2>1
    <2>3. \A i \in 1 .. Len(queue) - n : queue[n + i] = Launched + n + i - 1
        BY <1>1
    <2>4. QED
        BY <1>1, <1>2, <2>2, <2>3
<1>6. Launched' = Launched + n
    <2>1. requestNumber \in Nat
        BY DEF SendInv, TypeOK
    <2>2. /\ requestNumber' = requestNumber + k
          /\ Len(deferred') = Len(deferred) + k - n
          /\ Len(deferred) \in Nat
          /\ n \in Nat
        BY <1>1, <1>2, <1>5
    <2>3. QED
        BY <2>1, <2>2 DEF Launched
<1>7. n \in Nat /\ n <= Len(deferred) + k /\ n \in 0 .. Len(queue)
    BY <1>1
<1>8. /\ pending' = p \cup (Launched .. Launched + n - 1)
      /\ wire' = wire \cup (Launched .. Launched + n - 1)
    BY <1>2, <1>3, <1>7
<1>9. WITNESS n \in Nat
<1>10. QED
    BY <1>2, <1>4, <1>5, <1>6, <1>7, <1>8 DEF Launches

-----------------------------------------------------------------------------
(***************************************************************************)
(* The invariant.                                                          *)
(***************************************************************************)

LEMMA InitSendInv == Init => SendInv
<1> USE SendWindowAssumption
<1> SUFFICES ASSUME Init PROVE SendInv
    OBVIOUS
<1>1. Len(deferred) = 0 /\ Expected = 0 /\ Launched = 0
    <2>1. Len(deferred) = 0 /\ Len(delivered) = 0 /\ requestNumber = 0
        BY DEF Init
    <2>2. QED
        BY <2>1 DEF Expected, Launched
<1>2. TypeOK
    BY DEF Init, TypeOK, Numbers
<1>3. QED
    BY <1>1, <1>2 DEF Init, SendInv, DeferredInOrder, NeverBuried

\* Sending keeps the invariant: p is in flight, and what is not any more has
\* been received.  The one number the client waits for, if it was launched,
\* is still in flight, so the window check bounds every new number by it.
LEMMA SendKeepsInv ==
    ASSUME SendInv, NEW p \in SUBSET pending, pending \ p \subseteq Received,
           NEW k \in Nat, requestNumber + k <= MaxSeq + 1, ~alive => k = 0,
           SendMessages(p, k),
           UNCHANGED <<numbering, alive, client>>, acks' \subseteq acks
    PROVE  SendInv'
<1> USE SendWindowAssumption
<1>0. PICK n \in Nat : Launches(p, k, n)
    BY SendMessagesProperties
<1>1. /\ n <= Len(deferred) + k
      /\ pending' = p \cup (Launched .. Launched + n - 1)
      /\ wire' = wire \cup (Launched .. Launched + n - 1)
      /\ \A b \in Launched .. Launched + n - 1 : \A a \in p \cup (Launched .. b - 1) : b - a < Window
      /\ deferred' \in Seq(Numbers)
      /\ Len(deferred') = Len(deferred) + k - n
      /\ \A i \in 1 .. Len(deferred') : deferred'[i] = Launched + n + i - 1
      /\ requestNumber' = requestNumber + k
      /\ Launched' = Launched + n
    BY <1>0 DEF Launches
<1>2. /\ TypeOK
      /\ Len(deferred) \in Nat /\ requestNumber \in Nat
      /\ requestNumber = Launched + Len(deferred)
      /\ Expected \in Nat /\ Expected <= Launched /\ Launched \in Nat
    <2>1. TypeOK /\ Expected <= Launched
        BY DEF SendInv
    <2>2. Len(deferred) \in Nat /\ requestNumber \in Nat /\ Expected \in Nat
        BY <2>1 DEF TypeOK, Expected
    <2>3. requestNumber = Launched + Len(deferred) /\ Launched \in Int
        BY <2>2 DEF Launched
    <2>4. QED
        BY <2>1, <2>2, <2>3
<1>3. Expected' = Expected /\ Received' = Received /\ stored' = stored /\ delivered' = delivered
    BY DEF client, Expected, Received
<1>4. Launched .. Launched + n - 1 \subseteq Numbers
    BY <1>1, <1>2 DEF Numbers
<1>5. TypeOK'
    <2>1. requestNumber' \in 0 .. MaxSeq + 1
        BY <1>1, <1>2
    <2>2. pending' \subseteq Numbers /\ wire' \subseteq Numbers
        BY <1>1, <1>2, <1>4 DEF TypeOK
    <2>3. QED
        BY <1>1, <1>2, <1>3, <2>1, <2>2 DEF TypeOK
<1>6. DeferredInOrder'
    <2>1. \A s \in pending \cup wire : s < Launched /\ s \in Int
        BY <1>2 DEF SendInv, DeferredInOrder, TypeOK, Numbers
    <2>2. \A s \in pending' \cup wire' : s < Launched + n
        BY <1>1, <1>2, <2>1
    <2>3. QED
        BY <1>1, <2>2 DEF DeferredInOrder
<1>7. ASSUME NEW a \in pending', NEW b \in pending' PROVE b - a < Window
    <2>1. \A s \in pending : s \in Int /\ s < Launched
        BY <1>2 DEF SendInv, DeferredInOrder, TypeOK, Numbers
    <2>2. CASE b \in p
        <3>1. CASE a \in p
            BY <2>2, <3>1 DEF SendInv
        <3>2. CASE a \in Launched .. Launched + n - 1
            BY <1>2, <2>1, <2>2, <3>2
        <3>3. QED
            BY <1>1, <3>1, <3>2
    <2>3. CASE b \in Launched .. Launched + n - 1
        <3>1. CASE a \in p \cup (Launched .. b - 1)
            BY <1>1, <2>3, <3>1
        <3>2. CASE a \in Launched .. Launched + n - 1 /\ a >= b
            BY <1>2, <2>3, <3>2
        <3>3. QED
            BY <1>1, <1>2, <2>3, <3>1, <3>2
    <2>4. QED
        BY <1>1, <2>2, <2>3
<1>8. n > 0 \/ deferred' # <<>> => alive \/ deferred # <<>>
    <2>1. n > 0 \/ deferred' # <<>> => Len(deferred) + k > 0
        BY <1>1, <1>2
    <2>2. deferred = <<>> => Len(deferred) = 0
        OBVIOUS
    <2>3. QED
        BY <1>2, <2>1, <2>2
<1>9. alive \/ deferred # <<>> => \A s \in 0 .. Launched - 1 : s \in Received \/ s \in p
    BY DEF SendInv
<1>10. (alive' \/ deferred' # <<>>) => \A s \in 0 .. Launched' - 1 : s \in Received' \/ s \in pending'
    <2> SUFFICES ASSUME alive' \/ deferred' # <<>>, NEW s \in 0 .. Launched' - 1
                 PROVE  s \in Received \/ s \in pending'
        BY <1>3
    <2>1. s \in 0 .. Launched - 1 \/ s \in Launched .. Launched + n - 1
        BY <1>1, <1>2
    <2>2. QED
        BY <1>1, <1>8, <1>9, <2>1
<1>11. NeverBuried'
    <2> SUFFICES ASSUME NEW s \in wire' PROVE s < Expected + Window
        BY <1>3 DEF NeverBuried
    <2>1. CASE s \in wire
        BY <2>1 DEF SendInv, NeverBuried
    <2>2. CASE s \in Launched .. Launched + n - 1
        <3>1. Expected \in p \cup (Launched .. s - 1) \/ Expected = s
            <4>1. CASE Expected < Launched
                <5>1. Expected \notin Received
                    BY <1>2 DEF SendInv, Received
                <5>2. Expected \in p
                    BY <1>2, <1>8, <1>9, <2>2, <4>1, <5>1
                <5>3. QED
                    BY <5>2
            <4>2. CASE Expected = Launched
                BY <1>2, <2>2, <4>2
            <4>3. QED
                BY <1>2, <4>1, <4>2
        <3>2. CASE Expected = s
            BY <1>2, <3>2
        <3>3. CASE Expected \in p \cup (Launched .. s - 1)
            <4>1. s - Expected < Window
                BY <1>1, <2>2, <3>3
            <4>2. QED
                BY <1>2, <2>2, <4>1
        <3>4. QED
            BY <3>1, <3>2, <3>3
    <2>3. QED
        BY <1>1, <2>1, <2>2
<1>12. Expected' <= Launched' /\ stored' \subseteq 0 .. Launched' - 1 /\ Expected' \notin stored'
    <2>1. stored \subseteq 0 .. Launched - 1 /\ Expected \notin stored
        BY DEF SendInv
    <2>2. 0 .. Launched - 1 \subseteq 0 .. Launched + n - 1
        BY <1>2
    <2>3. QED
        BY <1>1, <1>2, <1>3, <2>1, <2>2
<1>13. acks' \subseteq Received' /\ \A i \in 1 .. Expected' : delivered'[i] = i - 1
    BY <1>3 DEF SendInv
<1>14. QED
    BY <1>5, <1>6, <1>7, <1>10, <1>11, <1>12, <1>13 DEF SendInv

\* What handing on a run does to the client's history.
LEMMA HandOnHistory ==
    ASSUME TypeOK, NEW s \in Numbers, s = Expected,
           delivered' = delivered \o [i \in 1 .. (RunEnd(s) - s + 1) |-> s + i - 1],
           \A i \in 1 .. Expected : delivered[i] = i - 1
    PROVE  /\ delivered' \in Seq(Numbers)
           /\ Expected' = RunEnd(s) + 1
           /\ \A i \in 1 .. Expected' : delivered'[i] = i - 1
<1> DEFINE k == RunEnd(s) - s + 1
           run == [i \in 1 .. k |-> s + i - 1]
<1>1. RunEnd(s) \in s .. MaxSeq
    BY RunEndProperties DEF TypeOK
<1>2. k \in Nat /\ s \in Nat
    BY <1>1 DEF Numbers
<1>3. \A i \in 1 .. k : s + i - 1 \in Numbers
    BY <1>1, SendWindowAssumption DEF Numbers
<1>4. run \in Seq(Numbers) /\ Len(run) = k /\ \A i \in 1 .. k : run[i] = s + i - 1
    BY <1>2, <1>3
<1>5. delivered \in Seq(Numbers) /\ Len(delivered) = s
    BY DEF TypeOK, Expected
<1>6. delivered' = delivered \o run
    OBVIOUS
<1> HIDE DEF run, k
<1>7. /\ delivered' \in Seq(Numbers)
      /\ Len(delivered') = s + k
      /\ \A i \in 1 .. s + k :
            delivered'[i] = IF i <= s THEN delivered[i] ELSE run[i - s]
    <2>1. /\ delivered' \in Seq(Numbers)
          /\ Len(delivered') = Len(delivered) + Len(run)
          /\ \A i \in 1 .. Len(delivered) + Len(run) :
                delivered'[i] = IF i <= Len(delivered) THEN delivered[i]
                                                      ELSE run[i - Len(delivered)]
        <3>1. run \in Seq(Numbers) /\ delivered \in Seq(Numbers)
            BY <1>4, <1>5
        <3>2. /\ delivered \o run \in Seq(Numbers)
              /\ Len(delivered \o run) = Len(delivered) + Len(run)
              /\ \A i \in 1 .. Len(delivered) + Len(run) :
                    (delivered \o run)[i] = IF i <= Len(delivered)
                                            THEN delivered[i] ELSE run[i - Len(delivered)]
            BY <3>1, ConcatProperties
        <3>3. QED
            BY <1>6, <3>2
    <2>2. QED
        BY <1>4, <1>5, <2>1
<1>8. Expected' = RunEnd(s) + 1 /\ Expected' = s + k
    <2>1. k = RunEnd(s) - s + 1
        BY DEF k
    <2>2. QED
        BY <1>1, <1>2, <1>7, <2>1 DEF Expected
<1>9. ASSUME NEW i \in 1 .. s + k PROVE delivered'[i] = i - 1
    <2>1. CASE i <= s
        <3>1. i \in 1 .. Expected
            BY <1>2, <2>1
        <3>2. delivered'[i] = delivered[i]
            BY <1>7, <2>1
        <3>3. QED
            BY <3>1, <3>2
    <2>2. CASE ~ (i <= s)
        <3>1. i - s \in 1 .. k
            BY <1>2, <2>2
        <3>2. delivered'[i] = run[i - s]
            BY <1>7, <2>2
        <3>3. run[i - s] = s + (i - s) - 1
            BY <1>4, <3>1
        <3>4. s + (i - s) - 1 = i - 1
            BY <1>2
        <3>5. QED
            BY <3>2, <3>3, <3>4
    <2>3. QED
        BY <2>1, <2>2
<1>10. QED
    BY <1>7, <1>8, <1>9

\* What the client has received only grows, so nothing in flight is owed to
\* it that was not before.
LEMMA ReceiveKeepsInv ==
    ASSUME SendInv, NEW s \in Numbers, ClientReceive(s)
    PROVE  SendInv'
<1> USE SendWindowAssumption
<1>1. /\ TypeOK
      /\ s \in wire /\ s \in Nat
      /\ wire' \subseteq wire
      /\ UNCHANGED <<numbering, alive, requestNumber, pending, deferred>>
      /\ Launched' = Launched
    BY DEF SendInv, ClientReceive, server, Numbers, Launched
<1>2. /\ Expected \in Nat /\ Launched \in Int
      /\ Expected <= Launched
      /\ s < Launched
      /\ stored \subseteq 0 .. Launched - 1
      /\ Expected \notin stored
      /\ acks \subseteq Received
    <2>1. Expected \in Nat /\ Launched \in Int
        BY <1>1 DEF TypeOK, Expected, Launched
    <2>2. QED
        BY <1>1, <2>1 DEF SendInv, DeferredInOrder
<1>3. /\ stored' \subseteq Numbers /\ delivered' \in Seq(Numbers)
      /\ Expected' \in Nat /\ Expected' >= Expected
      /\ Received \subseteq Received'
      /\ Expected' <= Launched
      /\ stored' \subseteq 0 .. Launched - 1
      /\ Expected' \notin stored'
      /\ acks' \subseteq Received'
      /\ acks' \subseteq Numbers
      /\ \A i \in 1 .. Expected' : delivered'[i] = i - 1
    <2>1. CASE s \in Received /\ acks' = acks \cup {s} /\ UNCHANGED client
        <3>1. Expected' = Expected /\ Received' = Received /\ stored' = stored /\ delivered' = delivered
            BY <2>1 DEF client, Expected, Received
        <3>2. QED
            BY <1>1, <1>2, <2>1, <3>1 DEF SendInv, TypeOK
    <2>2. CASE /\ s = Expected
               /\ delivered' = delivered \o [i \in 1 .. (RunEnd(s) - s + 1) |-> s + i - 1]
               /\ stored' = stored \ (s .. RunEnd(s))
               /\ acks' = acks \cup {s}
        <3>1. /\ RunEnd(s) \in s .. MaxSeq
              /\ (s + 1) .. RunEnd(s) \subseteq stored
              /\ RunEnd(s) + 1 \notin stored
            BY <1>1, RunEndProperties DEF TypeOK
        <3>2. /\ delivered' \in Seq(Numbers)
              /\ Expected' = RunEnd(s) + 1
              /\ \A i \in 1 .. Expected' : delivered'[i] = i - 1
            BY <1>1, <2>2, HandOnHistory DEF SendInv
        <3>3. RunEnd(s) < Launched
            <4>1. CASE RunEnd(s) = s
                BY <1>2, <4>1
            <4>2. CASE RunEnd(s) # s
                <5>1. RunEnd(s) \in stored
                    BY <1>1, <3>1, <4>2
                <5>2. RunEnd(s) \in 0 .. Launched - 1
                    BY <1>2, <5>1
                <5>3. Launched \in Int
                    BY <1>2
                <5>4. QED
                    BY <5>2, <5>3
            <4>3. QED
                BY <4>1, <4>2
        <3>4. Received \subseteq Received' /\ s \in Received'
            <4>1. 0 .. Expected - 1 \subseteq 0 .. Expected' - 1 /\ s .. RunEnd(s) \subseteq 0 .. Expected' - 1
                BY <1>1, <1>2, <2>2, <3>1, <3>2
            <4>2. s \in s .. RunEnd(s)
                BY <1>1, <3>1
            <4>3. QED
                BY <2>2, <4>1, <4>2 DEF Received
        <3>5. Expected' \in Nat /\ Expected' >= Expected /\ Expected' <= Launched
            BY <1>1, <1>2, <2>2, <3>1, <3>2, <3>3
        <3>6. stored' \subseteq stored /\ Expected' \notin stored'
            BY <2>2, <3>1, <3>2
        <3>7. QED
            BY <1>1, <1>2, <2>2, <3>2, <3>4, <3>5, <3>6 DEF TypeOK
    <2>3. CASE /\ s \in (Expected + 1 .. Expected + Window - 1) \ stored
               /\ stored' = stored \cup {s}
               /\ acks' = acks \cup {s}
               /\ UNCHANGED delivered
        <3>1. Expected' = Expected /\ Received' = Received \cup {s}
            BY <2>3 DEF Expected, Received
        <3>2. QED
            BY <1>1, <1>2, <2>3, <3>1 DEF SendInv, TypeOK
    <2>4. CASE UNCHANGED <<client, acks>>
        <3>1. Expected' = Expected /\ Received' = Received /\ stored' = stored /\ delivered' = delivered
            BY <2>4 DEF client, Expected, Received
        <3>2. QED
            BY <1>1, <1>2, <2>4, <3>1 DEF SendInv, TypeOK
    <2>5. QED
        BY <2>1, <2>2, <2>3, <2>4 DEF ClientReceive
<1>4. TypeOK'
    BY <1>1, <1>3 DEF TypeOK
<1>5. DeferredInOrder'
    BY <1>1 DEF SendInv, DeferredInOrder
<1>6. NeverBuried'
    <2> SUFFICES ASSUME NEW w \in wire' PROVE w < Expected' + Window
        BY DEF NeverBuried
    <2>1. w \in Int /\ w < Expected + Window
        BY <1>1 DEF SendInv, NeverBuried, TypeOK, Numbers
    <2>2. Expected \in Int /\ Expected' \in Int /\ Expected' >= Expected
        BY <1>2, <1>3
    <2>3. \A a, b, c, d \in Int : a < b + d /\ c >= b => a < c + d
        OBVIOUS
    <2>4. Window \in Int
        OBVIOUS
    <2>5. QED
        BY <2>1, <2>2, <2>3, <2>4
<1>7. \A a, b \in pending' : b - a < Window
    BY <1>1 DEF SendInv
<1>8. (alive' \/ deferred' # <<>>) =>
            \A n \in 0 .. Launched' - 1 : n \in Received' \/ n \in pending'
    BY <1>1, <1>3 DEF SendInv
<1>9. QED
    BY <1>1, <1>3, <1>4, <1>5, <1>6, <1>7, <1>8 DEF SendInv

LEMMA NextSendInv == SendInv /\ [Next]_vars => SendInv'
<1> USE SendWindowAssumption
<1> SUFFICES ASSUME SendInv, [Next]_vars PROVE SendInv'
    OBVIOUS
<1>0. TypeOK
    BY DEF SendInv
<1>00. Expected \in Nat /\ requestNumber \in Nat /\ Len(deferred) \in Nat /\ Launched \in Int
    <2>1. delivered \in Seq(Numbers) /\ deferred \in Seq(Numbers) /\ requestNumber \in Nat
        BY <1>0 DEF TypeOK
    <2>2. Len(delivered) \in Nat /\ Len(deferred) \in Nat
        BY <2>1
    <2>3. QED
        BY <2>1, <2>2 DEF Expected, Launched
<1>1. CASE Serve
    <2>1. PICK k \in Outputs : SendMessages(pending, k)
        BY <1>1 DEF Serve
    <2>2. k \in Nat /\ requestNumber + k <= MaxSeq + 1 /\ (~alive => k = 0)
        BY DEF Outputs
    <2>3. UNCHANGED <<numbering, alive, client>> /\ acks' \subseteq acks
        BY <1>1 DEF Serve
    <2>4. pending \in SUBSET pending /\ pending \ pending \subseteq Received
        OBVIOUS
    <2>5. QED
        BY <2>1, <2>2, <2>3, <2>4, SendKeepsInv
<1>2. ASSUME NEW s \in Numbers, ServeAck(s) PROVE SendInv'
    <2>1. PICK k \in Outputs : SendMessages(pending \ {s}, k)
        BY <1>2 DEF ServeAck
    <2>2. k \in Nat /\ requestNumber + k <= MaxSeq + 1 /\ (~alive => k = 0)
        BY DEF Outputs
    <2>3. UNCHANGED <<numbering, alive, client>> /\ acks' \subseteq acks
        BY <1>2 DEF ServeAck
    <2>4. pending \ {s} \in SUBSET pending /\ pending \ (pending \ {s}) \subseteq Received
        BY <1>2 DEF ServeAck, SendInv
    <2>5. QED
        BY <2>1, <2>2, <2>3, <2>4, SendKeepsInv
<1>3. ASSUME NEW s \in Numbers, Resend(s) PROVE SendInv'
    <2>1. /\ alive /\ s \in pending
          /\ wire' = wire \cup {s}
          /\ UNCHANGED <<numbering, alive, requestNumber, pending, deferred, stored, delivered, acks>>
        BY <1>3 DEF Resend, server, client
    <2>2. Expected' = Expected /\ Received' = Received /\ Launched' = Launched
        BY <2>1 DEF Expected, Received, Launched
    <2>3. s < Expected + Window
        <3>1. s \in Int /\ s < Launched /\ Expected \in Nat /\ Launched \in Int /\ Expected <= Launched
            BY <1>0, <2>1 DEF SendInv, DeferredInOrder, TypeOK, Numbers, Expected, Launched
        <3>2. CASE s \in Received
            <4>1. s \in wire \/ s < Expected \/ s \in stored
                BY <3>1, <3>2 DEF Received
            <4>2. CASE Expected < Launched
                <5>1. Expected \notin Received
                    BY <3>1 DEF SendInv, Received
                <5>2. Expected \in 0 .. Launched - 1
                    BY <3>1, <4>2
                <5>3. Expected \in pending
                    BY <2>1, <5>1, <5>2 DEF SendInv
                <5>4. s - Expected < Window
                    BY <2>1, <5>3 DEF SendInv
                <5>5. QED
                    BY <3>1, <5>4
            <4>3. CASE Expected >= Launched
                BY <3>1, <4>3
            <4>4. QED
                BY <3>1, <4>2, <4>3
        <3>3. CASE s \notin Received
            <4>1. Expected \notin Received /\ (Expected = s \/ Expected < s)
                <5>1. s \in Nat /\ s \notin 0 .. Expected - 1
                    BY <1>0, <2>1, <3>3 DEF Received, TypeOK, Numbers
                <5>2. Expected \notin 0 .. Expected - 1 /\ Expected \notin stored
                    BY <3>1 DEF SendInv
                <5>3. QED
                    BY <3>1, <5>1, <5>2 DEF Received
            <4>2. CASE Expected < s
                <5>1. Expected \in 0 .. Launched - 1
                    BY <3>1, <4>2
                <5>2. Expected \in pending
                    BY <2>1, <4>1, <5>1 DEF SendInv
                <5>3. s - Expected < Window
                    BY <2>1, <5>2 DEF SendInv
                <5>4. QED
                    BY <3>1, <5>3
            <4>3. QED
                BY <3>1, <4>1, <4>2
        <3>4. QED
            BY <3>2, <3>3
    <2>4. NeverBuried'
        BY <2>1, <2>2, <2>3 DEF SendInv, NeverBuried
    <2>5. TypeOK' /\ DeferredInOrder'
        BY <1>0, <2>1, <2>2 DEF SendInv, TypeOK, DeferredInOrder
    <2>6. QED
        BY <2>1, <2>2, <2>4, <2>5 DEF SendInv
<1>4. CASE Timeout \/ DropMissing
    <2>1. /\ alive' = FALSE /\ pending' = {} /\ deferred' = <<>>
          /\ UNCHANGED <<numbering, requestNumber, wire, stored, delivered, acks>>
        BY <1>4 DEF Timeout, DropMissing, client
    <2>2. Expected' = Expected /\ Received' = Received
        BY <2>1 DEF Expected, Received
    <2>3. Launched' >= Launched /\ Launched \in Int /\ Launched' \in Int /\ Len(deferred') = 0
        <3>1. Len(deferred') = 0
            BY <2>1
        <3>2. QED
            BY <1>00, <2>1, <3>1 DEF Launched
    <2>5. TypeOK'
        <3>1. <<>> \in Seq(Numbers)
            OBVIOUS
        <3>2. deferred' = <<>> /\ alive' = FALSE /\ pending' = {}
            BY <2>1
        <3>3. UNCHANGED <<numbering, requestNumber, wire, stored, delivered, acks>>
            BY <2>1
        <3>4. QED
            BY <1>0, <3>1, <3>2, <3>3 DEF TypeOK
    <2>6. DeferredInOrder'
        <3>1. \A w \in wire : w \in Int /\ w < Launched
            BY <1>0 DEF TypeOK, Numbers, SendInv, DeferredInOrder
        <3>2. \A w \in wire : w < Launched'
            BY <2>3, <3>1
        <3>3. QED
            BY <2>1, <2>3, <3>2 DEF DeferredInOrder
    <2>7. Expected <= Launched' /\ stored \subseteq 0 .. Launched' - 1
        <3>1. Expected <= Launched /\ stored \subseteq 0 .. Launched - 1
            BY DEF SendInv
        <3>2. \A a, b, n \in Int : b >= a /\ n <= a => n <= b
            OBVIOUS
        <3>3. Expected \in Int
            BY <1>00
        <3>4. \A a, b \in Int : b >= a => 0 .. a - 1 \subseteq 0 .. b - 1
            OBVIOUS
        <3>5. 0 .. Launched - 1 \subseteq 0 .. Launched' - 1
            BY <2>3, <3>4
        <3>6. Expected <= Launched'
            BY <2>3, <3>1, <3>2, <3>3
        <3>7. QED
            BY <3>1, <3>5, <3>6
    <2>8. NeverBuried'
        BY <2>1, <2>2 DEF SendInv, NeverBuried
    <2>9. QED
        BY <2>1, <2>2, <2>5, <2>6, <2>7, <2>8 DEF SendInv
<1>5. CASE EndSession
    <2>1. /\ alive' = FALSE
          /\ UNCHANGED <<numbering, requestNumber, pending, deferred, wire, stored, delivered, acks>>
          /\ Expected' = Expected /\ Received' = Received /\ Launched' = Launched
        BY <1>5 DEF EndSession, client, Expected, Received, Launched
    <2>2. TypeOK' /\ DeferredInOrder' /\ NeverBuried'
        BY <1>0, <2>1 DEF SendInv, TypeOK, DeferredInOrder, NeverBuried
    <2>3. QED
        BY <1>5, <2>1, <2>2 DEF SendInv, EndSession
<1>6. CASE Kics
    <2>1. Len(deferred') = 0 /\ Len(delivered') = 0 /\ requestNumber' = 0
        BY <1>6 DEF Kics
    <2>2. Expected' = 0 /\ Launched' = 0
        BY <2>1 DEF Expected, Launched
    <2>3. TypeOK'
        BY <1>0, <1>6 DEF Kics, TypeOK, Numbers
    <2>4. QED
        BY <1>6, <2>1, <2>2, <2>3 DEF Kics, SendInv, DeferredInOrder, NeverBuried
<1>7. ASSUME NEW s \in Numbers, ClientReceive(s) PROVE SendInv'
    BY <1>7, ReceiveKeepsInv
<1>8. ASSUME NEW s \in Numbers, LosePacket(s) \/ LoseAck(s) PROVE SendInv'
    <2>1. /\ wire' \subseteq wire /\ acks' \subseteq acks
          /\ UNCHANGED <<numbering, alive, requestNumber, pending, deferred, stored, delivered>>
          /\ Expected' = Expected /\ Received' = Received /\ Launched' = Launched
        BY <1>8 DEF LosePacket, LoseAck, server, client, Expected, Received, Launched
    <2>2. TypeOK' /\ DeferredInOrder' /\ NeverBuried'
        BY <1>0, <2>1 DEF SendInv, TypeOK, DeferredInOrder, NeverBuried
    <2>3. QED
        BY <2>1, <2>2 DEF SendInv
<1>9. CASE UNCHANGED vars
    <2>1. UNCHANGED <<numbering, alive, requestNumber, pending, deferred, wire, stored, delivered, acks>>
        BY <1>9 DEF vars, server, client
    <2>2. Expected' = Expected /\ Received' = Received /\ Launched' = Launched
        BY <2>1 DEF Expected, Received, Launched
    <2>3. TypeOK' /\ DeferredInOrder' /\ NeverBuried'
        BY <1>0, <2>1, <2>2 DEF SendInv, TypeOK, DeferredInOrder, NeverBuried
    <2>4. QED
        BY <2>1, <2>2, <2>3 DEF SendInv
<1>10. QED
    BY <1>1, <1>2, <1>3, <1>4, <1>5, <1>6, <1>7, <1>8, <1>9 DEF Next, ServerStep, NetworkStep

-----------------------------------------------------------------------------
(***************************************************************************)
(* The theorems.                                                           *)
(***************************************************************************)

\* The window's invariant.
THEOREM SendInvariant == Spec => []SendInv
    BY InitSendInv, NextSendInv, PTL DEF Spec

\* Type correctness.
THEOREM TypeCorrect == Spec => []TypeOK
<1>1. SendInv => TypeOK
    BY DEF SendInv
<1>2. QED
    BY <1>1, SendInvariant, PTL

\* The client's receive window is never overrun: no copy on the wire is too
\* far ahead of the packet the client waits for.
THEOREM ClientNeverBuried == Spec => []NeverBuried
<1>1. SendInv => NeverBuried
    BY DEF SendInv
<1>2. QED
    BY <1>1, SendInvariant, PTL

\* Deferral keeps the order of the numbers.
THEOREM DeferralKeepsOrder == Spec => []DeferredInOrder
<1>1. SendInv => DeferredInOrder
    BY DEF SendInv
<1>2. QED
    BY <1>1, SendInvariant, PTL

\* No reliable number of a live session is lost.
THEOREM NoNumberIsLost == Spec => []NothingLost
<1>1. SendInv => NothingLost
    <2> SUFFICES ASSUME SendInv, alive, NEW s \in 0 .. requestNumber - 1
                 PROVE  s \in Received \/ s \in pending \/ \E i \in 1 .. Len(deferred) : deferred[i] = s
        BY DEF NothingLost
    <2>1. /\ deferred \in Seq(Numbers) /\ requestNumber \in Nat
          /\ \A i \in 1 .. Len(deferred) : deferred[i] = Launched + i - 1
        BY DEF SendInv, TypeOK, DeferredInOrder
    <2>2. Len(deferred) \in Nat
        BY <2>1
    <2>3. Launched \in Int /\ requestNumber = Launched + Len(deferred)
        BY <2>1, <2>2 DEF Launched
    <2>4. CASE s < Launched
        <3>1. s \in 0 .. Launched - 1
            BY <2>1, <2>3, <2>4
        <3>2. QED
            BY <3>1 DEF SendInv
    <2>5. CASE s >= Launched
        <3>1. s - Launched + 1 \in 1 .. Len(deferred)
            BY <2>1, <2>2, <2>3, <2>5
        <3>2. Launched + (s - Launched + 1) - 1 = s
            BY <2>3
        <3>3. deferred[s - Launched + 1] = s
            BY <2>1, <3>1, <3>2
        <3>4. QED
            BY <3>1, <3>3
    <2>6. QED
        BY <2>1, <2>3, <2>4, <2>5
<1>2. QED
    BY <1>1, SendInvariant, PTL

-----------------------------------------------------------------------------
(***************************************************************************)
(* No lost wake-up.                                                        *)
(***************************************************************************)

\* Sending stops only at a packet that has no room.
LEMMA SendMessagesStopsAtFullWindow ==
    ASSUME SendInv, NEW p \in SUBSET pending, NEW k \in Nat,
           requestNumber + k <= MaxSeq + 1, SendMessages(p, k)
    PROVE  DeferredWaits'
<1> DEFINE queue == deferred \o Allocate(k)
<1>1. queue \in Seq(Numbers) /\ Len(queue) \in Nat
    <2>1. queue \in Seq(Numbers)
        BY QueueIsConsecutive
    <2>2. QED
        BY <2>1
<1>2. PICK n \in 0 .. Len(queue) :
            /\ n < Len(queue) => ~HasRoom(p \cup Prefix(queue, n), queue[n + 1])
            /\ pending' = p \cup Prefix(queue, n)
            /\ deferred' = SubSeq(queue, n + 1, Len(queue))
    BY DEF SendMessages
<1> HIDE DEF queue
<1>3. deferred' # <<>> => n < Len(queue) /\ deferred'[1] = queue[n + 1]
    <2>1. CASE n < Len(queue)
        BY <1>1, <1>2, <2>1
    <2>2. CASE n = Len(queue)
        BY <1>1, <1>2, <2>2
    <2>3. QED
        BY <1>1, <2>1, <2>2
<1>4. QED
    BY <1>2, <1>3 DEF DeferredWaits, HasRoom

LEMMA NextDeferredWaits == SendInv /\ DeferredWaits /\ [Next]_vars => DeferredWaits'
<1> SUFFICES ASSUME SendInv, DeferredWaits, [Next]_vars PROVE DeferredWaits'
    OBVIOUS
<1>1. CASE Serve
    <2>1. PICK k \in Outputs : SendMessages(pending, k)
        BY <1>1 DEF Serve
    <2>2. k \in Nat /\ requestNumber + k <= MaxSeq + 1
        BY DEF Outputs
    <2>3. QED
        BY <2>1, <2>2, SendMessagesStopsAtFullWindow
<1>2. ASSUME NEW s \in Numbers, ServeAck(s) PROVE DeferredWaits'
    <2>1. PICK k \in Outputs : SendMessages(pending \ {s}, k)
        BY <1>2 DEF ServeAck
    <2>2. k \in Nat /\ requestNumber + k <= MaxSeq + 1 /\ pending \ {s} \in SUBSET pending
        BY DEF Outputs
    <2>3. QED
        BY <2>1, <2>2, SendMessagesStopsAtFullWindow
<1>3. CASE Timeout \/ DropMissing \/ Kics
    <2>1. deferred' = <<>>
        BY <1>3 DEF Timeout, DropMissing, Kics
    <2>2. QED
        BY <2>1 DEF DeferredWaits
<1>4. CASE UNCHANGED <<pending, deferred>>
    BY <1>4 DEF DeferredWaits, HasRoom
<1>5. ASSUME NEW s \in Numbers,
             Resend(s) \/ ClientReceive(s) \/ LosePacket(s) \/ LoseAck(s)
      PROVE  UNCHANGED <<pending, deferred>>
    BY <1>5 DEF Resend, ClientReceive, LosePacket, LoseAck, server
<1>6. EndSession \/ UNCHANGED vars => UNCHANGED <<pending, deferred>>
    BY DEF EndSession, vars, server
<1>7. QED
    BY <1>1, <1>2, <1>3, <1>4, <1>5, <1>6 DEF Next, ServerStep, NetworkStep

\* Whenever a packet is deferred the window is shut: each ACK that opens it
\* lets the deferred packets out in the same pass of the loop.
THEOREM DeferredOnlyWhileShut == Spec => []DeferredWaits
<1>1. Init => DeferredWaits
    BY DEF Init, DeferredWaits
<1>2. SendInv /\ DeferredWaits /\ [Next]_vars => DeferredWaits'
    BY NextDeferredWaits
<1>3. QED
    BY <1>1, <1>2, SendInvariant, PTL DEF Spec

-----------------------------------------------------------------------------
(***************************************************************************)
(* The refinement.                                                         *)
(***************************************************************************)

LEMMA DeliveredIsFirstNumbers ==
    SendInv => /\ delivered = Delivery!FirstNumbers(Len(delivered))
               /\ Len(delivered) \in 0 .. requestNumber
<1> SUFFICES ASSUME SendInv
             PROVE  /\ delivered = Delivery!FirstNumbers(Len(delivered))
                    /\ Len(delivered) \in 0 .. requestNumber
    OBVIOUS
<1>1. /\ delivered \in Seq(Numbers) /\ deferred \in Seq(Numbers) /\ requestNumber \in Nat
      /\ \A i \in 1 .. Len(delivered) : delivered[i] = i - 1
      /\ Len(delivered) <= requestNumber - Len(deferred)
    BY DEF SendInv, TypeOK, Expected, Launched
<1>2. Len(delivered) \in Nat /\ Len(deferred) \in Nat
    BY <1>1
<1>3. Len(delivered) \in 0 .. requestNumber
    BY <1>1, <1>2
<1>4. delivered = [i \in 1 .. Len(delivered) |-> delivered[i]]
    BY <1>1
<1>5. delivered = [i \in 1 .. Len(delivered) |-> i - 1]
    BY <1>1, <1>4
<1>6. QED
    BY <1>3, <1>5 DEF Delivery!FirstNumbers

LEMMA DeliveredIsFirstNumbersNext ==
    SendInv' => (/\ delivered = Delivery!FirstNumbers(Len(delivered))
                 /\ Len(delivered) \in 0 .. requestNumber)'
    BY DeliveredIsFirstNumbers, PTL

LEMMA StepRefines ==
    ASSUME SendInv, SendInv', [Next]_vars
    PROVE  [Delivery!Next]_(Delivery!vars)
<1> USE DEF Delivery!vars
<1>1. /\ Len(delivered) \in 0 .. requestNumber
      /\ requestNumber \in Nat
      /\ delivered' = Delivery!FirstNumbers(Len(delivered'))
      /\ Len(delivered') \in 0 .. requestNumber'
    <2>1. Len(delivered) \in 0 .. requestNumber /\ requestNumber \in Nat
        BY DeliveredIsFirstNumbers DEF SendInv, TypeOK
    <2>2. delivered' = Delivery!FirstNumbers(Len(delivered')) /\ Len(delivered') \in 0 .. requestNumber'
        BY DeliveredIsFirstNumbersNext
    <2>3. QED
        BY <2>1, <2>2
<1>2. CASE Serve \/ \E s \in Numbers : ServeAck(s)
    <2>1. PICK k \in Outputs : requestNumber' = requestNumber + k
        BY <1>2 DEF Serve, ServeAck, SendMessages
    <2>2. delivered' = delivered
        BY <1>2 DEF Serve, ServeAck, client
    <2>3. k \in Nat
        BY DEF Outputs
    <2>4. requestNumber' \in Nat /\ requestNumber' >= requestNumber
        BY <1>1, <2>1, <2>3
    <2>5. QED
        BY <2>2, <2>4 DEF Delivery!Next, Delivery!Submit
<1>3. ASSUME NEW s \in Numbers, ClientReceive(s) PROVE [Delivery!Next]_(Delivery!vars)
    <2>1. requestNumber' = requestNumber
        BY <1>3 DEF ClientReceive, server
    <2>2. CASE UNCHANGED delivered
        BY <2>1, <2>2
    <2>3. CASE /\ s = Expected
               /\ delivered' = delivered \o [i \in 1 .. (RunEnd(s) - s + 1) |-> s + i - 1]
        <3>1. TypeOK /\ \A i \in 1 .. Expected : delivered[i] = i - 1
            BY DEF SendInv
        <3>2. Expected' = RunEnd(s) + 1
            BY <2>3, <3>1, HandOnHistory
        <3>3. RunEnd(s) \in s .. MaxSeq /\ s \in Nat
            BY <3>1, RunEndProperties DEF TypeOK, Numbers
        <3>4. Len(delivered') \in Len(delivered) .. requestNumber
            <4>1. Len(delivered') = RunEnd(s) + 1 /\ Len(delivered) = s
                BY <2>3, <3>2 DEF Expected
            <4>2. QED
                BY <1>1, <2>1, <3>3, <4>1
        <3>5. QED
            BY <1>1, <2>1, <3>4 DEF Delivery!Next, Delivery!Deliver
    <2>4. QED
        BY <1>3, <2>2, <2>3 DEF ClientReceive, client
<1>4. ASSUME NEW s \in Numbers, Resend(s) \/ LosePacket(s) \/ LoseAck(s)
      PROVE  [Delivery!Next]_(Delivery!vars)
    BY <1>4 DEF Resend, LosePacket, LoseAck, server, client
<1>5. CASE Timeout \/ EndSession \/ DropMissing
    BY <1>5 DEF Timeout, EndSession, DropMissing, client
<1>6. CASE Kics
    BY <1>6 DEF Kics, Delivery!Next, Delivery!Restart
<1>7. CASE UNCHANGED vars
    BY <1>7 DEF vars, server, client
<1>8. QED
    BY <1>2, <1>3, <1>4, <1>5, <1>6, <1>7 DEF Next, ServerStep, NetworkStep

\* The send window implements in-order delivery, exactly once, over a network
\* that loses, repeats and reorders.
THEOREM WindowImplementsDelivery == Spec => DeliverySpec
<1>1. Init => Delivery!Init
    BY DEF Init, Delivery!Init
<1>2. SendInv /\ SendInv' /\ [Next]_vars => [Delivery!Next]_(Delivery!vars)
    BY StepRefines
<1>3. QED
    BY <1>1, <1>2, SendInvariant, PTL DEF Spec, DeliverySpec, Delivery!Spec
=============================================================================
