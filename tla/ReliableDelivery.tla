--------------------------- MODULE ReliableDelivery ---------------------------
(***************************************************************************)
(* What one direction of the SN@P reliable transport promises: packets are *)
(* numbered from 0 as they are submitted and handed to the receiver once   *)
(* each, in that order, with no number skipped; a KICS login throws the    *)
(* stream away in both directions and starts a new numbering from 0.       *)
(*                                                                         *)
(* Abstract specification: openSNAP implements it with two different       *)
(* mechanisms, the receive window of the engine (ReceiveWindow) and the    *)
(* in-flight window of the UDP server (SendWindow).                        *)
(***************************************************************************)
EXTENDS Naturals, Sequences

VARIABLES
    submitted,  \* how many packets the sender has numbered
    delivered   \* the numbers handed to the receiver's application, in order

vars == <<submitted, delivered>>

\* The first n numbers, in the order they were given out.
FirstNumbers(n) == [i \in 1..n |-> i - 1]

Init ==
    /\ submitted = 0
    /\ delivered = <<>>

\* The sender numbers any count of new packets.
Submit ==
    /\ submitted' \in Nat
    /\ submitted' >= submitted
    /\ UNCHANGED delivered

\* One arrival may complete a run of packets stored ahead of it.
Deliver ==
    /\ \E n \in Len(delivered) .. submitted : delivered' = FirstNumbers(n)
    /\ UNCHANGED submitted

\* A KICS login: both ends forget the stream.
Restart ==
    /\ submitted' = 0
    /\ delivered' = <<>>

Next == Submit \/ Deliver \/ Restart

Spec == Init /\ [][Next]_vars
=============================================================================
