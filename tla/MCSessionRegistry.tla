--------------------------- MODULE MCSessionRegistry ---------------------------
(* Small instances of SessionRegistry: two clients behind one NAT that hands *)
(* its ports to either, and a third one on a host of its own.                *)
EXTENDS SessionRegistry, TLC

CONSTANTS s1, s2, s3, p1, p2, p3, p4, q1, q2

MixedPorts == (s1 :> {p1, p2, p3, p4}) @@ (s2 :> {p1, p2, p3, p4}) @@ (s3 :> {q1, q2})
=============================================================================
