-------------------------- MODULE MCSessionTransport --------------------------
(* Small instances of SessionTransport: clients that share the ports of one  *)
(* NAT, and clients on hosts of their own.                                   *)
EXTENDS SessionTransport, TLC

CONSTANTS s1, s2, p1, p2, q1, q2

SharedPorts == [s \in Sessions |-> Endpoints]

SeparatePorts == (s1 :> {p1, p2}) @@ (s2 :> {q1, q2})

\* Clients and ports that differ in name only.
Symmetry == Permutations({s1, s2}) \cup Permutations({p1, p2})
=============================================================================
