-------------------------------- MODULE MCLogin --------------------------------
(* Small instances of Login: two accounts behind one NAT or on one console,  *)
(* and one account per host.                                                 *)
EXTENDS Login, TLC

CONSTANTS a, b, p1, p2, q1

SharedPorts == [s \in Logins |-> Endpoints]

SeparatePorts == [s \in Logins |-> IF s = a THEN {p1, p2} ELSE {q1}]
=============================================================================
