--------------------------- MODULE MCHealthCheck ---------------------------
(* HealthCheck on a small instance: two overlapping polls of one process   *)
(* over one service that goes down and comes back.                         *)
EXTENDS HealthCheck

CONSTANTS s1, q1, q2, p1

MCProcessOf == [q \in Polls |-> p1]
=============================================================================
