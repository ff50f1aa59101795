--------------------------- MODULE MCIncidentView ---------------------------
(* IncidentView on a small instance: a page with two commands, and as many *)
(* connections.                                                            *)
EXTENDS IncidentView

CONSTANTS a, c1, c2, ip

MCPageOf == [c \in Commands |-> a]
MCKeyOf == [p \in Pages |-> ip]
=============================================================================
