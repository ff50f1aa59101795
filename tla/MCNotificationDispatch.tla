---------------------- MODULE MCNotificationDispatch ----------------------
(* NotificationDispatch on a small instance: two notifications of one      *)
(* incident and channel, and cycles that overlap in one process.           *)
EXTENDS NotificationDispatch

CONSTANTS c1, c2, p1, k1

MCKeyOf == [n \in 1..NoteCount |-> k1]
MCProcessOf == [c \in Cycles |-> p1]
=============================================================================
