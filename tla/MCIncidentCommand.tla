------------------------- MODULE MCIncidentCommand -------------------------
(* IncidentCommand on small instances.                                     *)
EXTENDS IncidentCommand, TLC

CONSTANTS r1, r2, p1, p2

OneRequest == {r1}
TwoRequests == {r1, r2}
OnePoll == {p1}
TwoPolls == {p1, p2}
OneIncidentSteps == <<{1, 2, 3}>>
LiveSteps == <<{1}, {1, 2}>>
MCSymmetry == Permutations({r1, r2}) \cup Permutations({p1, p2})
=============================================================================
