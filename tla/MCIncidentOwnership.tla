------------------------ MODULE MCIncidentOwnership ------------------------
(* IncidentOwnership on a small instance: a schedule that hands over       *)
(* between two engineers and, a week later, to a name that is no user's; a *)
(* Thursday and the two Mondays after it, two workers that start together, *)
(* an assignment and an escalation cycle.                                  *)
EXTENDS IncidentOwnership

CONSTANTS u1, u2, k1, i1, r1, c1, w1, w2

MCMembers == <<u2>>
MCOrderOf == [s \in Schedules |-> <<u1, u2, Nobody>>]
MCEventOf == [i \in Incidents |-> [criticality |-> "HIGH", severity |-> "MEDIUM",
                                   environment |-> "production"]]
MCUserOf == [r \in Assignments |-> u2]
MCIncidentOf == [r \in Assignments |-> i1]
MCSteps == <<[kind |-> "SCHEDULE", id |-> k1]>>
=============================================================================
