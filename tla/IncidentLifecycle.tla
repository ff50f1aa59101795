------------------------- MODULE IncidentLifecycle -------------------------
(***************************************************************************)
(* The life of an incident as packages/shared/src/utils/state-machine.ts   *)
(* states it, with the one exception reopenIncident makes: the abstract    *)
(* specification the command handlers and the escalation worker, each with *)
(* its own read-then-write, are measured against.                          *)
(***************************************************************************)
CONSTANT Incidents

VARIABLE state

Statuses == {"OPEN", "ACKNOWLEDGED", "INVESTIGATING", "MITIGATED",
             "RESOLVED", "ESCALATED"}

\* INCIDENT_TRANSITIONS
Transitions ==
  [s \in Statuses |->
     CASE s = "OPEN" -> {"ACKNOWLEDGED", "ESCALATED", "RESOLVED"}
       [] s = "ACKNOWLEDGED" -> {"INVESTIGATING", "ESCALATED", "RESOLVED"}
       [] s = "INVESTIGATING" -> {"MITIGATED", "ESCALATED", "ACKNOWLEDGED",
                                  "RESOLVED"}
       [] s = "MITIGATED" -> {"RESOLVED", "INVESTIGATING", "ESCALATED"}
       [] s = "RESOLVED" -> {}
       [] s = "ESCALATED" -> {"ACKNOWLEDGED", "INVESTIGATING", "RESOLVED"}]

\* isValidTransition
ValidTransition(from, to) == to \in Transitions[from]

LifecycleInit == state = [i \in Incidents |-> "OPEN"]

Move(i) ==
  \E to \in Transitions[state[i]] : state' = [state EXCEPT ![i] = to]

BringBack(i) ==
  /\ state[i] = "RESOLVED"
  /\ state' = [state EXCEPT ![i] = "OPEN"]

LifecycleNext == \E i \in Incidents : Move(i) \/ BringBack(i)

LifecycleSpec == LifecycleInit /\ [][LifecycleNext]_state
=============================================================================
