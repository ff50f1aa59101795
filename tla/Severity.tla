------------------------------ MODULE Severity ------------------------------
(***************************************************************************)
(* packages/shared/src/utils/severity.ts: the severity of a new incident.  *)
(* Scores are counted in quarters, so that every weight is an integer. A   *)
(* severity is its number, 1 for SEV-1; the priority of SEV-n is Pn.       *)
(* affectedUsers is left out: no caller passes it.                         *)
(***************************************************************************)
EXTENDS Integers

Levels == {"LOW", "MEDIUM", "HIGH", "CRITICAL"}
Environments == {"development", "staging", "production"}

EventWeight ==
  [LOW |-> 4, MEDIUM |-> 8, HIGH |-> 12, CRITICAL |-> 16]
CriticalityBump ==
  [LOW |-> -2, MEDIUM |-> 0, HIGH |-> 2, CRITICAL |-> 4]
EnvironmentPenalty ==
  [development |-> -6, staging |-> -2, production |-> 0]

FrequencyBump(count) ==
  IF count > 100 THEN 3 ELSE IF count > 50 THEN 2 ELSE IF count > 5 THEN 1 ELSE 0

RepeatBump(count) == IF count > 1 THEN 2 ELSE 0

\* The score before it is clamped; count is the window of the fingerprint,
\* and processEvent calls a failure repeated when it is more than one.
Score(criticality, severity, environment, count) ==
  EventWeight[severity] + CriticalityBump[criticality]
    + EnvironmentPenalty[environment] + FrequencyBump(count) + RepeatBump(count)

\* Clamping to [1, 4] moves no score across a threshold.
SeverityOf(score) ==
  IF score >= 15 THEN 1 ELSE IF score >= 11 THEN 2 ELSE IF score >= 6 THEN 3 ELSE 4

CalculateSeverity(criticality, severity, environment, count) ==
  SeverityOf(Score(criticality, severity, environment, count))
=============================================================================
