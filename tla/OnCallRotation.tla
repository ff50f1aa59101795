--------------------------- MODULE OnCallRotation ---------------------------
(***************************************************************************)
(* The arithmetic of on-call rotations. It is written twice in the code:   *)
(* in the API (oncall.routes.ts, computeActiveEngineer), which counts      *)
(* weeks of local days from 1 January 1970, a Thursday, and looks at the   *)
(* hours of the schedule; and in the worker (on-call.worker.ts), which     *)
(* counts weeks by their Monday in UTC and gives a whole week to one       *)
(* engineer. Days are counted from 1 January 1970, minutes from its start. *)
(***************************************************************************)
EXTENDS Integers, Sequences

DayMinutes == 1440

\* The API's week: Math.floor(localDay / 7)
RouteWeek(day) == day \div 7

\* The worker's: the Monday of the day, getUTCDay() of day 0 being 4.
WeekStart(day) == day - ((((day + 4) % 7) + 6) % 7)

WorkerWeek(day) == WeekStart(day) \div 7

Pick(order, week) == order[(week % Len(order)) + 1]

\* A window whose end is before its start goes over midnight.
Inside(minute, start, end) ==
  IF start <= end THEN minute >= start /\ minute < end
                  ELSE minute >= start \/ minute < end

\* Who the API says is on call, as a set of at most one engineer. offset is
\* what tzOffsetMinutes gives for the schedule's zone.
RouteEngineer(order, offset, start, end, now) ==
  LET local == now - offset
  IN  IF order # <<>> /\ Inside(local % DayMinutes, start, end)
      THEN {Pick(order, RouteWeek(local \div DayMinutes))}
      ELSE {}

\* Who the worker gives the week of this day to.
ShiftEngineer(order, day) ==
  IF order = <<>> THEN {} ELSE {Pick(order, WorkerWeek(day))}
=============================================================================
