------------------------- MODULE IncidentOwnership -------------------------
(***************************************************************************)
(* Who an incident belongs to, and how severe it is. Four actors write it, *)
(* none with a lock: the event processor creates the incident with the     *)
(* engineer on call (event.processor.ts, createIncidentRecord), workers    *)
(* write the shifts when they start (on-call.worker.ts), operators assign  *)
(* (incidents.service.ts, assignEngineer) and switch users off, and the    *)
(* escalation worker hands it to the target of a step, or back to the      *)
(* assignee it had read (escalation.worker.ts, escalateOnce).              *)
(*                                                                         *)
(* All schedules belong to the team that owns the incidents' services; the *)
(* due times of steps and the status of incidents are in IncidentCommand.  *)
(***************************************************************************)
EXTENDS OnCallRotation, Severity, FiniteSets

CONSTANTS
  Users,
  Members,       \* the team's engineers by created_at, a sequence
  Schedules,
  OrderOf,       \* rotation_order of each schedule, which no request changes
  Days,          \* the days a run looks at
  Workers,       \* worker processes
  Incidents,
  EventOf,       \* the event that opens each incident
  Assignments,   \* requests of operators
  UserOf, IncidentOf,
  Polls,         \* poll cycles of escalation workers
  Steps,         \* the policy: targets by level, sets of a user or a schedule
  Switched,      \* users that administrators switch on and off in a run
  MaxRetries,    \* of the event bus
  MaxRestarts,   \* bound on the times workers stop in a run
  Nobody         \* NULL, and any text that is no user's id

Ended == 30      \* days a shift that has ended is kept
People == Users \cup {Nobody}

ASSUME OwnershipAssumption ==
  /\ Nobody \notin Users
  /\ Members \in Seq(Users) /\ Switched \subseteq Users
  /\ OrderOf \in [Schedules -> Seq(People)]
  /\ Days \subseteq Nat /\ Days # {}
  /\ EventOf \in [Incidents -> [criticality : Levels, severity : Levels,
                                environment : Environments]]
  /\ UserOf \in [Assignments -> Users] /\ IncidentOf \in [Assignments -> Incidents]
  /\ Steps \in Seq([kind : {"USER", "TEAM", "SCHEDULE"}, id : Users \cup Schedules])
  /\ MaxRetries \in Nat /\ MaxRestarts \in Nat

VARIABLES
  day,
  schedules,   \* rows of on_call_schedules: "absent", "present", "deleted"
  shifts,      \* rows of on_call_shifts; the key is schedule and Monday
  active,      \* users.is_active
  worker,      \* the await a starting worker is at
  plan,        \* what it has read: the schedules, the Monday, the missing rows
  restarts,
  count,       \* the window of the fingerprint that opens an incident
  severity,    \* incidents.severity, 0 before the INSERT
  assignee,    \* incidents.assigned_engineer_id
  recorded,    \* users with a row in incident_assignments
  born,        \* assignee at the INSERT (a history)
  level,       \* incidents.escalation_level
  request,     \* the await an assignment is at
  poll         \* what an escalation cycle has read and resolved

rotaVars == <<day, schedules, shifts, active>>
workerVars == <<worker, plan, restarts>>
incidentVars == <<count, severity, assignee, recorded, born, level>>
vars == <<rotaVars, workerVars, incidentVars, request, poll>>

NoPlan == [seen |-> {}, monday |-> 0, missing |-> {}]
Reads == [incident : Incidents, level : Nat, assignee : People,
          target : SUBSET Users, resolved : BOOLEAN]

Init ==
  /\ day \in Days /\ \A d \in Days : day <= d
  /\ schedules = [s \in Schedules |-> "absent"]
  /\ shifts = {}
  /\ active = [u \in Users |-> TRUE]
  /\ worker = [w \in Workers |-> "down"]
  /\ plan = [w \in Workers |-> NoPlan]
  /\ restarts = 0
  /\ count = [i \in Incidents |-> 0]
  /\ severity = [i \in Incidents |-> 0]
  /\ assignee = [i \in Incidents |-> Nobody]
  /\ recorded = [i \in Incidents |-> {}]
  /\ born = [i \in Incidents |-> Nobody]
  /\ level = [i \in Incidents |-> 0]
  /\ request = [r \in Assignments |-> "idle"]
  /\ poll = [c \in Polls |-> {}]

-----------------------------------------------------------------------------
(* Time and the requests of administrators.                                *)

NextDay ==
  /\ \E d \in Days : d > day /\ day' = d
  /\ UNCHANGED <<schedules, shifts, active, workerVars, incidentVars, request, poll>>

CreateSchedule(s) ==
  /\ schedules[s] = "absent"
  /\ schedules' = [schedules EXCEPT ![s] = "present"]
  /\ UNCHANGED <<day, shifts, active, workerVars, incidentVars, request, poll>>

\* ON DELETE CASCADE
DeleteSchedule(s) ==
  /\ schedules[s] = "present"
  /\ schedules' = [schedules EXCEPT ![s] = "deleted"]
  /\ shifts' = {sh \in shifts : sh.schedule # s}
  /\ UNCHANGED <<day, active, workerVars, incidentVars, request, poll>>

SetUserActive(u) ==
  /\ active' = [active EXCEPT ![u] = ~@]
  /\ UNCHANGED <<day, schedules, shifts, workerVars, incidentVars, request, poll>>

-----------------------------------------------------------------------------
(* materializeShifts, which a worker runs once, when it starts.            *)

ListSchedules(w) ==
  /\ worker[w] = "down"
  /\ worker' = [worker EXCEPT ![w] = "check"]
  /\ plan' = [plan EXCEPT ![w] =
       [seen |-> {s \in Schedules : schedules[s] = "present" /\ OrderOf[s] # <<>>},
        monday |-> WeekStart(day), missing |-> {}]]
  /\ UNCHANGED <<rotaVars, restarts, incidentVars, request, poll>>

Row(s, monday) == {sh \in shifts : sh.schedule = s /\ sh.monday = monday}

\* Mutation: every schedule is given a row, whether it has one or not.
MissingAll(s, monday) == Row(s, monday) = Row(s, monday)

Missing(s, monday) == Row(s, monday) = {}

CheckShifts(w) ==
  /\ worker[w] = "check"
  /\ worker' = [worker EXCEPT ![w] = "insert"]
  /\ plan' = [plan EXCEPT ![w].missing =
                {s \in plan[w].seen : Missing(s, plan[w].monday)}]
  /\ UNCHANGED <<rotaVars, restarts, incidentVars, request, poll>>

\* Mutation: the engineer is picked by the week of the day's date.
ShiftByDate(s, monday) ==
  [schedule |-> s, monday |-> monday, user |-> Pick(OrderOf[s], RouteWeek(day))]

Shift(s, monday) ==
  [schedule |-> s, monday |-> monday, user |-> Pick(OrderOf[s], WorkerWeek(monday))]

\* Another worker has committed the same key, the schedule is gone, or the
\* week is of a user there is not: rotation_order is not checked.
Refused(w) ==
  \E s \in plan[w].missing :
    \/ schedules[s] # "present" \/ Row(s, plan[w].monday) # {}
    \/ Shift(s, plan[w].monday).user = Nobody

InsertShifts(w) ==
  /\ worker[w] = "insert" /\ ~Refused(w)
  /\ worker' = [worker EXCEPT ![w] = "up"]
  /\ shifts' = {sh \in shifts \cup {Shift(s, plan[w].monday) : s \in plan[w].missing} :
                  sh.monday + 7 >= day - Ended}
  /\ plan' = [plan EXCEPT ![w] = NoPlan]
  /\ UNCHANGED <<day, schedules, active, restarts, incidentVars, request, poll>>

\* The transaction is rolled back and the process exits.
StartFails(w) ==
  /\ worker[w] = "insert" /\ Refused(w)
  /\ worker' = [worker EXCEPT ![w] = "down"]
  /\ plan' = [plan EXCEPT ![w] = NoPlan]
  /\ UNCHANGED <<rotaVars, restarts, incidentVars, request, poll>>

WorkerStops(w) ==
  /\ worker[w] # "down" /\ restarts < MaxRestarts
  /\ restarts' = restarts + 1
  /\ worker' = [worker EXCEPT ![w] = "down"]
  /\ plan' = [plan EXCEPT ![w] = NoPlan]
  /\ UNCHANGED <<rotaVars, incidentVars, request, poll>>

\* GET /on-call/current, for a schedule in UTC with the default hours.
ActiveEngineer(s, now) ==
  RouteEngineer(OrderOf[s], 0, 0, DayMinutes - 1, now) \cap Users

-----------------------------------------------------------------------------
(* The event processor.                                                    *)

Current(sh) == sh.monday <= day /\ day < sh.monday + 7

\* activeEngineerForTeam: the shift, whether or not its user is active, or
\* the first active engineer of the team.
OnCall ==
  LET onShift == {sh.user : sh \in {x \in shifts : Current(x)}}
      first == {u \in Users : active[u] /\ \E k \in 1..Len(Members) :
                  Members[k] = u /\ \A j \in 1..(k - 1) : ~active[Members[j]]}
  IN  IF onShift # {} THEN onShift ELSE IF first # {} THEN first ELSE {Nobody}

\* slidingWindowAdd, at every delivery of the event.
CountEvent(i) ==
  /\ severity[i] = 0 /\ count[i] <= MaxRetries
  /\ count' = [count EXCEPT ![i] = @ + 1]
  /\ UNCHANGED <<rotaVars, workerVars, severity, assignee, recorded, born, level,
                 request, poll>>

SeverityFor(i, n) ==
  CalculateSeverity(EventOf[i].criticality, EventOf[i].severity,
                    EventOf[i].environment, n)

\* Mutation: every delivery counts as a hundred.
NewSeverityPerDelivery(i, n) == SeverityFor(i, 100 * n)

NewSeverity(i, n) == SeverityFor(i, n)

\* windowCount: a Redis that fails leaves it at 1.

CreateIncident(i) ==
  /\ severity[i] = 0 /\ count[i] > 0
  /\ \E n \in {1, count[i]} : severity' = [severity EXCEPT ![i] = NewSeverity(i, n)]
  /\ \E who \in OnCall :
       /\ assignee' = [assignee EXCEPT ![i] = who]
       /\ born' = [born EXCEPT ![i] = who]
       /\ recorded' = [recorded EXCEPT ![i] = {who} \ {Nobody}]
  /\ UNCHANGED <<rotaVars, workerVars, count, level, request, poll>>

-----------------------------------------------------------------------------
(* assignEngineer: the user is looked up before the row is written.        *)

ReadEngineer(r) ==
  /\ request[r] = "idle" /\ severity[IncidentOf[r]] # 0
  /\ request' = [request EXCEPT ![r] =
                   IF active[UserOf[r]] THEN "found" ELSE "rejected"]
  /\ UNCHANGED <<rotaVars, workerVars, incidentVars, poll>>

\* Mutation: the row of incident_assignments is left out.
AssignUnrecorded(r) ==
  /\ request[r] = "found"
  /\ request' = [request EXCEPT ![r] = "done"]
  /\ assignee' = [assignee EXCEPT ![IncidentOf[r]] = UserOf[r]]
  /\ UNCHANGED <<rotaVars, workerVars, count, severity, recorded, born, level, poll>>

AssignEngineer(r) ==
  /\ request[r] = "found"
  /\ request' = [request EXCEPT ![r] = "done"]
  /\ assignee' = [assignee EXCEPT ![IncidentOf[r]] = UserOf[r]]
  /\ recorded' = [recorded EXCEPT ![IncidentOf[r]] = @ \cup {UserOf[r]}]
  /\ UNCHANGED <<rotaVars, workerVars, count, severity, born, level, poll>>

-----------------------------------------------------------------------------
(* The escalation worker.                                                  *)

\* findDueIncidents
ReadIncident(c, i) ==
  /\ poll[c] = {} /\ severity[i] # 0 /\ level[i] < Len(Steps)
  /\ poll' = [poll EXCEPT ![c] = {[incident |-> i, level |-> level[i],
                                   assignee |-> assignee[i],
                                   target |-> {}, resolved |-> FALSE]}]
  /\ UNCHANGED <<rotaVars, workerVars, incidentVars, request>>

\* resolveTarget: for a team there is no user.
Target(step) ==
  {u \in Users : step.kind = "USER" /\ step.id = u /\ active[u]}
    \cup {sh.user : sh \in {x \in shifts : /\ step.kind = "SCHEDULE"
                                           /\ x.schedule = step.id /\ Current(x)}}

ResolveTarget(c, read) ==
  /\ read \in poll[c] /\ ~read.resolved
  /\ poll' = [poll EXCEPT ![c] =
       {[read EXCEPT !.resolved = TRUE, !.target = Target(Steps[read.level + 1])]}]
  /\ UNCHANGED <<rotaVars, workerVars, incidentVars, request>>

\* Mutation: the target alone is written.
NewAssigneeTarget(read) == IF read.target = {} THEN {Nobody} ELSE read.target

\* target?.id ?? incident.assigned_engineer_id
NewAssignee(read) == IF read.target = {} THEN {read.assignee} ELSE read.target

\* The transaction of escalateOnce; it records no assignment.
Escalate(c, read) ==
  /\ read \in poll[c] /\ read.resolved
  /\ poll' = [poll EXCEPT ![c] = {}]
  /\ \E who \in NewAssignee(read) :
       assignee' = [assignee EXCEPT ![read.incident] = who]
  /\ level' = [level EXCEPT ![read.incident] = @ + 1]
  /\ UNCHANGED <<rotaVars, workerVars, count, severity, recorded, born, request>>

Startup(w) ==
  ListSchedules(w) \/ CheckShifts(w) \/ InsertShifts(w) \/ StartFails(w)

Next ==
  \/ NextDay
  \/ \E s \in Schedules : CreateSchedule(s) \/ DeleteSchedule(s)
  \/ \E u \in Switched : SetUserActive(u)
  \/ \E w \in Workers : Startup(w) \/ WorkerStops(w)
  \/ \E i \in Incidents : CountEvent(i) \/ CreateIncident(i)
  \/ \E r \in Assignments : ReadEngineer(r) \/ AssignEngineer(r)
  \/ \E c \in Polls, i \in Incidents : ReadIncident(c, i)
  \/ \E c \in Polls : \E read \in poll[c] : ResolveTarget(c, read) \/ Escalate(c, read)

(* A worker that exits is started again, and its statements return.        *)
Fairness == \A w \in Workers : WF_vars(Startup(w))

SafetySpec == Init /\ [][Next]_vars
Spec == SafetySpec /\ Fairness

-----------------------------------------------------------------------------
TypeOK ==
  /\ day \in Days
  /\ schedules \in [Schedules -> {"absent", "present", "deleted"}]
  /\ shifts \subseteq [schedule : Schedules, monday : Int, user : Users]
  /\ active \in [Users -> BOOLEAN]
  /\ worker \in [Workers -> {"down", "check", "insert", "up"}]
  /\ plan \in [Workers -> [seen : SUBSET Schedules, monday : Int,
                           missing : SUBSET Schedules]]
  /\ restarts \in 0..MaxRestarts
  /\ count \in [Incidents -> 0..(MaxRetries + 1)]
  /\ severity \in [Incidents -> 0..4]
  /\ assignee \in [Incidents -> People]
  /\ recorded \in [Incidents -> SUBSET Users]
  /\ born \in [Incidents -> People]
  /\ level \in [Incidents -> Nat]
  /\ request \in [Assignments -> {"idle", "found", "rejected", "done"}]
  /\ poll \in [Polls -> SUBSET Reads]

(* "Deterministic ... Re-run idempotently" (on-call.worker.ts:31) holds    *)
(* for workers that start together, on any day of the week: a schedule has *)
(* one shift for a week, and it is its rotation's. The API computes that   *)
(* rotation with a different arithmetic; from Monday to Wednesday it names *)
(* the same engineer (in UTC, at an hour the schedule covers).             *)
ShiftsFollowRotation ==
  \A sh \in shifts :
    /\ Row(sh.schedule, sh.monday) = {sh}
    /\ {sh.user} = ShiftEngineer(OrderOf[sh.schedule], sh.monday)
    /\ Current(sh) /\ day % 7 \in {4, 5, 6} =>
         {sh.user} = ActiveEngineer(sh.schedule, day * DayMinutes)

WeekOfNobody ==
  \E s \in Schedules : /\ schedules[s] = "present" /\ OrderOf[s] # <<>>
                       /\ Pick(OrderOf[s], WorkerWeek(day)) = Nobody

(* Workers that start together can refuse each other's rows and exit: each *)
(* of them comes up in the end, whoever writes the shifts, unless a        *)
(* rotation gives the week to somebody who is no user: no worker starts    *)
(* then.                                                                   *)
WorkerComesUp ==
  \A w \in Workers : worker[w] = "down" ~> worker[w] = "up" \/ WeekOfNobody

(* A redelivered event counts again in the window that makes it a repeated *)
(* failure: that takes its severity up by one level at the most.           *)
SeverityNearEvent ==
  \A i \in Incidents :
    severity[i] # 0 => severity[i] \in {SeverityFor(i, 1) - 1, SeverityFor(i, 1)}

(* However old the assignee a poll writes back, and whoever assigns in     *)
(* between: an incident that was created with an engineer always has one.  *)
OwnedStaysOwned ==
  \A i \in Incidents : born[i] # Nobody => assignee[i] # Nobody

(* incident_assignments is the "Assignment history" (001_initial_schema    *)
(* .sql:149): it names the assignee of every incident that no step has     *)
(* escalated. The escalation worker writes no row to it.                   *)
HistoryNamesAssignee ==
  \A i \in Incidents :
    level[i] = 0 => assignee[i] \in recorded[i] \cup {Nobody}
=============================================================================
