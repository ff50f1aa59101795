---------------------- MODULE IncidentOwnershipProofs ----------------------
(***************************************************************************)
(* Theorems about IncidentOwnership, for any number of users, schedules,   *)
(* workers, incidents, requests and poll cycles.                           *)
(***************************************************************************)
EXTENDS IncidentOwnership, TLAPS

(* The two computations of the rotation agree on a week exactly from       *)
(* Monday to Wednesday: the API's weeks start on a Thursday.               *)
LEMMA WeekFacts ==
  ASSUME NEW d \in Nat
  PROVE  /\ WeekStart(d) \in Int
         /\ WeekStart(d) <= d /\ d < WeekStart(d) + 7
         /\ WeekStart(d) % 7 = 4
  BY SMT DEF WeekStart

THEOREM RotationsAgreeEarly ==
  ASSUME NEW d \in Nat
  PROVE  RouteWeek(d) = WorkerWeek(d) <=> d % 7 \in {4, 5, 6}
  BY SMT DEF WeekStart, RouteWeek, WorkerWeek

-----------------------------------------------------------------------------
LEMMA ConstantFacts ==
  /\ Nobody \notin Users
  /\ \A s \in Schedules : OrderOf[s] \in Seq(People)
  /\ Days \subseteq Nat
  /\ \A r \in Assignments : UserOf[r] \in Users /\ IncidentOf[r] \in Incidents
  /\ MaxRetries \in Nat /\ MaxRestarts \in Nat
BY OwnershipAssumption

LEMMA PickIsPerson ==
  ASSUME NEW s \in Schedules, OrderOf[s] # <<>>, NEW week \in Int
  PROVE  Pick(OrderOf[s], week) \in People
<1>1. OrderOf[s] \in Seq(People) /\ Len(OrderOf[s]) \in Nat /\ Len(OrderOf[s]) # 0
  BY ConstantFacts
<1>2. \A n \in Nat \ {0} : (week % n) + 1 \in 1..n
  OBVIOUS
<1>3. (week % Len(OrderOf[s])) + 1 \in 1..Len(OrderOf[s])
  BY <1>1, <1>2
<1>4. QED
  BY <1>1, <1>3 DEF Pick

(* What a starting worker has read, and what it or another one wrote.      *)
PlanInv ==
  \A w \in Workers :
    /\ plan[w].missing \subseteq plan[w].seen
    /\ \A s \in plan[w].seen : OrderOf[s] # <<>>
    /\ plan[w].seen # {} => plan[w].monday % 7 = 4

ShiftInv ==
  \A sh \in shifts :
    /\ OrderOf[sh.schedule] # <<>>
    /\ sh.monday % 7 = 4
    /\ sh = Shift(sh.schedule, sh.monday)

RotaInv == TypeOK /\ PlanInv /\ ShiftInv

LEMMA RotaInit == Init => RotaInv
<1> SUFFICES ASSUME Init PROVE RotaInv
  OBVIOUS
<1>1. NoPlan \in [seen : SUBSET Schedules, monday : Int, missing : SUBSET Schedules]
  BY DEF NoPlan
<1>2. TypeOK
  BY <1>1, ConstantFacts DEF Init, TypeOK, People
<1>3. PlanInv
  BY DEF Init, PlanInv, NoPlan
<1>4. ShiftInv
  BY DEF Init, ShiftInv
<1>5. QED
  BY <1>2, <1>3, <1>4 DEF RotaInv

LEMMA WrittenShift ==
  ASSUME RotaInv, NEW w \in Workers, NEW s \in plan[w].missing, ~Refused(w)
  PROVE  /\ Shift(s, plan[w].monday) \in [schedule : Schedules, monday : Int, user : Users]
         /\ Shift(s, plan[w].monday).schedule = s
         /\ Shift(s, plan[w].monday).monday = plan[w].monday
         /\ OrderOf[s] # <<>> /\ plan[w].monday % 7 = 4
<1>1. /\ s \in Schedules /\ s \in plan[w].seen
      /\ OrderOf[s] # <<>> /\ plan[w].monday \in Int /\ plan[w].monday % 7 = 4
  BY DEF RotaInv, TypeOK, PlanInv
<1>2. WorkerWeek(plan[w].monday) \in Int
  BY <1>1 DEF WorkerWeek, WeekStart
<1>3. Shift(s, plan[w].monday).user \in People \ {Nobody}
  BY <1>1, <1>2, PickIsPerson DEF Shift, Refused
<1>4. QED
  BY <1>1, <1>3 DEF Shift, People

LEMMA SeverityRange ==
  \A i, n : SeverityFor(i, n) \in 1..4
BY DEF SeverityFor, CalculateSeverity, SeverityOf

LEMMA OnCallPeople ==
  ASSUME TypeOK PROVE OnCall \subseteq People
<1>1. \A sh \in shifts : sh.user \in Users
  BY DEF TypeOK
<1>2. QED
  BY <1>1 DEF OnCall, People

LEMMA TargetUsers ==
  ASSUME TypeOK, NEW step
  PROVE  Target(step) \subseteq Users
<1>1. \A sh \in shifts : sh.user \in Users
  BY DEF TypeOK
<1>2. QED
  BY <1>1 DEF Target

(* No action disturbs the types, and a shift is only written by a worker   *)
(* whose plan names a schedule with a rotation and a Monday.               *)
LEMMA RotaStep == RotaInv /\ [Next]_vars => RotaInv'
<1> SUFFICES ASSUME RotaInv, [Next]_vars PROVE RotaInv'
  OBVIOUS
<1>0. TypeOK /\ PlanInv /\ ShiftInv
  BY DEF RotaInv
<1> USE DEF rotaVars, workerVars, incidentVars
<1>1. CASE NextDay
  <2>1. TypeOK'
    BY <1>0, <1>1 DEF NextDay, TypeOK
  <2>2. PlanInv' /\ ShiftInv'
    BY <1>0, <1>1 DEF NextDay, PlanInv, ShiftInv, Shift
  <2>3. QED
    BY <2>1, <2>2 DEF RotaInv
<1>2. ASSUME NEW s \in Schedules, CreateSchedule(s) \/ DeleteSchedule(s)
      PROVE  RotaInv'
  <2>1. TypeOK'
    BY <1>0, <1>2 DEF CreateSchedule, DeleteSchedule, TypeOK
  <2>2. UNCHANGED plan /\ shifts' \subseteq shifts
    BY <1>2 DEF CreateSchedule, DeleteSchedule
  <2>3. PlanInv' /\ ShiftInv'
    BY <1>0, <2>2 DEF PlanInv, ShiftInv, Shift
  <2>4. QED
    BY <2>1, <2>3 DEF RotaInv
<1>3. ASSUME NEW u \in Switched, SetUserActive(u) PROVE RotaInv'
  <2>1. TypeOK'
    BY <1>0, <1>3 DEF SetUserActive, TypeOK
  <2>2. PlanInv' /\ ShiftInv'
    BY <1>0, <1>3 DEF SetUserActive, PlanInv, ShiftInv, Shift
  <2>3. QED
    BY <2>1, <2>2 DEF RotaInv
<1>4. ASSUME NEW w \in Workers, ListSchedules(w) PROVE RotaInv'
  <2>1. day \in Nat /\ WeekStart(day) \in Int /\ WeekStart(day) % 7 = 4
    BY <1>0, ConstantFacts, WeekFacts DEF TypeOK
  <2>2. TypeOK'
    BY <1>0, <1>4, <2>1 DEF ListSchedules, TypeOK
  <2>3. PlanInv'
    BY <1>0, <1>4, <2>1 DEF ListSchedules, TypeOK, PlanInv
  <2>4. ShiftInv'
    BY <1>0, <1>4 DEF ListSchedules, ShiftInv, Shift
  <2>5. QED
    BY <2>2, <2>3, <2>4 DEF RotaInv
<1>5. ASSUME NEW w \in Workers, CheckShifts(w) PROVE RotaInv'
  <2>1. TypeOK'
    BY <1>0, <1>5 DEF CheckShifts, TypeOK
  <2>2. PlanInv'
    BY <1>0, <1>5 DEF CheckShifts, TypeOK, PlanInv
  <2>3. ShiftInv'
    BY <1>0, <1>5 DEF CheckShifts, ShiftInv, Shift
  <2>4. QED
    BY <2>1, <2>2, <2>3 DEF RotaInv
<1>6. ASSUME NEW w \in Workers, InsertShifts(w) PROVE RotaInv'
  <2>1. shifts' \subseteq shifts \cup {Shift(s, plan[w].monday) : s \in plan[w].missing}
    BY <1>6 DEF InsertShifts
  <2>2. NoPlan \in [seen : SUBSET Schedules, monday : Int, missing : SUBSET Schedules]
    BY DEF NoPlan
  <2>3. shifts' \subseteq [schedule : Schedules, monday : Int, user : Users]
    BY <1>0, <1>6, <2>1, WrittenShift DEF InsertShifts, RotaInv, TypeOK
  <2>4. TypeOK'
    BY <1>0, <1>6, <2>2, <2>3 DEF InsertShifts, TypeOK
  <2>5. PlanInv'
    BY <1>0, <1>6 DEF InsertShifts, TypeOK, PlanInv, NoPlan
  <2>6. \A s \in plan[w].missing : LET sh == Shift(s, plan[w].monday) IN
          /\ OrderOf[sh.schedule] # <<>> /\ sh.monday % 7 = 4
          /\ sh = Shift(sh.schedule, sh.monday)
    BY <1>6, WrittenShift DEF InsertShifts
  <2>7. \A s, m : Shift(s, m)' = Shift(s, m)
    BY DEF Shift
  <2>8. ShiftInv'
    BY <1>0, <2>1, <2>6, <2>7 DEF ShiftInv
  <2>9. QED
    BY <2>4, <2>5, <2>8 DEF RotaInv
<1>7. ASSUME NEW w \in Workers, StartFails(w) \/ WorkerStops(w) PROVE RotaInv'
  <2>1. NoPlan \in [seen : SUBSET Schedules, monday : Int, missing : SUBSET Schedules]
    BY DEF NoPlan
  <2>2. /\ restarts' \in 0..MaxRestarts
        /\ worker' = [worker EXCEPT ![w] = "down"]
        /\ plan' = [plan EXCEPT ![w] = NoPlan]
        /\ UNCHANGED <<rotaVars, incidentVars, request, poll>>
    BY <1>0, <1>7, ConstantFacts DEF StartFails, WorkerStops, TypeOK
  <2>3. TypeOK'
    BY <1>0, <2>1, <2>2 DEF TypeOK
  <2>4. PlanInv'
    BY <1>0, <2>2 DEF TypeOK, PlanInv, NoPlan
  <2>5. ShiftInv'
    BY <1>0, <2>2 DEF ShiftInv, Shift
  <2>6. QED
    BY <2>3, <2>4, <2>5 DEF RotaInv
<1>8. ASSUME NEW i \in Incidents, CountEvent(i) \/ CreateIncident(i)
      PROVE  RotaInv'
  <2>1. CASE CountEvent(i)
    BY <1>0, <2>1, ConstantFacts DEF CountEvent, TypeOK, RotaInv, PlanInv, ShiftInv, Shift
  <2>2. CASE CreateIncident(i)
    <3>1. \A n : NewSeverity(i, n) \in 0..4
      BY SeverityRange DEF NewSeverity
    <3>2. PICK who \in People :
            /\ assignee' = [assignee EXCEPT ![i] = who]
            /\ born' = [born EXCEPT ![i] = who]
            /\ recorded' = [recorded EXCEPT ![i] = {who} \ {Nobody}]
      BY <1>0, <2>2, OnCallPeople DEF CreateIncident
    <3>3. TypeOK'
      BY <1>0, <2>2, <3>1, <3>2, ConstantFacts DEF CreateIncident, TypeOK, People
    <3>4. PlanInv' /\ ShiftInv'
      BY <1>0, <2>2 DEF CreateIncident, PlanInv, ShiftInv, Shift
    <3>5. QED
      BY <3>3, <3>4 DEF RotaInv
  <2>3. QED
    BY <1>8, <2>1, <2>2
<1>9. ASSUME NEW r \in Assignments, ReadEngineer(r) \/ AssignEngineer(r)
      PROVE  RotaInv'
  <2>1. CASE ReadEngineer(r)
    BY <1>0, <2>1 DEF ReadEngineer, TypeOK, RotaInv, PlanInv, ShiftInv, Shift
  <2>2. CASE AssignEngineer(r)
    <3>1. UserOf[r] \in Users /\ IncidentOf[r] \in Incidents
      BY ConstantFacts
    <3>2. assignee' \in [Incidents -> People]
      BY <1>0, <2>2, <3>1 DEF AssignEngineer, TypeOK, People
    <3>3. recorded' \in [Incidents -> SUBSET Users]
      BY <1>0, <2>2, <3>1 DEF AssignEngineer, TypeOK
    <3>4. TypeOK'
      BY <1>0, <2>2, <3>2, <3>3 DEF AssignEngineer, TypeOK
    <3>5. PlanInv' /\ ShiftInv'
      BY <1>0, <2>2 DEF AssignEngineer, PlanInv, ShiftInv, Shift
    <3>6. QED
      BY <3>4, <3>5 DEF RotaInv
  <2>3. QED
    BY <1>9, <2>1, <2>2
<1>10. ASSUME NEW c \in Polls, NEW i \in Incidents, ReadIncident(c, i)
       PROVE  RotaInv'
  <2>1. TypeOK'
    BY <1>0, <1>10 DEF ReadIncident, TypeOK, Reads
  <2>2. PlanInv' /\ ShiftInv'
    BY <1>0, <1>10 DEF ReadIncident, PlanInv, ShiftInv, Shift
  <2>3. QED
    BY <2>1, <2>2 DEF RotaInv
<1>11. ASSUME NEW c \in Polls, NEW read \in poll[c],
              ResolveTarget(c, read) \/ Escalate(c, read)
       PROVE  RotaInv'
  <2>0. read \in Reads
    BY <1>0 DEF TypeOK
  <2>1. CASE ResolveTarget(c, read)
    <3>1. [read EXCEPT !.resolved = TRUE, !.target = Target(Steps[read.level + 1])]
            \in Reads
      BY <1>0, <2>0, TargetUsers DEF Reads
    <3>2. TypeOK'
      BY <1>0, <2>1, <3>1 DEF ResolveTarget, TypeOK
    <3>3. PlanInv' /\ ShiftInv'
      BY <1>0, <2>1 DEF ResolveTarget, PlanInv, ShiftInv, Shift
    <3>4. QED
      BY <3>2, <3>3 DEF RotaInv
  <2>2. CASE Escalate(c, read)
    <3>1. PICK who \in People : assignee' = [assignee EXCEPT ![read.incident] = who]
      BY <2>0, <2>2 DEF Escalate, NewAssignee, Reads, People
    <3>2. TypeOK'
      BY <1>0, <2>0, <2>2, <3>1 DEF Escalate, TypeOK, Reads
    <3>3. PlanInv' /\ ShiftInv'
      BY <1>0, <2>2 DEF Escalate, PlanInv, ShiftInv, Shift
    <3>4. QED
      BY <3>2, <3>3 DEF RotaInv
  <2>3. QED
    BY <1>11, <2>1, <2>2
<1>12. CASE UNCHANGED vars
  BY <1>0, <1>12 DEF vars, RotaInv, TypeOK, PlanInv, ShiftInv, Shift
<1>13. QED
  BY <1>1, <1>2, <1>3, <1>4, <1>5, <1>6, <1>7, <1>8, <1>9, <1>10, <1>11, <1>12
     DEF Next, Startup

LEMMA RotaInvariant == SafetySpec => []RotaInv
BY RotaInit, RotaStep, PTL DEF SafetySpec

(* Every variable keeps its type, in every run.                            *)
THEOREM OwnershipTypeCorrect == SafetySpec => []TypeOK
BY RotaInvariant, PTL DEF RotaInv

LEMMA MondayOfWeek ==
  ASSUME NEW m \in Int, m % 7 = 4, NEW d \in Nat, m <= d, d < m + 7, d % 7 \in {4, 5, 6}
  PROVE  RouteWeek(d) = WorkerWeek(m)
BY SMT DEF RouteWeek, WorkerWeek, WeekStart

(* A schedule has one shift for a week, the one its rotation gives, and    *)
(* from Monday to Wednesday it is the one the API computes: for any number *)
(* of workers that start together, schedules, restarts and days.           *)
THEOREM ShiftsAreTheRotation == SafetySpec => []ShiftsFollowRotation
<1>1. RotaInv => ShiftsFollowRotation
  <2> SUFFICES ASSUME RotaInv, NEW sh \in shifts
               PROVE  /\ Row(sh.schedule, sh.monday) = {sh}
                      /\ {sh.user} = ShiftEngineer(OrderOf[sh.schedule], sh.monday)
                      /\ Current(sh) /\ day % 7 \in {4, 5, 6} =>
                           {sh.user} = ActiveEngineer(sh.schedule, day * DayMinutes)
    BY DEF ShiftsFollowRotation
  <2>1. /\ \A x \in shifts : x = Shift(x.schedule, x.monday)
        /\ OrderOf[sh.schedule] # <<>> /\ sh.monday % 7 = 4
        /\ sh.monday \in Int /\ day \in Nat /\ sh.user \in Users
    BY ConstantFacts DEF RotaInv, TypeOK, ShiftInv
  <2>2. Row(sh.schedule, sh.monday) = {sh}
    BY <2>1 DEF Row
  <2>3. sh.user = Pick(OrderOf[sh.schedule], WorkerWeek(sh.monday))
    BY <2>1 DEF Shift
  <2>4. ASSUME Current(sh), day % 7 \in {4, 5, 6}
        PROVE  {sh.user} = ActiveEngineer(sh.schedule, day * DayMinutes)
    <3>1. RouteWeek(day) = WorkerWeek(sh.monday)
      BY <2>1, <2>4, MondayOfWeek DEF Current
    <3>2. /\ (day * DayMinutes - 0) % DayMinutes = 0
          /\ (day * DayMinutes - 0) \div DayMinutes = day
      BY <2>1 DEF DayMinutes
    <3>3. Inside(0, 0, DayMinutes - 1)
      BY DEF Inside, DayMinutes
    <3>4. QED
      BY <2>1, <2>3, <3>1, <3>2, <3>3 DEF ActiveEngineer, RouteEngineer
  <2>5. QED
    BY <2>1, <2>2, <2>3, <2>4 DEF ShiftEngineer
<1>2. QED
  BY <1>1, RotaInvariant, PTL

-----------------------------------------------------------------------------
(* A poll works on an incident that exists, and read an assignee if the    *)
(* incident was created with one.                                          *)
OwnedInv ==
  /\ \A i \in Incidents : severity[i] = 0 => born[i] = Nobody
  /\ OwnedStaysOwned
  /\ \A c \in Polls : \A read \in poll[c] :
       /\ severity[read.incident] # 0
       /\ born[read.incident] # Nobody => read.assignee # Nobody
       /\ read.target \subseteq Users

LEMMA OwnedStep == RotaInv /\ OwnedInv /\ [Next]_vars => OwnedInv'
<1> SUFFICES ASSUME TypeOK, OwnedInv, [Next]_vars PROVE OwnedInv'
  BY DEF RotaInv
<1> USE DEF OwnedInv, OwnedStaysOwned
<1>1. ASSUME NEW i \in Incidents, CreateIncident(i) PROVE OwnedInv'
  <2>1. \A n : NewSeverity(i, n) # 0
    BY SeverityRange DEF NewSeverity
  <2>2. PICK who \in OnCall, n \in {1, count[i]} :
          /\ severity' = [severity EXCEPT ![i] = NewSeverity(i, n)]
          /\ assignee' = [assignee EXCEPT ![i] = who]
          /\ born' = [born EXCEPT ![i] = who]
          /\ severity[i] = 0 /\ UNCHANGED poll
    BY <1>1 DEF CreateIncident
  <2>3. \A c \in Polls : \A read \in poll[c] : read.incident \in Incidents \ {i}
    BY <2>2 DEF TypeOK, Reads
  <2>4. QED
    BY <2>1, <2>2, <2>3 DEF TypeOK
<1>2. ASSUME NEW r \in Assignments, AssignEngineer(r) PROVE OwnedInv'
  <2>1. UserOf[r] # Nobody /\ IncidentOf[r] \in Incidents
    BY ConstantFacts
  <2>2. QED
    BY <1>2, <2>1 DEF AssignEngineer, TypeOK
<1>3. ASSUME NEW c \in Polls, NEW i \in Incidents, ReadIncident(c, i)
      PROVE  OwnedInv'
  BY <1>3 DEF ReadIncident, TypeOK, rotaVars, workerVars, incidentVars
<1>4. ASSUME NEW c \in Polls, NEW read \in poll[c], ResolveTarget(c, read)
      PROVE  OwnedInv'
  <2> DEFINE new == [read EXCEPT !.resolved = TRUE,
                                 !.target = Target(Steps[read.level + 1])]
  <2>1. read \in Reads
    BY DEF TypeOK
  <2>2. /\ new.incident = read.incident /\ new.assignee = read.assignee
        /\ new.target \subseteq Users
    BY <2>1, TargetUsers DEF Reads
  <2> HIDE DEF new
  <2>3. poll' = [poll EXCEPT ![c] = {new}] /\ UNCHANGED <<severity, assignee, born>>
    BY <1>4 DEF ResolveTarget, incidentVars, new
  <2>4. QED
    BY <2>2, <2>3 DEF TypeOK
<1>5. ASSUME NEW c \in Polls, NEW read \in poll[c], Escalate(c, read)
      PROVE  OwnedInv'
  <2>1. PICK who \in NewAssignee(read) :
          assignee' = [assignee EXCEPT ![read.incident] = who]
    BY <1>5 DEF Escalate
  <2>2. read.incident \in Incidents
        /\ (born[read.incident] # Nobody => who # Nobody)
    BY <2>1, ConstantFacts DEF NewAssignee, TypeOK, Reads
  <2>3. QED
    BY <1>5, <2>1, <2>2 DEF Escalate, TypeOK
<1>6. CASE UNCHANGED <<severity, assignee, born, poll>>
  BY <1>6
<1>7. QED
  BY <1>1, <1>2, <1>3, <1>4, <1>5, <1>6
     DEF Next, Startup, NextDay, CreateSchedule, DeleteSchedule, SetUserActive,
         ListSchedules, CheckShifts, InsertShifts, StartFails, WorkerStops,
         CountEvent, ReadEngineer, rotaVars, workerVars, incidentVars, vars

(* An incident that was created with an engineer always has one, whatever  *)
(* the poll cycles had read, for any number of them and of requests.       *)
THEOREM OwnedForEver == SafetySpec => []OwnedStaysOwned
<1>1. Init => OwnedInv
  BY DEF Init, OwnedInv, OwnedStaysOwned
<1>2. OwnedInv => OwnedStaysOwned
  BY DEF OwnedInv
<1>3. QED
  BY <1>1, <1>2, OwnedStep, RotaInvariant, PTL DEF SafetySpec

-----------------------------------------------------------------------------
LEMMA HistoryStep ==
  TypeOK /\ HistoryNamesAssignee /\ [Next]_vars => HistoryNamesAssignee'
<1> SUFFICES ASSUME TypeOK, HistoryNamesAssignee, [Next]_vars
             PROVE  HistoryNamesAssignee'
  OBVIOUS
<1> USE DEF HistoryNamesAssignee
<1>1. ASSUME NEW i \in Incidents, CreateIncident(i) PROVE HistoryNamesAssignee'
  BY <1>1 DEF CreateIncident, TypeOK
<1>2. ASSUME NEW r \in Assignments, AssignEngineer(r) PROVE HistoryNamesAssignee'
  BY <1>2, ConstantFacts DEF AssignEngineer, TypeOK
<1>3. ASSUME NEW c \in Polls, NEW read \in poll[c], Escalate(c, read)
      PROVE  HistoryNamesAssignee'
  <2>1. read.incident \in Incidents
    BY DEF TypeOK, Reads
  <2>2. level'[read.incident] # 0
    BY <1>3, <2>1 DEF Escalate, TypeOK
  <2>3. QED
    BY <1>3, <2>1, <2>2 DEF Escalate, TypeOK
<1>4. CASE UNCHANGED <<assignee, recorded, level>>
  BY <1>4
<1>5. QED
  BY <1>1, <1>2, <1>3, <1>4
     DEF Next, Startup, NextDay, CreateSchedule, DeleteSchedule, SetUserActive,
         ListSchedules, CheckShifts, InsertShifts, StartFails, WorkerStops,
         CountEvent, ReadEngineer, ReadIncident, ResolveTarget,
         rotaVars, workerVars, incidentVars, vars

(* The assignment history names the assignee of every incident that no     *)
(* step has escalated.                                                     *)
THEOREM HistoryComplete == SafetySpec => []HistoryNamesAssignee
<1>1. Init => HistoryNamesAssignee
  BY DEF Init, HistoryNamesAssignee
<1>2. QED
  BY <1>1, HistoryStep, OwnershipTypeCorrect, PTL DEF SafetySpec

-----------------------------------------------------------------------------
(* What calculateSeverity answers, for every event and every frequency.    *)

LevelRank == [LOW |-> 1, MEDIUM |-> 2, HIGH |-> 3, CRITICAL |-> 4]
EnvironmentRank == [development |-> 1, staging |-> 2, production |-> 3]

LEMMA WeightsRise ==
  /\ \A a, b \in Levels : LevelRank[a] <= LevelRank[b] =>
       /\ EventWeight[a] <= EventWeight[b]
       /\ CriticalityBump[a] <= CriticalityBump[b]
  /\ \A d, e \in Environments : EnvironmentRank[d] <= EnvironmentRank[e] =>
       EnvironmentPenalty[d] <= EnvironmentPenalty[e]
  /\ \A a \in Levels : EventWeight[a] \in Int /\ CriticalityBump[a] \in Int
  /\ \A e \in Environments : EnvironmentPenalty[e] \in Int
BY DEF Levels, Environments, LevelRank, EnvironmentRank, EventWeight,
       CriticalityBump, EnvironmentPenalty

LEMMA BumpsRise ==
  \A m, n \in Nat : m <= n =>
    /\ FrequencyBump(m) <= FrequencyBump(n) /\ RepeatBump(m) <= RepeatBump(n)
    /\ FrequencyBump(m) \in 0..3 /\ RepeatBump(m) \in 0..2
BY DEF FrequencyBump, RepeatBump

(* A more critical service, a worse event, an environment nearer to        *)
(* production or a more frequent failure never makes an incident less      *)
(* severe: no threshold is crossed the wrong way by any combination.       *)
THEOREM SeverityMonotone ==
  ASSUME NEW c \in Levels, NEW s \in Levels, NEW e \in Environments, NEW m \in Nat,
         NEW d \in Levels, NEW t \in Levels, NEW f \in Environments, NEW n \in Nat,
         LevelRank[c] <= LevelRank[d], LevelRank[s] <= LevelRank[t],
         EnvironmentRank[e] <= EnvironmentRank[f], m <= n
  PROVE  CalculateSeverity(d, t, f, n) <= CalculateSeverity(c, s, e, m)
<1>1. /\ FrequencyBump(m) \in Int /\ FrequencyBump(n) \in Int
      /\ RepeatBump(m) \in Int /\ RepeatBump(n) \in Int
  BY DEF FrequencyBump, RepeatBump
<1>2. /\ Score(c, s, e, m) \in Int /\ Score(d, t, f, n) \in Int
      /\ Score(c, s, e, m) <= Score(d, t, f, n)
  BY <1>1, WeightsRise, BumpsRise DEF Score
<1>3. ASSUME NEW x \in Int, NEW y \in Int, x <= y
      PROVE  SeverityOf(y) <= SeverityOf(x)
  BY <1>3 DEF SeverityOf
<1>4. QED
  BY <1>2, <1>3 DEF CalculateSeverity

(* "CRITICAL events in production map to SEV-1" (severity.ts:41) at every  *)
(* frequency, unless the service is of LOW criticality; there the first    *)
(* one is SEV-2. The first "LOW events in development" are SEV-4, whatever *)
(* the service.                                                            *)
THEOREM SeverityEnds ==
  /\ \A c \in Levels \ {"LOW"}, n \in Nat :
       CalculateSeverity(c, "CRITICAL", "production", n) = 1
  /\ CalculateSeverity("LOW", "CRITICAL", "production", 1) = 2
  /\ \A c \in Levels : CalculateSeverity(c, "LOW", "development", 1) = 4
<1>1. \A n \in Nat : FrequencyBump(n) \in 0..3 /\ RepeatBump(n) \in 0..2
  BY BumpsRise
<1>2. ASSUME NEW c \in Levels \ {"LOW"}, NEW n \in Nat
      PROVE  CalculateSeverity(c, "CRITICAL", "production", n) = 1
  <2>1. CriticalityBump[c] \in {0, 2, 4}
    BY DEF Levels, CriticalityBump
  <2>2. /\ EventWeight["CRITICAL"] = 16 /\ EnvironmentPenalty["production"] = 0
    BY DEF EventWeight, EnvironmentPenalty
  <2>3. Score(c, "CRITICAL", "production", n) \in Int
        /\ Score(c, "CRITICAL", "production", n) >= 16
    BY <1>1, <2>1, <2>2 DEF Score
  <2>4. QED
    BY <2>3 DEF CalculateSeverity, SeverityOf
<1>3. FrequencyBump(1) = 0 /\ RepeatBump(1) = 0
  BY DEF FrequencyBump, RepeatBump
<1>4. CalculateSeverity("LOW", "CRITICAL", "production", 1) = 2
  BY <1>3 DEF CalculateSeverity, SeverityOf, Score, EventWeight, CriticalityBump,
     EnvironmentPenalty
<1>5. ASSUME NEW c \in Levels
      PROVE  CalculateSeverity(c, "LOW", "development", 1) = 4
  <2>1. CriticalityBump[c] \in {-2, 0, 2, 4}
    BY DEF Levels, CriticalityBump
  <2>2. EventWeight["LOW"] = 4 /\ EnvironmentPenalty["development"] = -6
    BY DEF EventWeight, EnvironmentPenalty
  <2>3. Score(c, "LOW", "development", 1) \in {-4, -2, 0, 2}
    BY <1>3, <2>1, <2>2 DEF Score
  <2>4. QED
    BY <2>3 DEF CalculateSeverity, SeverityOf
<1>6. QED
  BY <1>2, <1>4, <1>5

-----------------------------------------------------------------------------
(* A hundred deliveries add at most four quarters to a score, and no level *)
(* of the severities is narrower than that.                                *)
LEMMA RedeliveryRaisesOnce ==
  ASSUME NEW i \in Incidents, NEW n \in 1..100
  PROVE  SeverityFor(i, n) \in {SeverityFor(i, 1) - 1, SeverityFor(i, 1)}
<1> DEFINE e == EventOf[i]
           base == Score(e.criticality, e.severity, e.environment, 1)
<1>1. e \in [criticality : Levels, severity : Levels, environment : Environments]
  BY OwnershipAssumption
<1>2. /\ EventWeight[e.severity] \in Int /\ CriticalityBump[e.criticality] \in Int
      /\ EnvironmentPenalty[e.environment] \in Int
  BY <1>1 DEF Levels, Environments, EventWeight, CriticalityBump, EnvironmentPenalty
<1>3. /\ base \in Int
      /\ Score(e.criticality, e.severity, e.environment, n)
           \in {base, base + 2, base + 3, base + 4}
  BY <1>2 DEF Score, FrequencyBump, RepeatBump
<1>4. ASSUME NEW x \in Int, NEW y, y \in {x, x + 2, x + 3, x + 4}
      PROVE  SeverityOf(y) \in {SeverityOf(x) - 1, SeverityOf(x)}
  BY <1>4 DEF SeverityOf
<1>5. SeverityFor(i, 1) = SeverityOf(base)
  BY DEF SeverityFor, CalculateSeverity
<1>6. SeverityFor(i, n) = SeverityOf(Score(e.criticality, e.severity, e.environment, n))
  BY DEF SeverityFor, CalculateSeverity
<1> HIDE DEF e, base
<1>7. SeverityOf(Score(e.criticality, e.severity, e.environment, n))
        \in {SeverityOf(base) - 1, SeverityOf(base)}
  BY ONLY <1>3, <1>4
<1>8. QED
  BY <1>5, <1>6, <1>7

SeverityInv ==
  \A i \in Incidents :
    severity[i] # 0 => \E n \in 1..(MaxRetries + 1) : severity[i] = SeverityFor(i, n)

LEMMA SeverityStep == TypeOK /\ SeverityInv /\ [Next]_vars => SeverityInv'
<1> SUFFICES ASSUME TypeOK, SeverityInv, [Next]_vars PROVE SeverityInv'
  OBVIOUS
<1>0. \A i, n : SeverityFor(i, n)' = SeverityFor(i, n)
  BY DEF SeverityFor
<1> USE DEF SeverityInv
<1>1. ASSUME NEW i \in Incidents, CreateIncident(i) PROVE SeverityInv'
  <2>1. count[i] \in 1..(MaxRetries + 1)
    BY <1>1, ConstantFacts DEF CreateIncident, TypeOK
  <2>2. PICK n \in {1, count[i]} : severity' = [severity EXCEPT ![i] = SeverityFor(i, n)]
    BY <1>1 DEF CreateIncident, NewSeverity
  <2>3. QED
    BY <1>0, <2>1, <2>2, ConstantFacts DEF TypeOK
<1>2. CASE UNCHANGED severity
  BY <1>0, <1>2
<1>3. QED
  BY <1>1, <1>2
     DEF Next, Startup, NextDay, CreateSchedule, DeleteSchedule, SetUserActive,
         ListSchedules, CheckShifts, InsertShifts, StartFails, WorkerStops,
         CountEvent, ReadEngineer, AssignEngineer, ReadIncident, ResolveTarget,
         Escalate, rotaVars, workerVars, incidentVars, vars

(* With fewer than a hundred retries, redeliveries take the severity of a  *)
(* new incident up by one level at the most, whatever the event.           *)
THEOREM SeverityStaysNear ==
  ASSUME MaxRetries < 100 PROVE SafetySpec => []SeverityNearEvent
<1>1. Init => SeverityInv
  BY DEF Init, SeverityInv
<1>2. SeverityInv => SeverityNearEvent
  <2> SUFFICES ASSUME SeverityInv, NEW i \in Incidents, severity[i] # 0
               PROVE  severity[i] \in {SeverityFor(i, 1) - 1, SeverityFor(i, 1)}
    BY DEF SeverityNearEvent
  <2>1. PICK n \in 1..(MaxRetries + 1) : severity[i] = SeverityFor(i, n)
    BY DEF SeverityInv
  <2>2. n \in 1..100
    BY ConstantFacts
  <2>3. QED
    BY <2>1, <2>2, RedeliveryRaisesOnce
<1>3. QED
  BY <1>1, <1>2, SeverityStep, OwnershipTypeCorrect, PTL DEF SafetySpec
=============================================================================
