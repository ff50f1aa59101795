-------------------------- MODULE HealthCheckProofs --------------------------
(***************************************************************************)
(* Theorems about HealthCheck, for any number of services, processes and   *)
(* overlapping polls, any threshold and any number of failures.            *)
(***************************************************************************)
EXTENDS HealthCheck, FiniteSetTheorems, TLAPS

LEMMA HealthConstants ==
  /\ IsFiniteSet(Polls)
  /\ \A q \in Polls : ProcessOf[q] \in Processes
  /\ DownAfter \in Nat \ {0} /\ MaxFlips \in Nat /\ MaxFaults \in Nat
BY HealthAssumption

LEMMA FaultCounts ==
  ASSUME TypeOK, Fault
  PROVE  faults' = faults + 1 /\ faults' \in 0..MaxFaults
BY HealthConstants DEF Fault, TypeOK

LEMMA CheckTypes ==
  ASSUME TypeOK, NEW q \in Polls, NEW s \in Services, Check(q, s)
  PROVE  /\ failures' \in [Processes -> [Services -> 0..(DownAfter + 1)]]
         /\ current' \in [Polls -> SUBSET Checks]
<1> DEFINE before == failures[ProcessOf[q]][s]
           after == IF up[s] THEN 0 ELSE Capped(before + 1)
<1>1. before \in 0..(DownAfter + 1)
  BY HealthConstants DEF TypeOK
<1>2. after \in 0..(DownAfter + 1)
  BY <1>1, HealthConstants DEF Capped
<1>3. /\ failures' = [failures EXCEPT ![ProcessOf[q]][s] = after]
      /\ current' = [current EXCEPT ![q] =
           {[svc |-> s, ok |-> up[s], before |-> before, after |-> after]}]
  BY DEF Check
<1> HIDE DEF before, after
<1>4. failures' \in [Processes -> [Services -> 0..(DownAfter + 1)]]
  BY <1>2, <1>3, HealthConstants DEF TypeOK
<1>5. [svc |-> s, ok |-> up[s], before |-> before, after |-> after] \in Checks
  BY <1>1, <1>2 DEF TypeOK, Checks
<1>6. QED
  BY <1>3, <1>4, <1>5 DEF TypeOK

LEMMA StatusForType ==
  \A check : StatusFor(check) \in ServiceStatuses
BY DEF StatusFor, ServiceStatuses

(* Every action keeps the types.                                           *)
LEMMA HealthTypesStep == TypeOK /\ [Next]_vars => TypeOK'
<1> SUFFICES ASSUME TypeOK, [Next]_vars PROVE TypeOK'
  OBVIOUS
<1> USE DEF pollVars
<1>1. ASSUME NEW s \in Services, CreateService(s) \/ DisableService(s)
      PROVE  TypeOK'
  BY <1>1 DEF CreateService, NameTaken, DisableService, TypeOK, ServiceStatuses
<1>2. ASSUME NEW s \in Services, Flip(s) PROVE TypeOK'
  BY <1>2, HealthConstants DEF Flip, TypeOK
<1>3. ASSUME NEW q \in Polls, StartPoll(q) PROVE TypeOK'
  <2>1. phase' \in [Polls -> Phases]
    BY <1>3 DEF StartPoll, Goto, TypeOK, Phases
  <2>2. processing' \in Nat /\ faults' \in 0..MaxFaults
    BY <1>3, FaultCounts DEF StartPoll, TypeOK
  <2>3. QED
    BY <1>3, <2>1, <2>2 DEF StartPoll, TypeOK
<1>4. ASSUME NEW q \in Polls, ListServices(q) PROVE TypeOK'
  BY <1>4 DEF ListServices, Goto, TypeOK, Phases
<1>5. ASSUME NEW q \in Polls, NEW s \in Services, Check(q, s) PROVE TypeOK'
  <2>1. phase' \in [Polls -> Phases] /\ todo' \in [Polls -> SUBSET Services]
    BY <1>5 DEF Check, Goto, TypeOK, Phases
  <2>2. QED
    BY <1>5, <2>1, CheckTypes DEF Check, TypeOK
<1>6. ASSUME NEW q \in Polls, NEW check \in current[q], Record(q, check)
      PROVE  TypeOK'
  <2>1. status' \in [Services -> ServiceStatuses]
    BY <1>6, StatusForType DEF Record, TypeOK
  <2>2. phase' \in [Polls -> Phases] /\ current' \in [Polls -> SUBSET Checks]
    BY <1>6 DEF Record, Goto, TypeOK, Phases
  <2>3. QED
    BY <1>6, <2>1, <2>2 DEF Record, TypeOK
<1>7. ASSUME NEW q \in Polls, NEW check \in current[q], Announce(q, check)
      PROVE  TypeOK'
  <2>1. announced' \in [Services -> Int]
    <3>1. PICK n \in Int : announced' = [announced EXCEPT ![check.svc] = n]
      <4>1. announced[check.svc] \in Int
        BY DEF TypeOK, Checks
      <4>2. announced[check.svc] - 1 \in Int /\ announced[check.svc] + 1 \in Int
        BY <4>1
      <4>3. QED
        BY <1>7, <4>2 DEF Announce
    <3>2. QED
      BY <3>1 DEF TypeOK
  <2>2. phase' \in [Polls -> Phases] /\ current' \in [Polls -> SUBSET Checks]
    BY <1>7 DEF Announce, Goto, TypeOK, Phases
  <2>3. QED
    BY <1>7, <2>1, <2>2 DEF Announce, TypeOK
<1>8. ASSUME NEW q \in Polls, PollFails(q) PROVE TypeOK'
  BY <1>8, FaultCounts DEF PollFails, Goto, TypeOK, Phases
<1>9. ASSUME NEW q \in Polls, EndPoll(q) PROVE TypeOK'
  <2>1. phase' \in [Polls -> Phases]
    BY <1>9 DEF EndPoll, Goto, TypeOK, Phases
  <2>2. processing' \in Nat /\ faults' \in 0..MaxFaults
    BY <1>9, FaultCounts DEF EndPoll, TypeOK
  <2>3. QED
    BY <1>9, <2>1, <2>2 DEF EndPoll, TypeOK
<1>10. ASSUME NEW p \in Processes, Crash(p) PROVE TypeOK'
  <2>1. failures' \in [Processes -> [Services -> 0..(DownAfter + 1)]]
    <3>1. [s \in Services |-> 0] \in [Services -> 0..(DownAfter + 1)]
      BY HealthConstants
    <3>2. QED
      BY <1>10, <3>1 DEF Crash, TypeOK
  <2>2. /\ phase' \in [Polls -> Phases]
        /\ todo' \in [Polls -> SUBSET Services]
        /\ current' \in [Polls -> SUBSET Checks]
    BY <1>10 DEF Crash, TypeOK, Phases
  <2>3. QED
    BY <1>10, <2>1, <2>2, FaultCounts DEF Crash, TypeOK
<1>11. CASE UNCHANGED vars
  BY <1>11 DEF vars, TypeOK
<1>12. todo \in [Polls -> SUBSET Services]
  BY DEF TypeOK
<1>13. QED
  BY <1>1, <1>2, <1>3, <1>4, <1>5, <1>6, <1>7, <1>8, <1>9, <1>10, <1>11, <1>12
     DEF Next, Work

LEMMA HealthTypesInit == Init => TypeOK
BY HealthConstants DEF Init, TypeOK, ServiceStatuses, Phases

(* Every variable keeps its type, in every run.                            *)
THEOREM HealthTypeCorrect == SafetySpec => []TypeOK
BY HealthTypesInit, HealthTypesStep, PTL DEF SafetySpec

-----------------------------------------------------------------------------
(* A poll that does not go through a service does not pick it up again     *)
(* while it is in maintenance.                                             *)
Kept(s) == status[s] = "MAINTENANCE" /\ Reaching(s) = {}

LEMMA KeptStep ==
  ASSUME NEW s \in Services PROVE TypeOK /\ Kept(s) /\ [Next]_vars => Kept(s)'
<1> SUFFICES ASSUME TypeOK, Kept(s), [Next]_vars PROVE Kept(s)'
  OBVIOUS
<1>0. \A q \in Polls : s \notin todo[q] /\ \A check \in current[q] : check.svc # s
  BY DEF Kept, Reaching
<1> SUFFICES /\ status'[s] = "MAINTENANCE"
             /\ \A q \in Polls : /\ s \notin todo'[q]
                                 /\ \A check \in current'[q] : check.svc # s
  BY DEF Kept, Reaching
<1> USE DEF pollVars, Kept
<1>1. ASSUME NEW x \in Services, CreateService(x) \/ DisableService(x) \/ Flip(x)
      PROVE  status'[s] = "MAINTENANCE" /\ UNCHANGED <<todo, current>>
  BY <1>1 DEF CreateService, NameTaken, DisableService, Flip, TypeOK
<1>2. ASSUME NEW q \in Polls, ListServices(q)
      PROVE  /\ status' = status /\ current' = current
             /\ \A r \in Polls : s \notin todo'[r]
  BY <1>0, <1>2 DEF ListServices, TypeOK
<1>3. ASSUME NEW q \in Polls, NEW x \in todo[q], Check(q, x)
      PROVE  /\ status' = status
             /\ \A r \in Polls : /\ s \notin todo'[r]
                                 /\ \A check \in current'[r] : check.svc # s
  BY <1>0, <1>3 DEF Check, TypeOK
<1>4. ASSUME NEW q \in Polls, NEW check \in current[q],
             Record(q, check) \/ Announce(q, check)
      PROVE  /\ status'[s] = "MAINTENANCE" /\ todo' = todo
             /\ \A r \in Polls : current'[r] \subseteq current[r]
  BY <1>0, <1>4 DEF Record, Announce, TypeOK, Checks
<1>5. ASSUME NEW q \in Polls, PollFails(q)
      PROVE  /\ status' = status
             /\ \A r \in Polls : todo'[r] \subseteq todo[r] /\ current'[r] \subseteq current[r]
  BY <1>5 DEF PollFails, TypeOK
<1>6. ASSUME NEW p \in Processes, Crash(p)
      PROVE  /\ status' = status
             /\ \A r \in Polls : todo'[r] \subseteq todo[r] /\ current'[r] \subseteq current[r]
  BY <1>6 DEF Crash, TypeOK
<1>7. ASSUME NEW q \in Polls, StartPoll(q) \/ EndPoll(q)
      PROVE  UNCHANGED <<status, todo, current>>
  BY <1>7 DEF StartPoll, EndPoll
<1>8. QED
  BY <1>0, <1>1, <1>2, <1>3, <1>4, <1>5, <1>6, <1>7 DEF Next, Work, vars

(* MAINTENANCE is not overwritten once the polls that had listed the       *)
(* service are through, whatever fails or crashes.                         *)
THEOREM MaintenanceKept == SafetySpec => MaintenanceIsKept
<1> SUFFICES ASSUME NEW s \in Services
             PROVE  SafetySpec =>
                      [](status[s] = "MAINTENANCE" /\ Reaching(s) = {}
                           => [](status[s] = "MAINTENANCE"))
  BY DEF MaintenanceIsKept
<1>1. Kept(s) <=> status[s] = "MAINTENANCE" /\ Reaching(s) = {}
  BY DEF Kept
<1>2. TypeOK /\ Kept(s) /\ [Next]_vars => Kept(s)'
  BY KeptStep
<1>3. QED
  BY <1>1, <1>2, HealthTypeCorrect, PTL DEF SafetySpec

-----------------------------------------------------------------------------
(* How far the counter of running jobs can be from the polls that run.     *)

LEMMA RunningFinite ==
  /\ IsFiniteSet(Running) /\ Cardinality(Running) \in Nat
  /\ Cardinality(Running) <= Cardinality(Polls) /\ Cardinality(Polls) \in Nat
BY HealthConstants, FS_Subset, FS_CardinalityType DEF Running

Off == processing - Cardinality(Running)

\* One poll more or less, and the counter with it or not at all.
LEMMA CounterMoves ==
  ASSUME TypeOK, ProcessingIsRunning, NEW d \in Int, Off' = Off + d,
         \/ d = 0 /\ faults' \in {faults, faults + 1}
         \/ /\ -Cardinality(Polls) <= d /\ d <= Cardinality(Polls)
            /\ faults' = faults + 1
  PROVE  ProcessingIsRunning'
<1> DEFINE C == Cardinality(Polls)
<1>1. C \in Nat /\ faults \in Nat /\ Off \in Int
  BY RunningFinite, HealthConstants DEF TypeOK, Off
<1>2. (faults + 1) * C = faults * C + C
  BY <1>1
<1>3. faults * C \in Nat
  BY <1>1
<1>4. Magnitude(Off) <= faults * C
  BY DEF ProcessingIsRunning, Off
<1>5. ProcessingIsRunning' <=> Magnitude(Off') <= faults' * C
  BY DEF ProcessingIsRunning, Off, Magnitude
<1> HIDE DEF C
<1>6. ASSUME NEW b \in Nat, Magnitude(Off) <= b
      PROVE  /\ d = 0 => Magnitude(Off + d) <= b /\ Magnitude(Off + d) <= b + C
             /\ -C <= d /\ d <= C => Magnitude(Off + d) <= b + C
  BY <1>1, <1>6 DEF Magnitude
<1>7. QED
  BY <1>1, <1>2, <1>3, <1>4, <1>5, <1>6 DEF C

LEMMA RunningStep ==
  TypeOK /\ ProcessingIsRunning /\ [Next]_vars => ProcessingIsRunning'
<1> SUFFICES ASSUME TypeOK, ProcessingIsRunning, [Next]_vars
             PROVE  ProcessingIsRunning'
  OBVIOUS
<1>0. processing \in Nat /\ Off \in Int
  BY RunningFinite DEF TypeOK, Off
<1>1. ASSUME Running' = Running, UNCHANGED processing,
             faults' \in {faults, faults + 1}
      PROVE  ProcessingIsRunning'
  <2>1. Off' = Off + 0
    BY <1>0, <1>1 DEF Off
  <2>2. QED
    BY <1>1, <2>1, CounterMoves
<1>2. ASSUME NEW q \in Polls, StartPoll(q) PROVE ProcessingIsRunning'
  <2>1. q \notin Running /\ Running' = Running \cup {q}
    BY <1>2 DEF StartPoll, Goto, Running, TypeOK
  <2>2. Cardinality(Running') = Cardinality(Running) + 1
    BY <2>1, RunningFinite, FS_AddElement
  <2>3. Cardinality(Polls) >= 1
    BY RunningFinite, HealthConstants, FS_EmptySet
  <2>4. CASE processing' = processing + 1 /\ UNCHANGED faults
    <3>1. Off' = Off + 0
      BY <1>0, <2>2, <2>4, RunningFinite DEF Off
    <3>2. QED
      BY <2>4, <3>1, CounterMoves
  <2>5. CASE Fault /\ UNCHANGED processing
    <3>1. Off' = Off + (-1)
      BY <1>0, <2>2, <2>5, RunningFinite DEF Off
    <3>2. QED
      BY <2>3, <2>5, <3>1, CounterMoves, FaultCounts, RunningFinite
  <2>6. QED
    BY <1>2, <2>4, <2>5 DEF StartPoll
<1>3. ASSUME NEW q \in Polls, EndPoll(q) PROVE ProcessingIsRunning'
  <2>1. q \in Running /\ Running' = Running \ {q}
    BY <1>3 DEF EndPoll, Through, Goto, Running, TypeOK
  <2>2. Cardinality(Running') = Cardinality(Running) - 1
    BY <2>1, RunningFinite, FS_RemoveElement
  <2>3. Cardinality(Running) >= 1 /\ Cardinality(Polls) >= 1
    <3>1. Cardinality(Running) # 0
      BY <2>1, RunningFinite, FS_EmptySet
    <3>2. QED
      BY <3>1, RunningFinite
  <2>4. CASE processing > 0 /\ processing' = processing - 1 /\ UNCHANGED faults
    <3>1. Off' = Off + 0
      BY <1>0, <2>2, <2>4, RunningFinite DEF Off
    <3>2. QED
      BY <2>4, <3>1, CounterMoves
  <2>5. CASE processing = 0 /\ processing' = 0 /\ UNCHANGED faults
    <3>1. Off' = Off + 1 /\ Off <= -1
      BY <1>0, <2>2, <2>3, <2>5, RunningFinite DEF Off
    <3>2. Magnitude(Off') <= Magnitude(Off)
      BY <1>0, <3>1 DEF Magnitude
    <3>3. Magnitude(Off) <= faults * Cardinality(Polls)
      BY DEF ProcessingIsRunning, Off
    <3>4. faults * Cardinality(Polls) \in Nat /\ Magnitude(Off) \in Nat
          /\ Magnitude(Off') \in Nat
      BY <1>0, <3>1, RunningFinite, HealthConstants DEF TypeOK, Magnitude
    <3>5. QED
      BY <2>5, <3>2, <3>3, <3>4 DEF ProcessingIsRunning, Off, Magnitude
  <2>6. CASE Fault /\ UNCHANGED processing
    <3>1. Off' = Off + 1
      BY <1>0, <2>2, <2>6, RunningFinite DEF Off
    <3>2. QED
      BY <2>3, <2>6, <3>1, CounterMoves, FaultCounts, RunningFinite
  <2>7. QED
    BY <1>0, <1>3, <2>4, <2>5, <2>6 DEF EndPoll
<1>4. ASSUME NEW p \in Processes, Crash(p) PROVE ProcessingIsRunning'
  <2>1. Running' \subseteq Running /\ UNCHANGED processing /\ Fault
    BY <1>4 DEF Crash, Running
  <2>2. /\ Cardinality(Running') \in Nat
        /\ Cardinality(Running') <= Cardinality(Running)
    BY <2>1, RunningFinite, FS_Subset, FS_CardinalityType
  <2>3. PICK d \in Int : /\ d = Cardinality(Running) - Cardinality(Running')
                         /\ 0 <= d /\ d <= Cardinality(Polls)
    BY <2>2, RunningFinite
  <2>4. Off' = Off + d
    BY <1>0, <2>1, <2>2, <2>3, RunningFinite DEF Off
  <2>5. QED
    BY <2>1, <2>3, <2>4, CounterMoves, FaultCounts, RunningFinite
<1>5. ASSUME NEW q \in Polls,
             \/ ListServices(q) \/ PollFails(q)
             \/ \E s \in todo[q] : Check(q, s)
             \/ \E check \in current[q] : Record(q, check) \/ Announce(q, check)
      PROVE  ProcessingIsRunning'
  <2>1. \E at \in Phases \ {"idle"} : phase' = [phase EXCEPT ![q] = at]
    BY <1>5 DEF ListServices, PollFails, Check, Record, Announce, Goto, Phases
  <2>2. phase[q] # "idle" /\ UNCHANGED processing
    BY <1>5 DEF ListServices, PollFails, Check, Record, Announce
  <2>3. Running' = Running
    BY <2>1, <2>2 DEF Running, TypeOK
  <2>4. faults' \in {faults, faults + 1}
    BY <1>5, FaultCounts DEF ListServices, PollFails, Check, Record, Announce
  <2>5. QED
    BY <1>1, <2>2, <2>3, <2>4
<1>6. CASE UNCHANGED <<phase, processing, faults>>
  BY <1>1, <1>6 DEF Running
<1>7. QED
  BY <1>2, <1>3, <1>4, <1>5, <1>6
     DEF Next, Work, CreateService, DisableService, Flip, pollVars, vars

(* The running jobs of the system page: exact without failures, and off by *)
(* no more than all polls for every failing statement or crash.            *)
THEOREM ProcessingCounts == SafetySpec => []ProcessingIsRunning
<1>1. Init => ProcessingIsRunning
  <2> SUFFICES ASSUME Init PROVE ProcessingIsRunning
    OBVIOUS
  <2>1. Running = {} /\ processing = 0 /\ faults = 0
    BY DEF Init, Running
  <2>2. Cardinality({}) = 0
    BY FS_EmptySet
  <2>3. QED
    BY <2>1, <2>2, RunningFinite DEF ProcessingIsRunning, Magnitude
<1>2. QED
  BY <1>1, RunningStep, HealthTypeCorrect, PTL DEF SafetySpec

-----------------------------------------------------------------------------
(* The announcements. A poll records one check at a time and announces it  *)
(* only when it opens or closes an outage, so a counter that reaches the   *)
(* threshold, or leaves it, comes with one announcement to come, and an    *)
(* announcement to come becomes one that was made.                         *)
ChecksKnown ==
  \A q \in Polls :
    /\ phase[q] \notin {"record", "announce"} => current[q] = {}
    /\ \A one, other \in current[q] : one = other
    /\ \A check \in current[q] :
         /\ check.ok => check.after = 0
         /\ phase[q] = "announce" => Failing(check) \/ Recovering(check)

\* The steps inside a poll, for the poll they are of.
LEMMA ChecksKnownStep == TypeOK /\ ChecksKnown /\ [Next]_vars => ChecksKnown'
<1> SUFFICES ASSUME TypeOK, ChecksKnown, [Next]_vars PROVE ChecksKnown'
  OBVIOUS
<1> USE DEF ChecksKnown, pollVars
<1>1. CASE UNCHANGED <<phase, current>>
  BY <1>1 DEF Failing, Recovering
<1>2. ASSUME NEW q \in Polls, StartPoll(q) \/ ListServices(q) \/ EndPoll(q)
      PROVE  ChecksKnown'
  <2>1. current[q] = {} /\ UNCHANGED current
    BY <1>2 DEF StartPoll, ListServices, EndPoll, Through
  <2>2. \A r \in Polls \ {q} : phase'[r] = phase[r]
    BY <1>2 DEF StartPoll, ListServices, EndPoll, Goto, TypeOK
  <2>3. QED
    BY <2>1, <2>2 DEF Failing, Recovering
<1>3. ASSUME NEW q \in Polls, NEW s \in todo[q], Check(q, s) PROVE ChecksKnown'
  <2>1. /\ phase'[q] = "record"
        /\ \E before, after :
             /\ up[s] => after = 0
             /\ current'[q] = {[svc |-> s, ok |-> up[s],
                                before |-> before, after |-> after]}
    BY <1>3 DEF Check, Goto, TypeOK
  <2>2. \A r \in Polls \ {q} : phase'[r] = phase[r] /\ current'[r] = current[r]
    BY <1>3 DEF Check, Goto, TypeOK
  <2>3. QED
    BY <2>1, <2>2 DEF Failing, Recovering
<1>4. ASSUME NEW q \in Polls, NEW check \in current[q],
             Record(q, check) \/ Announce(q, check) \/ PollFails(q)
      PROVE  ChecksKnown'
  <2>1. \/ current'[q] = {}
        \/ /\ current'[q] = current[q] /\ phase'[q] = "announce"
           /\ Failing(check) \/ Recovering(check)
    BY <1>4 DEF Record, Announce, PollFails, Goto, TypeOK
  <2>2. \A r \in Polls \ {q} : phase'[r] = phase[r] /\ current'[r] = current[r]
    BY <1>4 DEF Record, Announce, PollFails, Goto, TypeOK
  <2>3. QED
    BY <2>1, <2>2 DEF Failing, Recovering
<1>5. ASSUME NEW q \in Polls, PollFails(q) PROVE ChecksKnown'
  <2>1. current'[q] = {}
    BY <1>5 DEF PollFails, TypeOK
  <2>2. \A r \in Polls \ {q} : phase'[r] = phase[r] /\ current'[r] = current[r]
    BY <1>5 DEF PollFails, Goto, TypeOK
  <2>3. QED
    BY <2>1, <2>2 DEF Failing, Recovering
<1>6. ASSUME NEW p \in Processes, Crash(p) PROVE ChecksKnown'
  <2>1. \A q \in Polls : \/ current'[q] = {}
                         \/ current'[q] = current[q] /\ phase'[q] = phase[q]
    BY <1>6 DEF Crash
  <2>2. QED
    BY <2>1 DEF Failing, Recovering
<1>7. QED
  BY <1>1, <1>2, <1>3, <1>4, <1>5, <1>6
     DEF Next, Work, CreateService, DisableService, Flip, vars

LEMMA OwingFinite ==
  ASSUME NEW s \in Services
  PROVE  /\ IsFiniteSet(Opening(s)) /\ Cardinality(Opening(s)) \in Nat
         /\ Cardinality(Opening(s)) <= Cardinality(Polls)
         /\ IsFiniteSet(Closing(s)) /\ Cardinality(Closing(s)) \in Nat
         /\ Cardinality(Closing(s)) <= Cardinality(Polls)
         /\ IsFiniteSet(DownIn(s)) /\ Cardinality(DownIn(s)) \in Nat
         /\ Cardinality(Polls) \in Nat
<1>1. /\ Opening(s) \subseteq Polls /\ Closing(s) \subseteq Polls
      /\ DownIn(s) \subseteq Processes
  BY DEF Opening, Closing, DownIn
<1>2. IsFiniteSet(Polls) /\ IsFiniteSet(Processes)
  BY HealthAssumption
<1>3. QED
  BY <1>1, <1>2, FS_Subset, FS_CardinalityType

LEMMA BalanceType ==
  ASSUME TypeOK, NEW s \in Services PROVE Balance(s) \in Int
<1>1. announced[s] \in Int
  BY DEF TypeOK
<1>2. QED
  BY <1>1, OwingFinite DEF Balance

\* What a poll holds as the check of another service, or none, does not count.
LEMMA OwingOf ==
  ASSUME NEW q \in Polls,
         \A r \in Polls \ {q} : current'[r] = current[r],
         NEW s \in Services
  PROVE  /\ \A r \in Polls \ {q} : /\ r \in Opening(s)' <=> r \in Opening(s)
                                   /\ r \in Closing(s)' <=> r \in Closing(s)
         /\ Opening(s) \subseteq Polls /\ Opening(s)' \subseteq Polls
         /\ Closing(s) \subseteq Polls /\ Closing(s)' \subseteq Polls
BY DEF Opening, Closing, Failing, Recovering

\* A counter that reaches the threshold opens an outage, one that leaves it
\* closes one, and no other step of a counter counts.
LEMMA CheckKeepsBalance ==
  ASSUME TypeOK, ChecksKnown, NEW q \in Polls, NEW x \in todo[q], Check(q, x),
         NEW s \in Services
  PROVE  Balance(s)' = Balance(s)
<1> DEFINE p == ProcessOf[q]
           before == failures[p][x]
           after == IF up[x] THEN 0 ELSE Capped(before + 1)
           check == [svc |-> x, ok |-> up[x], before |-> before, after |-> after]
<1>1. /\ p \in Processes /\ x \in Services
      /\ before \in 0..(DownAfter + 1) /\ DownAfter \in Nat \ {0}
      /\ up[x] \in BOOLEAN
  BY HealthConstants DEF TypeOK
<1>2. /\ current[q] = {} /\ current'[q] = {check}
      /\ \A r \in Polls \ {q} : current'[r] = current[r]
      /\ failures' = [failures EXCEPT ![p][x] = after]
      /\ UNCHANGED announced
  BY DEF Check, ChecksKnown, TypeOK
<1>3. /\ check.svc = x /\ check.ok = up[x] /\ check.before = before
      /\ check.after = after
  OBVIOUS
<1> HIDE DEF check
<1>4. /\ q \notin Opening(s) /\ q \notin Closing(s)
      /\ q \in Opening(s)' <=> s = x /\ after = DownAfter
      /\ q \in Closing(s)' <=> s = x /\ up[x] /\ before >= DownAfter
  BY <1>2, <1>3 DEF Opening, Closing, Failing, Recovering
<1>5. /\ failures'[p][x] = after
      /\ \A r \in Processes : \A t \in Services :
           r # p \/ t # x => failures'[r][t] = failures[r][t]
  BY <1>1, <1>2 DEF TypeOK
<1>6. /\ \A r \in Processes \ {p} : r \in DownIn(s)' <=> r \in DownIn(s)
      /\ s # x => DownIn(s)' = DownIn(s)
      /\ s = x => (p \in DownIn(s)' <=> after >= DownAfter)
      /\ s = x => (p \in DownIn(s) <=> before >= DownAfter)
      /\ DownIn(s) \subseteq Processes /\ DownIn(s)' \subseteq Processes
  BY <1>1, <1>5 DEF DownIn
<1>7. /\ after = DownAfter <=> ~up[x] /\ before = DownAfter - 1
      /\ after >= DownAfter <=> ~up[x] /\ before >= DownAfter - 1
  BY <1>1 DEF Capped
<1>8. announced'[s] = announced[s] /\ announced[s] \in Int
  BY <1>2 DEF TypeOK
<1>9. /\ \A r \in Polls \ {q} : /\ r \in Opening(s)' <=> r \in Opening(s)
                                /\ r \in Closing(s)' <=> r \in Closing(s)
      /\ Opening(s) \subseteq Polls /\ Opening(s)' \subseteq Polls
      /\ Closing(s) \subseteq Polls /\ Closing(s)' \subseteq Polls
  BY <1>2, OwingOf
<1> HIDE DEF after, before, p
<1>10. q \notin Opening(s) /\ q \notin Closing(s)
  BY <1>4
<1>11. CASE s # x \/ (up[x] /\ ~(before >= DownAfter))
                  \/ (~up[x] /\ before # DownAfter - 1)
  <2>1. q \notin Opening(s)' /\ q \notin Closing(s)'
    BY <1>4, <1>7, <1>11
  <2>2. Opening(s)' = Opening(s) /\ Closing(s)' = Closing(s)
    BY <1>9, <1>10, <2>1
  <2>3. DownIn(s)' = DownIn(s)
    <3>1. CASE s # x
      BY <1>6, <3>1
    <3>2. CASE s = x
      <4>1. after >= DownAfter <=> before >= DownAfter
        BY <1>1, <1>7, <1>11, <3>2
      <4>2. p \in DownIn(s)' <=> p \in DownIn(s)
        BY <1>6, <3>2, <4>1
      <4>3. \A r : r \in DownIn(s)' <=> r \in DownIn(s)
        BY <1>6, <4>2
      <4>4. QED
        BY <4>3
    <3>3. QED
      BY <3>1, <3>2
  <2>4. QED
    BY <1>8, <2>2, <2>3 DEF Balance
<1>12. CASE s = x /\ up[x] /\ before >= DownAfter
  <2>1. q \notin Opening(s)' /\ q \in Closing(s)'
    BY <1>4, <1>7, <1>12
  <2>2. Opening(s)' = Opening(s) /\ Closing(s)' = Closing(s) \cup {q}
    BY <1>9, <1>10, <2>1
  <2>3. p \in DownIn(s) /\ DownIn(s)' = DownIn(s) \ {p}
    BY <1>1, <1>6, <1>7, <1>12
  <2>4. /\ Cardinality(Closing(s)') = Cardinality(Closing(s)) + 1
        /\ Cardinality(DownIn(s)') = Cardinality(DownIn(s)) - 1
    <3>1. Cardinality(Closing(s) \cup {q}) = Cardinality(Closing(s)) + 1
      BY <1>10, OwingFinite, FS_AddElement
    <3>2. Cardinality(DownIn(s) \ {p}) = Cardinality(DownIn(s)) - 1
      BY <2>3, OwingFinite, FS_RemoveElement
    <3>3. QED
      BY <2>2, <2>3, <3>1, <3>2
  <2>5. QED
    BY <1>8, <2>2, <2>4, OwingFinite DEF Balance
<1>13. CASE s = x /\ ~up[x] /\ before = DownAfter - 1
  <2>1. q \in Opening(s)' /\ q \notin Closing(s)'
    BY <1>4, <1>7, <1>13
  <2>2. Closing(s)' = Closing(s) /\ Opening(s)' = Opening(s) \cup {q}
    BY <1>9, <1>10, <2>1
  <2>3. p \notin DownIn(s) /\ DownIn(s)' = DownIn(s) \cup {p}
    BY <1>1, <1>6, <1>7, <1>13
  <2>4. /\ Cardinality(Opening(s)') = Cardinality(Opening(s)) + 1
        /\ Cardinality(DownIn(s)') = Cardinality(DownIn(s)) + 1
    BY <1>10, <2>2, <2>3, OwingFinite, FS_AddElement
  <2>5. QED
    BY <1>8, <2>2, <2>4, OwingFinite DEF Balance
<1>14. QED
  BY <1>1, <1>11, <1>12, <1>13

\* An announcement to come becomes one that was made.
LEMMA AnnounceKeepsBalance ==
  ASSUME TypeOK, ChecksKnown, NEW q \in Polls, NEW check \in current[q],
         Announce(q, check), NEW s \in Services
  PROVE  Balance(s)' = Balance(s)
<1>1. /\ current[q] = {check} /\ current'[q] = {}
      /\ \A r \in Polls \ {q} : current'[r] = current[r]
      /\ check.ok => check.after = 0
      /\ Failing(check) \/ Recovering(check)
      /\ announced' = [announced EXCEPT ![check.svc] =
                         IF check.ok THEN @ - 1 ELSE @ + 1]
      /\ UNCHANGED failures
  BY DEF Announce, ChecksKnown, TypeOK
<1>2. /\ check.svc \in Services /\ check.ok \in BOOLEAN
      /\ announced[s] \in Int /\ DownAfter \in Nat \ {0}
  BY HealthConstants DEF TypeOK, Checks
<1>3. Failing(check) <=> ~check.ok
  BY <1>1, <1>2 DEF Failing, Recovering
<1>4. Recovering(check) <=> check.ok
  BY <1>1, <1>3 DEF Recovering
<1>5. /\ q \notin Opening(s)' /\ q \notin Closing(s)'
      /\ q \in Opening(s) <=> check.svc = s /\ ~check.ok
      /\ q \in Closing(s) <=> check.svc = s /\ check.ok
  BY <1>1, <1>3, <1>4 DEF Opening, Closing
<1>6. Opening(s)' = Opening(s) \ {q} /\ Closing(s)' = Closing(s) \ {q}
  BY <1>1, <1>5, OwingOf
<1>7. DownIn(s)' = DownIn(s)
  BY <1>1 DEF DownIn
<1>8. /\ Cardinality(Opening(s)') =
           IF check.svc = s /\ ~check.ok THEN Cardinality(Opening(s)) - 1
                                         ELSE Cardinality(Opening(s))
      /\ Cardinality(Closing(s)') =
           IF check.svc = s /\ check.ok THEN Cardinality(Closing(s)) - 1
                                        ELSE Cardinality(Closing(s))
  <2>1. /\ Cardinality(Opening(s) \ {q}) =
             IF q \in Opening(s) THEN Cardinality(Opening(s)) - 1
                                 ELSE Cardinality(Opening(s))
        /\ Cardinality(Closing(s) \ {q}) =
             IF q \in Closing(s) THEN Cardinality(Closing(s)) - 1
                                 ELSE Cardinality(Closing(s))
    BY OwingFinite, FS_RemoveElement
  <2>2. QED
    BY <1>5, <1>6, <2>1
<1>9. announced'[s] = IF check.svc # s THEN announced[s]
                      ELSE IF check.ok THEN announced[s] - 1
                      ELSE announced[s] + 1
  BY <1>1, <1>2 DEF TypeOK
<1>10. QED
  BY <1>2, <1>7, <1>8, <1>9, OwingFinite DEF Balance

\* A record that announces nothing, of a check that opens and closes nothing.
LEMMA RecordKeepsBalance ==
  ASSUME TypeOK, ChecksKnown, NEW q \in Polls, NEW check \in current[q],
         Record(q, check), NEW s \in Services
  PROVE  Balance(s)' = Balance(s)
<1>1. /\ current[q] = {check}
      /\ UNCHANGED <<announced, failures>>
      /\ \A r \in Polls \ {q} : current'[r] = current[r]
      /\ \/ current'[q] = current[q]
         \/ current'[q] = {} /\ ~Failing(check) /\ ~Recovering(check)
  BY DEF Record, ChecksKnown, TypeOK
<1>2. /\ q \in Opening(s)' <=> q \in Opening(s)
      /\ q \in Closing(s)' <=> q \in Closing(s)
  BY <1>1 DEF Opening, Closing, Failing, Recovering
<1>3. Opening(s)' = Opening(s) /\ Closing(s)' = Closing(s)
  <2>1. /\ \A r \in Polls \ {q} : /\ r \in Opening(s)' <=> r \in Opening(s)
                                  /\ r \in Closing(s)' <=> r \in Closing(s)
        /\ Opening(s) \subseteq Polls /\ Opening(s)' \subseteq Polls
        /\ Closing(s) \subseteq Polls /\ Closing(s)' \subseteq Polls
    BY <1>1, OwingOf
  <2>2. QED
    BY <1>2, <2>1
<1>4. DownIn(s)' = DownIn(s)
  BY <1>1 DEF DownIn
<1>5. QED
  BY <1>1, <1>3, <1>4 DEF Balance

\* A failure takes announcements to come away, one for each poll at the most,
\* and a counter that stood for an outage if the process died.
LEMMA FaultMovesBalance ==
  ASSUME TypeOK, NEW s \in Services, UNCHANGED announced,
         Opening(s)' \subseteq Opening(s), Closing(s)' \subseteq Closing(s),
         NEW p, DownIn(s)' \in {DownIn(s), DownIn(s) \ {p}}
  PROVE  /\ Balance(s)' - Balance(s) >= -(Cardinality(Polls) + 1)
         /\ Balance(s)' - Balance(s) <= Cardinality(Polls) + 1
<1>1. /\ Cardinality(Opening(s)') <= Cardinality(Opening(s))
      /\ Cardinality(Opening(s)') \in Nat
  BY OwingFinite, FS_Subset, FS_CardinalityType
<1>2. /\ Cardinality(Closing(s)') <= Cardinality(Closing(s))
      /\ Cardinality(Closing(s)') \in Nat
  BY OwingFinite, FS_Subset, FS_CardinalityType
<1>3. Cardinality(DownIn(s)') \in {Cardinality(DownIn(s)), Cardinality(DownIn(s)) - 1}
  BY OwingFinite, FS_RemoveElement
<1>4. announced[s] \in Int
  BY DEF TypeOK
<1>5. QED
  BY <1>1, <1>2, <1>3, <1>4, OwingFinite DEF Balance

\* A step that leaves the balance as it is, and a step that is a failure.
LEMMA BalanceKept ==
  ASSUME TypeOK, AnnouncementsAddUp, faults' \in {faults, faults + 1},
         \A s \in Services : Balance(s)' = Balance(s)
  PROVE  AnnouncementsAddUp'
<1> DEFINE B == Cardinality(Polls) + 1
<1>1. B \in Nat /\ faults \in Nat
  BY RunningFinite, HealthConstants DEF TypeOK
<1>2. (faults + 1) * B = faults * B + B /\ faults * B \in Nat
  BY <1>1
<1> HIDE DEF B
<1>3. ASSUME NEW s \in Services PROVE Magnitude(Balance(s)') <= faults' * B
  <2>1. Magnitude(Balance(s)') <= faults * B
    BY <1>3 DEF AnnouncementsAddUp, B
  <2>2. Magnitude(Balance(s)') \in Int
    BY BalanceType DEF Magnitude
  <2>3. QED
    BY <1>1, <1>2, <2>1, <2>2
<1>4. QED
  BY <1>3 DEF AnnouncementsAddUp, B, Magnitude

LEMMA BalanceMoved ==
  ASSUME TypeOK, AnnouncementsAddUp, TypeOK', faults' = faults + 1,
         \A s \in Services :
           /\ Balance(s)' - Balance(s) >= -(Cardinality(Polls) + 1)
           /\ Balance(s)' - Balance(s) <= Cardinality(Polls) + 1
  PROVE  AnnouncementsAddUp'
<1> DEFINE B == Cardinality(Polls) + 1
<1>1. B \in Nat /\ faults \in Nat
  BY RunningFinite, HealthConstants DEF TypeOK
<1>2. (faults + 1) * B = faults * B + B /\ faults * B \in Nat
  BY <1>1
<1> HIDE DEF B
<1>3. ASSUME NEW s \in Services PROVE Magnitude(Balance(s)') <= faults' * B
  <2>1. Magnitude(Balance(s)) <= faults * B
    BY DEF AnnouncementsAddUp, B
  <2>2. Balance(s) \in Int
    BY BalanceType
  <2>3. Balance(s)' \in Int
    <3>1. announced'[s] \in Int
      BY DEF TypeOK
    <3>2. /\ Opening(s)' \subseteq Polls /\ Closing(s)' \subseteq Polls
          /\ DownIn(s)' \subseteq Processes
      BY DEF Opening, Closing, DownIn
    <3>3. /\ Cardinality(Opening(s)') \in Nat /\ Cardinality(Closing(s)') \in Nat
          /\ Cardinality(DownIn(s)') \in Nat
      BY <3>2, HealthAssumption, FS_Subset, FS_CardinalityType
    <3>4. QED
      BY <3>1, <3>3 DEF Balance
  <2>4. Balance(s)' - Balance(s) >= -B /\ Balance(s)' - Balance(s) <= B
    BY DEF B
  <2>5. QED
    BY <1>1, <1>2, <2>1, <2>2, <2>3, <2>4 DEF Magnitude
<1>4. QED
  BY <1>3 DEF AnnouncementsAddUp, B, Magnitude

LEMMA BalanceStep ==
  TypeOK /\ ChecksKnown /\ AnnouncementsAddUp /\ [Next]_vars => AnnouncementsAddUp'
<1> SUFFICES ASSUME TypeOK, ChecksKnown, AnnouncementsAddUp, [Next]_vars
             PROVE  AnnouncementsAddUp'
  OBVIOUS
<1>1. CASE /\ UNCHANGED <<current, announced, failures>>
           /\ faults' \in {faults, faults + 1}
  <2>1. \A s \in Services : Balance(s)' = Balance(s)
    BY <1>1 DEF Balance, Opening, Closing, DownIn, Failing, Recovering
  <2>2. QED
    BY <1>1, <2>1, BalanceKept
<1>2. ASSUME NEW q \in Polls, NEW x \in todo[q], Check(q, x)
      PROVE  AnnouncementsAddUp'
  BY <1>2, CheckKeepsBalance, BalanceKept DEF Check
<1>3. ASSUME NEW q \in Polls, NEW check \in current[q],
             Record(q, check) \/ Announce(q, check)
      PROVE  AnnouncementsAddUp'
  BY <1>3, RecordKeepsBalance, AnnounceKeepsBalance, BalanceKept
     DEF Record, Announce
<1>4. ASSUME NEW q \in Polls, PollFails(q) PROVE AnnouncementsAddUp'
  <2>1. /\ faults' = faults + 1 /\ UNCHANGED <<announced, failures>>
        /\ \A r \in Polls : current'[r] \subseteq current[r]
    BY <1>4, FaultCounts DEF PollFails, TypeOK
  <2>2. ASSUME NEW s \in Services
        PROVE  /\ Opening(s)' \subseteq Opening(s)
               /\ Closing(s)' \subseteq Closing(s)
               /\ DownIn(s)' = DownIn(s)
    BY <2>1 DEF Opening, Closing, DownIn, Failing, Recovering
  <2>3. QED
    BY <2>1, <2>2, FaultMovesBalance, BalanceMoved, HealthTypesStep
<1>5. ASSUME NEW p \in Processes, Crash(p) PROVE AnnouncementsAddUp'
  <2>1. /\ faults' = faults + 1 /\ UNCHANGED announced
        /\ \A r \in Polls : current'[r] \subseteq current[r]
        /\ failures' = [failures EXCEPT ![p] = [s \in Services |-> 0]]
    BY <1>5, FaultCounts DEF Crash
  <2>2. ASSUME NEW s \in Services
        PROVE  /\ Opening(s)' \subseteq Opening(s)
               /\ Closing(s)' \subseteq Closing(s)
               /\ DownIn(s)' = DownIn(s) \ {p}
    <3>1. failures'[p][s] = 0 /\ \A r \in Processes \ {p} : failures'[r] = failures[r]
      BY <2>1 DEF TypeOK
    <3>2. DownIn(s)' = DownIn(s) \ {p}
      BY <3>1, HealthConstants DEF DownIn
    <3>3. QED
      BY <2>1, <3>2 DEF Opening, Closing, Failing, Recovering
  <2>3. QED
    BY <2>1, <2>2, FaultMovesBalance, BalanceMoved, HealthTypesStep
<1>6. ASSUME NEW q \in Polls, StartPoll(q) \/ ListServices(q) \/ EndPoll(q)
      PROVE  AnnouncementsAddUp'
  BY <1>1, <1>6, FaultCounts DEF StartPoll, ListServices, EndPoll
<1>7. QED
  BY <1>1, <1>2, <1>3, <1>4, <1>5, <1>6
     DEF Next, Work, CreateService, DisableService, Flip, pollVars, vars

(* Outages published and outages that counters stand for add up, for every *)
(* number of polls, processes and services: a failure loses no more than   *)
(* the announcements of its polls and the counter of its process.          *)
THEOREM AnnouncementsBalance == SafetySpec => []AnnouncementsAddUp
<1>1. Init => ChecksKnown /\ AnnouncementsAddUp
  <2> SUFFICES ASSUME Init PROVE ChecksKnown /\ AnnouncementsAddUp
    OBVIOUS
  <2>1. ChecksKnown
    BY DEF Init, ChecksKnown
  <2>2. \A s \in Services : Opening(s) = {} /\ Closing(s) = {} /\ DownIn(s) = {}
    BY HealthConstants DEF Init, Opening, Closing, DownIn
  <2>3. ASSUME NEW s \in Services PROVE Balance(s) = 0
    <3>1. announced[s] = 0 /\ Cardinality({}) = 0
      BY FS_EmptySet DEF Init
    <3>2. QED
      BY <2>2, <3>1 DEF Balance
  <2>4. QED
    BY <2>1, <2>3, RunningFinite DEF Init, AnnouncementsAddUp, Magnitude
<1>2. TypeOK /\ (ChecksKnown /\ AnnouncementsAddUp) /\ [Next]_vars
        => (ChecksKnown /\ AnnouncementsAddUp)'
  BY ChecksKnownStep, BalanceStep
<1>3. QED
  BY <1>1, <1>2, HealthTypeCorrect, PTL DEF SafetySpec
=============================================================================
