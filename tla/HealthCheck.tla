---------------------------- MODULE HealthCheck ----------------------------
(***************************************************************************)
(* The health-check worker (apps/worker/src/modules/healthcheck/           *)
(* health-check.worker.ts) over the table services, the requests of the    *)
(* service registry that change a status, and the counter of running jobs  *)
(* in queue_stats.                                                         *)
(*                                                                         *)
(* A poll lists the services and checks them one await at a time;          *)
(* setInterval does not wait for it, so polls overlap and share their      *)
(* process's map consecutiveFailures. The counter moves when the answer    *)
(* arrives, the row in a transaction after it, and the reliability event   *)
(* is published after the commit: three places that a failure or another   *)
(* poll can come between.                                                  *)
(*                                                                         *)
(* up[s] says whether the service answers as expected within its timeout.  *)
(* What a poll measures besides that (latency, status code) is abstracted. *)
(***************************************************************************)
EXTENDS Integers, FiniteSets

CONSTANTS
  Services,      \* rows that can exist, each with its unique name
  Processes,     \* worker processes
  Polls,         \* polls that can run at the same time
  ProcessOf,     \* the process of each poll
  DownAfter,     \* consecutive failures that mark a service DOWN
  MaxFlips,      \* bound on outages and recoveries of the services in a run
  MaxFaults      \* bound on failing statements and crashes in a run

ASSUME HealthAssumption ==
  /\ IsFiniteSet(Polls) /\ IsFiniteSet(Processes)
  /\ ProcessOf \in [Polls -> Processes]
  /\ DownAfter \in Nat \ {0}
  /\ MaxFlips \in Nat /\ MaxFaults \in Nat

VARIABLES
  status,      \* services.status, "absent" before the INSERT
  monitored,   \* services that have a health_check_url
  up,          \* whether the service would pass a check now
  failures,    \* consecutiveFailures of each process, capped past DownAfter
  phase,       \* the await a poll is at
  todo,        \* services a poll still goes through
  current,     \* the check it is recording
  announced,   \* FAILURE events published for a service less its RECOVERYs
  processing,  \* queue_stats.processing of the queue "health"
  flips, faults

pollVars == <<phase, todo, current>>
vars == <<status, monitored, up, failures, pollVars, announced, processing,
          flips, faults>>

Phases == {"idle", "list", "next", "record", "announce", "failed"}
ServiceStatuses ==
  {"absent", "UNKNOWN", "HEALTHY", "DEGRADED", "DOWN", "MAINTENANCE"}

\* A check: the service, its outcome, the counter before and after it.
Checks == [svc : Services, ok : BOOLEAN,
           before : 0..(DownAfter + 1), after : 0..(DownAfter + 1)]

Init ==
  /\ status = [s \in Services |-> "absent"]
  /\ monitored = {}
  /\ up = [s \in Services |-> TRUE]
  /\ failures = [p \in Processes |-> [s \in Services |-> 0]]
  /\ phase = [q \in Polls |-> "idle"]
  /\ todo = [q \in Polls |-> {}]
  /\ current = [q \in Polls |-> {}]
  /\ announced = [s \in Services |-> 0]
  /\ processing = 0
  /\ flips = 0
  /\ faults = 0

-----------------------------------------------------------------------------
(* The registry and the world.                                             *)

\* ensureUniqueServiceName. A row is never deleted: its name stays taken.
NameTaken(s) == status[s] # "absent"

\* With or without a health_check_url, and so for good: updateService cannot
\* write one.
CreateService(s) ==
  /\ ~NameTaken(s)
  /\ status' = [status EXCEPT ![s] = "UNKNOWN"]
  /\ monitored' \in {monitored, monitored \cup {s}}
  /\ UNCHANGED <<up, failures, pollVars, announced, processing, flips, faults>>

\* POST /services/:id/disable. No request takes it back: updateServiceSchema
\* has no status, and nothing sets deleted_at.
DisableService(s) ==
  /\ status[s] \notin {"absent", "MAINTENANCE"}
  /\ status' = [status EXCEPT ![s] = "MAINTENANCE"]
  /\ UNCHANGED <<monitored, up, failures, pollVars, announced, processing,
                 flips, faults>>

\* An outage or a recovery.
Flip(s) ==
  /\ flips < MaxFlips
  /\ flips' = flips + 1
  /\ up' = [up EXCEPT ![s] = ~@]
  /\ UNCHANGED <<status, monitored, failures, pollVars, announced, processing,
                 faults>>

-----------------------------------------------------------------------------
(* A poll.                                                                 *)

Fault == faults < MaxFaults /\ faults' = faults + 1

Goto(q, at) == phase' = [phase EXCEPT ![q] = at]

\* Mutation: ON CONFLICT DO NOTHING.
StartPollOnce(q) ==
  /\ phase[q] = "idle"
  /\ Goto(q, "list")
  /\ processing' = (IF processing = 0 THEN 1 ELSE processing)
  /\ UNCHANGED <<status, monitored, up, failures, todo, current, announced,
                 flips, faults>>

\* The timer fires: recordJobStart, whose error is swallowed.
StartPoll(q) ==
  /\ phase[q] = "idle"
  /\ Goto(q, "list")
  /\ \/ processing' = processing + 1 /\ UNCHANGED faults
     \/ Fault /\ UNCHANGED processing
  /\ UNCHANGED <<status, monitored, up, failures, todo, current, announced,
                 flips>>

\* Mutation: a service in maintenance is checked like any other.
ListAll(q) ==
  /\ phase[q] = "list"
  /\ Goto(q, "next")
  /\ todo' = [todo EXCEPT ![q] = {s \in monitored : status[s] # "absent"}]
  /\ UNCHANGED <<status, monitored, up, failures, current, announced,
                 processing, flips, faults>>

\* health_check_url IS NOT NULL AND status <> 'MAINTENANCE'
ListServices(q) ==
  /\ phase[q] = "list"
  /\ Goto(q, "next")
  /\ todo' = [todo EXCEPT ![q] =
                {s \in monitored : status[s] \notin {"absent", "MAINTENANCE"}}]
  /\ UNCHANGED <<status, monitored, up, failures, current, announced,
                 processing, flips, faults>>

Capped(n) == IF n > DownAfter THEN DownAfter + 1 ELSE n

\* checkOne has its answer, and record has moved the counter: no await
\* between them.
Check(q, s) ==
  LET before == failures[ProcessOf[q]][s]
      after  == IF up[s] THEN 0 ELSE Capped(before + 1)
  IN  /\ phase[q] = "next" /\ s \in todo[q]
      /\ Goto(q, "record")
      /\ todo' = [todo EXCEPT ![q] = @ \ {s}]
      /\ failures' = [failures EXCEPT ![ProcessOf[q]][s] = after]
      /\ current' = [current EXCEPT ![q] =
           {[svc |-> s, ok |-> up[s], before |-> before, after |-> after]}]
      /\ UNCHANGED <<status, monitored, up, announced, processing, flips,
                     faults>>

\* Mutation: a service never goes past DEGRADED.
StatusOneLow(check) == IF check.ok THEN "HEALTHY" ELSE "DEGRADED"

StatusFor(check) ==
  IF check.ok THEN "HEALTHY"
  ELSE IF check.after >= DownAfter THEN "DOWN" ELSE "DEGRADED"

Failing(check) == check.after = DownAfter
\* Mutation: recovery is noticed one failure earlier than the outage is.
RecoveringEarly(check) == check.ok /\ check.before > 0
Recovering(check) == check.ok /\ check.before >= DownAfter

\* The transaction of record: the result, and the status by id alone.
Record(q, check) ==
  /\ phase[q] = "record" /\ check \in current[q]
  /\ status' = [status EXCEPT ![check.svc] = StatusFor(check)]
  /\ IF Failing(check) \/ Recovering(check)
     THEN Goto(q, "announce") /\ UNCHANGED current
     ELSE Goto(q, "next") /\ current' = [current EXCEPT ![q] = {}]
  /\ UNCHANGED <<monitored, up, failures, todo, announced, processing, flips,
                 faults>>

\* emitReliabilityEvent
Announce(q, check) ==
  /\ phase[q] = "announce" /\ check \in current[q]
  /\ announced' = [announced EXCEPT ![check.svc] =
                     IF check.ok THEN @ - 1 ELSE @ + 1]
  /\ Goto(q, "next")
  /\ current' = [current EXCEPT ![q] = {}]
  /\ UNCHANGED <<status, monitored, up, failures, todo, processing, flips,
                 faults>>

\* The list, the transaction or publish throws: poll throws, and the
\* services it had not reached wait for the next one.
PollFails(q) ==
  /\ phase[q] \in {"list", "record", "announce"}
  /\ Fault
  /\ Goto(q, "failed")
  /\ todo' = [todo EXCEPT ![q] = {}]
  /\ current' = [current EXCEPT ![q] = {}]
  /\ UNCHANGED <<status, monitored, up, failures, announced, processing,
                 flips>>

Through(q) == phase[q] = "failed" \/ (phase[q] = "next" /\ todo[q] = {})

\* recordJobDone or recordJobFailed: GREATEST(0, processing - 1), and again
\* an error is swallowed.
EndPoll(q) ==
  /\ Through(q)
  /\ Goto(q, "idle")
  /\ \/ processing' = (IF processing = 0 THEN 0 ELSE processing - 1)
        /\ UNCHANGED faults
     \/ Fault /\ UNCHANGED processing
  /\ UNCHANGED <<status, monitored, up, failures, todo, current, announced,
                 flips>>

\* A process dies: its polls and its counters are gone, its row in
\* queue_stats is not.
Crash(p) ==
  LET dead == {q \in Polls : ProcessOf[q] = p}
      Cleared(f, value) == [q \in Polls |-> IF q \in dead THEN value ELSE f[q]]
  IN  /\ Fault
      /\ phase' = Cleared(phase, "idle")
      /\ todo' = Cleared(todo, {})
      /\ current' = Cleared(current, {})
      /\ failures' = [failures EXCEPT ![p] = [s \in Services |-> 0]]
      /\ UNCHANGED <<status, monitored, up, announced, processing, flips>>

Work(q) ==
  \/ ListServices(q) \/ EndPoll(q)
  \/ \E s \in todo[q] : Check(q, s)
  \/ \E check \in current[q] : Record(q, check) \/ Announce(q, check)

Next ==
  \/ \E s \in Services :
       CreateService(s) \/ DisableService(s) \/ Flip(s)
  \/ \E q \in Polls : StartPoll(q) \/ Work(q) \/ PollFails(q)
  \/ \E p \in Processes : Crash(p)

(* The interval fires, and what a poll awaits settles: every check has a   *)
(* timeout, every statement returns or throws.                             *)
Fairness == \A q \in Polls : WF_vars(StartPoll(q)) /\ WF_vars(Work(q))

SafetySpec == Init /\ [][Next]_vars
Spec == SafetySpec /\ Fairness

-----------------------------------------------------------------------------
TypeOK ==
  /\ status \in [Services -> ServiceStatuses]
  /\ monitored \subseteq Services
  /\ up \in [Services -> BOOLEAN]
  /\ failures \in [Processes -> [Services -> 0..(DownAfter + 1)]]
  /\ phase \in [Polls -> Phases]
  /\ todo \in [Polls -> SUBSET Services]
  /\ current \in [Polls -> SUBSET Checks]
  /\ announced \in [Services -> Int]
  /\ processing \in Nat
  /\ flips \in 0..MaxFlips
  /\ faults \in 0..MaxFaults

\* Polls that will still publish an outage of s, or its end; processes whose
\* counter says that s is DOWN.
Opening(s) ==
  {q \in Polls : \E check \in current[q] : check.svc = s /\ Failing(check)}
Closing(s) ==
  {q \in Polls : \E check \in current[q] : check.svc = s /\ Recovering(check)}
DownIn(s) == {p \in Processes : failures[p][s] >= DownAfter}
Balance(s) ==
  announced[s] + Cardinality(Opening(s)) - Cardinality(Closing(s))
    - Cardinality(DownIn(s))
Magnitude(n) == IF n < 0 THEN -n ELSE n

(* "Emit a reliability event when state flips"                             *)
(* (health-check.worker.ts:151),                                           *)
(* over overlapping polls: what was published, and what polls in flight    *)
(* will still publish, adds up to one open outage for each process whose   *)
(* counter says DOWN. A failure loses at most the announcement of one poll,*)
(* a crash those of its process and the one its counter stood for.         *)
AnnouncementsAddUp ==
  \A s \in Services :
    Magnitude(Balance(s)) <= faults * (Cardinality(Polls) + 1)

Running == {q \in Polls : phase[q] # "idle"}

(* The number of running jobs on the system page: with no failure it is    *)
(* the number of polls, and each failure moves it by no more than the      *)
(* polls a process can have lost.                                          *)
ProcessingIsRunning ==
  Magnitude(processing - Cardinality(Running)) <= faults * Cardinality(Polls)

Reaching(s) ==
  {q \in Polls : s \in todo[q] \/ \E check \in current[q] : check.svc = s}

(* An operator's MAINTENANCE can be overwritten only by polls that listed  *)
(* the service before it was disabled: once they are through, no poll, no  *)
(* failure and no restart takes the service out of maintenance.            *)
MaintenanceIsKept ==
  \A s \in Services :
    [](status[s] = "MAINTENANCE" /\ Reaching(s) = {}
         => [](status[s] = "MAINTENANCE"))

(* Whatever polls overlap, fail or die: a service that stays out is marked *)
(* DOWN and stays so, and one that stays up is marked HEALTHY, unless it   *)
(* is in maintenance or no request ever gave it a URL.                     *)
StatusFollowsService ==
  \A s \in Services :
    LET Settled(value) ==
          status[s] \in {value, "MAINTENANCE"} \/ s \notin monitored
    IN  /\ <>[]~up[s] => <>[]Settled("DOWN")
        /\ <>[]up[s] => <>[]Settled("HEALTHY")
=============================================================================
