-------------------------- MODULE IncidentCommand --------------------------
(***************************************************************************)
(* What changes an incident after it was created: the status and reopen    *)
(* requests of operators (apps/api/src/modules/incidents/incidents.        *)
(* service.ts) and the poll cycles of the escalation worker (apps/worker/  *)
(* src/modules/escalation/escalation.worker.ts). Both read first and write *)
(* later, in a READ COMMITTED transaction or in none, without locking what *)
(* they read: each is a read step and a commit step, and anything may      *)
(* happen in between.                                                      *)
(*                                                                         *)
(* Poll cycles overlap: start() sets an interval without waiting for the   *)
(* previous cycle, and the worker scales out. Incidents are numbered in    *)
(* the order of created_at. Time is elapsed[i], the highest level whose    *)
(* next_due_at has passed.                                                 *)
(***************************************************************************)
EXTENDS Naturals, Sequences, FiniteSets

CONSTANTS
  NumIncidents,  \* incidents 1..NumIncidents exist, oldest first
  Requests,      \* concurrent operator requests
  Polls,         \* concurrent poll cycles
  Steps,         \* levels of the policy that applies to each incident
  LevelCap,      \* escalation_level < 10 in findDueIncidents
  PollLimit,     \* LIMIT 50 in findDueIncidents
  NoRequest,     \* an idle request
  MaxCommands,   \* bound on operator requests in a run
  MaxFaults      \* bound on failed escalations and dying cycles in a run

Incidents == 1..NumIncidents

ASSUME CommandAssumption ==
  /\ NumIncidents \in Nat
  /\ Steps \in [Incidents -> SUBSET (Nat \ {0})]
  /\ IsFiniteSet(Polls)
  /\ LevelCap \in Nat /\ PollLimit \in Nat \ {0}
  /\ MaxCommands \in Nat /\ MaxFaults \in Nat

VARIABLES
  status,      \* incidents.status
  acked,       \* acknowledged_at IS NOT NULL
  resolvedAt,  \* resolved_at IS NOT NULL
  level,       \* escalation_level
  executions,  \* escalation_executions, in order
  elapsed,     \* the highest level that is due
  pending,     \* what a request has validated and not yet committed
  batch,       \* rows a poll cycle found due and has not yet handled
  commands, faults

incidentVars == <<status, acked, resolvedAt, level, executions>>
vars == <<incidentVars, elapsed, pending, batch, commands, faults>>

Lifecycle == INSTANCE IncidentLifecycle WITH state <- status

Statuses == Lifecycle!Statuses

\* updateIncidentStatusSchema
RequestableStatuses == {"ACKNOWLEDGED", "INVESTIGATING", "MITIGATED", "RESOLVED"}

Init ==
  /\ status = [i \in Incidents |-> "OPEN"]
  /\ acked = [i \in Incidents |-> FALSE]
  /\ resolvedAt = [i \in Incidents |-> FALSE]
  /\ level = [i \in Incidents |-> 0]
  /\ executions = [i \in Incidents |-> <<>>]
  /\ elapsed = [i \in Incidents |-> 0]
  /\ pending = [r \in Requests |-> NoRequest]
  /\ batch = [p \in Polls |-> {}]
  /\ commands = 0
  /\ faults = 0

-----------------------------------------------------------------------------
(* Operators *)

\* A request whose read found the incident in a state that allows it; any
\* other request is answered with an error and changes nothing.
Accept(r, i, to) ==
  /\ pending[r] = NoRequest
  /\ commands < MaxCommands
  /\ commands' = commands + 1
  /\ pending' = [pending EXCEPT ![r] = [incident |-> i, to |-> to]]
  /\ UNCHANGED <<incidentVars, elapsed, batch, faults>>

\* updateIncidentStatus: SELECT ... status <> 'RESOLVED', then the guard.
ReadStatus(r, i, to) ==
  /\ status[i] # "RESOLVED"
  /\ Lifecycle!ValidTransition(status[i], to)
  /\ Accept(r, i, to)

\* reopenIncident: SELECT, then status must be RESOLVED.
ReadResolved(r, i) ==
  /\ status[i] = "RESOLVED"
  /\ Accept(r, i, "OPEN")

\* resolved_at of the row after the UPDATE.
ResolvedAtAfter(was, to) == to # "OPEN" /\ (was \/ to = "RESOLVED")

\* UPDATE ... WHERE id = $1 and COMMIT: whatever the status is by now.
CommitRequest(r) ==
  /\ pending[r] # NoRequest
  /\ LET i == pending[r].incident
         to == pending[r].to
     IN  /\ status' = [status EXCEPT ![i] = to]
         /\ acked' = [acked EXCEPT ![i] = @ \/ to = "ACKNOWLEDGED"]
         /\ resolvedAt' = [resolvedAt EXCEPT ![i] = ResolvedAtAfter(@, to)]
  /\ pending' = [pending EXCEPT ![r] = NoRequest]
  /\ UNCHANGED <<level, executions, elapsed, batch, commands, faults>>

\* A later statement of the transaction failed: ROLLBACK.
RollBackRequest(r) ==
  /\ pending[r] # NoRequest
  /\ pending' = [pending EXCEPT ![r] = NoRequest]
  /\ UNCHANGED <<incidentVars, elapsed, batch, commands, faults>>

-----------------------------------------------------------------------------
(* The escalation worker *)

\* created_at + sum(delay_minutes for levels <= l) has passed.
TimePasses(i) ==
  /\ elapsed[i] < LevelCap
  /\ elapsed' = [elapsed EXCEPT ![i] = @ + 1]
  /\ UNCHANGED <<incidentVars, pending, batch, commands, faults>>

\* Mutation: acknowledged_at is not looked at.
EscalatableByStatus(i) ==
  /\ status[i] \in {"OPEN", "ACKNOWLEDGED", "INVESTIGATING", "ESCALATED"}
  /\ level[i] < LevelCap

\* The WHERE clause of findDueIncidents.
Escalatable(i) ==
  /\ status[i] \in {"OPEN", "ACKNOWLEDGED", "INVESTIGATING", "ESCALATED"}
  /\ ~acked[i]
  /\ level[i] < LevelCap

\* Mutation: one row less than the limit.
OldestOffByOne(S, n) == {i \in S : Cardinality({j \in S : j < i}) < n - 1}

\* ORDER BY created_at LIMIT
Oldest(S, n) == {i \in S : Cardinality({j \in S : j < i}) < n}

\* delayForNextStep: the policy has the next level and its time has come.
NextStepDue(i) == level[i] + 1 \in Steps[i] /\ elapsed[i] >= level[i] + 1

\* findDueIncidents: the limit applies before the due filter.
FindDueIncidents(p) ==
  /\ batch[p] = {}
  /\ batch' = [batch EXCEPT ![p] =
       {[incident |-> i, seen |-> level[i]] :
          i \in {j \in Oldest({k \in Incidents : Escalatable(k)}, PollLimit) :
                   NextStepDue(j)}}]
  /\ UNCHANGED <<incidentVars, elapsed, pending, commands, faults>>

First(p, row) ==
  /\ row \in batch[p]
  /\ \A other \in batch[p] : row.incident <= other.incident

\* Mutations: the level the cycle read is written back; or none is.
RaisedFromRead(i, seen) == seen + 1
NotRaised(i, seen) == level[i]

\* SET escalation_level = escalation_level + 1
Raised(i, seen) == level[i] + 1

\* Mutation: every escalated incident becomes ESCALATED.
AlwaysEscalated(s) == "ESCALATED"

\* CASE WHEN status = 'OPEN' THEN 'ESCALATED' ELSE status END
EscalatedFrom(s) == IF s = "OPEN" THEN "ESCALATED" ELSE s

\* escalateOnce for the next row of the cycle, with the level read then: one
\* transaction that looks at neither status, acknowledgement nor level.
EscalateOnce(p) ==
  \E row \in batch[p] :
    LET i == row.incident
    IN  /\ First(p, row)
        /\ batch' = [batch EXCEPT ![p] = @ \ {row}]
        /\ executions' = [executions EXCEPT
             ![i] = Append(@, [level |-> row.seen + 1, late |-> acked[i]])]
        /\ level' = [level EXCEPT ![i] = Raised(i, row.seen)]
        /\ status' = [status EXCEPT ![i] = EscalatedFrom(@)]
        /\ UNCHANGED <<acked, resolvedAt, elapsed, pending, commands, faults>>

\* escalateOnce throws: logged, the cycle goes on with the next row.
EscalationFails(p) ==
  /\ faults < MaxFaults
  /\ faults' = faults + 1
  /\ \E row \in batch[p] :
       First(p, row) /\ batch' = [batch EXCEPT ![p] = @ \ {row}]
  /\ UNCHANGED <<incidentVars, elapsed, pending, commands>>

\* The process dies in the middle of the cycle.
PollDies(p) ==
  /\ faults < MaxFaults
  /\ batch[p] # {}
  /\ faults' = faults + 1
  /\ batch' = [batch EXCEPT ![p] = {}]
  /\ UNCHANGED <<incidentVars, elapsed, pending, commands>>

-----------------------------------------------------------------------------
Next ==
  \/ \E i \in Incidents : TimePasses(i)
  \/ \E r \in Requests :
       \/ CommitRequest(r) \/ RollBackRequest(r)
       \/ \E i \in Incidents :
            \/ ReadResolved(r, i)
            \/ \E to \in RequestableStatuses : ReadStatus(r, i, to)
  \/ \E p \in Polls :
       \/ FindDueIncidents(p) \/ EscalateOnce(p)
       \/ EscalationFails(p) \/ PollDies(p)

(* The interval fires for ever and a started cycle goes on; time passes.   *)
(* Operators owe nothing.                                                  *)
Fairness ==
  /\ \A p \in Polls : WF_vars(FindDueIncidents(p)) /\ WF_vars(EscalateOnce(p))
  /\ \A i \in Incidents : WF_vars(TimePasses(i))

SafetySpec == Init /\ [][Next]_vars
Spec == SafetySpec /\ Fairness

-----------------------------------------------------------------------------
RequestType == [incident : Incidents, to : Statuses]
RowType == [incident : Incidents, seen : Nat]
ExecutionType == [level : Nat, late : BOOLEAN]

TypeOK ==
  /\ status \in [Incidents -> Statuses]
  /\ acked \in [Incidents -> BOOLEAN]
  /\ resolvedAt \in [Incidents -> BOOLEAN]
  /\ level \in [Incidents -> Nat]
  /\ executions \in [Incidents -> Seq(ExecutionType)]
  /\ elapsed \in [Incidents -> Nat]
  /\ pending \in [Requests -> RequestType \cup {NoRequest}]
  /\ batch \in [Polls -> SUBSET RowType]
  /\ commands \in Nat
  /\ faults \in Nat

(* escalation_level counts the rows of escalation_executions, and no level *)
(* is executed before it is due, however stale the row a cycle works on    *)
(* and however many cycles overlap.                                        *)
LevelCountsExecutions ==
  \A i \in Incidents :
    /\ level[i] = Len(executions[i])
    /\ \A k \in 1..level[i] : executions[i][k].level <= elapsed[i]

(* The stale reads of overlapping cycles are harmful only so often: a      *)
(* level is executed at most once per concurrent cycle, and at most that   *)
(* many executions come after the acknowledgement, even across a reopen.   *)
Executed(i, l) == {k \in DOMAIN executions[i] : executions[i][k].level = l}
Late(i) == {k \in DOMAIN executions[i] : executions[i][k].late}
StaleEscalationsBounded ==
  \A i \in Incidents :
    /\ Cardinality(Late(i)) <= Cardinality(Polls)
    /\ \A k \in DOMAIN executions[i] :
         Cardinality(Executed(i, executions[i][k].level)) <= Cardinality(Polls)

(* The levels of the policy are executed one after the other, none twice   *)
(* and none left out, across failed escalations and dying cycles, while    *)
(* poll cycles do not overlap.                                             *)
StepsInOrder ==
  \A i \in Incidents : \A k \in DOMAIN executions[i] :
    executions[i][k].level = k

(* While operators send one request at a time the status only moves along  *)
(* INCIDENT_TRANSITIONS, even when an escalation commits between the read  *)
(* and the write of the request.                                           *)
ImplementsLifecycle == Lifecycle!LifecycleSpec

(* And resolved_at is set exactly while the status is RESOLVED.            *)
ResolvedAtMatchesStatus ==
  \A i \in Incidents : resolvedAt[i] <=> status[i] = "RESOLVED"

(* An incident with an overdue step does not stay at its level for ever    *)
(* while it is escalatable: neither a failed escalation nor a dying cycle  *)
(* loses it. With more open incidents than PollLimit this contradicts      *)
(* escalation.worker.ts:34 "Every poll we query incidents whose elapsed    *)
(* time exceeds the configured delay for their next escalation level".     *)
OverdueIsEscalated ==
  \A i \in Incidents : \A l \in 0..LevelCap :
    (Escalatable(i) /\ NextStepDue(i) /\ level[i] = l)
      ~> (level[i] # l \/ ~Escalatable(i))
=============================================================================
