----------------------- MODULE IncidentCommandProofs -----------------------
(***************************************************************************)
(* Operators and overlapping escalation cycles, for every number of        *)
(* incidents, requests and cycles and every policy: escalation_level       *)
(* always counts the executed steps, none is executed before its time,     *)
(* stale reads repeat a level no more often than there are cycles, and a   *)
(* single cycle at a time executes the levels in order.                    *)
(***************************************************************************)
EXTENDS IncidentCommand, FiniteSetTheorems, TLAPS

-----------------------------------------------------------------------------
LEMMA StatusFacts ==
  /\ RequestableStatuses \subseteq Statuses
  /\ "OPEN" \in Statuses /\ "ESCALATED" \in Statuses
BY DEF RequestableStatuses, Statuses, Lifecycle!Statuses

LEMMA TypesInit == Init => TypeOK
<1> SUFFICES ASSUME Init PROVE TypeOK
  OBVIOUS
<1>1. executions \in [Incidents -> Seq(ExecutionType)]
  BY DEF Init
<1>2. pending \in [Requests -> RequestType \cup {NoRequest}]
  BY DEF Init
<1>3. QED
  BY <1>1, <1>2, StatusFacts DEF Init, TypeOK

LEMMA RowOfBatch ==
  ASSUME TypeOK, NEW p \in Polls, NEW row \in batch[p]
  PROVE  row.incident \in Incidents /\ row.seen \in Nat
BY DEF TypeOK, RowType

(* Every action keeps the types. *)
LEMMA TypesStep == TypeOK /\ [Next]_vars => TypeOK'
<1> SUFFICES ASSUME TypeOK, [Next]_vars PROVE TypeOK'
  OBVIOUS
<1> USE CommandAssumption DEF TypeOK, incidentVars
<1>1. ASSUME NEW i \in Incidents, TimePasses(i) PROVE TypeOK'
  BY <1>1 DEF TimePasses
<1>2. ASSUME NEW r \in Requests, NEW i \in Incidents, NEW to \in Statuses,
             Accept(r, i, to)
      PROVE  TypeOK'
  BY <1>2 DEF Accept, RequestType
<1>3. ASSUME NEW r \in Requests, CommitRequest(r) PROVE TypeOK'
  <2>1. pending[r].incident \in Incidents /\ pending[r].to \in Statuses
    BY <1>3 DEF CommitRequest, RequestType
  <2>2. status' \in [Incidents -> Statuses]
    BY <1>3, <2>1 DEF CommitRequest
  <2>3. acked' \in [Incidents -> BOOLEAN]
    BY <1>3, <2>1 DEF CommitRequest
  <2>4. resolvedAt' \in [Incidents -> BOOLEAN]
    BY <1>3, <2>1 DEF CommitRequest, ResolvedAtAfter
  <2>5. pending' \in [Requests -> RequestType \cup {NoRequest}]
    BY <1>3 DEF CommitRequest
  <2>6. QED
    BY <1>3, <2>2, <2>3, <2>4, <2>5 DEF CommitRequest
<1>4. ASSUME NEW r \in Requests, RollBackRequest(r) PROVE TypeOK'
  BY <1>4 DEF RollBackRequest
<1>5. ASSUME NEW p \in Polls, FindDueIncidents(p) PROVE TypeOK'
  <2>1. \A S, n : Oldest(S, n) \subseteq S
    BY DEF Oldest
  <2> DEFINE due == {j \in Oldest({k \in Incidents : Escalatable(k)}, PollLimit) :
                      NextStepDue(j)}
             rows == {[incident |-> i, seen |-> level[i]] : i \in due}
  <2>2. rows \in SUBSET RowType
    <3>1. \A i \in due : i \in Incidents
      BY <2>1
    <3> HIDE DEF due
    <3>2. \A i \in due : [incident |-> i, seen |-> level[i]] \in RowType
      BY <3>1 DEF RowType
    <3>3. QED
      BY <3>2
  <2>3. batch' \in [Polls -> SUBSET RowType]
    <3>1. batch' = [batch EXCEPT ![p] = rows]
      BY <1>5 DEF FindDueIncidents
    <3> HIDE DEF rows
    <3>2. QED
      BY <2>2, <3>1
  <2>4. QED
    BY <1>5, <2>3 DEF FindDueIncidents
<1>6. ASSUME NEW p \in Polls, EscalateOnce(p) PROVE TypeOK'
  <2>1. PICK row \in batch[p] :
          /\ batch' = [batch EXCEPT ![p] = @ \ {row}]
          /\ executions' = [executions EXCEPT ![row.incident] =
               Append(@, [level |-> row.seen + 1, late |-> acked[row.incident]])]
          /\ level' = [level EXCEPT ![row.incident] = Raised(row.incident, row.seen)]
          /\ status' = [status EXCEPT ![row.incident] = EscalatedFrom(@)]
          /\ UNCHANGED <<acked, resolvedAt, elapsed, pending, commands, faults>>
    BY <1>6 DEF EscalateOnce
  <2>2. row.incident \in Incidents /\ row.seen \in Nat
    BY RowOfBatch
  <2>3. batch' \in [Polls -> SUBSET RowType]
    BY <2>1
  <2>4. executions' \in [Incidents -> Seq(ExecutionType)]
    <3>1. [level |-> row.seen + 1, late |-> acked[row.incident]] \in ExecutionType
      BY <2>2 DEF ExecutionType
    <3>2. QED
      BY <2>1, <2>2, <3>1
  <2>5. level' \in [Incidents -> Nat]
    BY <2>1, <2>2 DEF Raised
  <2>6. status' \in [Incidents -> Statuses]
    BY <2>1, <2>2, StatusFacts DEF EscalatedFrom
  <2>7. QED
    BY <2>1, <2>3, <2>4, <2>5, <2>6
<1>7. ASSUME NEW p \in Polls, EscalationFails(p) PROVE TypeOK'
  BY <1>7 DEF EscalationFails
<1>8. ASSUME NEW p \in Polls, PollDies(p) PROVE TypeOK'
  BY <1>8 DEF PollDies
<1>9. CASE UNCHANGED vars
  BY <1>9 DEF vars
<1>10. ASSUME NEW r \in Requests, NEW i \in Incidents,
              ReadResolved(r, i)
                \/ \E to \in RequestableStatuses : ReadStatus(r, i, to)
       PROVE  TypeOK'
  BY <1>2, <1>10, StatusFacts DEF ReadResolved, ReadStatus
<1>11. QED
  BY <1>1, <1>3, <1>4, <1>5, <1>6, <1>7, <1>8, <1>9, <1>10 DEF Next

(* Type correctness of the command side, for every instance.               *)
THEOREM CommandTypeCorrect == SafetySpec => []TypeOK
<1>1. Init => TypeOK
  BY TypesInit
<1>2. TypeOK /\ [Next]_vars => TypeOK'
  BY TypesStep
<1>3. QED
  BY <1>1, <1>2, PTL DEF SafetySpec

-----------------------------------------------------------------------------
(* A row a cycle has read stays due, however stale its level becomes:      *)
(* created_at does not move, so what was due remains due.                  *)
RowsDue ==
  \A p \in Polls : \A row \in batch[p] : row.seen + 1 <= elapsed[row.incident]

LevelInv == RowsDue /\ LevelCountsExecutions

LEMMA LevelInvStep == TypeOK /\ LevelInv /\ [Next]_vars => LevelInv'
<1> SUFFICES ASSUME TypeOK, LevelInv, [Next]_vars PROVE LevelInv'
  OBVIOUS
<1> USE CommandAssumption
    DEF TypeOK, incidentVars, LevelInv, RowsDue, LevelCountsExecutions
<1>1. ASSUME NEW i \in Incidents, TimePasses(i) PROVE LevelInv'
  <2>1. \A j \in Incidents : elapsed'[j] \in Nat /\ elapsed'[j] >= elapsed[j]
    BY <1>1 DEF TimePasses
  <2>2. RowsDue'
    BY <1>1, <2>1, RowOfBatch DEF TimePasses
  <2>3. LevelCountsExecutions'
    <3>1. \A j \in Incidents : \A k \in 1..level[j] :
            executions[j][k].level \in Nat
      <4>1. SUFFICES ASSUME NEW j \in Incidents, NEW k \in 1..level[j]
                     PROVE  executions[j][k].level \in Nat
        OBVIOUS
      <4>2. executions[j] \in Seq(ExecutionType) /\ k \in 1..Len(executions[j])
        OBVIOUS
      <4>3. executions[j][k] \in ExecutionType
        BY ONLY <4>2
      <4>4. QED
        BY <4>3 DEF ExecutionType
    <3>2. QED
      BY <1>1, <2>1, <3>1 DEF TimePasses
  <2>4. QED
    BY <2>2, <2>3
<1>2. ASSUME NEW r \in Requests, NEW i \in Incidents, NEW to, Accept(r, i, to)
      PROVE  LevelInv'
  BY <1>2 DEF Accept
<1>3. ASSUME NEW r \in Requests, CommitRequest(r) \/ RollBackRequest(r)
      PROVE  LevelInv'
  BY <1>3 DEF CommitRequest, RollBackRequest
<1>4. ASSUME NEW p \in Polls, FindDueIncidents(p) PROVE LevelInv'
  <2>1. \A S, n : Oldest(S, n) \subseteq S
    BY DEF Oldest
  <2>2. \A row \in batch'[p] :
          \E j \in Incidents : /\ row = [incident |-> j, seen |-> level[j]]
                               /\ NextStepDue(j)
    BY <1>4, <2>1 DEF FindDueIncidents
  <2>3. \A row \in batch'[p] : row.seen + 1 <= elapsed[row.incident]
    BY <2>2 DEF NextStepDue
  <2>4. \A q \in Polls \ {p} : batch'[q] = batch[q]
    BY <1>4 DEF FindDueIncidents
  <2>5. RowsDue'
    BY <1>4, <2>3, <2>4 DEF FindDueIncidents
  <2>6. QED
    BY <1>4, <2>5 DEF FindDueIncidents
<1>5. ASSUME NEW p \in Polls, EscalateOnce(p) PROVE LevelInv'
  <2>1. PICK row \in batch[p] :
          /\ batch' = [batch EXCEPT ![p] = @ \ {row}]
          /\ executions' = [executions EXCEPT ![row.incident] =
               Append(@, [level |-> row.seen + 1, late |-> acked[row.incident]])]
          /\ level' = [level EXCEPT ![row.incident] = Raised(row.incident, row.seen)]
          /\ UNCHANGED elapsed
    BY <1>5 DEF EscalateOnce
  <2>2. /\ row.incident \in Incidents /\ row.seen \in Nat
        /\ row.seen + 1 <= elapsed[row.incident]
    BY RowOfBatch
  <2>3. RowsDue'
    BY <2>1
  <2> DEFINE i == row.incident
             new == [level |-> row.seen + 1, late |-> acked[i]]
  <2>4. executions'[i] = Append(executions[i], new) /\ level'[i] = level[i] + 1
    BY <2>1, <2>2 DEF Raised
  <2>5. \A j \in Incidents \ {i} :
          executions'[j] = executions[j] /\ level'[j] = level[j]
    BY <2>1, <2>2
  <2>6. executions[i] \in Seq(ExecutionType) /\ level[i] = Len(executions[i])
    BY <2>2
  <2>7. level'[i] = Len(executions'[i])
    BY <2>4, <2>6
  <2>8. \A k \in 1..level'[i] : executions'[i][k].level <= elapsed[i]
    <3>1. \A k \in 1..level[i] : executions'[i][k] = executions[i][k]
      BY <2>4, <2>6
    <3>2. executions'[i][level[i] + 1] = new
      BY <2>4, <2>6
    <3>3. QED
      BY <2>2, <2>4, <2>6, <3>1, <3>2
  <2>9. QED
    BY <2>1, <2>3, <2>5, <2>7, <2>8
<1>6. ASSUME NEW p \in Polls, EscalationFails(p) \/ PollDies(p) PROVE LevelInv'
  <2>1. \A q \in Polls : batch'[q] \subseteq batch[q]
    BY <1>6 DEF EscalationFails, PollDies
  <2>2. QED
    BY <1>6, <2>1 DEF EscalationFails, PollDies
<1>7. CASE UNCHANGED vars
  BY <1>7 DEF vars
<1>8. QED
  BY <1>1, <1>2, <1>3, <1>4, <1>5, <1>6, <1>7
     DEF Next, ReadResolved, ReadStatus

(* escalation_level counts escalation_executions, and no step is executed  *)
(* before it is due, for any number of overlapping cycles.                 *)
THEOREM LevelsCountExecutions == SafetySpec => []LevelCountsExecutions
<1>1. Init => LevelInv
  BY DEF Init, LevelInv, RowsDue, LevelCountsExecutions
<1>2. TypeOK /\ LevelInv /\ [Next]_vars => LevelInv'
  BY LevelInvStep
<1>3. LevelInv => LevelCountsExecutions
  BY DEF LevelInv
<1>4. QED
  BY <1>1, <1>2, <1>3, CommandTypeCorrect, PTL DEF SafetySpec

-----------------------------------------------------------------------------
(* While requests come one at a time, what a request has validated is      *)
(* still valid when it commits: an escalation only takes OPEN to           *)
(* ESCALATED, from where everything a request may ask of OPEN is allowed.  *)
OneAtATime == \A r, s \in Requests : r = s

PendingFits ==
  \A r \in Requests : pending[r] # NoRequest =>
    LET from == status[pending[r].incident]
        to == pending[r].to
    IN  \/ to = "OPEN" /\ from = "RESOLVED"
        \/ to \in RequestableStatuses /\ to \in Lifecycle!Transitions[from]

LEMMA TransitionFacts ==
  /\ "OPEN" \notin RequestableStatuses
  /\ "ESCALATED" \in Lifecycle!Transitions["OPEN"]
  /\ Lifecycle!Transitions["RESOLVED"] = {}
  /\ Lifecycle!Transitions["OPEN"] \cap RequestableStatuses
       \subseteq Lifecycle!Transitions["ESCALATED"]
BY DEF RequestableStatuses, Lifecycle!Transitions, Lifecycle!Statuses

\* What an escalation does to the status of incidents.
LEMMA EscalationMoves ==
  ASSUME TypeOK, NEW p \in Polls, EscalateOnce(p)
  PROVE  \E i \in Incidents :
           /\ status' = [status EXCEPT ![i] = EscalatedFrom(status[i])]
           /\ UNCHANGED <<pending, resolvedAt>>
<1>1. PICK row \in batch[p] :
        /\ status' = [status EXCEPT ![row.incident] = EscalatedFrom(@)]
        /\ UNCHANGED <<pending, resolvedAt>>
  BY DEF EscalateOnce
<1>2. row.incident \in Incidents
  BY RowOfBatch
<1>3. QED
  BY <1>1, <1>2

\* What a commit does to them.
LEMMA CommitMoves ==
  ASSUME TypeOK, PendingFits, NEW r \in Requests, CommitRequest(r)
  PROVE  \E i \in Incidents : \E to \in Statuses :
           /\ status' = [status EXCEPT ![i] = to]
           /\ resolvedAt' = [resolvedAt EXCEPT ![i] = ResolvedAtAfter(@, to)]
           /\ \/ to = "OPEN" /\ status[i] = "RESOLVED"
              \/ to \in RequestableStatuses /\ to \in Lifecycle!Transitions[status[i]]
<1>1. pending[r] # NoRequest /\ pending[r] \in RequestType
  BY DEF CommitRequest, TypeOK
<1>2. pending[r].incident \in Incidents /\ pending[r].to \in Statuses
  BY <1>1 DEF RequestType
<1>3. QED
  BY <1>1, <1>2 DEF CommitRequest, PendingFits

LEMMA PendingStep ==
  ASSUME OneAtATime, TypeOK, PendingFits, [Next]_vars
  PROVE  PendingFits'
<1> USE DEF PendingFits
<1>1. ASSUME NEW r \in Requests, CommitRequest(r) \/ RollBackRequest(r)
      PROVE  PendingFits'
  <2>1. pending'[r] = NoRequest
    BY <1>1 DEF CommitRequest, RollBackRequest, TypeOK
  <2>2. QED
    BY <2>1 DEF OneAtATime
<1>2. ASSUME NEW r \in Requests, NEW i \in Incidents, NEW to \in Statuses,
             Accept(r, i, to),
             \/ to = "OPEN" /\ status[i] = "RESOLVED"
             \/ to \in RequestableStatuses /\ to \in Lifecycle!Transitions[status[i]]
      PROVE  PendingFits'
  <2>1. status' = status /\ pending'[r] = [incident |-> i, to |-> to]
    BY <1>2 DEF Accept, TypeOK, incidentVars
  <2>2. QED
    BY <1>2, <2>1 DEF OneAtATime
<1>3. ASSUME NEW r \in Requests, NEW i \in Incidents, ReadResolved(r, i)
      PROVE  PendingFits'
  BY <1>2, <1>3, StatusFacts DEF ReadResolved
<1>4. ASSUME NEW r \in Requests, NEW i \in Incidents,
             NEW to \in RequestableStatuses, ReadStatus(r, i, to)
      PROVE  PendingFits'
  BY <1>2, <1>4, StatusFacts DEF ReadStatus, Lifecycle!ValidTransition
<1>5. ASSUME NEW p \in Polls, EscalateOnce(p) PROVE PendingFits'
  <2>1. PICK i \in Incidents :
          /\ status' = [status EXCEPT ![i] = EscalatedFrom(status[i])]
          /\ UNCHANGED pending
    BY <1>5, EscalationMoves
  <2>2. SUFFICES ASSUME NEW r \in Requests, pending[r] # NoRequest,
                        pending[r].incident = i, status[i] = "OPEN"
                 PROVE  /\ pending[r].to \in RequestableStatuses
                        /\ pending[r].to \in Lifecycle!Transitions["ESCALATED"]
    BY <2>1 DEF EscalatedFrom, TypeOK, RequestType
  <2>3. QED
    BY <2>2, TransitionFacts
<1>6. CASE UNCHANGED <<status, pending>>
  BY <1>6
<1>7. QED
  BY <1>1, <1>3, <1>4, <1>5, <1>6
     DEF Next, TimePasses, FindDueIncidents, EscalationFails, PollDies,
         incidentVars, vars

LEMMA PendingInvariant ==
  ASSUME OneAtATime PROVE SafetySpec => []PendingFits
<1>1. Init => PendingFits
  BY DEF Init, PendingFits
<1>2. TypeOK /\ PendingFits /\ [Next]_vars => PendingFits'
  BY PendingStep
<1>3. QED
  BY <1>1, <1>2, CommandTypeCorrect, PTL DEF SafetySpec

(* With one request at a time, and any number of overlapping escalation    *)
(* cycles, the status only moves along INCIDENT_TRANSITIONS, or back to    *)
(* OPEN by a reopen.                                                       *)
THEOREM LifecycleImplemented ==
  ASSUME OneAtATime PROVE SafetySpec => ImplementsLifecycle
<1>1. Init => Lifecycle!LifecycleInit
  BY DEF Init, Lifecycle!LifecycleInit
<1>2. ASSUME TypeOK, PendingFits, [Next]_vars
      PROVE  [Lifecycle!LifecycleNext]_status
  <2>1. ASSUME NEW r \in Requests, CommitRequest(r)
        PROVE  Lifecycle!LifecycleNext
    <3>1. PICK i \in Incidents, to \in Statuses :
            /\ status' = [status EXCEPT ![i] = to]
            /\ \/ to = "OPEN" /\ status[i] = "RESOLVED"
               \/ to \in Lifecycle!Transitions[status[i]]
      BY <1>2, <2>1, CommitMoves
    <3>2. Lifecycle!Move(i) \/ Lifecycle!BringBack(i)
      BY <3>1 DEF Lifecycle!Move, Lifecycle!BringBack
    <3>3. QED
      BY <3>2 DEF Lifecycle!LifecycleNext
  <2>2. ASSUME NEW p \in Polls, EscalateOnce(p)
        PROVE  [Lifecycle!LifecycleNext]_status
    <3>1. PICK i \in Incidents :
            status' = [status EXCEPT ![i] = EscalatedFrom(status[i])]
      BY <1>2, <2>2, EscalationMoves
    <3>2. CASE status[i] = "OPEN"
      BY <3>1, <3>2, TransitionFacts
         DEF EscalatedFrom, Lifecycle!Move, Lifecycle!LifecycleNext
    <3>3. CASE status[i] # "OPEN"
      BY <1>2, <3>1, <3>3 DEF EscalatedFrom, TypeOK
    <3>4. QED
      BY <3>2, <3>3
  <2>3. CASE UNCHANGED status
    BY <2>3
  <2>4. QED
    BY <1>2, <2>1, <2>2, <2>3
       DEF Next, TimePasses, RollBackRequest, ReadResolved, ReadStatus, Accept,
           FindDueIncidents, EscalationFails, PollDies, incidentVars, vars
<1>3. QED
  BY <1>1, <1>2, CommandTypeCorrect, PendingInvariant, PTL
     DEF SafetySpec, ImplementsLifecycle, Lifecycle!LifecycleSpec

(* And resolved_at is set exactly while the status is RESOLVED.            *)
THEOREM ResolvedAtCorrect ==
  ASSUME OneAtATime PROVE SafetySpec => []ResolvedAtMatchesStatus
<1>1. Init => ResolvedAtMatchesStatus
  BY DEF Init, ResolvedAtMatchesStatus
<1>2. ASSUME TypeOK, PendingFits, ResolvedAtMatchesStatus, [Next]_vars
      PROVE  ResolvedAtMatchesStatus'
  <2> USE DEF ResolvedAtMatchesStatus
  <2>1. ASSUME NEW r \in Requests, CommitRequest(r)
        PROVE  ResolvedAtMatchesStatus'
    <3>1. PICK i \in Incidents, to \in Statuses :
            /\ status' = [status EXCEPT ![i] = to]
            /\ resolvedAt' = [resolvedAt EXCEPT ![i] = ResolvedAtAfter(@, to)]
            /\ \/ to = "OPEN" /\ status[i] = "RESOLVED"
               \/ to \in RequestableStatuses /\ to \in Lifecycle!Transitions[status[i]]
      BY <1>2, <2>1, CommitMoves
    <3>2. status[i] = "RESOLVED" => to = "OPEN"
      BY <3>1, TransitionFacts
    <3>3. resolvedAt'[i] <=> to = "RESOLVED"
      BY <1>2, <3>1, <3>2, TransitionFacts DEF ResolvedAtAfter, TypeOK
    <3>4. QED
      BY <1>2, <3>1, <3>3 DEF TypeOK
  <2>2. ASSUME NEW p \in Polls, EscalateOnce(p)
        PROVE  ResolvedAtMatchesStatus'
    BY <1>2, <2>2, EscalationMoves DEF EscalatedFrom, TypeOK
  <2>3. CASE UNCHANGED <<status, resolvedAt>>
    BY <1>2, <2>3
  <2>4. QED
    BY <1>2, <2>1, <2>2, <2>3
       DEF Next, TimePasses, RollBackRequest, ReadResolved, ReadStatus, Accept,
           FindDueIncidents, EscalationFails, PollDies, incidentVars, vars
<1>3. QED
  BY <1>1, <1>2, CommandTypeCorrect, PendingInvariant, PTL DEF SafetySpec

-----------------------------------------------------------------------------
(* How often a stale read does harm. A row a cycle holds is one escalation *)
(* to come, and a cycle holds at most one row of an incident. No row is    *)
(* read once the incident is acknowledged, and a row names the level the   *)
(* incident had: what was executed late, or at one level, and what is      *)
(* still held to be executed so never exceed the number of cycles.         *)
HoldingRow(i) == {p \in Polls : \E row \in batch[p] : row.incident = i}
HoldingAt(i, s) ==
  {p \in Polls : \E row \in batch[p] : row.incident = i /\ row.seen = s}

RowsKnown ==
  \A p \in Polls :
    /\ \A row \in batch[p] : row.seen <= level[row.incident]
    /\ \A one, other \in batch[p] :
         one.incident = other.incident => one = other
LevelsKnown ==
  \A i \in Incidents : \A k \in DOMAIN executions[i] :
    executions[i][k].level \in 1..level[i]
LateBudget ==
  \A i \in Incidents :
    /\ ~acked[i] => Late(i) = {}
    /\ Cardinality(Late(i)) + Cardinality(HoldingRow(i)) <= Cardinality(Polls)
LevelBudget ==
  \A i \in Incidents : \A s \in Nat :
    Cardinality(Executed(i, s + 1)) + Cardinality(HoldingAt(i, s))
      <= Cardinality(Polls)

Rows == RowsKnown /\ LevelsKnown

\* Fewer to come, no more done: the sum does not grow.
LEMMA FewerToCome ==
  ASSUME NEW D, NEW H, NEW H2 \in SUBSET H, IsFiniteSet(D), IsFiniteSet(H)
  PROVE  Cardinality(D) + Cardinality(H2) <= Cardinality(D) + Cardinality(H)
<1>1. Cardinality(D) \in Nat /\ Cardinality(H) \in Nat
  BY FS_CardinalityType
<1>2. IsFiniteSet(H2) /\ Cardinality(H2) <= Cardinality(H)
  BY FS_Subset
<1>3. Cardinality(H2) \in Nat
  BY <1>2, FS_CardinalityType
<1>4. QED
  BY <1>1, <1>2, <1>3

\* One less to come, one more done: the sum is the same.
LEMMA OneDone ==
  ASSUME NEW D, NEW H, NEW d, NEW h \in H, IsFiniteSet(D), IsFiniteSet(H)
  PROVE  Cardinality(D \cup {d}) + Cardinality(H \ {h})
           <= Cardinality(D) + Cardinality(H)
<1>1. Cardinality(D) \in Nat /\ Cardinality(H) \in Nat
  BY FS_CardinalityType
<1>2. Cardinality(D \cup {d}) \in {Cardinality(D), Cardinality(D) + 1}
  BY FS_AddElement
<1>3. Cardinality(H \ {h}) = Cardinality(H) - 1
  BY FS_RemoveElement
<1>4. QED
  BY <1>1, <1>2, <1>3

LEMMA HoldersFinite ==
  ASSUME NEW i, NEW s
  PROVE  /\ HoldingRow(i) \subseteq Polls /\ IsFiniteSet(HoldingRow(i))
         /\ HoldingAt(i, s) \subseteq Polls /\ IsFiniteSet(HoldingAt(i, s))
         /\ Cardinality(Polls) \in Nat
<1>1. HoldingRow(i) \subseteq Polls /\ HoldingAt(i, s) \subseteq Polls
  BY DEF HoldingRow, HoldingAt
<1>2. QED
  BY <1>1, FS_Subset, FS_CardinalityType, CommandAssumption

LEMMA PositionsFinite ==
  ASSUME TypeOK, NEW i \in Incidents, NEW P \in SUBSET DOMAIN executions[i]
  PROVE  IsFiniteSet(P) /\ Cardinality(P) \in Nat
<1>1. /\ executions[i] \in Seq(ExecutionType)
      /\ DOMAIN executions[i] = 1..Len(executions[i])
      /\ Len(executions[i]) \in Nat
  BY DEF TypeOK
<1>2. IsFiniteSet(DOMAIN executions[i])
  BY <1>1, FS_Interval
<1>3. QED
  BY <1>2, FS_Subset, FS_CardinalityType

LEMMA DoneFinite ==
  ASSUME TypeOK, NEW i \in Incidents, NEW l
  PROVE  /\ IsFiniteSet(Late(i)) /\ Cardinality(Late(i)) \in Nat
         /\ IsFiniteSet(Executed(i, l)) /\ Cardinality(Executed(i, l)) \in Nat
<1>1. /\ Late(i) \in SUBSET DOMAIN executions[i]
      /\ Executed(i, l) \in SUBSET DOMAIN executions[i]
  BY DEF Late, Executed
<1>2. QED
  BY <1>1, PositionsFinite

\* What a cycle reads: at most one row of an incident, with its level.
LEMMA FoundRows ==
  ASSUME TypeOK, NEW p \in Polls, FindDueIncidents(p)
  PROVE  /\ batch[p] = {}
         /\ \A q \in Polls \ {p} : batch'[q] = batch[q]
         /\ \A row \in batch'[p] :
              /\ row.incident \in Incidents
              /\ ~acked[row.incident]
              /\ row = [incident |-> row.incident, seen |-> level[row.incident]]
<1> DEFINE due == {j \in Oldest({k \in Incidents : Escalatable(k)}, PollLimit) :
                     NextStepDue(j)}
<1>1. \A j \in due : j \in Incidents /\ ~acked[j]
  BY DEF Oldest, Escalatable
<1>2. /\ batch[p] = {}
      /\ batch' = [batch EXCEPT ![p] = {[incident |-> i, seen |-> level[i]] : i \in due}]
  BY DEF FindDueIncidents
<1> HIDE DEF due
<1>3. batch'[p] = {[incident |-> i, seen |-> level[i]] : i \in due}
  BY <1>2 DEF TypeOK
<1>4. \A row \in batch'[p] : \E i \in due : row = [incident |-> i, seen |-> level[i]]
  BY <1>3
<1>5. QED
  BY <1>1, <1>2, <1>4 DEF TypeOK

\* What an escalation does: one row is executed and gone.
Executes(p, row) ==
  LET i == row.incident
      n == Len(executions[i]) + 1
  IN  /\ i \in Incidents /\ row.seen \in Nat
      /\ batch' = [batch EXCEPT ![p] = @ \ {row}]
      /\ acked' = acked
      /\ level' = [level EXCEPT ![i] = level[i] + 1]
      /\ \A j \in Incidents \ {i} : executions'[j] = executions[j]
      /\ n \in Nat /\ n \notin DOMAIN executions[i]
      /\ DOMAIN executions'[i] = DOMAIN executions[i] \cup {n}
      /\ \A k \in DOMAIN executions[i] : executions'[i][k] = executions[i][k]
      /\ executions'[i][n] = [level |-> row.seen + 1, late |-> acked[i]]

LEMMA ExecutedRow ==
  ASSUME TypeOK, NEW p \in Polls, EscalateOnce(p)
  PROVE  \E row \in batch[p] : Executes(p, row)
<1>1. PICK row \in batch[p] :
        /\ batch' = [batch EXCEPT ![p] = @ \ {row}]
        /\ executions' = [executions EXCEPT ![row.incident] =
             Append(@, [level |-> row.seen + 1, late |-> acked[row.incident]])]
        /\ level' = [level EXCEPT ![row.incident] = Raised(row.incident, row.seen)]
        /\ acked' = acked
  BY DEF EscalateOnce
<1>2. row.incident \in Incidents /\ row.seen \in Nat
  BY RowOfBatch
<1> DEFINE i == row.incident
           new == [level |-> row.seen + 1, late |-> acked[i]]
           n == Len(executions[i]) + 1
<1>3. /\ executions[i] \in Seq(ExecutionType)
      /\ executions'[i] = Append(executions[i], new)
      /\ \A j \in Incidents \ {i} : executions'[j] = executions[j]
  BY <1>1, <1>2 DEF TypeOK
<1>4. new \in ExecutionType
  BY <1>2 DEF ExecutionType, TypeOK
<1>5. /\ DOMAIN executions[i] = 1..Len(executions[i])
      /\ Len(executions[i]) \in Nat
      /\ DOMAIN executions'[i] = 1..(Len(executions[i]) + 1)
      /\ \A k \in 1..Len(executions[i]) : executions'[i][k] = executions[i][k]
      /\ executions'[i][Len(executions[i]) + 1] = new
  <2> HIDE DEF new
  <2>1. QED
    BY <1>3, <1>4
<1>6. /\ n \in Nat /\ n \notin DOMAIN executions[i]
      /\ DOMAIN executions'[i] = DOMAIN executions[i] \cup {n}
  BY <1>5
<1>7. Executes(p, row)
  BY <1>1, <1>2, <1>3, <1>5, <1>6 DEF Raised, Executes
<1>8. QED
  BY <1>7

LEMMA RowsStep == TypeOK /\ Rows /\ [Next]_vars => Rows'
<1> SUFFICES ASSUME TypeOK, Rows, [Next]_vars PROVE Rows'
  OBVIOUS
<1> USE DEF Rows, RowsKnown, LevelsKnown
<1>1. ASSUME NEW p \in Polls, FindDueIncidents(p) PROVE Rows'
  <2>1. UNCHANGED <<level, executions>>
    BY <1>1 DEF FindDueIncidents, incidentVars
  <2>2. \A row \in batch'[p] : row.seen <= level[row.incident]
    BY <1>1, FoundRows DEF TypeOK
  <2>3. \A one, other \in batch'[p] : one.incident = other.incident => one = other
    BY <1>1, FoundRows
  <2>4. QED
    BY <1>1, <2>1, <2>2, <2>3, FoundRows
<1>2. ASSUME NEW p \in Polls, EscalateOnce(p) PROVE Rows'
  <2>1. PICK row \in batch[p] : Executes(p, row)
    BY <1>2, ExecutedRow
  <2>2. \A q \in Polls : batch'[q] \subseteq batch[q]
    BY <2>1 DEF TypeOK, Executes
  <2>3. \A j \in Incidents : level[j] \in Nat /\ level[j] <= level'[j]
    BY <2>1 DEF TypeOK, Executes
  <2>4. RowsKnown'
    <3>1. SUFFICES ASSUME NEW q \in Polls, NEW r \in batch[q]
                   PROVE  r.seen <= level'[r.incident]
      BY <2>2
    <3>2. r.incident \in Incidents /\ r.seen \in Nat /\ r.seen <= level[r.incident]
      BY RowOfBatch
    <3>3. level'[r.incident] \in Nat
      BY <2>1, <3>2 DEF TypeOK, Executes
    <3>4. QED
      BY <2>3, <3>2, <3>3
  <2>5. LevelsKnown'
    <3> DEFINE i == row.incident
    <3>1. \A k \in DOMAIN executions[i] : executions[i][k].level \in 1..level[i]
      BY <2>1 DEF Executes
    <3>2. level'[i] = level[i] + 1 /\ level[i] \in Nat /\ row.seen <= level[i]
      BY <2>1 DEF TypeOK, Executes
    <3>3. \A k \in DOMAIN executions'[i] : executions'[i][k].level \in 1..level'[i]
      BY <2>1, <3>1, <3>2 DEF Executes
    <3>4. \A j \in Incidents \ {i} : level'[j] = level[j]
      BY <2>1 DEF TypeOK, Executes
    <3>5. QED
      BY <2>1, <3>3, <3>4 DEF Executes
  <2>6. QED
    BY <2>4, <2>5
<1>3. ASSUME UNCHANGED <<level, executions>>,
             \A q \in Polls : batch'[q] \subseteq batch[q]
      PROVE  Rows'
  BY <1>3
<1>4. ASSUME NEW p \in Polls, EscalationFails(p) \/ PollDies(p) PROVE Rows'
  <2>1. \A q \in Polls : batch'[q] \subseteq batch[q]
    BY <1>4 DEF EscalationFails, PollDies, TypeOK
  <2>2. QED
    BY <1>3, <1>4, <2>1 DEF EscalationFails, PollDies, incidentVars
<1>5. QED
  BY <1>1, <1>2, <1>3, <1>4
     DEF Next, TimePasses, CommitRequest, RollBackRequest, ReadResolved,
         ReadStatus, Accept, incidentVars, vars

\* Steps that start no cycle and execute nothing keep both budgets.
LEMMA BudgetsKept ==
  ASSUME TypeOK, LateBudget, LevelBudget, UNCHANGED executions,
         \A i \in Incidents : acked[i] => acked'[i],
         \A q \in Polls : batch'[q] \subseteq batch[q]
  PROVE  LateBudget' /\ LevelBudget'
<1>1. ASSUME NEW i \in Incidents PROVE Late(i)' = Late(i)
  BY DEF Late
<1>2. ASSUME NEW i \in Incidents, NEW l PROVE Executed(i, l)' = Executed(i, l)
  BY DEF Executed
<1>3. ASSUME NEW i, NEW s
      PROVE  /\ HoldingRow(i)' \subseteq HoldingRow(i)
             /\ HoldingAt(i, s)' \subseteq HoldingAt(i, s)
  BY DEF HoldingRow, HoldingAt
<1>4. LateBudget'
  <2>1. SUFFICES ASSUME NEW i \in Incidents
                 PROVE  /\ ~acked'[i] => Late(i)' = {}
                        /\ Cardinality(Late(i)') + Cardinality(HoldingRow(i)')
                             <= Cardinality(Polls)
    BY DEF LateBudget
  <2>2. HoldingRow(i)' \in SUBSET HoldingRow(i)
    BY <1>3
  <2>3. /\ IsFiniteSet(HoldingRow(i)') /\ Cardinality(HoldingRow(i)') \in Nat
        /\ Cardinality(HoldingRow(i)') <= Cardinality(HoldingRow(i))
        /\ Cardinality(HoldingRow(i)) \in Nat
    BY <2>2, HoldersFinite, FS_Subset, FS_CardinalityType
  <2>4. Cardinality(Late(i)) \in Nat /\ Cardinality(Polls) \in Nat
    BY DoneFinite, HoldersFinite
  <2>5. QED
    BY <1>1, <2>3, <2>4 DEF LateBudget
<1>5. LevelBudget'
  <2>1. SUFFICES ASSUME NEW i \in Incidents, NEW s \in Nat
                 PROVE  Cardinality(Executed(i, s + 1)') + Cardinality(HoldingAt(i, s)')
                          <= Cardinality(Polls)
    BY DEF LevelBudget
  <2>2. HoldingAt(i, s)' \in SUBSET HoldingAt(i, s)
    BY <1>3
  <2>3. /\ IsFiniteSet(HoldingAt(i, s)') /\ Cardinality(HoldingAt(i, s)') \in Nat
        /\ Cardinality(HoldingAt(i, s)') <= Cardinality(HoldingAt(i, s))
        /\ Cardinality(HoldingAt(i, s)) \in Nat
    BY <2>2, HoldersFinite, FS_Subset, FS_CardinalityType
  <2>4. Cardinality(Executed(i, s + 1)) \in Nat /\ Cardinality(Polls) \in Nat
    BY DoneFinite, HoldersFinite
  <2>5. Executed(i, s + 1)' = Executed(i, s + 1)
    BY <1>2
  <2>6. QED
    BY <2>3, <2>4, <2>5 DEF LevelBudget
<1>6. QED
  BY <1>4, <1>5

\* A new cycle reads no acknowledged incident, and reads an incident at a
\* level above everything that was executed.
LEMMA FoundBudgets ==
  ASSUME TypeOK, Rows, LateBudget, LevelBudget,
         NEW p \in Polls, FindDueIncidents(p)
  PROVE  LateBudget' /\ LevelBudget'
<1>1. UNCHANGED <<acked, executions, level>>
  BY DEF FindDueIncidents, incidentVars
<1>2. ASSUME NEW i \in Incidents, NEW l
      PROVE  Late(i)' = Late(i) /\ Executed(i, l)' = Executed(i, l)
  BY <1>1 DEF Late, Executed
<1>3. LateBudget'
  <2>1. SUFFICES ASSUME NEW i \in Incidents
                 PROVE  Cardinality(Late(i)) + Cardinality(HoldingRow(i)')
                          <= Cardinality(Polls)
    BY <1>1, <1>2 DEF LateBudget
  <2>2. HoldingRow(i)' \in SUBSET Polls
    BY DEF HoldingRow
  <2>3. CASE acked[i]
    <3>1. \A row \in batch'[p] : row.incident # i
      BY <2>3, FoundRows
    <3>2. HoldingRow(i)' \in SUBSET HoldingRow(i)
      BY <3>1, FoundRows DEF HoldingRow
    <3>3. Cardinality(Late(i)) + Cardinality(HoldingRow(i)')
            <= Cardinality(Late(i)) + Cardinality(HoldingRow(i))
      BY <3>2, FewerToCome, DoneFinite, HoldersFinite
    <3>4. /\ Cardinality(Late(i)) + Cardinality(HoldingRow(i)) <= Cardinality(Polls)
          /\ Cardinality(Late(i)) \in Nat /\ Cardinality(HoldingRow(i)) \in Nat
          /\ Cardinality(Polls) \in Nat
      BY DoneFinite, HoldersFinite, FS_CardinalityType DEF LateBudget
    <3>5. Cardinality(HoldingRow(i)') \in Nat
      BY <2>2, CommandAssumption, FS_Subset, FS_CardinalityType
    <3>6. QED
      BY <3>3, <3>4, <3>5
  <2>4. CASE ~acked[i]
    <3>1. Late(i) = {}
      BY <2>4 DEF LateBudget
    <3>2. /\ Cardinality(HoldingRow(i)') <= Cardinality(Polls)
          /\ Cardinality(HoldingRow(i)') \in Nat
      BY <2>2, CommandAssumption, FS_Subset, FS_CardinalityType
    <3>3. QED
      BY <3>1, <3>2, FS_EmptySet
  <2>5. QED
    BY <2>3, <2>4
<1>4. LevelBudget'
  <2>1. SUFFICES ASSUME NEW i \in Incidents, NEW s \in Nat
                 PROVE  Cardinality(Executed(i, s + 1)) + Cardinality(HoldingAt(i, s)')
                          <= Cardinality(Polls)
    BY <1>2 DEF LevelBudget
  <2>2. HoldingAt(i, s)' \in SUBSET Polls
    BY DEF HoldingAt
  <2>3. /\ Cardinality(HoldingAt(i, s)') <= Cardinality(Polls)
        /\ Cardinality(HoldingAt(i, s)') \in Nat /\ Cardinality(Polls) \in Nat
    BY <2>2, CommandAssumption, FS_Subset, FS_CardinalityType
  <2>4. CASE s = level[i]
    <3>1. Executed(i, s + 1) = {}
      BY <2>4 DEF Executed, Rows, LevelsKnown
    <3>2. QED
      BY <2>3, <3>1, FS_EmptySet
  <2>5. CASE s # level[i]
    <3>1. \A row \in batch'[p] : row.incident = i => row.seen # s
      BY <2>5, FoundRows
    <3>2. HoldingAt(i, s)' \in SUBSET HoldingAt(i, s)
      BY <3>1, FoundRows DEF HoldingAt
    <3>3. Cardinality(Executed(i, s + 1)) + Cardinality(HoldingAt(i, s)')
            <= Cardinality(Executed(i, s + 1)) + Cardinality(HoldingAt(i, s))
      BY <3>2, FewerToCome, DoneFinite, HoldersFinite
    <3>4. /\ Cardinality(Executed(i, s + 1)) + Cardinality(HoldingAt(i, s))
               <= Cardinality(Polls)
          /\ Cardinality(Executed(i, s + 1)) \in Nat
          /\ Cardinality(HoldingAt(i, s)) \in Nat
      BY DoneFinite, HoldersFinite, FS_CardinalityType DEF LevelBudget
    <3>5. QED
      BY <2>3, <3>3, <3>4
  <2>6. QED
    BY <2>4, <2>5
<1>5. QED
  BY <1>3, <1>4

\* A row is executed: one more done, one less to come.
LEMMA ExecutedLate ==
  ASSUME TypeOK, Rows, LateBudget, NEW p \in Polls, EscalateOnce(p)
  PROVE  LateBudget'
<1>1. PICK row \in batch[p] : Executes(p, row)
  BY ExecutedRow
<1> DEFINE i == row.incident
           n == Len(executions[i]) + 1
<1>2. /\ i \in Incidents /\ acked' = acked /\ executions'[i][n].late = acked[i]
      /\ DOMAIN executions'[i] = DOMAIN executions[i] \cup {n}
      /\ \A k \in DOMAIN executions[i] : executions'[i][k] = executions[i][k]
      /\ \A j \in Incidents \ {i} : executions'[j] = executions[j]
      /\ batch' = [batch EXCEPT ![p] = @ \ {row}]
  BY <1>1 DEF Executes
<1> HIDE DEF n
<1>3. \A j \in Incidents \ {i} : Late(j)' = Late(j)
  BY <1>2 DEF Late
<1>4. Late(i)' = IF acked[i] THEN Late(i) \cup {n} ELSE Late(i)
  <2>1. Late(i)' = {k \in DOMAIN executions[i] \cup {n} : executions'[i][k].late}
    BY <1>2 DEF Late
  <2>2. \A k \in DOMAIN executions[i] :
          executions'[i][k].late <=> executions[i][k].late
    BY <1>2
  <2>3. CASE acked[i]
    BY <1>2, <2>1, <2>2, <2>3 DEF Late
  <2>4. CASE ~acked[i]
    BY <1>2, <2>1, <2>2, <2>4 DEF Late
  <2>5. QED
    BY <2>3, <2>4
<1>5. \A j : HoldingRow(j)' \subseteq HoldingRow(j)
  BY <1>2 DEF HoldingRow, TypeOK
<1>6. p \in HoldingRow(i) /\ HoldingRow(i)' \subseteq HoldingRow(i) \ {p}
  <2>1. \A r \in batch[p] : r.incident = i => r = row
    BY DEF Rows, RowsKnown
  <2>2. batch'[p] = batch[p] \ {row}
    BY <1>2 DEF TypeOK
  <2>3. p \notin HoldingRow(i)'
    BY <2>1, <2>2 DEF HoldingRow
  <2>4. QED
    BY <1>5, <2>3 DEF HoldingRow
<1>7. SUFFICES ASSUME NEW j \in Incidents
               PROVE  /\ ~acked[j] => Late(j)' = {}
                      /\ Cardinality(Late(j)') + Cardinality(HoldingRow(j)')
                           <= Cardinality(Polls)
  BY <1>2 DEF LateBudget
<1>8. ~acked[j] => Late(j)' = {}
  BY <1>3, <1>4 DEF LateBudget
<1>9. /\ Cardinality(Late(j)) + Cardinality(HoldingRow(j)) <= Cardinality(Polls)
      /\ Cardinality(Late(j)) \in Nat /\ Cardinality(HoldingRow(j)) \in Nat
      /\ Cardinality(Polls) \in Nat
  BY DoneFinite, HoldersFinite, FS_CardinalityType DEF LateBudget
<1>10. /\ IsFiniteSet(HoldingRow(j)') /\ Cardinality(HoldingRow(j)') \in Nat
       /\ Cardinality(HoldingRow(j)') <= Cardinality(HoldingRow(j))
  BY <1>5, HoldersFinite, FS_Subset, FS_CardinalityType
<1>11. CASE j = i /\ acked[j]
  <2>1. /\ p \in HoldingRow(j) /\ HoldingRow(j)' \subseteq HoldingRow(j) \ {p}
        /\ Late(j)' = Late(j) \cup {n}
    BY <1>4, <1>6, <1>11
  <2>2. Cardinality(Late(j) \cup {n}) + Cardinality(HoldingRow(j) \ {p})
          <= Cardinality(Late(j)) + Cardinality(HoldingRow(j))
    BY <2>1, OneDone, DoneFinite, HoldersFinite
  <2>3. /\ IsFiniteSet(HoldingRow(j) \ {p})
        /\ Cardinality(HoldingRow(j) \ {p}) \in Nat
    BY HoldersFinite, FS_RemoveElement, FS_CardinalityType
  <2>4. Cardinality(HoldingRow(j)') <= Cardinality(HoldingRow(j) \ {p})
    BY <2>1, <2>3, FS_Subset
  <2>5. Cardinality(Late(j) \cup {n}) \in Nat
    BY DoneFinite, FS_AddElement, FS_CardinalityType
  <2>6. Cardinality(Late(j)') + Cardinality(HoldingRow(j)') <= Cardinality(Polls)
    BY <1>9, <1>10, <2>1, <2>2, <2>3, <2>4, <2>5
  <2>7. QED
    BY <1>8, <2>6
<1>12. CASE j # i \/ ~acked[j]
  <2>1. Late(j)' = Late(j)
    BY <1>3, <1>4, <1>12
  <2>2. QED
    BY <1>8, <1>9, <1>10, <2>1
<1>13. QED
  BY <1>11, <1>12

\* The same for one level.
LEMMA ExecutedLevel ==
  ASSUME TypeOK, Rows, LevelBudget, NEW p \in Polls, EscalateOnce(p)
  PROVE  LevelBudget'
<1>1. PICK row \in batch[p] : Executes(p, row)
  BY ExecutedRow
<1> DEFINE i == row.incident
           n == Len(executions[i]) + 1
<1>2. /\ i \in Incidents /\ row.seen \in Nat
      /\ executions'[i][n].level = row.seen + 1
      /\ DOMAIN executions'[i] = DOMAIN executions[i] \cup {n}
      /\ \A k \in DOMAIN executions[i] : executions'[i][k] = executions[i][k]
      /\ \A j \in Incidents \ {i} : executions'[j] = executions[j]
      /\ batch' = [batch EXCEPT ![p] = @ \ {row}]
  BY <1>1 DEF Executes
<1> HIDE DEF n
<1>3. SUFFICES ASSUME NEW j \in Incidents, NEW s \in Nat
               PROVE  Cardinality(Executed(j, s + 1)') + Cardinality(HoldingAt(j, s)')
                        <= Cardinality(Polls)
  BY DEF LevelBudget
<1>4. HoldingAt(j, s)' \in SUBSET HoldingAt(j, s)
  BY <1>2 DEF HoldingAt, TypeOK
<1>5. /\ Cardinality(Executed(j, s + 1)) + Cardinality(HoldingAt(j, s))
           <= Cardinality(Polls)
      /\ IsFiniteSet(Executed(j, s + 1)) /\ Cardinality(Executed(j, s + 1)) \in Nat
      /\ IsFiniteSet(HoldingAt(j, s)) /\ Cardinality(HoldingAt(j, s)) \in Nat
      /\ Cardinality(Polls) \in Nat
  BY DoneFinite, HoldersFinite, FS_CardinalityType DEF LevelBudget
<1>6. /\ IsFiniteSet(HoldingAt(j, s)') /\ Cardinality(HoldingAt(j, s)') \in Nat
      /\ Cardinality(HoldingAt(j, s)') <= Cardinality(HoldingAt(j, s))
  BY <1>4, <1>5, FS_Subset, FS_CardinalityType
<1>7. CASE j = i /\ s = row.seen
  <2>1. Executed(j, s + 1)' = Executed(j, s + 1) \cup {n}
    <3>1. Executed(j, s + 1)' =
            {k \in DOMAIN executions[j] \cup {n} : executions'[j][k].level = s + 1}
      BY <1>2, <1>7 DEF Executed
    <3>2. QED
      BY <1>2, <1>7, <3>1 DEF Executed
  <2>2. p \in HoldingAt(j, s) /\ HoldingAt(j, s)' \subseteq HoldingAt(j, s) \ {p}
    <3>1. \A r \in batch[p] : r.incident = j => r = row
      BY <1>7 DEF Rows, RowsKnown
    <3>2. batch'[p] = batch[p] \ {row}
      BY <1>2 DEF TypeOK
    <3>3. p \notin HoldingAt(j, s)'
      BY <3>1, <3>2 DEF HoldingAt
    <3>4. p \in HoldingAt(j, s)
      BY <1>7 DEF HoldingAt
    <3>5. QED
      BY <1>4, <3>3, <3>4
  <2>3. Cardinality(Executed(j, s + 1) \cup {n}) + Cardinality(HoldingAt(j, s) \ {p})
          <= Cardinality(Executed(j, s + 1)) + Cardinality(HoldingAt(j, s))
    BY <1>5, <2>2, OneDone
  <2>4. /\ IsFiniteSet(HoldingAt(j, s) \ {p})
        /\ Cardinality(HoldingAt(j, s) \ {p}) \in Nat
    BY HoldersFinite, FS_RemoveElement, FS_CardinalityType
  <2>5. Cardinality(HoldingAt(j, s)') <= Cardinality(HoldingAt(j, s) \ {p})
    BY <2>2, <2>4, FS_Subset
  <2>6. Cardinality(Executed(j, s + 1) \cup {n}) \in Nat
    BY DoneFinite, FS_AddElement, FS_CardinalityType
  <2> DEFINE done == Cardinality(Executed(j, s + 1) \cup {n})
             left == Cardinality(HoldingAt(j, s) \ {p})
  <2> HIDE DEF done, left
  <2>7. done \in Nat /\ left \in Nat /\ done + left <= Cardinality(Polls)
    BY <1>5, <2>3, <2>4, <2>6 DEF done, left
  <2>8. /\ Cardinality(Executed(j, s + 1)') = done
        /\ Cardinality(HoldingAt(j, s)') <= left
    BY <2>1, <2>5 DEF done, left
  <2>9. QED
    BY <1>5, <1>6, <2>7, <2>8
<1>8. CASE j = i /\ s # row.seen
  <2>1. Executed(j, s + 1)' =
          {k \in DOMAIN executions[j] \cup {n} : executions'[j][k].level = s + 1}
    BY <1>2, <1>8 DEF Executed
  <2>2. row.seen + 1 # s + 1
    BY <1>2, <1>8
  <2>3. Executed(j, s + 1)' = Executed(j, s + 1)
    BY <1>2, <1>8, <2>1, <2>2 DEF Executed
  <2>4. QED
    BY <1>5, <1>6, <2>3
<1>9. CASE j # i
  <2>1. Executed(j, s + 1)' = Executed(j, s + 1)
    BY <1>2, <1>9 DEF Executed
  <2>2. QED
    BY <1>5, <1>6, <2>1
<1>10. QED
  BY <1>7, <1>8, <1>9

Budgets == Rows /\ LateBudget /\ LevelBudget

LEMMA BudgetsStep == TypeOK /\ Budgets /\ [Next]_vars => Budgets'
<1> SUFFICES ASSUME TypeOK, Budgets, [Next]_vars PROVE Budgets'
  OBVIOUS
<1> USE DEF Budgets
<1>1. Rows'
  BY RowsStep
<1>2. ASSUME NEW p \in Polls, FindDueIncidents(p) PROVE Budgets'
  BY <1>1, <1>2, FoundBudgets
<1>3. ASSUME NEW p \in Polls, EscalateOnce(p) PROVE Budgets'
  BY <1>1, <1>3, ExecutedLate, ExecutedLevel
<1>4. ASSUME NEW r \in Requests, CommitRequest(r) PROVE Budgets'
  <2>1. acked' = [acked EXCEPT ![pending[r].incident] =
                                @ \/ pending[r].to = "ACKNOWLEDGED"]
    BY <1>4 DEF CommitRequest
  <2>2. \A i \in Incidents : acked[i] => acked'[i]
    BY <2>1 DEF TypeOK
  <2>3. UNCHANGED <<executions, batch>>
    BY <1>4 DEF CommitRequest
  <2>4. QED
    BY <1>1, <2>2, <2>3, BudgetsKept
<1>5. ASSUME NEW p \in Polls, EscalationFails(p) \/ PollDies(p) PROVE Budgets'
  <2>1. \A q \in Polls : batch'[q] \subseteq batch[q]
    BY <1>5 DEF EscalationFails, PollDies, TypeOK
  <2>2. UNCHANGED <<executions, acked>>
    BY <1>5 DEF EscalationFails, PollDies, incidentVars
  <2>3. QED
    BY <1>1, <2>1, <2>2, BudgetsKept
<1>6. CASE UNCHANGED <<executions, acked, batch>>
  BY <1>1, <1>6, BudgetsKept
<1>7. QED
  BY <1>2, <1>3, <1>4, <1>5, <1>6
     DEF Next, TimePasses, RollBackRequest, ReadResolved, ReadStatus, Accept,
         incidentVars, vars

LEMMA BudgetsInit == Init => Budgets
<1> SUFFICES ASSUME Init PROVE Budgets
  OBVIOUS
<1>1. /\ \A p \in Polls : batch[p] = {}
      /\ \A i \in Incidents : executions[i] = <<>>
      /\ \A i \in Incidents : DOMAIN executions[i] = {}
  BY DEF Init
<1>2. Rows
  BY <1>1 DEF Rows, RowsKnown, LevelsKnown
<1>3. \A i \in Incidents : \A l : Late(i) = {} /\ Executed(i, l) = {}
  BY <1>1 DEF Late, Executed
<1>4. \A i, s : HoldingRow(i) = {} /\ HoldingAt(i, s) = {}
  BY <1>1 DEF HoldingRow, HoldingAt
<1>5. Cardinality(Polls) \in Nat
  BY HoldersFinite
<1>6. QED
  BY <1>2, <1>3, <1>4, <1>5, FS_EmptySet DEF Budgets, LateBudget, LevelBudget

(* A level is executed at most once per concurrent cycle and no more than  *)
(* that many escalations follow an acknowledgement, for every number of    *)
(* cycles, incidents, requests and faults.                                 *)
THEOREM StaleReadsBounded == SafetySpec => []StaleEscalationsBounded
<1>1. Init => Budgets
  BY BudgetsInit
<1>2. TypeOK /\ Budgets /\ [Next]_vars => Budgets'
  BY BudgetsStep
<1>3. TypeOK /\ Budgets => StaleEscalationsBounded
  <2>1. SUFFICES ASSUME TypeOK, Budgets, NEW i \in Incidents
                 PROVE  /\ Cardinality(Late(i)) <= Cardinality(Polls)
                        /\ \A k \in DOMAIN executions[i] :
                             Cardinality(Executed(i, executions[i][k].level))
                               <= Cardinality(Polls)
    BY DEF StaleEscalationsBounded
  <2>2. Cardinality(Polls) \in Nat
    BY HoldersFinite
  <2>3. Cardinality(Late(i)) <= Cardinality(Polls)
    <3>1. Cardinality(Late(i)) \in Nat /\ Cardinality(HoldingRow(i)) \in Nat
      BY <2>1, DoneFinite, HoldersFinite, FS_CardinalityType
    <3>2. QED
      BY <2>1, <2>2, <3>1 DEF Budgets, LateBudget
  <2>4. ASSUME NEW s \in Nat
        PROVE  Cardinality(Executed(i, s + 1)) <= Cardinality(Polls)
    <3>1. /\ Cardinality(Executed(i, s + 1)) \in Nat
          /\ Cardinality(HoldingAt(i, s)) \in Nat
      BY <2>1, DoneFinite, HoldersFinite, FS_CardinalityType
    <3>2. QED
      BY <2>1, <2>2, <3>1 DEF Budgets, LevelBudget
  <2>5. \A k \in DOMAIN executions[i] :
          \E s \in Nat : executions[i][k].level = s + 1
    <3>1. level[i] \in Nat
      BY <2>1 DEF TypeOK
    <3>2. \A k \in DOMAIN executions[i] : executions[i][k].level \in 1..level[i]
      BY <2>1 DEF Budgets, Rows, LevelsKnown
    <3>3. \A l \in 1..level[i] : l - 1 \in Nat /\ l = (l - 1) + 1
      BY <3>1
    <3>4. QED
      BY <3>2, <3>3
  <2>6. QED
    BY <2>3, <2>4, <2>5
<1>4. QED
  BY <1>1, <1>2, <1>3, CommandTypeCorrect, PTL DEF SafetySpec

-----------------------------------------------------------------------------
(* While cycles do not overlap, nobody raises a level between the read of  *)
(* a row and its execution: the row stays fresh, and the next execution    *)
(* is of the level after the ones before it.                               *)
OneCycle == \A p, q \in Polls : p = q

RowsFresh ==
  \A p \in Polls : \A row \in batch[p] : row.seen = level[row.incident]

OrderInv == RowsFresh /\ StepsInOrder

LEMMA OrderStep ==
  ASSUME OneCycle, TypeOK, LevelInv, Rows, OrderInv, [Next]_vars
  PROVE  OrderInv'
<1> USE DEF OrderInv, RowsFresh, StepsInOrder
<1>1. ASSUME NEW p \in Polls, FindDueIncidents(p) PROVE OrderInv'
  <2>1. UNCHANGED <<level, executions>>
    BY <1>1 DEF FindDueIncidents, incidentVars
  <2>2. \A row \in batch'[p] : row.seen = level[row.incident]
    BY <1>1, FoundRows
  <2>3. QED
    BY <1>1, <2>1, <2>2, FoundRows
<1>2. ASSUME NEW p \in Polls, EscalateOnce(p) PROVE OrderInv'
  <2>1. PICK row \in batch[p] : Executes(p, row)
    BY <1>2, ExecutedRow
  <2> DEFINE i == row.incident
             n == Len(executions[i]) + 1
  <2>2. /\ i \in Incidents /\ row.seen = level[i]
        /\ level[i] = Len(executions[i])
    BY <2>1 DEF Executes, LevelInv, LevelCountsExecutions
  <2>3. RowsFresh'
    <3>1. \A row2 \in batch'[p] : row2 \in batch[p] /\ row2.incident # i
      BY <2>1 DEF Executes, TypeOK, Rows, RowsKnown
    <3>2. \A j \in Incidents \ {i} : level'[j] = level[j]
      BY <2>1 DEF Executes, TypeOK
    <3>3. \A row2 \in batch'[p] : row2.seen = level'[row2.incident]
      BY <3>1, <3>2, RowOfBatch
    <3>4. QED
      BY <3>3 DEF OneCycle
  <2>4. \A k \in DOMAIN executions'[i] : executions'[i][k].level = k
    <3>1. executions'[i][n].level = n
      BY <2>1, <2>2 DEF Executes
    <3>2. QED
      BY <2>1, <2>2, <3>1 DEF Executes
  <2>5. StepsInOrder'
    BY <2>1, <2>4 DEF Executes
  <2>6. QED
    BY <2>3, <2>5
<1>3. ASSUME NEW p \in Polls, EscalationFails(p) \/ PollDies(p) PROVE OrderInv'
  <2>1. \A q \in Polls : batch'[q] \subseteq batch[q]
    BY <1>3 DEF EscalationFails, PollDies, TypeOK
  <2>2. UNCHANGED <<level, executions>>
    BY <1>3 DEF EscalationFails, PollDies, incidentVars
  <2>3. QED
    BY <2>1, <2>2
<1>4. CASE UNCHANGED <<level, executions, batch>>
  BY <1>4
<1>5. QED
  BY <1>1, <1>2, <1>3, <1>4
     DEF Next, TimePasses, CommitRequest, RollBackRequest, ReadResolved,
         ReadStatus, Accept, incidentVars, vars

(* While cycles do not overlap, the k-th execution is of level k: no level *)
(* is executed twice or left out, whatever fails and whatever operators    *)
(* do, for every number of incidents and every policy.                     *)
THEOREM LevelsInOrder ==
  ASSUME OneCycle PROVE SafetySpec => []StepsInOrder
<1>1. Init => LevelInv /\ Budgets /\ OrderInv
  <2>1. Init => LevelInv
    BY DEF Init, LevelInv, RowsDue, LevelCountsExecutions
  <2>2. Init => OrderInv
    BY DEF Init, OrderInv, RowsFresh, StepsInOrder
  <2>3. QED
    BY <2>1, <2>2, BudgetsInit
<1>2. TypeOK /\ (LevelInv /\ Budgets /\ OrderInv) /\ [Next]_vars
        => (LevelInv /\ Budgets /\ OrderInv)'
  BY LevelInvStep, BudgetsStep, OrderStep DEF Budgets
<1>3. OrderInv => StepsInOrder
  BY DEF OrderInv
<1>4. QED
  BY <1>1, <1>2, <1>3, CommandTypeCorrect, PTL DEF SafetySpec
=============================================================================
