------------------------ MODULE NotificationDispatch ------------------------
(***************************************************************************)
(* The notification worker (apps/worker/src/modules/notification/          *)
(* notification.worker.ts) over the table notifications, the handlers that *)
(* enqueue, and the API's retry request. A poll cycle lists the oldest due *)
(* rows and goes through them one await at a time; setInterval does not    *)
(* wait for it, and workers scale out, so cycles overlap. No cycle claims  *)
(* its rows: an UPDATE names only the id.                                  *)
(*                                                                         *)
(* A notification is its place in the order of created_at. Time is only    *)
(* the second of the throttle: an entry is fresh until Tick. A dispatch is *)
(* counted when it is started, whether or not its channel then reports it. *)
(***************************************************************************)
EXTENDS Naturals, FiniteSets

CONSTANTS
  NoteCount,     \* notifications a run enqueues
  Keys,          \* <incident, channel>, the keys of the throttle
  KeyOf,
  Processes,     \* worker processes
  Cycles,        \* poll cycles that can run at the same time
  ProcessOf,     \* the process of each cycle
  MaxAttempts,   \* notifications.max_attempts
  Limit,         \* listDueNotifications(25)
  MaxFaults,     \* bound on failing statements and crashes in a run
  MaxRetries     \* bound on retry requests in a run

Notes == 1..NoteCount

ASSUME DispatchAssumption ==
  /\ NoteCount \in Nat
  /\ KeyOf \in [Notes -> Keys]
  /\ IsFiniteSet(Cycles)
  /\ ProcessOf \in [Cycles -> Processes]
  /\ MaxAttempts \in Nat \ {0} /\ Limit \in Nat \ {0}
  /\ MaxFaults \in Nat /\ MaxRetries \in Nat

VARIABLES
  noteStatus,  \* notifications.status, "absent" before the INSERT
  attempts,    \* notifications.attempts
  phase,       \* the await a cycle is at
  batch,       \* rows it still goes through
  throttle,    \* fresh entries of each process's throttle map
  dispatches,  \* calls of dispatch for a notification (a history)
  faults, retries

rowVars == <<noteStatus, attempts>>
cycleVars == <<phase, batch>>
vars == <<rowVars, cycleVars, throttle, dispatches, faults, retries>>

Phases == {"loop", "sending", "sent", "failed"}
NoteStatuses == {"absent", "PENDING", "RETRYING", "SENT", "FAILED"}

Init ==
  /\ noteStatus = [n \in Notes |-> "absent"]
  /\ attempts = [n \in Notes |-> 0]
  /\ phase = [c \in Cycles |-> "loop"]
  /\ batch = [c \in Cycles |-> {}]
  /\ throttle = [p \in Processes |-> {}]
  /\ dispatches = [n \in Notes |-> 0]
  /\ faults = 0
  /\ retries = 0

-----------------------------------------------------------------------------
\* One INSERT; MaxAttempts and 0 are the column defaults.
Enqueue(n) ==
  /\ noteStatus[n] = "absent"
  /\ \A older \in 1..(n - 1) : noteStatus[older] # "absent"
  /\ noteStatus' = [noteStatus EXCEPT ![n] = "PENDING"]
  /\ UNCHANGED <<attempts, cycleVars, throttle, dispatches, faults, retries>>

\* Mutation: the list does not look at the attempts.
DueByStatus(n) == noteStatus[n] \in {"PENDING", "RETRYING"}

Due(n) ==
  noteStatus[n] \in {"PENDING", "RETRYING"} /\ attempts[n] < MaxAttempts

\* Mutation: the limit is applied before the attempts are looked at.
OldestByStatus(n) == Cardinality({m \in 1..n : DueByStatus(m)}) <= Limit

\* ORDER BY created_at LIMIT
Oldest(n) == Cardinality({m \in 1..n : Due(m)}) <= Limit

\* The timer fires and the cycle lists what is due, with what it reads.
ListDue(c) ==
  /\ batch[c] = {}
  /\ batch' = [batch EXCEPT ![c] =
       {[note |-> n, seen |-> attempts[n]] :
          n \in {m \in Notes : Due(m) /\ Oldest(m)}}]
  /\ UNCHANGED <<rowVars, phase, throttle, dispatches, faults, retries>>

First(c, row) ==
  /\ row \in batch[c]
  /\ \A other \in batch[c] : row.note <= other.note

\* The cycle is at a row, and at this await of it.
At(c, row, await) == First(c, row) /\ phase[c] = await

NextRow(c, row) ==
  /\ batch' = [batch EXCEPT ![c] = @ \ {row}]
  /\ phase' = [phase EXCEPT ![c] = "loop"]

Fresh(c, n) == KeyOf[n] \in throttle[ProcessOf[c]]

\* Less than a second after a dispatch to this incident and channel.
Throttled(c, row) ==
  /\ At(c, row, "loop")
  /\ Fresh(c, row.note)
  /\ NextRow(c, row)
  /\ UNCHANGED <<rowVars, throttle, dispatches, faults, retries>>

Dispatch(c, row) ==
  /\ At(c, row, "loop")
  /\ ~Fresh(c, row.note)
  /\ throttle' = [throttle EXCEPT ![ProcessOf[c]] = @ \cup {KeyOf[row.note]}]
  /\ dispatches' = [dispatches EXCEPT ![row.note] = @ + 1]
  /\ phase' = [phase EXCEPT ![c] = "sending"]
  /\ UNCHANGED <<rowVars, batch, faults, retries>>

\* dispatch returns or throws.
Answered(c, row) ==
  /\ At(c, row, "sending")
  /\ \E outcome \in {"sent", "failed"} : phase' = [phase EXCEPT ![c] = outcome]
  /\ UNCHANGED <<rowVars, batch, throttle, dispatches, faults, retries>>

\* SET status, attempts = attempts + 1 WHERE id
Mark(n, outcome) ==
  /\ noteStatus' = [noteStatus EXCEPT ![n] = outcome]
  /\ attempts' = [attempts EXCEPT ![n] = @ + 1]

MarkSent(c, row) ==
  /\ At(c, row, "sent")
  /\ Mark(row.note, "SENT")
  /\ NextRow(c, row)
  /\ UNCHANGED <<throttle, dispatches, faults, retries>>

\* Its statement fails, inside the try: a notification that went out is
\* marked as one that failed.
MarkSentFails(c, row) ==
  /\ At(c, row, "sent")
  /\ faults < MaxFaults
  /\ faults' = faults + 1
  /\ phase' = [phase EXCEPT ![c] = "failed"]
  /\ UNCHANGED <<rowVars, batch, throttle, dispatches, retries>>

Outcome(row) == IF row.seen + 1 >= MaxAttempts THEN "FAILED" ELSE "RETRYING"

\* Mutation: only the last failure counts as an attempt.
MarkFailureUncounted(c, row) ==
  /\ At(c, row, "failed")
  /\ IF Outcome(row) = "FAILED"
     THEN Mark(row.note, "FAILED")
     ELSE /\ noteStatus' = [noteStatus EXCEPT ![row.note] = "RETRYING"]
          /\ UNCHANGED attempts
  /\ NextRow(c, row)
  /\ UNCHANGED <<throttle, dispatches, faults, retries>>

\* markFailed or markRetrying: the choice is made on the attempts read with
\* the batch, the count on the attempts in the row.
MarkFailure(c, row) ==
  /\ At(c, row, "failed")
  /\ Mark(row.note, Outcome(row))
  /\ NextRow(c, row)
  /\ UNCHANGED <<throttle, dispatches, faults, retries>>

\* That statement fails too: the error leaves poll, and the rest of the
\* batch waits for a later cycle.
CycleFails(c, row) ==
  /\ At(c, row, "failed")
  /\ faults < MaxFaults
  /\ faults' = faults + 1
  /\ phase' = [phase EXCEPT ![c] = "loop"]
  /\ batch' = [batch EXCEPT ![c] = {}]
  /\ UNCHANGED <<rowVars, throttle, dispatches, retries>>

\* The process dies, with its cycles and its throttle.
Crash(p) ==
  LET dead == {c \in Cycles : ProcessOf[c] = p}
  IN  /\ faults < MaxFaults
      /\ faults' = faults + 1
      /\ phase' = [c \in Cycles |-> IF c \in dead THEN "loop" ELSE phase[c]]
      /\ batch' = [c \in Cycles |-> IF c \in dead THEN {} ELSE batch[c]]
      /\ throttle' = [throttle EXCEPT ![p] = {}]
      /\ UNCHANGED <<rowVars, dispatches, retries>>

\* A second has passed since the last dispatch for the key.
Tick(p, k) ==
  /\ k \in throttle[p]
  /\ throttle' = [throttle EXCEPT ![p] = @ \ {k}]
  /\ UNCHANGED <<rowVars, cycleVars, dispatches, faults, retries>>

\* Mutation: a retry request gives the notification its attempts back.
RetryFromZero(n) ==
  /\ noteStatus[n] # "absent"
  /\ retries < MaxRetries
  /\ retries' = retries + 1
  /\ noteStatus' = [noteStatus EXCEPT ![n] = "PENDING"]
  /\ attempts' = [attempts EXCEPT ![n] = 0]
  /\ UNCHANGED <<cycleVars, throttle, dispatches, faults>>

\* POST /notifications/:id/retry, whatever the status; it leaves the
\* attempts, so it brings back only what has some left.
RetryNotification(n) ==
  /\ noteStatus[n] # "absent"
  /\ retries < MaxRetries
  /\ retries' = retries + 1
  /\ noteStatus' = [noteStatus EXCEPT ![n] = "PENDING"]
  /\ UNCHANGED <<attempts, cycleVars, throttle, dispatches, faults>>

Work(c) ==
  \E row \in batch[c] :
    \/ Throttled(c, row) \/ Dispatch(c, row) \/ Answered(c, row)
    \/ MarkSent(c, row) \/ MarkSentFails(c, row)
    \/ MarkFailure(c, row) \/ CycleFails(c, row)

Next ==
  \/ \E n \in Notes : Enqueue(n) \/ RetryNotification(n)
  \/ \E c \in Cycles : ListDue(c) \/ Work(c)
  \/ \E p \in Processes : Crash(p) \/ \E k \in Keys : Tick(p, k)

(* The interval fires, what a cycle awaits settles, and a second passes.   *)
Fairness ==
  /\ \A c \in Cycles : WF_vars(ListDue(c)) /\ WF_vars(Work(c))
  /\ \A p \in Processes, k \in Keys : WF_vars(Tick(p, k))

SafetySpec == Init /\ [][Next]_vars
Spec == SafetySpec /\ Fairness

-----------------------------------------------------------------------------
TypeOK ==
  /\ noteStatus \in [Notes -> NoteStatuses]
  /\ attempts \in [Notes -> Nat]
  /\ phase \in [Cycles -> Phases]
  /\ batch \in [Cycles -> SUBSET [note : Notes, seen : Nat]]
  /\ throttle \in [Processes -> SUBSET Keys]
  /\ dispatches \in [Notes -> Nat]
  /\ faults \in 0..MaxFaults
  /\ retries \in 0..MaxRetries

\* Cycles that still have a notification in their batch, and those that are
\* past its dispatch.
Waiting(n) == {c \in Cycles : \E row \in batch[c] : row.note = n}
InFlight(n) ==
  {c \in Cycles : phase[c] # "loop" /\ \E row \in batch[c] :
                                         First(c, row) /\ row.note = n}

(* attempts < max_attempts is looked at when a cycle lists, not when it    *)
(* marks: overlapping cycles can take the counter past the limit, but each *)
(* of the others only by one, and a retry request by none.                 *)
AttemptsBounded ==
  \A n \in Notes : attempts[n] < MaxAttempts + Cardinality(Cycles)

(* What goes out twice: every dispatch is counted as an attempt, is being  *)
(* made, or was forgotten by a failure; so a notification is sent at most  *)
(* MaxAttempts times, one more for each overlapping cycle, one more for    *)
(* each failure in between.                                                *)
DispatchesAccounted ==
  \A n \in Notes :
    /\ attempts[n] + Cardinality(InFlight(n)) <= dispatches[n]
    /\ dispatches[n] <= attempts[n] + Cardinality(InFlight(n))
                          + faults * Cardinality(Cycles)

(* However stale the attempts a cycle decides on, a notification is given  *)
(* up (notification.worker.ts:163 "permanently failed") only when its      *)
(* attempts are used up.                                                   *)
FailedWasTried ==
  \A n \in Notes : noteStatus[n] = "FAILED" => attempts[n] >= MaxAttempts

(* No notification is hidden by the LIMIT, by the throttle or by others    *)
(* that keep failing: what is due is sent or runs out of attempts.         *)
DueIsSettled == \A n \in Notes : Due(n) ~> ~Due(n)
=============================================================================
