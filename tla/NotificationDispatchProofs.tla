--------------------- MODULE NotificationDispatchProofs ---------------------
(***************************************************************************)
(* Safety of NotificationDispatch for any number of notifications and any  *)
(* finite set of overlapping cycles: the types, the bound on the attempts, *)
(* that nothing is given up before its attempts are used up, and what      *)
(* becomes of every dispatch.                                              *)
(***************************************************************************)
EXTENDS NotificationDispatch, FiniteSetTheorems, TLAPS

(* The bound is not inductive: a mark raises the counter whatever it is.   *)
(* But a cycle marks a notification once for each time it listed it, and   *)
(* lists it only below the limit, so every cycle that still has it in its  *)
(* batch is one mark to come.                                              *)
MarksToCome ==
  \A n \in Notes :
    attempts[n] + Cardinality(Waiting(n)) < MaxAttempts + Cardinality(Cycles)

(* A batch holds a notification once, with attempts that were true once.   *)
BatchInv ==
  \A c \in Cycles : \A row \in batch[c] :
    /\ row.seen <= attempts[row.note]
    /\ \A other \in batch[c] : other.note = row.note => other = row

DispatchInv == TypeOK /\ BatchInv /\ MarksToCome /\ FailedWasTried

(* Steps other than a listing only take rows from the batches.             *)
BatchesShrink == \A c \in Cycles : batch'[c] \subseteq batch[c]

-----------------------------------------------------------------------------
LEMMA WaitingFinite ==
  ASSUME NEW n \in Notes
  PROVE  /\ IsFiniteSet(Waiting(n))
         /\ Cardinality(Waiting(n)) \in Nat
         /\ Cardinality(Cycles) \in Nat
         /\ Cardinality(Waiting(n)) <= Cardinality(Cycles)
<1>1. IsFiniteSet(Cycles)
  BY DispatchAssumption
<1>2. Waiting(n) \subseteq Cycles
  BY DEF Waiting
<1> QED
  BY <1>1, <1>2, FS_Subset, FS_CardinalityType

LEMMA WaitingFiniteNext ==
  ASSUME NEW n \in Notes
  PROVE  /\ IsFiniteSet(Waiting(n)')
         /\ Cardinality(Waiting(n)') \in Nat
         /\ Cardinality(Waiting(n)') <= Cardinality(Cycles)
<1>1. IsFiniteSet(Cycles)
  BY DispatchAssumption
<1>2. Waiting(n)' \subseteq Cycles
  BY DEF Waiting
<1> QED
  BY <1>1, <1>2, FS_Subset, FS_CardinalityType

(* Fewer cycles wait for a notification when the batches shrink.           *)
LEMMA FewerWait ==
  ASSUME NEW n \in Notes, Waiting(n)' \subseteq Waiting(n)
  PROVE  Cardinality(Waiting(n)') <= Cardinality(Waiting(n))
BY WaitingFinite, FS_Subset

LEMMA InitInv == Init => DispatchInv
<1> SUFFICES ASSUME Init PROVE DispatchInv
  OBVIOUS
<1> USE DispatchAssumption
<1>1. TypeOK
  BY DEF Init, TypeOK, Phases, NoteStatuses
<1>2. BatchInv
  BY DEF Init, BatchInv
<1>3. MarksToCome
  <2> SUFFICES ASSUME NEW n \in Notes
               PROVE  attempts[n] + Cardinality(Waiting(n))
                        < MaxAttempts + Cardinality(Cycles)
    BY DEF MarksToCome
  <2>1. Waiting(n) = {} /\ attempts[n] = 0
    BY DEF Init, Waiting
  <2>2. Cardinality(Waiting(n)) = 0
    BY <2>1, FS_EmptySet
  <2> QED
    BY <2>1, <2>2, WaitingFinite
<1>4. FailedWasTried
  BY DEF Init, FailedWasTried
<1> QED
  BY <1>1, <1>2, <1>3, <1>4 DEF DispatchInv

-----------------------------------------------------------------------------
(* The three ways a step can treat a notification's attempts.              *)

(* A listing: the attempts stay, and whoever starts to wait found them     *)
(* below the limit.                                                        *)
LEMMA ListingKeepsInv ==
  ASSUME TypeOK, BatchInv, MarksToCome, NEW c \in Cycles, ListDue(c)
  PROVE  BatchInv' /\ MarksToCome'
<1> USE DEF ListDue, rowVars
<1>1. BatchInv'
  BY DEF BatchInv, TypeOK
<1>2. ASSUME NEW n \in Notes
      PROVE  attempts'[n] + Cardinality(Waiting(n)')
               < MaxAttempts + Cardinality(Cycles)
  <2>1. attempts[n] \in Nat /\ attempts'[n] = attempts[n]
    BY DEF TypeOK
  <2>2. CASE attempts[n] < MaxAttempts
    BY <2>1, <2>2, WaitingFinite, WaitingFiniteNext, DispatchAssumption
  <2>3. CASE ~(attempts[n] < MaxAttempts)
    <3>1. \A row \in batch'[c] : row.note # n
      BY <2>3 DEF TypeOK, Due
    <3>2. Waiting(n)' \subseteq Waiting(n)
      BY <3>1 DEF Waiting, TypeOK
    <3> QED
      BY <2>1, <3>2, FewerWait, WaitingFinite, WaitingFiniteNext,
         DispatchAssumption DEF MarksToCome
  <2> QED
    BY <2>2, <2>3
<1> QED
  BY <1>1, <1>2 DEF MarksToCome

(* A mark: one more attempt, one cycle less that waits.                    *)
LEMMA MarkKeepsInv ==
  ASSUME TypeOK, BatchInv, MarksToCome, NEW c \in Cycles, NEW row \in batch[c],
         NEW outcome, Mark(row.note, outcome), NextRow(c, row)
  PROVE  BatchInv' /\ MarksToCome'
<1> DEFINE m == row.note
<1>1. m \in Notes /\ c \in Waiting(m)
  BY DEF TypeOK, Waiting
<1>2. attempts' = [attempts EXCEPT ![m] = @ + 1]
  BY DEF Mark
<1>3. batch' = [batch EXCEPT ![c] = @ \ {row}]
  BY DEF NextRow
<1>4. BatchInv'
  <2> SUFFICES ASSUME NEW d \in Cycles, NEW r \in batch'[d]
               PROVE  /\ r.seen <= attempts'[r.note]
                      /\ \A other \in batch'[d] : other.note = r.note => other = r
    BY DEF BatchInv
  <2>1. r \in batch[d] /\ batch'[d] \subseteq batch[d]
    BY <1>3 DEF TypeOK
  <2>2. r.note \in Notes /\ r.seen \in Nat /\ r.seen <= attempts[r.note]
    BY <2>1 DEF BatchInv, TypeOK
  <2>3. attempts[r.note] \in Nat /\ attempts'[r.note] >= attempts[r.note]
    BY <1>2, <2>2 DEF TypeOK
  <2>4. attempts'[r.note] \in Nat
    BY <1>2, <2>2 DEF TypeOK
  <2>5. r.seen <= attempts'[r.note]
    BY <2>2, <2>3, <2>4
  <2> QED
    BY <2>1, <2>5 DEF BatchInv
<1>5. ASSUME NEW n \in Notes
      PROVE  attempts'[n] + Cardinality(Waiting(n)')
               < MaxAttempts + Cardinality(Cycles)
  <2>1. attempts[n] \in Nat
    BY DEF TypeOK
  <2>2. CASE n = m
    <3>1. Waiting(n)' = Waiting(n) \ {c}
      <4>1. \A other \in batch'[c] : other.note # n
        BY <1>3, <2>2 DEF BatchInv, TypeOK
      <4>2. \A d \in Cycles : d # c => batch'[d] = batch[d]
        BY <1>3 DEF TypeOK
      <4> QED
        BY <4>1, <4>2 DEF Waiting
    <3>2. Cardinality(Waiting(n)') = Cardinality(Waiting(n)) - 1
      BY <1>1, <2>2, <3>1, WaitingFinite, FS_RemoveElement
    <3>3. attempts'[n] = attempts[n] + 1
      BY <1>2, <2>2 DEF TypeOK
    <3> QED
      BY <2>1, <3>2, <3>3, WaitingFinite, DispatchAssumption DEF MarksToCome
  <2>3. CASE n # m
    <3>1. Waiting(n)' \subseteq Waiting(n)
      BY <1>3 DEF Waiting, TypeOK
    <3>2. attempts'[n] = attempts[n]
      BY <1>2, <2>3 DEF TypeOK
    <3> QED
      BY <2>1, <3>1, <3>2, FewerWait, WaitingFinite, WaitingFiniteNext,
         DispatchAssumption DEF MarksToCome
  <2> QED
    BY <2>2, <2>3
<1> QED
  BY <1>4, <1>5 DEF MarksToCome

(* Any other step: the attempts stay and nobody starts to wait.            *)
LEMMA ShrinkKeepsInv ==
  ASSUME TypeOK, BatchInv, MarksToCome, UNCHANGED attempts, BatchesShrink
  PROVE  BatchInv' /\ MarksToCome'
<1>1. BatchInv'
  BY DEF BatchInv, BatchesShrink
<1>2. ASSUME NEW n \in Notes
      PROVE  attempts'[n] + Cardinality(Waiting(n)')
               < MaxAttempts + Cardinality(Cycles)
  <2>1. Waiting(n)' \subseteq Waiting(n)
    BY DEF Waiting, BatchesShrink
  <2>2. attempts[n] \in Nat
    BY DEF TypeOK
  <2> QED
    BY <2>1, <2>2, FewerWait, WaitingFinite, WaitingFiniteNext,
       DispatchAssumption DEF MarksToCome
<1> QED
  BY <1>1, <1>2 DEF MarksToCome

-----------------------------------------------------------------------------
(* FAILED is written by a cycle that read one attempt less than the limit  *)
(* or more, and the row has at least what the cycle read.                  *)
LEMMA FailureKeepsTried ==
  ASSUME TypeOK, BatchInv, FailedWasTried, NEW c \in Cycles,
         NEW row \in batch[c], MarkFailure(c, row)
  PROVE  FailedWasTried'
<1> SUFFICES ASSUME NEW n \in Notes, noteStatus'[n] = "FAILED"
             PROVE  attempts'[n] >= MaxAttempts
  BY DEF FailedWasTried
<1>1. /\ row.note \in Notes /\ row.seen \in Nat /\ attempts[row.note] \in Nat
      /\ row.seen <= attempts[row.note]
  BY DEF TypeOK, BatchInv
<1>2. /\ attempts' = [attempts EXCEPT ![row.note] = @ + 1]
      /\ noteStatus' = [noteStatus EXCEPT ![row.note] = Outcome(row)]
  BY DEF MarkFailure, Mark
<1>3. CASE n = row.note
  <2>1. row.seen + 1 >= MaxAttempts
    BY <1>2, <1>3 DEF Outcome, TypeOK
  <2>2. attempts'[n] = attempts[n] + 1
    BY <1>2, <1>3 DEF TypeOK
  <2> QED
    BY <1>1, <1>3, <2>1, <2>2, DispatchAssumption
<1>4. CASE n # row.note
  BY <1>2, <1>4 DEF FailedWasTried, TypeOK
<1> QED
  BY <1>3, <1>4

LEMMA TypeStep == TypeOK /\ [Next]_vars => TypeOK'
<1> SUFFICES ASSUME TypeOK, [Next]_vars PROVE TypeOK'
  OBVIOUS
<1> USE DispatchAssumption
    DEF TypeOK, Phases, NoteStatuses, rowVars, cycleVars, vars
<1>1. ASSUME NEW n \in Notes, Enqueue(n)
      PROVE  TypeOK'
  BY <1>1 DEF Enqueue
<1>2. ASSUME NEW n \in Notes, RetryNotification(n)
      PROVE  TypeOK'
  BY <1>2 DEF RetryNotification
<1>3. ASSUME NEW c \in Cycles, ListDue(c)
      PROVE  TypeOK'
  BY <1>3 DEF ListDue
<1>4. ASSUME NEW c \in Cycles, NEW row \in batch[c], Throttled(c, row)
      PROVE  TypeOK'
  BY <1>4 DEF Throttled, NextRow
<1>5. ASSUME NEW c \in Cycles, NEW row \in batch[c], Dispatch(c, row)
      PROVE  TypeOK'
  BY <1>5 DEF Dispatch
<1>6. ASSUME NEW c \in Cycles, NEW row \in batch[c], Answered(c, row)
      PROVE  TypeOK'
  BY <1>6 DEF Answered
<1>7. ASSUME NEW c \in Cycles, NEW row \in batch[c], MarkSent(c, row)
      PROVE  TypeOK'
  BY <1>7 DEF MarkSent, Mark, NextRow
<1>8. ASSUME NEW c \in Cycles, NEW row \in batch[c], MarkSentFails(c, row)
      PROVE  TypeOK'
  BY <1>8 DEF MarkSentFails
<1>9. ASSUME NEW c \in Cycles, NEW row \in batch[c], MarkFailure(c, row)
      PROVE  TypeOK'
  BY <1>9 DEF MarkFailure, Mark, NextRow, Outcome
<1>10. ASSUME NEW c \in Cycles, NEW row \in batch[c], CycleFails(c, row)
       PROVE  TypeOK'
  BY <1>10 DEF CycleFails
<1>11. ASSUME NEW p \in Processes, Crash(p)
       PROVE  TypeOK'
  BY <1>11 DEF Crash
<1>12. ASSUME NEW p \in Processes, NEW k \in Keys, Tick(p, k)
       PROVE  TypeOK'
  BY <1>12 DEF Tick
<1>13. CASE UNCHANGED vars
  BY <1>13
<1> QED
  BY <1>1, <1>2, <1>3, <1>4, <1>5, <1>6, <1>7, <1>8, <1>9, <1>10, <1>11,
     <1>12, <1>13 DEF Next, Work

LEMMA BatchStep ==
  DispatchInv /\ [Next]_vars => BatchInv' /\ MarksToCome'
<1> SUFFICES ASSUME DispatchInv, [Next]_vars PROVE BatchInv' /\ MarksToCome'
  OBVIOUS
<1>a. TypeOK /\ BatchInv /\ MarksToCome
  BY DEF DispatchInv
<1>1. CASE \E c \in Cycles : ListDue(c)
  BY <1>a, <1>1, ListingKeepsInv
<1>2. ASSUME NEW c \in Cycles, NEW row \in batch[c],
             MarkSent(c, row) \/ MarkFailure(c, row)
      PROVE  BatchInv' /\ MarksToCome'
  <2>1. PICK outcome : Mark(row.note, outcome)
    BY <1>2 DEF MarkSent, MarkFailure
  <2>2. NextRow(c, row)
    BY <1>2 DEF MarkSent, MarkFailure
  <2> QED
    BY <1>a, <2>1, <2>2, MarkKeepsInv
<1>3. CASE UNCHANGED attempts /\ BatchesShrink
  BY <1>a, <1>3, ShrinkKeepsInv
<1>4. ASSUME NEW n \in Notes, Enqueue(n) \/ RetryNotification(n)
      PROVE  UNCHANGED attempts /\ BatchesShrink
  BY <1>4 DEF Enqueue, RetryNotification, rowVars, cycleVars, BatchesShrink
<1>5. ASSUME NEW c \in Cycles, NEW row \in batch[c],
             Throttled(c, row) \/ Dispatch(c, row) \/ Answered(c, row)
               \/ MarkSentFails(c, row) \/ CycleFails(c, row)
      PROVE  UNCHANGED attempts /\ BatchesShrink
  BY <1>a, <1>5 DEF Throttled, Dispatch, Answered, MarkSentFails, CycleFails,
                    NextRow, rowVars, BatchesShrink, TypeOK
<1>6. ASSUME NEW p \in Processes, Crash(p) \/ \E k \in Keys : Tick(p, k)
      PROVE  UNCHANGED attempts /\ BatchesShrink
  BY <1>a, <1>6 DEF Crash, Tick, rowVars, cycleVars, BatchesShrink, TypeOK
<1>7. CASE UNCHANGED vars
  BY <1>3, <1>7 DEF vars, rowVars, cycleVars, BatchesShrink
<1> QED
  BY <1>1, <1>2, <1>3, <1>4, <1>5, <1>6, <1>7 DEF Next, Work

LEMMA TriedStep == DispatchInv /\ [Next]_vars => FailedWasTried'
<1> SUFFICES ASSUME DispatchInv, [Next]_vars PROVE FailedWasTried'
  OBVIOUS
<1>a. TypeOK /\ BatchInv /\ FailedWasTried
  BY DEF DispatchInv
<1>1. CASE UNCHANGED rowVars
  BY <1>a, <1>1 DEF FailedWasTried, rowVars
<1>2. ASSUME NEW n \in Notes, Enqueue(n) \/ RetryNotification(n)
      PROVE  FailedWasTried'
  BY <1>a, <1>2 DEF Enqueue, RetryNotification, FailedWasTried, TypeOK
<1>3. ASSUME NEW c \in Cycles, NEW row \in batch[c], MarkFailure(c, row)
      PROVE  FailedWasTried'
  BY <1>a, <1>3, FailureKeepsTried
<1>4. ASSUME NEW c \in Cycles, NEW row \in batch[c], MarkSent(c, row)
      PROVE  FailedWasTried'
  <2>1. row.note \in Notes
    BY <1>a DEF TypeOK
  <2>2. \A n \in Notes : noteStatus'[n] = "FAILED" =>
          noteStatus[n] = "FAILED" /\ attempts'[n] = attempts[n]
    BY <1>a, <1>4, <2>1 DEF MarkSent, Mark, TypeOK
  <2> QED
    BY <1>a, <2>2 DEF FailedWasTried
<1>5. ASSUME NEW c \in Cycles, NEW row \in batch[c],
             Throttled(c, row) \/ Dispatch(c, row) \/ Answered(c, row)
               \/ MarkSentFails(c, row) \/ CycleFails(c, row)
      PROVE  UNCHANGED rowVars
  BY <1>5 DEF Throttled, Dispatch, Answered, MarkSentFails, CycleFails
<1>6. ASSUME NEW p \in Processes, Crash(p) \/ \E k \in Keys : Tick(p, k)
      PROVE  UNCHANGED rowVars
  BY <1>6 DEF Crash, Tick
<1>7. CASE \E c \in Cycles : ListDue(c)
  BY <1>1, <1>7 DEF ListDue
<1>8. CASE UNCHANGED vars
  BY <1>1, <1>8 DEF vars
<1> QED
  BY <1>1, <1>2, <1>3, <1>4, <1>5, <1>6, <1>7, <1>8 DEF Next, Work

-----------------------------------------------------------------------------
(* The inductive invariant, on which the three theorems below rest.        *)
THEOREM DispatchInvariant == SafetySpec => []DispatchInv
<1>1. Init => DispatchInv
  BY InitInv
<1>2. DispatchInv /\ [Next]_vars => DispatchInv'
  BY TypeStep, BatchStep, TriedStep DEF DispatchInv
<1> QED
  BY <1>1, <1>2, PTL DEF SafetySpec

(* The rows, batches and the throttle keep their types.                    *)
THEOREM DispatchTypeCorrect == SafetySpec => []TypeOK
<1>1. DispatchInv => TypeOK
  BY DEF DispatchInv
<1> QED
  BY <1>1, DispatchInvariant, PTL

(* Whatever cycles overlap and requests retry, a notification's counter    *)
(* passes max_attempts by less than the number of cycles.                  *)
THEOREM AttemptsAreBounded == SafetySpec => []AttemptsBounded
<1>1. DispatchInv => AttemptsBounded
  <2> SUFFICES ASSUME DispatchInv, NEW n \in Notes
               PROVE  attempts[n] < MaxAttempts + Cardinality(Cycles)
    BY DEF AttemptsBounded
  <2>1. /\ attempts[n] \in Nat
        /\ attempts[n] + Cardinality(Waiting(n))
             < MaxAttempts + Cardinality(Cycles)
    BY DEF DispatchInv, TypeOK, MarksToCome
  <2> QED
    BY <2>1, WaitingFinite, DispatchAssumption
<1> QED
  BY <1>1, DispatchInvariant, PTL

(* A notification is "permanently failed" only with its attempts used up.  *)
THEOREM FailedOnesWereTried == SafetySpec => []FailedWasTried
<1>1. DispatchInv => FailedWasTried
  BY DEF DispatchInv
<1> QED
  BY <1>1, DispatchInvariant, PTL

-----------------------------------------------------------------------------
(* What becomes of a dispatch. A cycle past the dispatch of its first row  *)
(* is one mark to come, or one fault; a cycle with no row left is between  *)
(* two polls, so a listing puts no cycle past a dispatch it did not make.  *)
IdleInv == \A c \in Cycles : batch[c] = {} => phase[c] = "loop"

AccountInv == IdleInv /\ DispatchesAccounted

LEMMA InFlightFinite ==
  ASSUME NEW n \in Notes
  PROVE  /\ InFlight(n) \subseteq Cycles /\ IsFiniteSet(InFlight(n))
         /\ Cardinality(InFlight(n)) \in Nat
         /\ Cardinality(InFlight(n)) <= Cardinality(Cycles)
         /\ Cardinality(Cycles) \in Nat
<1>1. InFlight(n) \subseteq Cycles
  BY DEF InFlight
<1> QED
  BY <1>1, FS_Subset, FS_CardinalityType, DispatchAssumption

LEMMA InFlightFiniteNext ==
  ASSUME NEW n \in Notes
  PROVE  Cardinality(InFlight(n)') \in Nat
<1>1. InFlight(n)' \subseteq Cycles
  BY DEF InFlight
<1> QED
  BY <1>1, FS_Subset, FS_CardinalityType, DispatchAssumption

\* One more fault allows for one more dispatch of every cycle.
LEMMA OneMoreFault ==
  ASSUME TypeOK
  PROVE  /\ faults * Cardinality(Cycles) \in Nat
         /\ (faults + 1) * Cardinality(Cycles)
              = faults * Cardinality(Cycles) + Cardinality(Cycles)
<1>1. faults \in Nat /\ Cardinality(Cycles) \in Nat
  BY DispatchAssumption, FS_CardinalityType DEF TypeOK
<1>2. \A f, c \in Nat : f * c \in Nat /\ (f + 1) * c = f * c + c
  OBVIOUS
<1> QED
  BY <1>1, <1>2

\* A cycle is at one row: the first of its batch is the only first one.
LEMMA OneFirst ==
  ASSUME TypeOK, BatchInv, NEW c \in Cycles, NEW row \in batch[c],
         NEW other \in batch[c], First(c, row), First(c, other)
  PROVE  row = other
<1>1. row.note \in Nat /\ other.note \in Nat
  BY DispatchAssumption DEF TypeOK, Notes
<1>2. row.note = other.note
  BY <1>1 DEF First
<1> QED
  BY <1>2 DEF BatchInv

\* Steps that move no cycle into or out of a dispatch.
LEMMA SameFlight ==
  ASSUME TypeOK, DispatchesAccounted, UNCHANGED <<attempts, dispatches, faults>>,
         \A n \in Notes : InFlight(n)' = InFlight(n)
  PROVE  DispatchesAccounted'
BY DEF DispatchesAccounted

\* A failure: cycles leave a dispatch, and no attempt is counted.
LEMMA FaultKeepsAccount ==
  ASSUME TypeOK, DispatchesAccounted, UNCHANGED <<attempts, dispatches>>,
         faults' = faults + 1,
         \A n \in Notes : InFlight(n)' \subseteq InFlight(n)
  PROVE  DispatchesAccounted'
<1> SUFFICES ASSUME NEW n \in Notes
             PROVE  /\ attempts[n] + Cardinality(InFlight(n)') <= dispatches[n]
                    /\ dispatches[n] <= attempts[n] + Cardinality(InFlight(n)')
                                          + (faults + 1) * Cardinality(Cycles)
  BY DEF DispatchesAccounted
<1>1. Cardinality(InFlight(n)') <= Cardinality(InFlight(n))
  BY InFlightFinite, FS_Subset
<1>2. attempts[n] \in Nat /\ dispatches[n] \in Nat
  BY DEF TypeOK
<1>3. /\ attempts[n] + Cardinality(InFlight(n)) <= dispatches[n]
      /\ dispatches[n] <= attempts[n] + Cardinality(InFlight(n))
                            + faults * Cardinality(Cycles)
  BY DEF DispatchesAccounted
<1> QED
  BY <1>1, <1>2, <1>3, InFlightFinite, InFlightFiniteNext, OneMoreFault

\* The dispatch itself: a cycle more in flight, a dispatch more.
LEMMA DispatchKeepsAccount ==
  ASSUME TypeOK, BatchInv, AccountInv, NEW c \in Cycles, NEW row \in batch[c],
         Dispatch(c, row)
  PROVE  DispatchesAccounted'
<1> SUFFICES ASSUME NEW n \in Notes
             PROVE  /\ attempts[n] + Cardinality(InFlight(n)') <= dispatches'[n]
                    /\ dispatches'[n] <= attempts[n] + Cardinality(InFlight(n)')
                                           + faults * Cardinality(Cycles)
  BY DEF DispatchesAccounted, Dispatch, rowVars
<1>1. /\ phase[c] = "loop" /\ First(c, row) /\ UNCHANGED batch
      /\ phase' = [phase EXCEPT ![c] = "sending"]
      /\ dispatches' = [dispatches EXCEPT ![row.note] = @ + 1]
      /\ row.note \in Notes
  BY DEF Dispatch, At, TypeOK
<1>2. attempts[n] \in Nat /\ dispatches[n] \in Nat
  BY DEF TypeOK
<1>3. /\ attempts[n] + Cardinality(InFlight(n)) <= dispatches[n]
      /\ dispatches[n] <= attempts[n] + Cardinality(InFlight(n))
                            + faults * Cardinality(Cycles)
  BY DEF AccountInv, DispatchesAccounted
<1>4. \A d \in Cycles : \A r : First(d, r)' <=> First(d, r)
  BY <1>1 DEF First
<1>5. CASE n = row.note
  <2>1. InFlight(n)' = InFlight(n) \cup {c} /\ c \notin InFlight(n)
    BY <1>1, <1>4, <1>5 DEF InFlight, TypeOK
  <2>2. Cardinality(InFlight(n)') = Cardinality(InFlight(n)) + 1
    BY <2>1, InFlightFinite, FS_AddElement
  <2>3. dispatches'[n] = dispatches[n] + 1
    BY <1>1, <1>5 DEF TypeOK
  <2> QED
    BY <1>2, <1>3, <2>2, <2>3, InFlightFinite, OneMoreFault
<1>6. CASE n # row.note
  <2>1. \A r \in batch[c] : First(c, r) => r.note # n
    BY <1>1, <1>6, OneFirst
  <2>2. InFlight(n)' = InFlight(n)
    BY <1>1, <1>4, <2>1 DEF InFlight, TypeOK
  <2>3. dispatches'[n] = dispatches[n]
    BY <1>1, <1>6 DEF TypeOK
  <2> QED
    BY <1>3, <2>2, <2>3
<1> QED
  BY <1>5, <1>6

\* A cycle past its dispatch that goes on to another row, or gives up, is out
\* of this flight and in no other.
LEMMA FlightEnds ==
  ASSUME TypeOK, BatchInv, NEW c \in Cycles, NEW row \in batch[c],
         First(c, row), phase[c] # "loop",
         phase' = [phase EXCEPT ![c] = "loop"],
         NEW left, batch' = [batch EXCEPT ![c] = left]
  PROVE  /\ InFlight(row.note)' = InFlight(row.note) \ {c}
         /\ c \in InFlight(row.note)
         /\ \A n \in Notes : n # row.note => InFlight(n)' = InFlight(n)
<1>1. \A d \in Cycles \ {c} : phase'[d] = phase[d] /\ batch'[d] = batch[d]
  BY DEF TypeOK
<1>2. phase'[c] = "loop"
  BY DEF TypeOK
<1>3. \A d \in Cycles \ {c} : \A r : First(d, r)' <=> First(d, r)
  BY <1>1 DEF First
<1>4. \A n : InFlight(n)' = InFlight(n) \ {c}
  BY <1>1, <1>2, <1>3 DEF InFlight
<1>5. \A n : c \in InFlight(n) <=> n = row.note
  BY OneFirst DEF InFlight
<1> QED
  BY <1>4, <1>5

\* A mark: a cycle less in flight, an attempt more.
LEMMA MarkKeepsAccount ==
  ASSUME TypeOK, BatchInv, AccountInv, NEW c \in Cycles, NEW row \in batch[c],
         First(c, row), phase[c] # "loop",
         NEW outcome, Mark(row.note, outcome), NextRow(c, row),
         UNCHANGED <<dispatches, faults>>
  PROVE  DispatchesAccounted'
<1> SUFFICES ASSUME NEW n \in Notes
             PROVE  /\ attempts'[n] + Cardinality(InFlight(n)') <= dispatches[n]
                    /\ dispatches[n] <= attempts'[n] + Cardinality(InFlight(n)')
                                          + faults * Cardinality(Cycles)
  BY DEF DispatchesAccounted
<1>1. /\ InFlight(row.note)' = InFlight(row.note) \ {c}
      /\ c \in InFlight(row.note)
      /\ n # row.note => InFlight(n)' = InFlight(n)
  BY FlightEnds DEF NextRow
<1>2. attempts[n] \in Nat /\ dispatches[n] \in Nat /\ row.note \in Notes
  BY DEF TypeOK
<1>3. /\ attempts[n] + Cardinality(InFlight(n)) <= dispatches[n]
      /\ dispatches[n] <= attempts[n] + Cardinality(InFlight(n))
                            + faults * Cardinality(Cycles)
  BY DEF AccountInv, DispatchesAccounted
<1>4. CASE n = row.note
  <2>1. Cardinality(InFlight(n)') = Cardinality(InFlight(n)) - 1
    BY <1>1, <1>4, InFlightFinite, FS_RemoveElement
  <2>2. attempts'[n] = attempts[n] + 1
    BY <1>2, <1>4 DEF Mark, TypeOK
  <2> QED
    BY <1>2, <1>3, <2>1, <2>2, InFlightFinite, OneMoreFault
<1>5. CASE n # row.note
  <2>1. attempts'[n] = attempts[n]
    BY <1>2, <1>5 DEF Mark, TypeOK
  <2> QED
    BY <1>1, <1>3, <1>5, <2>1
<1> QED
  BY <1>4, <1>5

LEMMA AccountStep == DispatchInv /\ AccountInv /\ [Next]_vars => AccountInv'
<1> SUFFICES ASSUME DispatchInv, AccountInv, [Next]_vars PROVE AccountInv'
  OBVIOUS
<1>a. TypeOK /\ BatchInv /\ IdleInv /\ DispatchesAccounted
  BY DEF DispatchInv, AccountInv
<1>1. ASSUME UNCHANGED <<attempts, cycleVars, dispatches, faults>> PROVE AccountInv'
  <2>1. \A n \in Notes : InFlight(n)' = InFlight(n)
    BY <1>1 DEF InFlight, First, cycleVars
  <2>2. IdleInv'
    BY <1>a, <1>1 DEF IdleInv, cycleVars
  <2> QED
    BY <1>a, <1>1, <2>1, <2>2, SameFlight DEF AccountInv
<1>2. ASSUME NEW c \in Cycles, ListDue(c) PROVE AccountInv'
  <2>1. /\ phase[c] = "loop" /\ UNCHANGED phase
        /\ \A d \in Cycles \ {c} : batch'[d] = batch[d]
        /\ UNCHANGED <<attempts, dispatches, faults>>
    BY <1>a, <1>2 DEF ListDue, IdleInv, TypeOK, rowVars
  <2>2. \A d \in Cycles \ {c} : \A r : First(d, r)' <=> First(d, r)
    BY <2>1 DEF First
  <2>3. \A n \in Notes : InFlight(n)' = InFlight(n)
    BY <2>1, <2>2 DEF InFlight
  <2>4. IdleInv'
    BY <1>a, <2>1 DEF IdleInv
  <2> QED
    BY <1>a, <2>1, <2>3, <2>4, SameFlight DEF AccountInv
<1>3. ASSUME NEW c \in Cycles, NEW row \in batch[c], Throttled(c, row)
      PROVE  AccountInv'
  <2>1. /\ phase[c] = "loop" /\ phase' = [phase EXCEPT ![c] = "loop"]
        /\ batch' = [batch EXCEPT ![c] = @ \ {row}]
        /\ UNCHANGED <<attempts, dispatches, faults>>
    BY <1>3 DEF Throttled, At, NextRow, rowVars
  <2>2. /\ phase' = phase
        /\ \A d \in Cycles \ {c} : batch'[d] = batch[d]
    BY <1>a, <2>1 DEF TypeOK
  <2>3. \A d \in Cycles \ {c} : \A r : First(d, r)' <=> First(d, r)
    BY <2>2 DEF First
  <2>4. \A n \in Notes : InFlight(n)' = InFlight(n)
    BY <2>1, <2>2, <2>3 DEF InFlight
  <2>5. IdleInv'
    BY <1>a, <2>1, <2>2 DEF IdleInv
  <2> QED
    BY <1>a, <2>1, <2>4, <2>5, SameFlight DEF AccountInv
<1>4. ASSUME NEW c \in Cycles, NEW row \in batch[c], Dispatch(c, row)
      PROVE  AccountInv'
  <2>1. IdleInv'
    BY <1>a, <1>4 DEF Dispatch, IdleInv, TypeOK
  <2> QED
    BY <1>a, <1>4, <2>1, DispatchKeepsAccount DEF AccountInv
<1>5. ASSUME NEW c \in Cycles, NEW row \in batch[c],
             Answered(c, row) \/ MarkSentFails(c, row)
      PROVE  AccountInv'
  <2>1. PICK to \in {"sent", "failed"} :
          /\ phase[c] # "loop" /\ phase' = [phase EXCEPT ![c] = to]
          /\ UNCHANGED <<batch, attempts, dispatches>>
    BY <1>5 DEF Answered, MarkSentFails, At, rowVars
  <2>2. \A d \in Cycles : \A r : First(d, r)' <=> First(d, r)
    BY <2>1 DEF First
  <2>3. \A n \in Notes : InFlight(n)' = InFlight(n)
    BY <1>a, <2>1, <2>2 DEF InFlight, TypeOK
  <2>4. IdleInv'
    BY <1>a, <2>1 DEF IdleInv, TypeOK
  <2>5. CASE UNCHANGED faults
    BY <1>a, <2>1, <2>3, <2>4, <2>5, SameFlight DEF AccountInv
  <2>6. CASE faults' = faults + 1
    BY <1>a, <2>1, <2>3, <2>4, <2>6, FaultKeepsAccount DEF AccountInv
  <2> QED
    BY <1>5, <2>5, <2>6 DEF Answered, MarkSentFails
<1>6. ASSUME NEW c \in Cycles, NEW row \in batch[c],
             MarkSent(c, row) \/ MarkFailure(c, row)
      PROVE  AccountInv'
  <2>1. PICK outcome : /\ First(c, row) /\ phase[c] # "loop"
                       /\ Mark(row.note, outcome) /\ NextRow(c, row)
                       /\ UNCHANGED <<dispatches, faults>>
    BY <1>6 DEF MarkSent, MarkFailure, At
  <2>2. IdleInv'
    BY <1>a, <2>1 DEF IdleInv, NextRow, TypeOK
  <2> QED
    BY <1>a, <2>1, <2>2, MarkKeepsAccount DEF AccountInv
<1>7. ASSUME NEW c \in Cycles, NEW row \in batch[c], CycleFails(c, row)
      PROVE  AccountInv'
  <2>1. /\ First(c, row) /\ phase[c] # "loop"
        /\ phase' = [phase EXCEPT ![c] = "loop"]
        /\ batch' = [batch EXCEPT ![c] = {}]
        /\ faults' = faults + 1 /\ UNCHANGED <<attempts, dispatches>>
    BY <1>7 DEF CycleFails, At, rowVars
  <2>2. \A n \in Notes : InFlight(n)' \subseteq InFlight(n)
    BY <1>a, <2>1, FlightEnds
  <2>3. IdleInv'
    BY <1>a, <2>1 DEF IdleInv, TypeOK
  <2> QED
    BY <1>a, <2>1, <2>2, <2>3, FaultKeepsAccount DEF AccountInv
<1>8. ASSUME NEW p \in Processes, Crash(p) PROVE AccountInv'
  <2>1. /\ \A c \in Cycles : \/ phase'[c] = "loop"
                             \/ phase'[c] = phase[c] /\ batch'[c] = batch[c]
        /\ faults' = faults + 1 /\ UNCHANGED <<attempts, dispatches>>
    BY <1>8 DEF Crash, rowVars
  <2>2. \A n \in Notes : InFlight(n)' \subseteq InFlight(n)
    BY <2>1 DEF InFlight, First
  <2>3. IdleInv'
    BY <1>a, <2>1 DEF IdleInv
  <2> QED
    BY <1>a, <2>1, <2>2, <2>3, FaultKeepsAccount DEF AccountInv
<1>9. ASSUME NEW n \in Notes, Enqueue(n) \/ RetryNotification(n) PROVE AccountInv'
  BY <1>1, <1>9 DEF Enqueue, RetryNotification
<1>10. ASSUME NEW p \in Processes, NEW k \in Keys, Tick(p, k) PROVE AccountInv'
  BY <1>1, <1>10 DEF Tick, rowVars
<1>11. CASE UNCHANGED vars
  BY <1>1, <1>11 DEF vars, rowVars
<1> QED
  BY <1>2, <1>3, <1>4, <1>5, <1>6, <1>7, <1>8, <1>9, <1>10, <1>11 DEF Next, Work

(* A notification goes out as often as it is counted, plus the dispatches  *)
(* under way, plus what failures made the cycles forget, for every set of  *)
(* cycles and every limit.                                                 *)
THEOREM DispatchesAddUp == SafetySpec => []DispatchesAccounted
<1>1. Init => AccountInv
  <2> SUFFICES ASSUME Init PROVE AccountInv
    OBVIOUS
  <2>1. IdleInv
    BY DEF Init, IdleInv
  <2>2. \A n \in Notes : InFlight(n) = {}
    BY DEF Init, InFlight
  <2>3. Cardinality(Cycles) \in Nat
    BY DispatchAssumption, FS_CardinalityType
  <2>4. DispatchesAccounted
    BY <2>2, <2>3, FS_EmptySet DEF Init, DispatchesAccounted
  <2> QED
    BY <2>1, <2>4 DEF AccountInv
<1>2. DispatchInv /\ AccountInv /\ [Next]_vars => AccountInv'
  BY AccountStep
<1>3. AccountInv => DispatchesAccounted
  BY DEF AccountInv
<1> QED
  BY <1>1, <1>2, <1>3, DispatchInvariant, PTL DEF SafetySpec
=============================================================================
