----------------------- MODULE EventProcessingProofs -----------------------
(***************************************************************************)
(* The bus's invariants for every number of messages, consumers, retries   *)
(* (at least two attempts) and crashes, and its refinement of the delivery *)
(* contract (first part); and the incident pipeline's invariants for every *)
(* set of events, workers, fingerprints and incident ids, every limit and  *)
(* any number of crashes (second part). The pipeline's bus variables       *)
(* behave as the bus of RabbitEventBus, so the bus's theorems hold there.  *)
(***************************************************************************)
EXTENDS EventProcessing, FiniteSetTheorems, TLAPS

-----------------------------------------------------------------------------
(* The bus alone: RabbitEventBus                                           *)

(* What one message has to satisfy: the DLQ copies are the failed attempts *)
(* while it is in the queue, and it waits in a timer only after a failure. *)
MessageInv(m) ==
  /\ holder[m] # Nobody <=> place[m] \in {"held", "timer"}
  /\ place[m] \in {"unsent", "dropped"} =>
       m \notin processed /\ attempts[m] = 0 /\ deadLetters[m] = 0
  /\ InQueue(m) =>
       m \notin processed /\ attempts[m] < MaxRetries
         /\ deadLetters[m] = attempts[m]
  /\ place[m] = "timer" => attempts[m] >= 1
  /\ m \in processed =>
       attempts[m] < MaxRetries /\ deadLetters[m] = attempts[m]
  /\ place[m] = "gone" =>
       /\ m \in processed \/ deadLetters[m] > 0
       /\ deadLetters[m] + 1 >= attempts[m]
       /\ deadLetters[m] <= MaxRetries

BusInv == BusTypeOK /\ \A m \in Messages : MessageInv(m)

\* The sets the variables range over, without the relation between them.
BusTypes ==
  /\ bound \in BOOLEAN
  /\ place \in [Messages -> Places]
  /\ holder \in [Messages -> Consumers \cup {Nobody}]
  /\ attempts \in [Messages -> 0..MaxRetries]
  /\ expiring \in SUBSET Messages
  /\ processed \in SUBSET Messages
  /\ deadLetters \in [Messages -> Nat]
  /\ crashes \in 0..MaxCrashes

(* The initial state is in the invariant. *)
LEMMA BusInitInv == BusInit => BusInv
<1> SUFFICES ASSUME BusInit PROVE BusInv
  OBVIOUS
<1> USE BusAssumption DEF BusInit
<1>1. BusTypeOK
  <2>1. /\ bound \in BOOLEAN
        /\ place \in [Messages -> Places]
        /\ holder \in [Messages -> Consumers \cup {Nobody}]
    BY DEF Places
  <2>2. /\ attempts \in [Messages -> 0..MaxRetries]
        /\ deadLetters \in [Messages -> Nat]
        /\ crashes \in 0..MaxCrashes
    OBVIOUS
  <2>3. expiring \in SUBSET Messages /\ processed \in SUBSET Messages
    OBVIOUS
  <2>4. \A m \in Messages : holder[m] # Nobody <=> place[m] \in {"held", "timer"}
    OBVIOUS
  <2>5. QED
    BY <2>1, <2>2, <2>3, <2>4 DEF BusTypeOK
<1>2. \A m \in Messages : MessageInv(m)
  BY DEF MessageInv, InQueue
<1>3. QED
  BY <1>1, <1>2 DEF BusInv

(* Every action of the bus keeps the types. *)
LEMMA BusTypesStep == BusInv /\ [BusNext]_busVars => BusTypes'
<1> SUFFICES ASSUME BusInv, [BusNext]_busVars PROVE BusTypes'
  OBVIOUS
<1> USE BusAssumption DEF BusInv, BusTypeOK, BusTypes, Places
<1>1. CASE Bind
  BY <1>1 DEF Bind
<1>2. ASSUME NEW m \in Messages, Publish(m) PROVE BusTypes'
  BY <1>2 DEF Publish
<1>3. ASSUME NEW m \in Messages, Ack(m) PROVE BusTypes'
  BY <1>3 DEF Ack, Settle
<1>4. ASSUME NEW m \in Messages, Retry(m) PROVE BusTypes'
  BY <1>4 DEF Retry, LastAttempt
<1>5. ASSUME NEW m \in Messages, GiveUp(m) PROVE BusTypes'
  <2>1. attempts[m] + 1 \in 0..MaxRetries
    BY <1>5 DEF GiveUp, LastAttempt, MessageInv, InQueue
  <2>2. QED
    BY <1>5, <2>1 DEF GiveUp, Settle
<1>6. ASSUME NEW m \in Messages, Redeliver(m) PROVE BusTypes'
  BY <1>6 DEF Redeliver, Settle
<1>7. ASSUME NEW m \in Messages, Expire(m) PROVE BusTypes'
  BY <1>7 DEF Expire, Settle
<1>8. ASSUME NEW m \in Messages, NEW c \in Consumers, Deliver(c, m)
      PROVE BusTypes'
  BY <1>8 DEF Deliver
<1>9. ASSUME NEW c \in Consumers, Crash(c) PROVE BusTypes'
  <2>1. place' \in [Messages -> Places]
    BY <1>9 DEF Crash
  <2>2. holder' \in [Messages -> Consumers \cup {Nobody}]
    BY <1>9 DEF Crash
  <2>3. crashes' \in 0..MaxCrashes
    BY <1>9 DEF Crash
  <2>4. QED
    BY <1>9, <2>1, <2>2, <2>3 DEF Crash
<1>10. CASE UNCHANGED busVars
  BY <1>10 DEF busVars
<1>11. QED
  BY <1>1, <1>2, <1>3, <1>4, <1>5, <1>6, <1>7, <1>8, <1>9, <1>10 DEF BusNext

(* Every action of the bus keeps the invariant of every message. *)
LEMMA MessageInvStep ==
  ASSUME BusInv, [BusNext]_busVars, NEW n \in Messages
  PROVE  MessageInv(n)'
<1> USE BusAssumption DEF BusInv, BusTypeOK, Places, MessageInv, InQueue
<1>1. CASE Bind
  BY <1>1 DEF Bind
<1>2. ASSUME NEW m \in Messages, Publish(m) PROVE MessageInv(n)'
  BY <1>2 DEF Publish
<1>3. ASSUME NEW m \in Messages, Ack(m) PROVE MessageInv(n)'
  BY <1>3 DEF Ack, Settle
<1>4. ASSUME NEW m \in Messages, Retry(m) PROVE MessageInv(n)'
  BY <1>4 DEF Retry, LastAttempt
<1>5. ASSUME NEW m \in Messages, GiveUp(m) PROVE MessageInv(n)'
  BY <1>5 DEF GiveUp, LastAttempt, Settle
<1>6. ASSUME NEW m \in Messages, Redeliver(m) PROVE MessageInv(n)'
  BY <1>6 DEF Redeliver, Settle
<1>7. ASSUME NEW m \in Messages, Expire(m) PROVE MessageInv(n)'
  BY <1>7 DEF Expire, Settle
<1>8. ASSUME NEW m \in Messages, NEW c \in Consumers, Deliver(c, m)
      PROVE MessageInv(n)'
  BY <1>8 DEF Deliver
<1>9. ASSUME NEW c \in Consumers, Crash(c) PROVE MessageInv(n)'
  BY <1>9 DEF Crash
<1>10. CASE UNCHANGED busVars
  BY <1>10 DEF busVars
<1>11. QED
  BY <1>1, <1>2, <1>3, <1>4, <1>5, <1>6, <1>7, <1>8, <1>9, <1>10 DEF BusNext

(* BusInv is inductive. *)
LEMMA BusInvStep == BusInv /\ [BusNext]_busVars => BusInv'
<1> SUFFICES ASSUME BusInv, [BusNext]_busVars PROVE BusInv'
  OBVIOUS
<1>1. BusTypes'
  BY BusTypesStep
<1>2. \A n \in Messages : MessageInv(n)'
  BY MessageInvStep
<1>3. QED
  BY <1>1, <1>2 DEF BusInv, BusTypeOK, BusTypes, MessageInv

THEOREM BusInvariant == BusSafetySpec => []BusInv
<1>1. BusInit => BusInv
  BY BusInitInv
<1>2. BusInv /\ [BusNext]_busVars => BusInv'
  BY BusInvStep
<1>3. QED
  BY <1>1, <1>2, PTL DEF BusSafetySpec

(* Type correctness of the bus, for every instance. *)
THEOREM BusTypeCorrect == BusSafetySpec => []BusTypeOK
<1>1. BusInv => BusTypeOK
  BY DEF BusInv
<1>2. QED
  BY <1>1, BusInvariant, PTL

(* No message that left the queue is without a trace, whatever crashes,    *)
(* failed resends and lost DLQ writes do.                                  *)
THEOREM MessagesNotLost == BusSafetySpec => []NoMessageLost
<1>1. BusInv => NoMessageLost
  BY DEF BusInv, MessageInv, NoMessageLost
<1>2. QED
  BY <1>1, BusInvariant, PTL

(* The DLQ holds one copy per failed attempt and never more than           *)
(* MaxRetries copies of a message.                                         *)
THEOREM DeadLettersCountFailures == BusSafetySpec => []OneDeadLetterPerFailure
<1>1. BusInv => OneDeadLetterPerFailure
  BY DEF BusInv, MessageInv, OneDeadLetterPerFailure
<1>2. QED
  BY <1>1, BusInvariant, PTL

-----------------------------------------------------------------------------
(* The refinement of DeliveryContract *)

Mapped == [m \in Messages |-> ContractStatus(m)]

(* Under the invariant nothing maps to "lost": the place of a message and  *)
(* whether it was processed decide what the contract sees.                 *)
LEMMA MappedStatus ==
  ASSUME BusInv, NEW m \in Messages
  PROVE  /\ place[m] \in {"unsent", "dropped"} => ContractStatus(m) = "absent"
         /\ InQueue(m) => ContractStatus(m) = "live"
         /\ place[m] = "gone" /\ m \in processed
              => ContractStatus(m) = "processed"
         /\ place[m] = "gone" /\ m \notin processed
              => ContractStatus(m) = "parked"
<1>1. place[m] \in {"unsent", "dropped"} => ContractStatus(m) = "absent"
  BY DEF ContractStatus
<1>2. InQueue(m) => ContractStatus(m) = "live"
  BY DEF ContractStatus, InQueue
<1>3. place[m] = "gone" /\ m \in processed => ContractStatus(m) = "processed"
  BY DEF ContractStatus, InQueue
<1>4. place[m] = "gone" /\ m \notin processed => ContractStatus(m) = "parked"
  <2>1. place[m] = "gone" /\ m \notin processed => deadLetters[m] > 0
    BY DEF BusInv, MessageInv
  <2>2. QED
    BY <2>1 DEF ContractStatus, InQueue
<1>5. QED
  BY <1>1, <1>2, <1>3, <1>4

LEMMA MappedStatusNext ==
  ASSUME BusInv', NEW m \in Messages
  PROVE  /\ place'[m] \in {"unsent", "dropped"} => ContractStatus(m)' = "absent"
         /\ place'[m] \in {"ready", "held", "timer"}
              => ContractStatus(m)' = "live"
         /\ place'[m] = "gone" /\ m \in processed'
              => ContractStatus(m)' = "processed"
         /\ place'[m] = "gone" /\ m \notin processed'
              => ContractStatus(m)' = "parked"
BY DEF BusInv, MessageInv, ContractStatus, InQueue

LEMMA ContractInitMapped == BusInit => Contract!ContractInit
BY DEF BusInit, Contract!ContractInit, ContractStatus

(* Every step of the bus is a step of the contract or changes nothing it   *)
(* sees.                                                                   *)
LEMMA ContractStep ==
  BusInv /\ BusInv' /\ [BusNext]_busVars
    => [Contract!ContractNext]_(Contract!contractVars)
<1> SUFFICES ASSUME BusInv, BusInv', [BusNext]_busVars
             PROVE  \/ Contract!ContractNext
                    \/ Mapped' = Mapped /\ attempts' = attempts
  BY DEF Contract!contractVars, Mapped
<1> USE DEF BusInv, BusTypeOK
<1>0. /\ DOMAIN Mapped = Messages
      /\ DOMAIN Mapped' = Messages
      /\ Mapped = [m \in Messages |-> ContractStatus(m)]
      /\ Mapped' = [m \in Messages |-> ContractStatus(m)']
  BY DEF Mapped
<1>1. CASE Bind
  BY <1>1 DEF Bind, Mapped, ContractStatus, InQueue
<1>2. ASSUME NEW m \in Messages, Publish(m)
      PROVE  \/ Contract!Enter(m)
             \/ Mapped' = Mapped /\ attempts' = attempts
  <2>1. ContractStatus(m) = "absent"
    BY <1>2, MappedStatus DEF Publish
  <2>2. ContractStatus(m)' = IF bound THEN "live" ELSE "absent"
    BY <1>2, MappedStatusNext DEF Publish
  <2>3. \A n \in Messages \ {m} : ContractStatus(n)' = ContractStatus(n)
    BY <1>2 DEF Publish, ContractStatus, InQueue
  <2>4. attempts' = attempts
    BY <1>2 DEF Publish
  <2>5. CASE bound
    <3>1. Mapped' = [Mapped EXCEPT ![m] = "live"]
      BY <1>0, <2>2, <2>3, <2>5
    <3>2. QED
      BY <2>1, <2>4, <3>1 DEF Contract!Enter, Mapped
  <2>6. CASE ~bound
    BY <1>0, <2>1, <2>2, <2>3, <2>4, <2>6
  <2>7. QED
    BY <2>5, <2>6
<1>3. ASSUME NEW m \in Messages, Ack(m) PROVE Contract!Process(m)
  <2>1. ContractStatus(m) = "live"
    BY <1>3, MappedStatus DEF Ack, InQueue
  <2>2. ContractStatus(m)' = "processed"
    BY <1>3, MappedStatusNext DEF Ack, Settle
  <2>3. \A n \in Messages \ {m} : ContractStatus(n)' = ContractStatus(n)
    BY <1>3 DEF Ack, Settle, ContractStatus, InQueue
  <2>4. QED
    BY <1>0, <1>3, <2>1, <2>2, <2>3 DEF Ack, Contract!Process, Mapped
<1>4. ASSUME NEW m \in Messages, Retry(m) PROVE Contract!Attempt(m)
  <2>1. ContractStatus(m) = "live"
    BY <1>4, MappedStatus DEF Retry, InQueue
  <2>2. ContractStatus(m)' = "live"
    BY <1>4, MappedStatusNext DEF Retry
  <2>3. \A n \in Messages \ {m} : ContractStatus(n)' = ContractStatus(n)
    BY <1>4 DEF Retry, ContractStatus, InQueue
  <2>4. attempts[m] < MaxRetries
    BY <1>4 DEF Retry, MessageInv, InQueue
  <2>5. Mapped' = Mapped
    BY <1>0, <2>1, <2>2, <2>3
  <2>6. QED
    BY <1>0, <1>4, <2>1, <2>4, <2>5 DEF Retry, Contract!Attempt, Mapped
<1>5. ASSUME NEW m \in Messages, GiveUp(m) PROVE Contract!Attempt(m)
  <2>1. ContractStatus(m) = "live"
    BY <1>5, MappedStatus DEF GiveUp, InQueue
  <2>2. ContractStatus(m)' = "parked"
    BY <1>5, MappedStatusNext DEF GiveUp, Settle, MessageInv, InQueue
  <2>3. \A n \in Messages \ {m} : ContractStatus(n)' = ContractStatus(n)
    BY <1>5 DEF GiveUp, Settle, ContractStatus, InQueue
  <2>4. attempts[m] < MaxRetries
    BY <1>5 DEF GiveUp, MessageInv, InQueue
  <2>5. Mapped' = [Mapped EXCEPT ![m] = "parked"]
    BY <1>0, <2>2, <2>3
  <2>6. QED
    BY <1>0, <1>5, <2>1, <2>4, <2>5 DEF GiveUp, Contract!Attempt, Mapped
<1>6. ASSUME NEW m \in Messages, Redeliver(m) \/ Expire(m)
      PROVE  \/ Contract!Park({m})
             \/ Mapped' = Mapped /\ attempts' = attempts
  <2>1. ContractStatus(m) = "live"
    BY <1>6, MappedStatus DEF Redeliver, Expire, InQueue
  <2>2. ContractStatus(m)' \in {"live", "parked"}
    BY <1>6, MappedStatusNext DEF Redeliver, Expire, Settle, MessageInv, InQueue
  <2>3. \A n \in Messages \ {m} : ContractStatus(n)' = ContractStatus(n)
    BY <1>6 DEF Redeliver, Expire, Settle, ContractStatus, InQueue
  <2>4. attempts' = attempts
    BY <1>6 DEF Redeliver, Expire
  <2>5. CASE ContractStatus(m)' = "live"
    BY <1>0, <2>1, <2>3, <2>4, <2>5
  <2>6. CASE ContractStatus(m)' = "parked"
    BY <1>0, <2>1, <2>3, <2>4, <2>6 DEF Contract!Park, Mapped
  <2>7. QED
    BY <2>2, <2>5, <2>6
<1>7. ASSUME NEW m \in Messages, NEW c \in Consumers, Deliver(c, m)
      PROVE  Mapped' = Mapped /\ attempts' = attempts
  <2>1. \A n \in Messages : ContractStatus(n)' = ContractStatus(n)
    BY <1>7 DEF Deliver, ContractStatus, InQueue
  <2>2. QED
    BY <1>0, <1>7, <2>1 DEF Deliver
<1>8. ASSUME NEW c \in Consumers, Crash(c)
      PROVE  \E S \in SUBSET Messages : Contract!Park(S)
  <2> DEFINE S == {m \in Messages : holder[m] = c /\ place[m] = "timer"}
  <2>1. \A n \in S : ContractStatus(n) = "live" /\ ContractStatus(n)' = "parked"
    BY <1>8, MappedStatus, MappedStatusNext DEF Crash, MessageInv, InQueue
  <2>2. \A n \in Messages \ S : ContractStatus(n)' = ContractStatus(n)
    BY <1>8, BusAssumption DEF Crash, ContractStatus, InQueue
  <2>3. Contract!Park(S)
    BY <1>0, <1>8, <2>1, <2>2 DEF Crash, Contract!Park, Mapped
  <2>4. QED
    BY <2>3
<1>9. CASE UNCHANGED busVars
  BY <1>9 DEF busVars, Mapped, ContractStatus, InQueue
<1>10. QED
  BY <1>1, <1>2, <1>3, <1>4, <1>5, <1>6, <1>7, <1>8, <1>9
     DEF BusNext, Contract!ContractNext

(* The RabbitMQ bus implements the delivery contract.                      *)
THEOREM BusImplementsContract == BusSafetySpec => ImplementsContract
<1>1. BusInit => Contract!ContractInit
  BY ContractInitMapped
<1>2. BusInv /\ BusInv' /\ [BusNext]_busVars
        => [Contract!ContractNext]_(Contract!contractVars)
  BY ContractStep
<1>3. QED
  BY <1>1, <1>2, BusInvariant, PTL
     DEF BusSafetySpec, ImplementsContract, Contract!ContractSpec

-----------------------------------------------------------------------------
(* The bus inside the pipeline *)

LEMMA BusStep == [Next]_vars => [BusNext]_busVars
<1> SUFFICES ASSUME [Next]_vars PROVE BusNext \/ UNCHANGED busVars
  OBVIOUS
<1>1. CASE BindQueue
  BY <1>1 DEF BindQueue, BusNext
<1>2. ASSUME NEW e \in Messages,
             IngestEvent(e) \/ HandlerReturns(e) \/ HandlerThrows(e)
               \/ ResendEvent(e) \/ ExpireEvent(e)
      PROVE  BusNext
  BY <1>2 DEF IngestEvent, HandlerReturns, HandlerThrows, ResendEvent,
              ExpireEvent, BusNext
<1>3. ASSUME NEW e \in Messages, NEW c \in Consumers, StartHandler(c, e)
      PROVE  BusNext
  BY <1>3 DEF StartHandler, BusNext
<1>4. ASSUME NEW c \in Consumers, WorkerCrash(c) PROVE BusNext
  BY <1>4 DEF WorkerCrash, BusNext
<1>5. ASSUME NEW e \in Messages, ProcessEvent(e) PROVE UNCHANGED busVars
  BY <1>5 DEF ProcessEvent, ReadCache, FindOpen, Link, Count, Refresh, Create,
              Notify, NotifyNext
<1>6. ASSUME NEW i \in Incidents,
             Resolve(i) \/ EndResolve(i) \/ ClearGet(i) \/ ClearDel(i)
               \/ Reopen(i)
      PROVE  UNCHANGED busVars
  BY <1>6 DEF Resolve, EndResolve, ClearGet, ClearDel, Reopen
<1>7. ASSUME NEW f \in Fingerprints, CacheExpires(f) PROVE UNCHANGED busVars
  BY <1>7 DEF CacheExpires
<1>8. CASE UNCHANGED vars
  BY <1>8 DEF vars
<1>9. QED
  BY <1>1, <1>2, <1>3, <1>4, <1>5, <1>6, <1>7, <1>8 DEF Next

(* The pipeline drives the bus only as RabbitEventBus allows: no message   *)
(* is acknowledged, retried or parked otherwise.                           *)
THEOREM PipelineUsesBus == SafetySpec => BusSafetySpec
<1>1. Init => BusInit
  BY DEF Init
<1>2. [Next]_vars => [BusNext]_busVars
  BY BusStep
<1>3. QED
  BY <1>1, <1>2, PTL DEF SafetySpec, BusSafetySpec

(* An event that left the queue was processed or has a copy in the DLQ,    *)
(* with the worker's real handler in the place of an arbitrary one.        *)
THEOREM EventsNotLost == SafetySpec => []NoMessageLost
BY PipelineUsesBus, MessagesNotLost, PTL

-----------------------------------------------------------------------------
(* The inductive invariant *)

PipelineTypes ==
  /\ pc \in [Messages -> Steps]
  /\ target \in [Messages -> Incidents \cup {NoIncident}]
  /\ dedupeKey \in [Incidents -> Fingerprints \cup {NoKey}]
  /\ resolved \in SUBSET Incidents
  /\ links \in SUBSET (Incidents \X Messages)
  /\ eventCount \in [Incidents -> Nat]
  /\ announced \in [Incidents -> Nat]
  /\ cache \in [Fingerprints -> Incidents \cup {NoIncident}]
  /\ committing \in SUBSET Incidents
  /\ clearer \in [Incidents -> {"idle", "get", "del"}]
  /\ resolves \in 0..MaxResolves

\* The steps of a handler that knows its incident.
Knowing == {"link", "count", "refresh", "remember", "notify", "notifyNext",
            "return"}

\* Whatever handed a handler its incident - a stale cache entry, the lookup,
\* a lost race - the row exists and has the fingerprint of the event.
EventInv(e) ==
  /\ target[e] # NoIncident => dedupeKey[target[e]] = FingerprintOf[e]
  /\ pc[e] \in Knowing => target[e] # NoIncident
  /\ pc[e] # "idle" => place[e] = "held"
  /\ e \in processed =>
       \E i \in Incidents : dedupeKey[i] = FingerprintOf[e]

CacheInv(f) == cache[f] # NoIncident => dedupeKey[cache[f]] = f

RowInv(i) ==
  /\ clearer[i] # "idle" => dedupeKey[i] # NoKey
  /\ \A e \in Messages : <<i, e>> \in links => dedupeKey[i] = FingerprintOf[e]
  /\ dedupeKey[i] # NoKey =>
       eventCount[i] > 0 /\ \E e \in Messages : <<i, e>> \in links

KeysUnique ==
  \A i, j \in Incidents :
    dedupeKey[i] # NoKey /\ dedupeKey[i] = dedupeKey[j] => i = j

PipelineInv ==
  /\ BusInv
  /\ PipelineTypes
  /\ KeysUnique
  /\ \A e \in Messages : EventInv(e)
  /\ \A f \in Fingerprints : CacheInv(f)
  /\ \A i \in Incidents : RowInv(i)

LEMMA PipelineInitInv == Init => PipelineInv
<1> SUFFICES ASSUME Init PROVE PipelineInv
  OBVIOUS
<1> USE BusAssumption, ProcessingAssumption DEF Init
<1>1. PipelineTypes
  BY DEF PipelineTypes, Steps
<1>2. KeysUnique
  BY DEF KeysUnique
<1>3. \A e \in Messages : EventInv(e)
  BY DEF EventInv, BusInit, Knowing
<1>4. \A f \in Fingerprints : CacheInv(f)
  BY DEF CacheInv
<1>5. \A i \in Incidents : RowInv(i)
  BY DEF RowInv
<1>6. QED
  BY <1>1, <1>2, <1>3, <1>4, <1>5, BusInitInv DEF PipelineInv

LEMMA KnowsIncident ==
  ASSUME PipelineInv, NEW e \in Messages, pc[e] \in Knowing
  PROVE  target[e] \in Incidents /\ dedupeKey[target[e]] = FingerprintOf[e]
BY DEF PipelineInv, PipelineTypes, EventInv

(* Every action keeps the types. *)
LEMMA PipelineTypesStep ==
  ASSUME PipelineInv, [Next]_vars
  PROVE  PipelineTypes'
<1> USE BusAssumption, ProcessingAssumption
    DEF PipelineInv, PipelineTypes, Steps, busVars, handlerVars, tableVars,
        operatorVars, pipelineVars
<1>1. CASE BindQueue
  BY <1>1 DEF BindQueue, Bind
<1>2. ASSUME NEW e \in Messages, IngestEvent(e)
      PROVE  PipelineTypes'
  BY <1>2 DEF IngestEvent, Publish
<1>3. ASSUME NEW e \in Messages, HandlerReturns(e)
      PROVE  PipelineTypes'
  BY <1>3 DEF HandlerReturns, StopHandler, Ack
<1>4. ASSUME NEW e \in Messages, HandlerThrows(e)
      PROVE  PipelineTypes'
  BY <1>4 DEF HandlerThrows, StopHandler, Retry, GiveUp
<1>5. ASSUME NEW e \in Messages, ResendEvent(e)
      PROVE  PipelineTypes'
  BY <1>5 DEF ResendEvent, Redeliver
<1>6. ASSUME NEW e \in Messages, ExpireEvent(e)
      PROVE  PipelineTypes'
  BY <1>6 DEF ExpireEvent, Expire
<1>7. ASSUME NEW e \in Messages, NEW c \in Consumers, StartHandler(c, e)
      PROVE  PipelineTypes'
  BY <1>7 DEF StartHandler, Deliver
<1>8. ASSUME NEW c \in Consumers, WorkerCrash(c)
      PROVE  PipelineTypes'
  BY <1>8 DEF WorkerCrash, Crash
<1>9. ASSUME NEW e \in Messages, ReadCache(e)
      PROVE  PipelineTypes'
  BY <1>9 DEF ReadCache, Go, Choose
<1>10. ASSUME NEW e \in Messages, FindOpen(e)
      PROVE  PipelineTypes'
  BY <1>10 DEF FindOpen, OpenIncident, Go, Choose
<1>11. ASSUME NEW e \in Messages, Link(e)
      PROVE  PipelineTypes'
  BY <1>11, KnowsIncident DEF Link, Knowing, Go
<1>12. ASSUME NEW e \in Messages, Count(e)
      PROVE  PipelineTypes'
  BY <1>12, KnowsIncident DEF Count, Knowing, Go
<1>13. ASSUME NEW e \in Messages, Refresh(e, "refresh", "return")
      PROVE  PipelineTypes'
  BY <1>13 DEF Refresh, Go
<1>14. ASSUME NEW e \in Messages, Create(e)
      PROVE  PipelineTypes'
  BY <1>14 DEF Create, NoConflict, WithKey, Rows, Go, Choose
<1>15. ASSUME NEW e \in Messages, Refresh(e, "remember", "notify")
      PROVE  PipelineTypes'
  BY <1>15 DEF Refresh, Go
<1>16. ASSUME NEW e \in Messages, Notify(e)
      PROVE  PipelineTypes'
  BY <1>16 DEF Notify, Go
<1>17. ASSUME NEW e \in Messages, NotifyNext(e)
      PROVE  PipelineTypes'
  BY <1>17 DEF NotifyNext, Go
<1>18. ASSUME NEW i \in Incidents, Resolve(i)
      PROVE  PipelineTypes'
  BY <1>18 DEF Resolve, Rows
<1>19. ASSUME NEW i \in Incidents, EndResolve(i)
      PROVE  PipelineTypes'
  BY <1>19 DEF EndResolve
<1>20. ASSUME NEW i \in Incidents, ClearGet(i)
      PROVE  PipelineTypes'
  BY <1>20 DEF ClearGet
<1>21. ASSUME NEW i \in Incidents, ClearDel(i)
      PROVE  PipelineTypes'
  BY <1>21 DEF ClearDel
<1>22. ASSUME NEW i \in Incidents, Reopen(i)
      PROVE  PipelineTypes'
  BY <1>22 DEF Reopen
<1>23. ASSUME NEW f \in Fingerprints, CacheExpires(f)
      PROVE  PipelineTypes'
  BY <1>23 DEF CacheExpires
<1>24. CASE UNCHANGED vars
  BY <1>24 DEF vars
<1>25. QED
  BY <1>1, <1>2, <1>3, <1>4, <1>5, <1>6, <1>7, <1>8, <1>9, <1>10, <1>11,
     <1>12, <1>13, <1>14, <1>15, <1>16, <1>17, <1>18, <1>19, <1>20, <1>21,
     <1>22, <1>23, <1>24
     DEF Next, ProcessEvent

\* A row keeps its dedupe_key, and no second row gets the same one.
KeysKept ==
  \A r \in Incidents : dedupeKey[r] # NoKey => dedupeKey'[r] = dedupeKey[r]

(* No action changes the dedupe_key of a row or uses it again. *)
LEMMA KeysStep ==
  ASSUME PipelineInv, [Next]_vars
  PROVE  KeysUnique' /\ KeysKept
<1> USE BusAssumption, ProcessingAssumption
    DEF PipelineInv, PipelineTypes, KeysUnique, KeysKept, busVars,
        handlerVars, tableVars, operatorVars, pipelineVars
<1>1. CASE BindQueue
  BY <1>1 DEF BindQueue, Bind
<1>2. ASSUME NEW e \in Messages, IngestEvent(e)
      PROVE  KeysUnique' /\ KeysKept
  BY <1>2 DEF IngestEvent, Publish
<1>3. ASSUME NEW e \in Messages, HandlerReturns(e)
      PROVE  KeysUnique' /\ KeysKept
  BY <1>3 DEF HandlerReturns, StopHandler, Ack
<1>4. ASSUME NEW e \in Messages, HandlerThrows(e)
      PROVE  KeysUnique' /\ KeysKept
  BY <1>4 DEF HandlerThrows, StopHandler, Retry, GiveUp
<1>5. ASSUME NEW e \in Messages, ResendEvent(e)
      PROVE  KeysUnique' /\ KeysKept
  BY <1>5 DEF ResendEvent, Redeliver
<1>6. ASSUME NEW e \in Messages, ExpireEvent(e)
      PROVE  KeysUnique' /\ KeysKept
  BY <1>6 DEF ExpireEvent, Expire
<1>7. ASSUME NEW e \in Messages, NEW c \in Consumers, StartHandler(c, e)
      PROVE  KeysUnique' /\ KeysKept
  BY <1>7 DEF StartHandler, Deliver
<1>8. ASSUME NEW c \in Consumers, WorkerCrash(c)
      PROVE  KeysUnique' /\ KeysKept
  BY <1>8 DEF WorkerCrash, Crash
<1>9. ASSUME NEW e \in Messages, ReadCache(e)
      PROVE  KeysUnique' /\ KeysKept
  BY <1>9 DEF ReadCache, Go, Choose
<1>10. ASSUME NEW e \in Messages, FindOpen(e)
      PROVE  KeysUnique' /\ KeysKept
  BY <1>10 DEF FindOpen, OpenIncident, Go, Choose
<1>11. ASSUME NEW e \in Messages, Link(e)
      PROVE  KeysUnique' /\ KeysKept
  BY <1>11 DEF Link, Go
<1>12. ASSUME NEW e \in Messages, Count(e)
      PROVE  KeysUnique' /\ KeysKept
  BY <1>12 DEF Count, Go
<1>13. ASSUME NEW e \in Messages, Refresh(e, "refresh", "return")
      PROVE  KeysUnique' /\ KeysKept
  BY <1>13 DEF Refresh, Go
<1>14. ASSUME NEW e \in Messages, Create(e)
      PROVE  KeysUnique' /\ KeysKept
  BY <1>14 DEF Create, NoConflict, WithKey, Rows, Go, Choose
<1>15. ASSUME NEW e \in Messages, Refresh(e, "remember", "notify")
      PROVE  KeysUnique' /\ KeysKept
  BY <1>15 DEF Refresh, Go
<1>16. ASSUME NEW e \in Messages, Notify(e)
      PROVE  KeysUnique' /\ KeysKept
  BY <1>16 DEF Notify, Go
<1>17. ASSUME NEW e \in Messages, NotifyNext(e)
      PROVE  KeysUnique' /\ KeysKept
  BY <1>17 DEF NotifyNext, Go
<1>18. ASSUME NEW i \in Incidents, Resolve(i)
      PROVE  KeysUnique' /\ KeysKept
  BY <1>18 DEF Resolve, Rows
<1>19. ASSUME NEW i \in Incidents, EndResolve(i)
      PROVE  KeysUnique' /\ KeysKept
  BY <1>19 DEF EndResolve
<1>20. ASSUME NEW i \in Incidents, ClearGet(i)
      PROVE  KeysUnique' /\ KeysKept
  BY <1>20 DEF ClearGet
<1>21. ASSUME NEW i \in Incidents, ClearDel(i)
      PROVE  KeysUnique' /\ KeysKept
  BY <1>21 DEF ClearDel
<1>22. ASSUME NEW i \in Incidents, Reopen(i)
      PROVE  KeysUnique' /\ KeysKept
  BY <1>22 DEF Reopen
<1>23. ASSUME NEW f \in Fingerprints, CacheExpires(f)
      PROVE  KeysUnique' /\ KeysKept
  BY <1>23 DEF CacheExpires
<1>24. CASE UNCHANGED vars
  BY <1>24 DEF vars
<1>25. QED
  BY <1>1, <1>2, <1>3, <1>4, <1>5, <1>6, <1>7, <1>8, <1>9, <1>10, <1>11,
     <1>12, <1>13, <1>14, <1>15, <1>16, <1>17, <1>18, <1>19, <1>20, <1>21,
     <1>22, <1>23, <1>24
     DEF Next, ProcessEvent

(* Every action keeps the invariant of every event. *)
LEMMA EventInvStep ==
  ASSUME PipelineInv, [Next]_vars, NEW n \in Messages
  PROVE  EventInv(n)'
<1> USE BusAssumption, ProcessingAssumption
    DEF PipelineInv, PipelineTypes, EventInv, CacheInv, KeysKept, Knowing,
        BusInv, BusTypeOK, busVars, handlerVars, tableVars, operatorVars,
        pipelineVars
<1>1. CASE BindQueue
  BY <1>1, KeysStep DEF BindQueue, Bind
<1>2. ASSUME NEW e \in Messages, IngestEvent(e)
      PROVE  EventInv(n)'
  BY <1>2, KeysStep DEF IngestEvent, Publish
<1>3. ASSUME NEW e \in Messages, HandlerReturns(e)
      PROVE  EventInv(n)'
  BY <1>3, KeysStep DEF HandlerReturns, StopHandler, Ack, Settle
<1>4. ASSUME NEW e \in Messages, HandlerThrows(e)
      PROVE  EventInv(n)'
  BY <1>4, KeysStep DEF HandlerThrows, StopHandler, Retry, GiveUp, Settle
<1>5. ASSUME NEW e \in Messages, ResendEvent(e)
      PROVE  EventInv(n)'
  BY <1>5, KeysStep DEF ResendEvent, Redeliver, Settle
<1>6. ASSUME NEW e \in Messages, ExpireEvent(e)
      PROVE  EventInv(n)'
  BY <1>6, KeysStep DEF ExpireEvent, Expire, Settle
<1>7. ASSUME NEW e \in Messages, NEW c \in Consumers, StartHandler(c, e)
      PROVE  EventInv(n)'
  BY <1>7, KeysStep DEF StartHandler, Deliver
<1>8. ASSUME NEW c \in Consumers, WorkerCrash(c)
      PROVE  EventInv(n)'
  BY <1>8, KeysStep DEF WorkerCrash, Crash
<1>9. ASSUME NEW e \in Messages, ReadCache(e)
      PROVE  EventInv(n)'
  BY <1>9, KeysStep DEF ReadCache, Go, Choose
<1>10. ASSUME NEW e \in Messages, FindOpen(e)
      PROVE  EventInv(n)'
  BY <1>10, KeysStep DEF FindOpen, OpenIncident, Go, Choose
<1>11. ASSUME NEW e \in Messages, Link(e)
      PROVE  EventInv(n)'
  BY <1>11, KeysStep DEF Link, Go
<1>12. ASSUME NEW e \in Messages, Count(e)
      PROVE  EventInv(n)'
  BY <1>12, KeysStep DEF Count, Go
<1>13. ASSUME NEW e \in Messages, Refresh(e, "refresh", "return")
      PROVE  EventInv(n)'
  BY <1>13, KeysStep DEF Refresh, Go
<1>14. ASSUME NEW e \in Messages, Create(e)
      PROVE  EventInv(n)'
  BY <1>14, KeysStep DEF Create, NoConflict, WithKey, Rows, Go, Choose
<1>15. ASSUME NEW e \in Messages, Refresh(e, "remember", "notify")
      PROVE  EventInv(n)'
  BY <1>15, KeysStep DEF Refresh, Go
<1>16. ASSUME NEW e \in Messages, Notify(e)
      PROVE  EventInv(n)'
  BY <1>16, KeysStep DEF Notify, Go
<1>17. ASSUME NEW e \in Messages, NotifyNext(e)
      PROVE  EventInv(n)'
  BY <1>17, KeysStep DEF NotifyNext, Go
<1>18. ASSUME NEW i \in Incidents, Resolve(i)
      PROVE  EventInv(n)'
  BY <1>18, KeysStep DEF Resolve, Rows
<1>19. ASSUME NEW i \in Incidents, EndResolve(i)
      PROVE  EventInv(n)'
  BY <1>19, KeysStep DEF EndResolve
<1>20. ASSUME NEW i \in Incidents, ClearGet(i)
      PROVE  EventInv(n)'
  BY <1>20, KeysStep DEF ClearGet
<1>21. ASSUME NEW i \in Incidents, ClearDel(i)
      PROVE  EventInv(n)'
  BY <1>21, KeysStep DEF ClearDel
<1>22. ASSUME NEW i \in Incidents, Reopen(i)
      PROVE  EventInv(n)'
  BY <1>22, KeysStep DEF Reopen
<1>23. ASSUME NEW f \in Fingerprints, CacheExpires(f)
      PROVE  EventInv(n)'
  BY <1>23, KeysStep DEF CacheExpires
<1>24. CASE UNCHANGED vars
  BY <1>24, KeysStep DEF vars
<1>25. QED
  BY <1>1, <1>2, <1>3, <1>4, <1>5, <1>6, <1>7, <1>8, <1>9, <1>10, <1>11,
     <1>12, <1>13, <1>14, <1>15, <1>16, <1>17, <1>18, <1>19, <1>20, <1>21,
     <1>22, <1>23, <1>24
     DEF Next, ProcessEvent

(* Every action keeps the invariant of every cache entry. *)
LEMMA CacheInvStep ==
  ASSUME PipelineInv, [Next]_vars, NEW g \in Fingerprints
  PROVE  CacheInv(g)'
<1> USE BusAssumption, ProcessingAssumption
    DEF PipelineInv, PipelineTypes, EventInv, CacheInv, KeysKept, Knowing,
        busVars, handlerVars, tableVars, operatorVars, pipelineVars
<1>1. CASE BindQueue
  BY <1>1, KeysStep DEF BindQueue, Bind
<1>2. ASSUME NEW e \in Messages, IngestEvent(e)
      PROVE  CacheInv(g)'
  BY <1>2, KeysStep DEF IngestEvent, Publish
<1>3. ASSUME NEW e \in Messages, HandlerReturns(e)
      PROVE  CacheInv(g)'
  BY <1>3, KeysStep DEF HandlerReturns, StopHandler, Ack
<1>4. ASSUME NEW e \in Messages, HandlerThrows(e)
      PROVE  CacheInv(g)'
  BY <1>4, KeysStep DEF HandlerThrows, StopHandler, Retry, GiveUp
<1>5. ASSUME NEW e \in Messages, ResendEvent(e)
      PROVE  CacheInv(g)'
  BY <1>5, KeysStep DEF ResendEvent, Redeliver
<1>6. ASSUME NEW e \in Messages, ExpireEvent(e)
      PROVE  CacheInv(g)'
  BY <1>6, KeysStep DEF ExpireEvent, Expire
<1>7. ASSUME NEW e \in Messages, NEW c \in Consumers, StartHandler(c, e)
      PROVE  CacheInv(g)'
  BY <1>7, KeysStep DEF StartHandler, Deliver
<1>8. ASSUME NEW c \in Consumers, WorkerCrash(c)
      PROVE  CacheInv(g)'
  BY <1>8, KeysStep DEF WorkerCrash, Crash
<1>9. ASSUME NEW e \in Messages, ReadCache(e)
      PROVE  CacheInv(g)'
  BY <1>9, KeysStep DEF ReadCache, Go, Choose
<1>10. ASSUME NEW e \in Messages, FindOpen(e)
      PROVE  CacheInv(g)'
  BY <1>10, KeysStep DEF FindOpen, OpenIncident, Go, Choose
<1>11. ASSUME NEW e \in Messages, Link(e)
      PROVE  CacheInv(g)'
  BY <1>11, KeysStep DEF Link, Go
<1>12. ASSUME NEW e \in Messages, Count(e)
      PROVE  CacheInv(g)'
  BY <1>12, KeysStep DEF Count, Go
<1>13. ASSUME NEW e \in Messages, Refresh(e, "refresh", "return")
      PROVE  CacheInv(g)'
  BY <1>13, KeysStep DEF Refresh, Go
<1>14. ASSUME NEW e \in Messages, Create(e)
      PROVE  CacheInv(g)'
  BY <1>14, KeysStep DEF Create, NoConflict, WithKey, Rows, Go, Choose
<1>15. ASSUME NEW e \in Messages, Refresh(e, "remember", "notify")
      PROVE  CacheInv(g)'
  BY <1>15, KeysStep DEF Refresh, Go
<1>16. ASSUME NEW e \in Messages, Notify(e)
      PROVE  CacheInv(g)'
  BY <1>16, KeysStep DEF Notify, Go
<1>17. ASSUME NEW e \in Messages, NotifyNext(e)
      PROVE  CacheInv(g)'
  BY <1>17, KeysStep DEF NotifyNext, Go
<1>18. ASSUME NEW i \in Incidents, Resolve(i)
      PROVE  CacheInv(g)'
  BY <1>18, KeysStep DEF Resolve, Rows
<1>19. ASSUME NEW i \in Incidents, EndResolve(i)
      PROVE  CacheInv(g)'
  BY <1>19, KeysStep DEF EndResolve
<1>20. ASSUME NEW i \in Incidents, ClearGet(i)
      PROVE  CacheInv(g)'
  BY <1>20, KeysStep DEF ClearGet
<1>21. ASSUME NEW i \in Incidents, ClearDel(i)
      PROVE  CacheInv(g)'
  BY <1>21, KeysStep DEF ClearDel
<1>22. ASSUME NEW i \in Incidents, Reopen(i)
      PROVE  CacheInv(g)'
  BY <1>22, KeysStep DEF Reopen
<1>23. ASSUME NEW f \in Fingerprints, CacheExpires(f)
      PROVE  CacheInv(g)'
  BY <1>23, KeysStep DEF CacheExpires
<1>24. CASE UNCHANGED vars
  BY <1>24, KeysStep DEF vars
<1>25. QED
  BY <1>1, <1>2, <1>3, <1>4, <1>5, <1>6, <1>7, <1>8, <1>9, <1>10, <1>11,
     <1>12, <1>13, <1>14, <1>15, <1>16, <1>17, <1>18, <1>19, <1>20, <1>21,
     <1>22, <1>23, <1>24
     DEF Next, ProcessEvent

(* A step that leaves the tables alone keeps it, if a clearer runs only on *)
(* a row.                                                                  *)
LEMMA RowUntouched ==
  ASSUME NEW r \in Incidents, RowInv(r), UNCHANGED tableVars,
         clearer'[r] # "idle" => dedupeKey[r] # NoKey
  PROVE  RowInv(r)'
BY DEF RowInv, tableVars

(* Every action keeps the invariant of every row. *)
LEMMA RowInvStep ==
  ASSUME PipelineInv, [Next]_vars, NEW r \in Incidents
  PROVE  RowInv(r)'
<1> USE BusAssumption, ProcessingAssumption
    DEF PipelineInv, PipelineTypes, EventInv, RowInv, KeysKept, Knowing,
        busVars, handlerVars, tableVars, operatorVars, pipelineVars
<1>1. CASE BindQueue
  BY <1>1, KeysStep DEF BindQueue, Bind
<1>2. ASSUME NEW e \in Messages, IngestEvent(e)
      PROVE  RowInv(r)'
  BY <1>2, KeysStep DEF IngestEvent, Publish
<1>3. ASSUME NEW e \in Messages, HandlerReturns(e)
      PROVE  RowInv(r)'
  BY <1>3, KeysStep DEF HandlerReturns, StopHandler, Ack
<1>4. ASSUME NEW e \in Messages, HandlerThrows(e)
      PROVE  RowInv(r)'
  BY <1>4, KeysStep DEF HandlerThrows, StopHandler, Retry, GiveUp
<1>5. ASSUME NEW e \in Messages, ResendEvent(e)
      PROVE  RowInv(r)'
  BY <1>5, KeysStep DEF ResendEvent, Redeliver
<1>6. ASSUME NEW e \in Messages, ExpireEvent(e)
      PROVE  RowInv(r)'
  BY <1>6, KeysStep DEF ExpireEvent, Expire
<1>7. ASSUME NEW e \in Messages, NEW c \in Consumers, StartHandler(c, e)
      PROVE  RowInv(r)'
  BY <1>7, KeysStep DEF StartHandler, Deliver
<1>8. ASSUME NEW c \in Consumers, WorkerCrash(c)
      PROVE  RowInv(r)'
  BY <1>8, KeysStep DEF WorkerCrash, Crash
<1>9. ASSUME NEW e \in Messages, ReadCache(e)
      PROVE  RowInv(r)'
  BY <1>9, KeysStep DEF ReadCache, Go, Choose
<1>10. ASSUME NEW e \in Messages, FindOpen(e)
      PROVE  RowInv(r)'
  BY <1>10, KeysStep DEF FindOpen, OpenIncident, Go, Choose
<1>11. ASSUME NEW e \in Messages, Link(e)
      PROVE  RowInv(r)'
  <2>1. target[e] \in Incidents /\ dedupeKey[target[e]] = FingerprintOf[e]
    BY <1>11, KnowsIncident DEF Link
  <2>2. \A i \in Incidents, d \in Messages :
          /\ <<i, d>> \in links => <<i, d>> \in links'
          /\ <<i, d>> \in links' =>
               <<i, d>> \in links \/ (i = target[e] /\ d = e)
    <3>1. CASE <<target[e], e>> \in links
      BY <1>11, <3>1 DEF Link
    <3>2. CASE <<target[e], e>> \notin links
      <4>1. links' = links \cup {<<target[e], e>>}
        BY <1>11, <3>2 DEF Link
      <4>2. QED
        BY ONLY <4>1
    <3>3. QED
      BY <3>1, <3>2
  <2>3. RowInv(r) /\ UNCHANGED <<dedupeKey, eventCount, clearer>>
    BY <1>11 DEF Link
  <2>4. QED
    BY ONLY <2>1, <2>2, <2>3, r \in Incidents DEF RowInv
<1>12. ASSUME NEW e \in Messages, Count(e)
      PROVE  RowInv(r)'
  <2>1. target[e] \in Incidents
    BY <1>12, KnowsIncident DEF Count
  <2>2. eventCount'[r] \in {eventCount[r], eventCount[r] + 1}
    BY <1>12, <2>1 DEF Count
  <2>3. UNCHANGED <<dedupeKey, links, clearer>>
    BY <1>12 DEF Count
  <2>4. RowInv(r) /\ eventCount[r] \in Nat
    OBVIOUS
  <2>5. eventCount[r] > 0 => eventCount'[r] > 0
    BY <2>2, <2>4
  <2>6. QED
    BY ONLY <2>3, <2>4, <2>5 DEF RowInv
<1>13. ASSUME NEW e \in Messages, Refresh(e, "refresh", "return")
      PROVE  RowInv(r)'
  BY <1>13, KeysStep DEF Refresh, Go
<1>14. ASSUME NEW e \in Messages, Create(e)
      PROVE  RowInv(r)'
  <2>1. CASE UNCHANGED <<dedupeKey, links, eventCount>>
    BY <1>14, <2>1 DEF Create
  <2>2. ASSUME NEW i \in Incidents \ Rows,
               dedupeKey' = [dedupeKey EXCEPT ![i] = FingerprintOf[e]],
               links' = links \cup {<<i, e>>},
               eventCount' = [eventCount EXCEPT ![i] = 1],
               UNCHANGED clearer
        PROVE  RowInv(r)'
    <3>1. CASE r = i
      <4>1. \A d \in Messages : <<i, d>> \notin links
        BY <2>2 DEF Rows
      <4>2. <<i, e>> \in links'
        BY <2>2
      <4>3. dedupeKey'[i] = FingerprintOf[e] /\ eventCount'[i] = 1
        BY <2>2
      <4>4. \A d \in Messages : <<i, d>> \in links' => d = e
        BY <2>2, <4>1
      <4>5. QED
        BY <2>2, <3>1, <4>2, <4>3, <4>4
    <3>2. CASE r # i
      <4>1. \A d \in Messages : <<r, d>> \in links' <=> <<r, d>> \in links
        BY <2>2, <3>2
      <4>2. dedupeKey'[r] = dedupeKey[r] /\ eventCount'[r] = eventCount[r]
        BY <2>2, <3>2
      <4>3. QED
        BY <2>2, <4>1, <4>2
    <3>3. QED
      BY <3>1, <3>2
  <2>3. QED
    BY <1>14, <2>1, <2>2 DEF Create
<1>15. ASSUME NEW e \in Messages, Refresh(e, "remember", "notify")
      PROVE  RowInv(r)'
  BY <1>15, KeysStep DEF Refresh, Go
<1>16. ASSUME NEW e \in Messages, Notify(e)
      PROVE  RowInv(r)'
  BY <1>16, KeysStep DEF Notify, Go
<1>17. ASSUME NEW e \in Messages, NotifyNext(e)
      PROVE  RowInv(r)'
  BY <1>17, KeysStep DEF NotifyNext, Go
<1>18. ASSUME NEW i \in Incidents, Resolve(i)
      PROVE  RowInv(r)'
  <2>1. RowInv(r) /\ UNCHANGED tableVars
    BY <1>18 DEF Resolve
  <2>2. clearer'[r] # "idle" => dedupeKey[r] # NoKey
    BY <1>18 DEF Resolve, Rows
  <2>3. QED
    BY ONLY <2>1, <2>2, RowUntouched, r \in Incidents
<1>19. ASSUME NEW i \in Incidents, EndResolve(i)
      PROVE  RowInv(r)'
  <2>1. RowInv(r) /\ UNCHANGED tableVars
    BY <1>19 DEF EndResolve
  <2>2. clearer'[r] # "idle" => dedupeKey[r] # NoKey
    BY <1>19 DEF EndResolve
  <2>3. QED
    BY ONLY <2>1, <2>2, RowUntouched, r \in Incidents
<1>20. ASSUME NEW i \in Incidents, ClearGet(i)
      PROVE  RowInv(r)'
  <2>1. RowInv(r) /\ UNCHANGED tableVars
    BY <1>20 DEF ClearGet
  <2>2. clearer'[r] # "idle" => dedupeKey[r] # NoKey
    BY <1>20 DEF ClearGet
  <2>3. QED
    BY ONLY <2>1, <2>2, RowUntouched, r \in Incidents
<1>21. ASSUME NEW i \in Incidents, ClearDel(i)
      PROVE  RowInv(r)'
  <2>1. RowInv(r) /\ UNCHANGED tableVars
    BY <1>21 DEF ClearDel
  <2>2. clearer'[r] # "idle" => dedupeKey[r] # NoKey
    BY <1>21 DEF ClearDel
  <2>3. QED
    BY ONLY <2>1, <2>2, RowUntouched, r \in Incidents
<1>22. ASSUME NEW i \in Incidents, Reopen(i)
      PROVE  RowInv(r)'
  <2>1. RowInv(r) /\ UNCHANGED tableVars
    BY <1>22 DEF Reopen
  <2>2. clearer'[r] # "idle" => dedupeKey[r] # NoKey
    BY <1>22 DEF Reopen
  <2>3. QED
    BY ONLY <2>1, <2>2, RowUntouched, r \in Incidents
<1>23. ASSUME NEW f \in Fingerprints, CacheExpires(f)
      PROVE  RowInv(r)'
  BY <1>23, KeysStep DEF CacheExpires
<1>24. CASE UNCHANGED vars
  BY <1>24, KeysStep DEF vars
<1>25. QED
  BY <1>1, <1>2, <1>3, <1>4, <1>5, <1>6, <1>7, <1>8, <1>9, <1>10, <1>11,
     <1>12, <1>13, <1>14, <1>15, <1>16, <1>17, <1>18, <1>19, <1>20, <1>21,
     <1>22, <1>23, <1>24
     DEF Next, ProcessEvent

(* PipelineInv is inductive. *)
LEMMA PipelineInvStep == PipelineInv /\ [Next]_vars => PipelineInv'
<1> SUFFICES ASSUME PipelineInv, [Next]_vars PROVE PipelineInv'
  OBVIOUS
<1>1. BusInv' /\ PipelineTypes' /\ KeysUnique'
  BY BusStep, BusInvStep, PipelineTypesStep, KeysStep DEF PipelineInv
<1>2. \A n \in Messages : EventInv(n)'
  BY EventInvStep
<1>3. \A g \in Fingerprints : CacheInv(g)'
  BY CacheInvStep
<1>4. \A r \in Incidents : RowInv(r)'
  BY RowInvStep
<1>5. QED
  BY <1>1, <1>2, <1>3, <1>4 DEF PipelineInv

THEOREM PipelineInvariant == SafetySpec => []PipelineInv
<1>1. Init => PipelineInv
  BY PipelineInitInv
<1>2. PipelineInv /\ [Next]_vars => PipelineInv'
  BY PipelineInvStep
<1>3. QED
  BY <1>1, <1>2, PTL DEF SafetySpec

-----------------------------------------------------------------------------
(* Type correctness of the pipeline, bus included.                         *)
THEOREM PipelineTypeCorrect == SafetySpec => []TypeOK
<1>1. BusTypeOK /\ PipelineInv => TypeOK
  BY DEF PipelineInv, PipelineTypes, TypeOK
<1>2. QED
  BY <1>1, PipelineUsesBus, BusTypeCorrect, PipelineInvariant, PTL

(* However many handlers race to create the incident of a fingerprint,     *)
(* there is one.                                                           *)
THEOREM OneIncident == SafetySpec => []OneIncidentPerFingerprint
<1>1. PipelineInv => OneIncidentPerFingerprint
  BY DEF PipelineInv, KeysUnique, OneIncidentPerFingerprint, Rows
<1>2. QED
  BY <1>1, PipelineInvariant, PTL

(* No stale cache entry and no lost race attaches an event to an incident  *)
(* of another fingerprint.                                                 *)
THEOREM LinksCorrect == SafetySpec => []LinksMatchFingerprint
<1>1. PipelineInv => LinksMatchFingerprint
  BY DEF PipelineInv, RowInv, LinksMatchFingerprint
<1>2. QED
  BY <1>1, PipelineInvariant, PTL

(* The compare-then-delete of clearDedupeCache evicts no other incident's  *)
(* entry.                                                                  *)
THEOREM EvictionsOwn == SafetySpec => []ClearEvictsOwnEntry
<1>1. PipelineInv => ClearEvictsOwnEntry
  <2>1. SUFFICES ASSUME PipelineInv, NEW i \in Incidents, clearer[i] = "del",
                        cache[dedupeKey[i]] # NoIncident
                 PROVE  cache[dedupeKey[i]] = i
    BY DEF ClearEvictsOwnEntry
  <2>2. dedupeKey[i] \in Fingerprints
    BY <2>1 DEF PipelineInv, PipelineTypes, RowInv
  <2>3. /\ cache[dedupeKey[i]] \in Incidents
        /\ dedupeKey[cache[dedupeKey[i]]] = dedupeKey[i]
    BY <2>1, <2>2 DEF PipelineInv, PipelineTypes, CacheInv
  <2>4. QED
    BY <2>1, <2>2, <2>3, ProcessingAssumption DEF PipelineInv, KeysUnique
<1>2. QED
  BY <1>1, PipelineInvariant, PTL

(* An acknowledged event has an incident of its fingerprint with a linked  *)
(* and counted event.                                                      *)
THEOREM ProcessedCovered == SafetySpec => []ProcessedIsCovered
<1>1. BusTypeOK /\ PipelineInv => ProcessedIsCovered
  <2>1. SUFFICES ASSUME BusTypeOK, PipelineInv, NEW e \in processed
                 PROVE  \E i \in WithKey(FingerprintOf[e]) :
                          LinksOf(i) # {} /\ eventCount[i] > 0
    BY DEF ProcessedIsCovered
  <2>2. e \in Messages
    BY <2>1 DEF BusTypeOK
  <2>3. PICK i \in Incidents : dedupeKey[i] = FingerprintOf[e]
    BY <2>1, <2>2 DEF PipelineInv, EventInv
  <2>4. dedupeKey[i] # NoKey
    BY <2>2, <2>3, ProcessingAssumption
  <2>5. QED
    BY <2>1, <2>3, <2>4 DEF PipelineInv, RowInv, WithKey, LinksOf
<1>2. QED
  BY <1>1, PipelineUsesBus, BusTypeCorrect, PipelineInvariant, PTL

-----------------------------------------------------------------------------
(* event_count against incident_events *)

\* No handler has failed or died so far.
Quiet == crashes = 0 /\ \A e \in Messages : attempts[e] = 0

CountInv(i) ==
  LET counted == eventCount[i] + Cardinality(Uncounted(i))
  IN  /\ counted <= Cardinality(LinksOf(i))
      /\ Quiet => counted = Cardinality(LinksOf(i))

LEMMA QuietStep ==
  ASSUME BusTypeOK, [BusNext]_busVars, Quiet'
  PROVE  Quiet
<1> USE DEF Quiet, BusTypeOK
<1>1. ASSUME NEW m \in Messages, Retry(m) \/ GiveUp(m) PROVE FALSE
  BY <1>1 DEF Retry, GiveUp
<1>2. ASSUME NEW c \in Consumers, Crash(c) PROVE FALSE
  BY <1>2 DEF Crash
<1>3. UNCHANGED <<crashes, attempts>>
  BY <1>1, <1>2 DEF BusNext, Bind, Publish, Deliver, Ack, Redeliver, Expire,
                    busVars
<1>4. QED
  BY <1>3

LEMMA CountSets ==
  ASSUME NEW i
  PROVE  /\ IsFiniteSet(Uncounted(i)) /\ Cardinality(Uncounted(i)) \in Nat
         /\ IsFiniteSet(LinksOf(i)) /\ Cardinality(LinksOf(i)) \in Nat
<1>1. Uncounted(i) \subseteq Messages /\ LinksOf(i) \subseteq Messages
  BY DEF Uncounted, LinksOf
<1>2. QED
  BY <1>1, BusAssumption, FS_Subset, FS_CardinalityType

\* What an action that touches neither the links nor the count of r, and
\* starts or ends no counting step, has to show.
LEMMA CountsUntouched ==
  ASSUME NEW r \in Incidents, CountInv(r), BusTypeOK, [BusNext]_busVars,
         Uncounted(r)' = Uncounted(r), LinksOf(r)' = LinksOf(r),
         eventCount'[r] = eventCount[r]
  PROVE  CountInv(r)'
BY QuietStep DEF CountInv

\* A handler that fails or dies takes its counting step with it.
LEMMA CountsAbandoned ==
  ASSUME NEW r \in Incidents, CountInv(r), PipelineTypes, ~Quiet',
         Uncounted(r)' \subseteq Uncounted(r), LinksOf(r)' = LinksOf(r),
         eventCount'[r] = eventCount[r]
  PROVE  CountInv(r)'
<1>1. /\ Cardinality(Uncounted(r)') <= Cardinality(Uncounted(r))
      /\ Cardinality(Uncounted(r)') \in Nat
  BY CountSets, FS_Subset, FS_CardinalityType
<1>2. eventCount[r] \in Nat
  BY DEF PipelineTypes
<1>3. QED
  BY <1>1, <1>2, CountSets DEF CountInv

(* Every action keeps event_count and the links of an incident together.   *)
LEMMA CountInvStep ==
  ASSUME BusTypeOK, PipelineInv, [Next]_vars, NEW r \in Incidents, CountInv(r)
  PROVE  CountInv(r)'
<1> USE DEF PipelineInv, PipelineTypes, Steps, busVars, handlerVars,
        tableVars, operatorVars, pipelineVars
<1>0. [BusNext]_busVars
  BY BusStep
<1> DEFINE Same == /\ Uncounted(r)' = Uncounted(r)
                   /\ LinksOf(r)' = LinksOf(r)
                   /\ eventCount'[r] = eventCount[r]
           Fewer == /\ Uncounted(r)' \subseteq Uncounted(r)
                    /\ LinksOf(r)' = LinksOf(r)
                    /\ eventCount'[r] = eventCount[r]
                    /\ ~Quiet'
<1>1. ASSUME UNCHANGED <<pc, target, links, eventCount>> PROVE Same
  BY <1>1 DEF Uncounted, LinksOf
<1>2. ASSUME NEW e \in Messages, pc[e] # "count",
             NEW step \in Steps \ {"count"}, pc' = [pc EXCEPT ![e] = step],
             \A d \in Messages \ {e} : target'[d] = target[d],
             UNCHANGED <<links, eventCount>>
      PROVE  Same
  BY <1>2 DEF Uncounted, LinksOf
<1>3. ASSUME NEW e \in Messages, HandlerReturns(e) PROVE Same
  BY <1>2, <1>3 DEF HandlerReturns, StopHandler
<1>4. ASSUME NEW e \in Messages, HandlerThrows(e) PROVE Fewer
  <2>1. attempts'[e] # 0
    BY <1>4 DEF HandlerThrows, Retry, GiveUp, BusTypeOK
  <2>2. QED
    BY <1>4, <2>1 DEF HandlerThrows, StopHandler, Uncounted, LinksOf, Quiet
<1>5. ASSUME NEW c \in Consumers, WorkerCrash(c) PROVE Fewer
  <2>1. crashes' # 0
    BY <1>5 DEF WorkerCrash, Crash, BusTypeOK
  <2>2. QED
    BY <1>5, <2>1 DEF WorkerCrash, Uncounted, LinksOf, Quiet
<1>6. ASSUME NEW e \in Messages, NEW c \in Consumers, StartHandler(c, e)
      PROVE  Same
  <2>1. pc[e] = "idle"
    BY <1>6 DEF StartHandler, Deliver, EventInv
  <2>2. QED
    BY <1>2, <1>6, <2>1 DEF StartHandler
<1>7. ASSUME NEW e \in Messages,
             ReadCache(e) \/ FindOpen(e) \/ Refresh(e, "refresh", "return")
               \/ Refresh(e, "remember", "notify") \/ Notify(e)
               \/ NotifyNext(e)
      PROVE  Same
  BY <1>2, <1>7 DEF ReadCache, FindOpen, Refresh, Notify, NotifyNext, Go, Choose
<1>8. ASSUME NEW e \in Messages, Link(e) PROVE CountInv(r)'
  <2>1. CASE <<target[e], e>> \in links
    BY <1>0, <1>2, <1>8, <2>1, CountsUntouched DEF Link, Go
  <2>2. CASE <<target[e], e>> \notin links /\ target[e] # r
    <3>1. Same
      BY <1>8, <2>2 DEF Link, Go, Uncounted, LinksOf
    <3>2. QED
      BY <1>0, <3>1, CountsUntouched
  <2>3. CASE <<target[e], e>> \notin links /\ target[e] = r
    <3>1. Uncounted(r)' = Uncounted(r) \cup {e} /\ e \notin Uncounted(r)
      BY <1>8, <2>3 DEF Link, Go, Uncounted
    <3>2. LinksOf(r)' = LinksOf(r) \cup {e} /\ e \notin LinksOf(r)
      BY <1>8, <2>3 DEF Link, LinksOf
    <3>3. /\ Cardinality(Uncounted(r))' = Cardinality(Uncounted(r)) + 1
          /\ Cardinality(LinksOf(r))' = Cardinality(LinksOf(r)) + 1
      BY <3>1, <3>2, CountSets, FS_AddElement
    <3>4. eventCount' = eventCount /\ eventCount[r] \in Nat /\ (Quiet' => Quiet)
      BY <1>0, <1>8, QuietStep DEF Link
    <3>5. QED
      BY <3>3, <3>4, CountSets DEF CountInv
  <2>4. QED
    BY <2>1, <2>2, <2>3
<1>9. ASSUME NEW e \in Messages, Count(e) PROVE CountInv(r)'
  <2>1. CASE target[e] # r
    <3>1. Same
      BY <1>9, <2>1 DEF Count, Go, Uncounted, LinksOf
    <3>2. QED
      BY <1>0, <3>1, CountsUntouched
  <2>2. CASE target[e] = r
    <3>1. Uncounted(r)' = Uncounted(r) \ {e} /\ e \in Uncounted(r)
      BY <1>9, <2>2 DEF Count, Go, Uncounted
    <3>2. Cardinality(Uncounted(r))' = Cardinality(Uncounted(r)) - 1
      BY <3>1, CountSets, FS_RemoveElement
    <3>3. /\ LinksOf(r)' = LinksOf(r)
          /\ eventCount'[r] = eventCount[r] + 1 /\ eventCount[r] \in Nat
          /\ Quiet' => Quiet
      BY <1>0, <1>9, <2>2, QuietStep DEF Count, LinksOf
    <3>4. QED
      BY <3>2, <3>3, CountSets DEF CountInv
  <2>3. QED
    BY <2>1, <2>2
<1>10. ASSUME NEW e \in Messages, Create(e) PROVE CountInv(r)'
  <2>1. Uncounted(r)' = Uncounted(r)
    BY <1>10 DEF Create, Go, Choose, Uncounted
  <2>2. CASE UNCHANGED <<links, eventCount>>
    BY <1>0, <2>1, <2>2, CountsUntouched DEF LinksOf
  <2>3. ASSUME NEW i \in Incidents \ Rows,
               links' = links \cup {<<i, e>>},
               eventCount' = [eventCount EXCEPT ![i] = 1]
        PROVE  CountInv(r)'
    <3>1. CASE r # i
      BY <1>0, <2>1, <2>3, <3>1, CountsUntouched DEF LinksOf
    <3>2. CASE r = i
      <4>1. Uncounted(r) = {}
        BY <3>2, ProcessingAssumption DEF EventInv, Uncounted, Rows
      <4>2. \A d \in Messages : <<r, d>> \notin links
        BY <3>2, ProcessingAssumption DEF RowInv, Rows
      <4>3. LinksOf(r)' = {e}
        BY <2>3, <3>2, <4>2 DEF LinksOf
      <4>4. Cardinality(Uncounted(r))' = 0 /\ Cardinality(LinksOf(r))' = 1
        BY <2>1, <4>1, <4>3, FS_EmptySet, FS_Singleton
      <4>5. eventCount'[r] = 1
        BY <2>3, <3>2
      <4>6. QED
        BY <4>4, <4>5 DEF CountInv
    <3>3. QED
      BY <3>1, <3>2
  <2>4. QED
    BY <1>10, <2>2, <2>3 DEF Create
<1>11. ASSUME NEW e \in Messages, IngestEvent(e) \/ ResendEvent(e) \/ ExpireEvent(e)
       PROVE  UNCHANGED <<pc, target, links, eventCount>>
  BY <1>11 DEF IngestEvent, ResendEvent, ExpireEvent
<1>12. ASSUME NEW i \in Incidents,
              Resolve(i) \/ EndResolve(i) \/ ClearGet(i) \/ ClearDel(i)
                \/ Reopen(i)
       PROVE  UNCHANGED <<pc, target, links, eventCount>>
  BY <1>12 DEF Resolve, EndResolve, ClearGet, ClearDel, Reopen
<1>13. ASSUME NEW f \in Fingerprints, CacheExpires(f)
       PROVE  UNCHANGED <<pc, target, links, eventCount>>
  BY <1>13 DEF CacheExpires
<1>14. CASE BindQueue \/ UNCHANGED vars
  BY <1>0, <1>1, <1>14, CountsUntouched DEF BindQueue, vars
<1>15. Same \/ Fewer \/ CountInv(r)'
  BY <1>1, <1>3, <1>4, <1>5, <1>6, <1>7, <1>8, <1>9, <1>10, <1>11, <1>12,
     <1>13, <1>14 DEF Next, ProcessEvent
<1>16. QED
  BY <1>0, <1>15, CountsUntouched, CountsAbandoned

(* event_count is never ahead of the linked events and the handlers between *)
(* the two statements of linkEvent; without a failure it is not behind.    *)
THEOREM CountsFollowLinks == SafetySpec => []CountFollowsLinks
<1> DEFINE Counts == \A i \in Incidents : CountInv(i)
<1>1. Init => Counts
  <2>1. SUFFICES ASSUME Init, NEW i \in Incidents PROVE CountInv(i)
    OBVIOUS
  <2>2. Uncounted(i) = {} /\ LinksOf(i) = {} /\ eventCount[i] = 0
    BY <2>1 DEF Init, Uncounted, LinksOf
  <2>3. QED
    BY <2>2, FS_EmptySet DEF CountInv
<1>2. BusTypeOK /\ PipelineInv /\ Counts /\ [Next]_vars => Counts'
  BY CountInvStep
<1>3. Counts => CountFollowsLinks
  BY DEF CountInv, Quiet, CountFollowsLinks
<1>4. QED
  BY <1>1, <1>2, <1>3, PipelineUsesBus, BusTypeCorrect, PipelineInvariant, PTL
     DEF SafetySpec
=============================================================================
