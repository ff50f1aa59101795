--------------------------- MODULE RabbitEventBus ---------------------------
(***************************************************************************)
(* packages/infra/src/eventbus.ts, class RabbitEventBus: one durable queue *)
(* with a dead-letter queue, competing consumer processes, retry with      *)
(* backoff. The broker itself (amqplib, RabbitMQ) is modelled from how the *)
(* class uses it: a message is ready, unacknowledged at one consumer       *)
(* ("held"), or gone; nack without requeue dead-letters a copy; the        *)
(* unacknowledged messages of a consumer that dies become ready again.     *)
(*                                                                         *)
(* A handler is any process that eventually succeeds or throws; the module *)
(* EventProcessing replaces it by the worker's real handler.               *)
(***************************************************************************)
EXTENDS Naturals, FiniteSets

CONSTANTS
  Messages,    \* the messages a run publishes
  Consumers,   \* worker processes consuming the queue
  Nobody,      \* "no consumer"
  MaxRetries,  \* ConsumeOptions.maxRetries (3 in apps/worker/src/index.ts)
  Prefetch,    \* channel.prefetch
  MaxCrashes   \* bound on process crashes in a run

ASSUME BusAssumption ==
  /\ IsFiniteSet(Messages)
  /\ Nobody \notin Consumers
  /\ MaxRetries \in Nat /\ MaxRetries >= 2
  /\ Prefetch \in Nat \ {0}
  /\ MaxCrashes \in Nat

VARIABLES
  bound,        \* the queue is bound to the exchange (it is durable)
  place,        \* where the live copy of a message is
  holder,       \* the process that holds it unacknowledged or in a timer
  attempts,     \* PublishedMessage.attempts of the live copy
  expiring,     \* messages whose live copy carries a per-message TTL
  processed,    \* messages whose handler returned and was acknowledged
  deadLetters,  \* number of copies of a message in <queue>.dlq
  crashes

busVars == <<bound, place, holder, attempts, expiring, processed,
             deadLetters, crashes>>

Places == {"unsent", "dropped", "ready", "held", "timer", "gone"}

BusInit ==
  /\ bound = FALSE
  /\ place = [m \in Messages |-> "unsent"]
  /\ holder = [m \in Messages |-> Nobody]
  /\ attempts = [m \in Messages |-> 0]
  /\ expiring = {}
  /\ processed = {}
  /\ deadLetters = [m \in Messages |-> 0]
  /\ crashes = 0

-----------------------------------------------------------------------------
Held(c) == {m \in Messages : place[m] = "held" /\ holder[m] = c}

Settle(m) ==
  /\ place' = [place EXCEPT ![m] = "gone"]
  /\ holder' = [holder EXCEPT ![m] = Nobody]

\* consume(): the queue and its DLQ are asserted, then bound to the subject.
Bind ==
  /\ ~bound
  /\ bound' = TRUE
  /\ UNCHANGED <<place, holder, attempts, expiring, processed, deadLetters,
                 crashes>>

\* publish(): to the exchange. With no queue bound the broker drops it.
Publish(m) ==
  /\ place[m] = "unsent"
  /\ place' = [place EXCEPT ![m] = IF bound THEN "ready" ELSE "dropped"]
  /\ UNCHANGED <<bound, holder, attempts, expiring, processed, deadLetters,
                 crashes>>

\* The broker hands a ready message to a consumer below its prefetch limit.
Deliver(c, m) ==
  /\ place[m] = "ready"
  /\ Cardinality(Held(c)) < Prefetch
  /\ place' = [place EXCEPT ![m] = "held"]
  /\ holder' = [holder EXCEPT ![m] = c]
  /\ UNCHANGED <<bound, attempts, expiring, processed, deadLetters, crashes>>

\* The handler returned: ack.
Ack(m) ==
  /\ place[m] = "held"
  /\ Settle(m)
  /\ processed' = processed \cup {m}
  /\ UNCHANGED <<bound, attempts, expiring, deadLetters, crashes>>

\* Mutation: the limit is compared before the failed attempt is counted.
LastAttemptLate(m) == attempts[m] >= MaxRetries

\* attempts, with the failed one, reached maxRetries.
LastAttempt(m) == attempts[m] + 1 >= MaxRetries

\* Mutation: a queue declared without its dead-letter exchange.
RetryWithoutCopy(m) ==
  /\ place[m] = "held"
  /\ ~LastAttempt(m)
  /\ attempts' = [attempts EXCEPT ![m] = @ + 1]
  /\ place' = [place EXCEPT ![m] = "timer"]
  /\ UNCHANGED <<bound, holder, expiring, processed, deadLetters, crashes>>

\* Mutation: nack with requeue.
RetryRequeues(m) ==
  /\ place[m] = "held"
  /\ place' = [place EXCEPT ![m] = "ready"]
  /\ holder' = [holder EXCEPT ![m] = Nobody]
  /\ UNCHANGED <<bound, attempts, expiring, processed, deadLetters, crashes>>

\* The handler threw and attempts are left: nack without requeue, which
\* dead-letters a copy, and an in-process timer that will send the copy
\* with attempts + 1.
Retry(m) ==
  /\ place[m] = "held"
  /\ ~LastAttempt(m)
  /\ attempts' = [attempts EXCEPT ![m] = @ + 1]
  /\ place' = [place EXCEPT ![m] = "timer"]
  /\ deadLetters' = [deadLetters EXCEPT ![m] = @ + 1]
  /\ UNCHANGED <<bound, holder, expiring, processed, crashes>>

\* The handler threw for the last time: ack, then write the DLQ copy; a
\* failure of that write is swallowed.
GiveUp(m) ==
  /\ place[m] = "held"
  /\ LastAttempt(m)
  /\ attempts' = [attempts EXCEPT ![m] = @ + 1]
  /\ Settle(m)
  /\ \E written \in {0, 1} :
       deadLetters' = [deadLetters EXCEPT ![m] = @ + written]
  /\ UNCHANGED <<bound, expiring, processed, crashes>>

\* The timer fires: scheduleRedelivery sends the copy with a TTL; when the
\* channel cannot be had the error is swallowed and nothing is sent.
Redeliver(m) ==
  /\ place[m] = "timer"
  /\ \/ /\ place' = [place EXCEPT ![m] = "ready"]
        /\ holder' = [holder EXCEPT ![m] = Nobody]
        /\ expiring' = expiring \cup {m}
     \/ /\ Settle(m)
        /\ UNCHANGED expiring
  /\ UNCHANGED <<bound, attempts, processed, deadLetters, crashes>>

\* A redelivered copy not consumed within its TTL is dead-lettered.
Expire(m) ==
  /\ place[m] = "ready"
  /\ m \in expiring
  /\ Settle(m)
  /\ deadLetters' = [deadLetters EXCEPT ![m] = @ + 1]
  /\ UNCHANGED <<bound, attempts, expiring, processed, crashes>>

\* A consumer process dies: what it held unacknowledged is ready again, the
\* timers in its memory are gone.
Crash(c) ==
  /\ crashes < MaxCrashes
  /\ crashes' = crashes + 1
  /\ place' = [m \in Messages |->
                 IF holder[m] # c THEN place[m]
                 ELSE IF place[m] = "held" THEN "ready" ELSE "gone"]
  /\ holder' = [m \in Messages |-> IF holder[m] = c THEN Nobody ELSE holder[m]]
  /\ UNCHANGED <<bound, attempts, expiring, processed, deadLetters>>

BusNext ==
  \/ Bind
  \/ \E m \in Messages :
       \/ Publish(m) \/ Ack(m) \/ Retry(m) \/ GiveUp(m)
       \/ Redeliver(m) \/ Expire(m)
       \/ \E c \in Consumers : Deliver(c, m)
  \/ \E c \in Consumers : Crash(c)

(* The broker delivers, handlers return or throw, timers fire. Publishing, *)
(* expiry and crashes owe nothing.                                         *)
BusFairness ==
  \A m \in Messages :
    /\ WF_busVars(\E c \in Consumers : Deliver(c, m))
    /\ WF_busVars(Ack(m) \/ Retry(m) \/ GiveUp(m))
    /\ WF_busVars(Redeliver(m))

BusSafetySpec == BusInit /\ [][BusNext]_busVars
BusSpec == BusSafetySpec /\ BusFairness

-----------------------------------------------------------------------------
InQueue(m) == place[m] \in {"ready", "held", "timer"}

(* The types, and who can hold a message: a process exactly while it has   *)
(* it unacknowledged or waits to resend it.                                *)
BusTypeOK ==
  /\ bound \in BOOLEAN
  /\ place \in [Messages -> Places]
  /\ holder \in [Messages -> Consumers \cup {Nobody}]
  /\ attempts \in [Messages -> 0..MaxRetries]
  /\ expiring \in SUBSET Messages
  /\ processed \in SUBSET Messages
  /\ deadLetters \in [Messages -> Nat]
  /\ crashes \in 0..MaxCrashes
  /\ \A m \in Messages : holder[m] # Nobody <=> place[m] \in {"held", "timer"}

(* A message that left the queue was processed or has a copy in the DLQ:   *)
(* neither a crash during the backoff, nor a failed resend, nor a lost DLQ *)
(* write loses it. It rests on nack writing a DLQ copy on every attempt.   *)
NoMessageLost ==
  \A m \in Messages :
    place[m] = "gone" => m \in processed \/ deadLetters[m] > 0

(* Every failed attempt leaves exactly one copy in the DLQ, even when a    *)
(* later attempt succeeds: an operator replaying the DLQ meets up to       *)
(* MaxRetries copies of one message. Only the copy of the last attempt can *)
(* be lost, and only an expired resend adds one that no failure accounts   *)
(* for.                                                                    *)
OneDeadLetterPerFailure ==
  \A m \in Messages :
    /\ InQueue(m) \/ m \in processed => deadLetters[m] = attempts[m]
    /\ place[m] = "gone" =>
         /\ deadLetters[m] + 1 >= attempts[m]
         /\ deadLetters[m] <= MaxRetries

(* Every message that reached the queue leaves it, by ack or by DLQ.       *)
EventuallySettled ==
  \A m \in Messages : InQueue(m) ~> place[m] = "gone"

-----------------------------------------------------------------------------
(* The refinement: what a consumer sees of this bus.                       *)
ContractStatus(m) ==
  IF place[m] \in {"unsent", "dropped"} THEN "absent"
  ELSE IF InQueue(m) THEN "live"
  ELSE IF m \in processed THEN "processed"
  ELSE IF deadLetters[m] > 0 THEN "parked"
  ELSE "lost"

Contract == INSTANCE DeliveryContract WITH
  status <- [m \in Messages |-> ContractStatus(m)],
  tries <- attempts

(* The bus implements the delivery contract: at most MaxRetries attempts,  *)
(* no message leaves the queue unprocessed without being parked, and what  *)
(* is settled stays settled.                                               *)
ImplementsContract == Contract!ContractSpec
=============================================================================

