--------------------------- MODULE MemoryEventBus ---------------------------
(***************************************************************************)
(* packages/infra/src/eventbus.ts, class MemoryEventBus: the transport of  *)
(* development and CI. Every consume() registers a consumer and starts a   *)
(* tick loop; every loop serves the consumers of all loops, one after the  *)
(* other, and awaits each handler, so the loops of one bus interleave.     *)
(*                                                                         *)
(* Time is abstracted: a message whose retryAt lies ahead is asleep until  *)
(* it wakes. A tick reads the clock once; a message that ripens later in   *)
(* the tick is one that wakes after it. The order inside a pending list is *)
(* left open.                                                              *)
(***************************************************************************)
EXTENDS Naturals, Sequences, FiniteSets

CONSTANTS
  Messages,    \* the messages a run publishes
  Consumers,   \* the consume() calls; each also names its tick loop
  SubjectOf,   \* the subject of each message and each consumer
  Nothing,     \* a loop that awaits no handler
  MaxRetries   \* ConsumeOptions.maxRetries

ASSUME MemoryAssumption ==
  /\ IsFiniteSet(Messages)
  /\ Nothing \notin Messages
  /\ MaxRetries \in Nat /\ MaxRetries >= 2
  /\ DOMAIN SubjectOf = Messages \cup Consumers

VARIABLES
  registered,  \* this.consumers
  rrCounter,   \* messages routed so far
  sent,        \* messages published
  pending,     \* consumer.pending of each consumer
  asleep,      \* messages whose retryAt has not come
  visiting,    \* the consumer a tick is at; 0 between ticks
  due,         \* the due list of each tick
  running,     \* the message whose handler a tick awaits
  attempts,    \* PendingMessage.attempts
  processed,   \* messages whose handler returned
  deadLetters  \* this.deadLetters

routeVars == <<registered, rrCounter, sent>>
memVars == <<routeVars, pending, asleep, visiting, due, running, attempts,
             processed, deadLetters>>

MemInit ==
  /\ registered = <<>>
  /\ rrCounter = 0
  /\ sent = {}
  /\ pending = [c \in Consumers |-> {}]
  /\ asleep = {}
  /\ visiting = [c \in Consumers |-> 0]
  /\ due = [c \in Consumers |-> {}]
  /\ running = [c \in Consumers |-> Nothing]
  /\ attempts = [m \in Messages |-> 0]
  /\ processed = {}
  /\ deadLetters = {}

-----------------------------------------------------------------------------
Registered == {registered[k] : k \in DOMAIN registered}

\* consume(): the loop of a new consumer starts behind a timer.
Consume(c) ==
  /\ c \notin Registered
  /\ registered' = Append(registered, c)
  /\ UNCHANGED <<rrCounter, sent, pending, asleep, visiting, due, running,
                 attempts, processed, deadLetters>>

\* this.consumers.filter((c) => c.subject === subject), as positions.
Group(m) == {k \in DOMAIN registered : SubjectOf[registered[k]] = SubjectOf[m]}

\* group[rrCounter % group.length]
IsTarget(k, m) ==
  Cardinality({j \in Group(m) : j < k}) = rrCounter % Cardinality(Group(m))

\* publish(): to the next consumer of the subject; without one it is dropped.
\* rrCounter is shared by the subjects.
Publish(m) ==
  /\ m \notin sent
  /\ sent' = sent \cup {m}
  /\ \/ Group(m) = {} /\ UNCHANGED <<rrCounter, pending>>
     \/ \E k \in Group(m) :
          /\ IsTarget(k, m)
          /\ rrCounter' = rrCounter + 1
          /\ pending' = [pending EXCEPT ![registered[k]] = @ \cup {m}]
  /\ UNCHANGED <<registered, asleep, visiting, due, running, attempts,
                 processed, deadLetters>>

\* The clock reaches retryAt.
Wake(m) ==
  /\ m \in asleep
  /\ asleep' = asleep \ {m}
  /\ UNCHANGED <<routeVars, pending, visiting, due, running, attempts,
                 processed, deadLetters>>

\* Between two ticks, and between two consumers of a tick, nothing is due.
Free(t) == due[t] = {} /\ running[t] = Nothing

StartTick(t) ==
  /\ t \in Registered
  /\ visiting[t] = 0
  /\ visiting' = [visiting EXCEPT ![t] = 1]
  /\ UNCHANGED <<routeVars, pending, asleep, due, running, attempts,
                 processed, deadLetters>>

\* Mutation: what is due stays in the pending list until it is handled.
VisitLeavesPending(t) ==
  /\ visiting[t] \in DOMAIN registered
  /\ Free(t)
  /\ due' = [due EXCEPT ![t] = pending[registered[visiting[t]]] \ asleep]
  /\ visiting' = [visiting EXCEPT ![t] = @ + 1]
  /\ UNCHANGED <<routeVars, pending, asleep, running, attempts, processed,
                 deadLetters>>

\* The tick takes what is due at the next consumer: both filters run in one
\* turn of the event loop.
Visit(t) ==
  /\ visiting[t] \in DOMAIN registered
  /\ Free(t)
  /\ LET c == registered[visiting[t]]
     IN  /\ due' = [due EXCEPT ![t] = pending[c] \ asleep]
         /\ pending' = [pending EXCEPT ![c] = @ \cap asleep]
  /\ visiting' = [visiting EXCEPT ![t] = @ + 1]
  /\ UNCHANGED <<routeVars, asleep, running, attempts, processed, deadLetters>>

\* The tick went past the last consumer: the next one is a timer away.
EndTick(t) ==
  /\ visiting[t] > Len(registered)
  /\ Free(t)
  /\ visiting' = [visiting EXCEPT ![t] = 0]
  /\ UNCHANGED <<routeVars, pending, asleep, due, running, attempts,
                 processed, deadLetters>>

Handle(t, m) ==
  /\ m \in due[t]
  /\ running[t] = Nothing
  /\ running' = [running EXCEPT ![t] = m]
  /\ due' = [due EXCEPT ![t] = @ \ {m}]
  /\ UNCHANGED <<routeVars, pending, asleep, visiting, attempts, processed,
                 deadLetters>>

HandlerReturns(t) ==
  /\ running[t] # Nothing
  /\ running' = [running EXCEPT ![t] = Nothing]
  /\ processed' = processed \cup {running[t]}
  /\ UNCHANGED <<routeVars, pending, asleep, visiting, due, attempts,
                 deadLetters>>

\* Mutation: the limit is compared before the failed attempt is counted.
LastAttemptLate(m) == attempts[m] >= MaxRetries

LastAttempt(m) == attempts[m] + 1 >= MaxRetries

\* Mutation: a failed message is retried whatever its attempts.
RetriedForEver(t) ==
  /\ running[t] # Nothing
  /\ running' = [running EXCEPT ![t] = Nothing]
  /\ pending' = [pending EXCEPT
                   ![registered[visiting[t] - 1]] = @ \cup {running[t]}]
  /\ UNCHANGED <<routeVars, asleep, visiting, due, attempts, processed,
                 deadLetters>>

\* The handler threw: back to the pending list of its consumer until
\* retryAt, which a slow tick may already have passed, or dead.
HandlerThrows(t) ==
  LET m == running[t]
      c == registered[visiting[t] - 1]
  IN  /\ m # Nothing
      /\ running' = [running EXCEPT ![t] = Nothing]
      /\ attempts' = [attempts EXCEPT ![m] = @ + 1]
      /\ \/ /\ LastAttempt(m)
            /\ deadLetters' = deadLetters \cup {m}
            /\ UNCHANGED <<pending, asleep>>
         \/ /\ ~LastAttempt(m)
            /\ pending' = [pending EXCEPT ![c] = @ \cup {m}]
            /\ asleep' \in {asleep, asleep \cup {m}}
            /\ UNCHANGED deadLetters
      /\ UNCHANGED <<routeVars, visiting, due, processed>>

Serve(t) ==
  \/ StartTick(t) \/ Visit(t) \/ EndTick(t)
  \/ \E m \in Messages : Handle(t, m)
  \/ HandlerReturns(t) \/ HandlerThrows(t)

MemNext ==
  \/ \E c \in Consumers : Consume(c) \/ Serve(c)
  \/ \E m \in Messages : Publish(m) \/ Wake(m)

(* Timers fire, and the handler a tick awaits returns or throws.           *)
MemFairness ==
  /\ \A t \in Consumers : WF_memVars(Serve(t))
  /\ \A m \in Messages : WF_memVars(Wake(m))

MemSafetySpec == MemInit /\ [][MemNext]_memVars
MemSpec == MemSafetySpec /\ MemFairness

-----------------------------------------------------------------------------
TypeOK ==
  /\ registered \in Seq(Consumers)
  /\ rrCounter \in Nat
  /\ sent \subseteq Messages
  /\ pending \in [Consumers -> SUBSET Messages]
  /\ asleep \subseteq Messages
  /\ visiting \in [Consumers -> Nat]
  /\ due \in [Consumers -> SUBSET Messages]
  /\ running \in [Consumers -> Messages \cup {Nothing}]
  /\ attempts \in [Messages -> Nat]
  /\ processed \subseteq Messages
  /\ deadLetters \subseteq Messages

InQueue(m) ==
  \E c \in Consumers : m \in pending[c] \cup due[c] \cup {running[c]}

Holders(m) ==
  {<<"pending", c>> : c \in {k \in Consumers : m \in pending[k]}}
    \cup {<<"due", c>> : c \in {k \in Consumers : m \in due[k]}}
    \cup {<<"running", c>> : c \in {k \in Consumers : running[k] = m}}
    \cup (IF m \in processed THEN {<<"processed">>} ELSE {})
    \cup (IF m \in deadLetters THEN {<<"dead">>} ELSE {})

(* However the loops interleave around their awaits, a message is in one   *)
(* place: no two loops take it, none forgets it, and it is not retried     *)
(* once it was handled or parked.                                          *)
InOnePlace ==
  \A m \in Messages :
    /\ Cardinality(Holders(m)) <= 1
    /\ Holders(m) # {} => m \in sent

(* Every message a consumer was found for is handled or parked, whichever  *)
(* loop serves its consumer.                                               *)
EventuallyHandled ==
  \A m \in Messages : InQueue(m) ~> m \in processed \cup deadLetters

-----------------------------------------------------------------------------
(* The refinement: the same promise RabbitEventBus makes.                  *)
ContractStatus(m) ==
  IF m \in processed THEN "processed"
  ELSE IF m \in deadLetters THEN "parked"
  ELSE IF InQueue(m) THEN "live"
  ELSE "absent"

Contract == INSTANCE DeliveryContract WITH
  status <- [m \in Messages |-> ContractStatus(m)],
  tries <- attempts

(* eventbus.ts:25 "The consumer contract (retry/dead-letter) is identical, *)
(* so worker code is transport-agnostic".                                  *)
MemImplementsContract == Contract!ContractSpec
=============================================================================
