-------------------------- MODULE DeliveryContract --------------------------
(***************************************************************************)
(* What an event bus promises its consumers, whatever transport carries    *)
(* the messages: a message that entered the queue stays live until its     *)
(* handler succeeds or the bus parks it in a dead-letter queue; a handler  *)
(* is attempted at most MaxRetries times; what is settled stays settled.   *)
(* RabbitEventBus and MemoryEventBus are shown to implement it.            *)
(***************************************************************************)
EXTENDS Naturals

CONSTANTS Messages, MaxRetries

VARIABLES
  status,   \* where the message stands with its consumer
  tries     \* how many times a handler has failed on it

contractVars == <<status, tries>>

Statuses == {"absent", "live", "processed", "parked"}

ContractInit ==
  /\ status = [m \in Messages |-> "absent"]
  /\ tries = [m \in Messages |-> 0]

Enter(m) ==
  /\ status[m] = "absent"
  /\ status' = [status EXCEPT ![m] = "live"]
  /\ UNCHANGED tries

Process(m) ==
  /\ status[m] = "live"
  /\ status' = [status EXCEPT ![m] = "processed"]
  /\ UNCHANGED tries

\* A failed attempt: the message stays live while attempts are left.
Attempt(m) ==
  /\ status[m] = "live"
  /\ tries[m] < MaxRetries
  /\ tries' = [tries EXCEPT ![m] = @ + 1]
  /\ status' \in {status, [status EXCEPT ![m] = "parked"]}

\* The transport gave up on redelivering (an expired copy, a lost timer).
Park(S) ==
  /\ \A m \in S : status[m] = "live"
  /\ status' = [m \in Messages |-> IF m \in S THEN "parked" ELSE status[m]]
  /\ UNCHANGED tries

ContractNext ==
  \/ \E m \in Messages : Enter(m) \/ Process(m) \/ Attempt(m)
  \/ \E S \in SUBSET Messages : Park(S)

ContractSpec == ContractInit /\ [][ContractNext]_contractVars

=============================================================================
