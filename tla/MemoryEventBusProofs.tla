------------------------ MODULE MemoryEventBusProofs ------------------------
(***************************************************************************)
(* The in-memory bus keeps every message in one place and implements the   *)
(* delivery contract, for any number of messages, consumers and subjects,  *)
(* and any limit of at least two attempts.                                 *)
(***************************************************************************)
EXTENDS MemoryEventBus, FiniteSetTheorems, TLAPS

(* A loop that still has to serve what it took is one past the consumer it *)
(* took it from: that consumer is where a failed message goes back to.     *)
LoopInv ==
  \A t \in Consumers : ~Free(t) => visiting[t] - 1 \in DOMAIN registered

\* A message is pending, due or running once, and never in two of them.
Apart(m) ==
  \A c, d \in Consumers :
    /\ m \in pending[c] /\ m \in pending[d] => c = d
    /\ m \in due[c] /\ m \in due[d] => c = d
    /\ running[c] = m /\ running[d] = m => c = d
    /\ m \in pending[c] => m \notin due[d]
    /\ m \in pending[c] => running[d] # m
    /\ m \in due[c] => running[d] # m

\* What it was there for is not settled yet, and an attempt is left.
Unsettled(m) ==
  /\ InQueue(m) => m \in sent \ (processed \cup deadLetters)
  /\ m \in processed => m \in sent \ deadLetters
  /\ m \in deadLetters => m \in sent
  /\ m \notin deadLetters => attempts[m] < MaxRetries

MemInv == TypeOK /\ LoopInv /\ \A m \in Messages : Apart(m) /\ Unsettled(m)

LEMMA MemInitInv == MemInit => MemInv
<1> SUFFICES ASSUME MemInit PROVE MemInv
  OBVIOUS
<1> USE MemoryAssumption DEF MemInit
<1>1. TypeOK
  BY DEF TypeOK
<1>2. LoopInv
  BY DEF LoopInv, Free
<1>3. \A m \in Messages : Apart(m) /\ Unsettled(m)
  BY DEF Apart, Unsettled, InQueue
<1>4. QED
  BY <1>1, <1>2, <1>3 DEF MemInv

-----------------------------------------------------------------------------
(* The types, and the loops *)

\* The consumer a failed message goes back to.
Home(t) == registered[visiting[t] - 1]

LEMMA HomeIsConsumer ==
  ASSUME MemInv, NEW t \in Consumers, running[t] # Nothing
  PROVE  Home(t) \in Consumers
BY DEF MemInv, TypeOK, LoopInv, Free, Home

LEMMA TypeStep == MemInv /\ [MemNext]_memVars => TypeOK'
<1> SUFFICES ASSUME MemInv, [MemNext]_memVars PROVE TypeOK'
  OBVIOUS
<1>0. TypeOK
  BY DEF MemInv
<1> USE MemoryAssumption DEF TypeOK, routeVars
<1>1. ASSUME NEW c \in Consumers, Consume(c) PROVE TypeOK'
  BY <1>0, <1>1 DEF Consume
<1>2. ASSUME NEW m \in Messages, Publish(m) PROVE TypeOK'
  <2>1. CASE UNCHANGED <<rrCounter, pending>>
    BY <1>0, <1>2, <2>1 DEF Publish
  <2>2. ASSUME NEW k \in Group(m), rrCounter' = rrCounter + 1,
               pending' = [pending EXCEPT ![registered[k]] = @ \cup {m}]
        PROVE  TypeOK'
    <3>1. registered[k] \in Consumers
      BY <1>0, <2>2 DEF Group
    <3>2. QED
      BY <1>0, <1>2, <2>2, <3>1 DEF Publish
  <2>3. QED
    BY <1>2, <2>1, <2>2 DEF Publish
<1>3. ASSUME NEW m \in Messages, Wake(m) PROVE TypeOK'
  BY <1>0, <1>3 DEF Wake
<1>4. ASSUME NEW t \in Consumers, StartTick(t) \/ EndTick(t) PROVE TypeOK'
  BY <1>0, <1>4 DEF StartTick, EndTick
<1>5. ASSUME NEW t \in Consumers, Visit(t) PROVE TypeOK'
  <2>1. registered[visiting[t]] \in Consumers
    BY <1>0, <1>5 DEF Visit
  <2>2. QED
    BY <1>0, <1>5, <2>1 DEF Visit
<1>6. ASSUME NEW t \in Consumers, NEW m \in Messages, Handle(t, m) PROVE TypeOK'
  BY <1>0, <1>6 DEF Handle
<1>7. ASSUME NEW t \in Consumers, HandlerReturns(t) PROVE TypeOK'
  BY <1>0, <1>7 DEF HandlerReturns
<1>8. ASSUME NEW t \in Consumers, HandlerThrows(t) PROVE TypeOK'
  <2>1. running[t] \in Messages /\ Home(t) \in Consumers
    BY <1>0, <1>8, HomeIsConsumer DEF HandlerThrows
  <2>2. attempts' \in [Messages -> Nat] /\ running' \in [Consumers -> Messages \cup {Nothing}]
    BY <1>0, <1>8, <2>1 DEF HandlerThrows
  <2>3. /\ deadLetters' \subseteq Messages
        /\ asleep' \subseteq Messages
    BY <1>0, <1>8, <2>1 DEF HandlerThrows
  <2>4. \/ UNCHANGED pending
        \/ pending' = [pending EXCEPT ![Home(t)] = @ \cup {running[t]}]
    BY <1>8 DEF HandlerThrows, Home
  <2>5. pending' \in [Consumers -> SUBSET Messages]
    BY <1>0, <2>1, <2>4
  <2>6. QED
    BY <1>0, <1>8, <2>2, <2>3, <2>5 DEF HandlerThrows
<1>9. CASE UNCHANGED memVars
  BY <1>0, <1>9 DEF memVars
<1>10. QED
  BY <1>1, <1>2, <1>3, <1>4, <1>5, <1>6, <1>7, <1>8, <1>9 DEF MemNext, Serve

LEMMA LoopStep == MemInv /\ [MemNext]_memVars => LoopInv'
<1> SUFFICES ASSUME TypeOK, LoopInv, [MemNext]_memVars PROVE LoopInv'
  BY DEF MemInv
<1> USE DEF LoopInv, Free, TypeOK
<1>1. ASSUME NEW c \in Consumers, Consume(c) PROVE LoopInv'
  <2>1. DOMAIN registered \subseteq DOMAIN registered'
    BY <1>1 DEF Consume
  <2>2. QED
    BY <1>1, <2>1 DEF Consume
<1>2. ASSUME NEW t \in Consumers, StartTick(t) \/ EndTick(t) PROVE LoopInv'
  <2>1. Free(t) /\ \A c \in Consumers \ {t} : visiting'[c] = visiting[c]
    <3>1. visiting[t] = 0 => visiting[t] - 1 \notin DOMAIN registered
      OBVIOUS
    <3>2. QED
      BY <1>2, <3>1 DEF StartTick, EndTick
  <2>2. UNCHANGED <<registered, due, running>>
    BY <1>2 DEF StartTick, EndTick, routeVars
  <2>3. QED
    BY <2>1, <2>2
<1>7. ASSUME NEW t \in Consumers, Visit(t) PROVE LoopInv'
  <2>1. visiting'[t] = visiting[t] + 1 /\ visiting[t] \in DOMAIN registered
    BY <1>7 DEF Visit
  <2>2. \A c \in Consumers \ {t} : visiting'[c] = visiting[c] /\ due'[c] = due[c]
    BY <1>7 DEF Visit
  <2>3. visiting'[t] - 1 \in DOMAIN registered
    BY <2>1
  <2>4. UNCHANGED <<registered, running>>
    BY <1>7 DEF Visit, routeVars
  <2>5. QED
    BY <2>2, <2>3, <2>4
<1>3. ASSUME NEW t \in Consumers, NEW m \in Messages, Handle(t, m) PROVE LoopInv'
  BY <1>3 DEF Handle, routeVars
<1>4. ASSUME NEW t \in Consumers, HandlerReturns(t) \/ HandlerThrows(t)
      PROVE  LoopInv'
  BY <1>4 DEF HandlerReturns, HandlerThrows, routeVars
<1>5. CASE UNCHANGED <<registered, visiting, due, running>>
  BY <1>5
<1>6. QED
  BY <1>1, <1>2, <1>3, <1>4, <1>5, <1>7
     DEF MemNext, Serve, Publish, Wake, routeVars, memVars

-----------------------------------------------------------------------------
(* The places of a message *)

\* An action that moves no message m leaves what holds of it as it was.
LEMMA Unmoved ==
  ASSUME NEW m \in Messages, Apart(m), Unsettled(m),
         \A c \in Consumers : /\ m \in pending'[c] <=> m \in pending[c]
                              /\ m \in due'[c] <=> m \in due[c]
                              /\ running'[c] = m <=> running[c] = m,
         m \in sent' <=> m \in sent,
         m \in processed' <=> m \in processed,
         m \in deadLetters' <=> m \in deadLetters,
         attempts'[m] = attempts[m]
  PROVE  Apart(m)' /\ Unsettled(m)'
<1>1. Apart(m)'
  BY DEF Apart
<1>2. InQueue(m)' <=> InQueue(m)
  BY DEF InQueue
<1>3. QED
  BY <1>1, <1>2 DEF Unsettled

LEMMA PlaceStep ==
  ASSUME MemInv, [MemNext]_memVars, NEW m \in Messages
  PROVE  Apart(m)' /\ Unsettled(m)'
<1> USE MemoryAssumption DEF routeVars
<1>0. TypeOK /\ Apart(m) /\ Unsettled(m)
  BY DEF MemInv
<1>1. ASSUME NEW n \in Messages, Publish(n) PROVE Apart(m)' /\ Unsettled(m)'
  <2>1. UNCHANGED <<due, running, processed, deadLetters, attempts>>
    BY <1>1 DEF Publish
  <2>2. \/ UNCHANGED pending
        \/ \E c \in Consumers : pending' = [pending EXCEPT ![c] = @ \cup {n}]
    <3>1. \A k \in Group(n) : registered[k] \in Consumers
      BY <1>0 DEF Group, TypeOK
    <3>2. QED
      BY <1>1, <3>1 DEF Publish
  <2>3. CASE n # m \/ UNCHANGED pending
    <3>1. \A c \in Consumers : m \in pending'[c] <=> m \in pending[c]
      BY <1>0, <2>2, <2>3 DEF TypeOK
    <3>2. Apart(m)'
      BY <1>0, <2>1, <3>1 DEF Apart
    <3>3. InQueue(m)' <=> InQueue(m)
      BY <2>1, <3>1 DEF InQueue
    <3>4. sent \subseteq sent'
      BY <1>1 DEF Publish
    <3>5. QED
      BY <1>0, <2>1, <3>2, <3>3, <3>4 DEF Unsettled
  <2>4. CASE n = m /\ pending' # pending
    <3>1. ~InQueue(m) /\ m \notin processed /\ m \notin deadLetters /\ m \in sent'
      BY <1>0, <1>1, <2>4 DEF Publish, Unsettled
    <3>2. PICK h \in Consumers : pending' = [pending EXCEPT ![h] = @ \cup {m}]
      BY <2>2, <2>4
    <3>3. \A c \in Consumers : m \notin pending[c] /\ m \notin due[c] /\ running[c] # m
      BY <3>1 DEF InQueue
    <3>4. \A c \in Consumers : m \in pending'[c] => c = h
      BY <1>0, <3>2, <3>3 DEF TypeOK
    <3>5. Apart(m)'
      BY <2>1, <3>3, <3>4 DEF Apart
    <3>6. QED
      BY <1>0, <2>1, <3>1, <3>5 DEF Unsettled
  <2>5. QED
    BY <2>3, <2>4
<1>2. ASSUME NEW t \in Consumers, Visit(t) PROVE Apart(m)' /\ Unsettled(m)'
  <2> DEFINE h == registered[visiting[t]]
  <2>1. h \in Consumers /\ due[t] = {}
    BY <1>0, <1>2 DEF Visit, TypeOK, Free
  <2>2. /\ pending' = [pending EXCEPT ![h] = @ \cap asleep]
        /\ due' = [due EXCEPT ![t] = pending[h] \ asleep]
        /\ UNCHANGED <<sent, running, processed, deadLetters, attempts>>
    BY <1>2 DEF Visit
  <2> HIDE DEF h
  <2>3. \A c \in Consumers :
          /\ m \in pending'[c] => m \in pending[c] /\ ~(c = h /\ m \notin asleep)
          /\ m \in due'[c] =>
               m \in due[c] \/ (c = t /\ m \in pending[h] /\ m \notin asleep)
    BY <1>0, <2>1, <2>2 DEF TypeOK
  <2>4. Apart(m)'
    BY <1>0, <2>1, <2>2, <2>3 DEF Apart
  <2>5. InQueue(m)' => InQueue(m)
    BY <2>1, <2>2, <2>3 DEF InQueue
  <2>6. QED
    BY <1>0, <2>2, <2>4, <2>5 DEF Unsettled
<1>3. ASSUME NEW t \in Consumers, NEW n \in Messages, Handle(t, n)
      PROVE  Apart(m)' /\ Unsettled(m)'
  <2>1. /\ n \in due[t] /\ running[t] = Nothing
        /\ running' = [running EXCEPT ![t] = n]
        /\ due' = [due EXCEPT ![t] = @ \ {n}]
        /\ UNCHANGED <<sent, pending, processed, deadLetters, attempts>>
    BY <1>3 DEF Handle
  <2>2. \A c \in Consumers :
          /\ m \in due'[c] <=> m \in due[c] /\ ~(c = t /\ m = n)
          /\ running'[c] = m => running[c] = m \/ (c = t /\ m = n)
    BY <1>0, <2>1 DEF TypeOK
  <2>3. Apart(m)'
    BY <1>0, <2>1, <2>2 DEF Apart
  <2>4. InQueue(m)' => InQueue(m)
    BY <2>1, <2>2 DEF InQueue
  <2>5. QED
    BY <1>0, <2>1, <2>3, <2>4 DEF Unsettled
<1>4. ASSUME NEW t \in Consumers, HandlerReturns(t) PROVE Apart(m)' /\ Unsettled(m)'
  <2>1. /\ running[t] # Nothing
        /\ running' = [running EXCEPT ![t] = Nothing]
        /\ processed' = processed \cup {running[t]}
        /\ UNCHANGED <<sent, pending, due, deadLetters, attempts>>
    BY <1>4 DEF HandlerReturns
  <2>2. \A c \in Consumers : running'[c] = m <=> running[c] = m /\ c # t
    BY <1>0, <2>1 DEF TypeOK
  <2>3. Apart(m)'
    BY <1>0, <2>1, <2>2 DEF Apart
  <2>4. InQueue(m)' => InQueue(m) /\ running[t] # m
    BY <1>0, <2>1, <2>2 DEF InQueue, Apart
  <2>5. running[t] = m => InQueue(m)
    BY DEF InQueue
  <2>6. QED
    BY <1>0, <2>1, <2>3, <2>4, <2>5 DEF Unsettled
<1>5. ASSUME NEW t \in Consumers, HandlerThrows(t) PROVE Apart(m)' /\ Unsettled(m)'
  <2>1. running[t] \in Messages /\ Home(t) \in Consumers
    BY <1>0, <1>5, HomeIsConsumer DEF HandlerThrows, TypeOK
  <2>2. /\ running' = [running EXCEPT ![t] = Nothing]
        /\ attempts' = [attempts EXCEPT ![running[t]] = @ + 1]
        /\ UNCHANGED <<sent, due, processed>>
    BY <1>5 DEF HandlerThrows
  <2>3. \/ /\ deadLetters' = deadLetters \cup {running[t]}
           /\ UNCHANGED pending
        \/ /\ attempts[running[t]] + 1 < MaxRetries
           /\ pending' = [pending EXCEPT ![Home(t)] = @ \cup {running[t]}]
           /\ UNCHANGED deadLetters
    BY <1>0, <1>5, <2>1 DEF HandlerThrows, Home, LastAttempt, TypeOK
  <2>4. \A c \in Consumers : running'[c] = m <=> running[c] = m /\ c # t
    BY <1>0, <2>2 DEF TypeOK
  <2>5. CASE m # running[t]
    <3>1. \A c \in Consumers : running'[c] = m <=> running[c] = m
      BY <2>4, <2>5
    <3>5. \A c \in Consumers : m \in pending'[c] <=> m \in pending[c]
      <4>1. \/ UNCHANGED pending
            \/ pending' = [pending EXCEPT ![Home(t)] = @ \cup {running[t]}]
        BY <2>3
      <4>2. QED
        BY <1>0, <2>1, <2>5, <4>1 DEF TypeOK
    <3>2. m \in deadLetters' <=> m \in deadLetters
      BY <2>3, <2>5
    <3>3. attempts'[m] = attempts[m]
      BY <1>0, <2>2, <2>5 DEF TypeOK
    <3>4. QED
      BY <1>0, <2>2, <3>1, <3>2, <3>3, <3>5, Unmoved
  <2>6. CASE m = running[t]
    <3>1. /\ m \in sent /\ m \notin processed /\ m \notin deadLetters
          /\ \A c \in Consumers : m \notin pending[c] /\ m \notin due[c]
      BY <1>0, <2>6 DEF Apart, Unsettled, InQueue
    <3>2. \A c \in Consumers : running'[c] # m
      BY <1>0, <2>4, <2>6 DEF Apart
    <3>3. CASE deadLetters' = deadLetters \cup {running[t]} /\ UNCHANGED pending
      <4>1. ~InQueue(m)'
        BY <2>2, <3>1, <3>2, <3>3 DEF InQueue
      <4>2. Apart(m)'
        BY <2>2, <3>1, <3>2, <3>3 DEF Apart
      <4>3. QED
        BY <2>2, <2>6, <3>1, <3>3, <4>1, <4>2 DEF Unsettled
    <3>4. CASE /\ attempts[running[t]] + 1 < MaxRetries
               /\ pending' = [pending EXCEPT ![Home(t)] = @ \cup {running[t]}]
               /\ UNCHANGED deadLetters
      <4>1. \A c \in Consumers : m \in pending'[c] => c = Home(t)
        BY <1>0, <2>1, <3>1, <3>4 DEF TypeOK
      <4>2. Apart(m)'
        BY <2>2, <3>1, <3>2, <4>1 DEF Apart
      <4>3. attempts'[m] < MaxRetries
        BY <1>0, <2>2, <2>6, <3>4 DEF TypeOK
      <4>4. QED
        BY <2>2, <3>1, <3>4, <4>2, <4>3 DEF Unsettled
    <3>5. QED
      BY <2>3, <3>3, <3>4
  <2>7. QED
    BY <2>5, <2>6
<1>6. CASE UNCHANGED <<sent, pending, due, running, processed, deadLetters, attempts>>
  BY <1>0, <1>6 DEF Apart, Unsettled, InQueue
<1>7. QED
  BY <1>1, <1>2, <1>3, <1>4, <1>5, <1>6
     DEF MemNext, Serve, Consume, Wake, StartTick, EndTick, memVars

LEMMA MemInvariant == MemSafetySpec => []MemInv
<1>1. MemInv /\ [MemNext]_memVars => MemInv'
  BY TypeStep, LoopStep, PlaceStep DEF MemInv
<1>2. QED
  BY <1>1, MemInitInv, PTL DEF MemSafetySpec

(* Every variable keeps its type.                                          *)
THEOREM MemTypeCorrect == MemSafetySpec => []TypeOK
<1>1. MemInv => TypeOK
  BY DEF MemInv
<1>2. QED
  BY <1>1, MemInvariant, PTL
-----------------------------------------------------------------------------
(* One place *)

LEMMA HoldersAre ==
  ASSUME NEW m, NEW x, x \in Holders(m)
  PROVE  \/ \E c \in Consumers : x = <<"pending", c>> /\ m \in pending[c]
         \/ \E c \in Consumers : x = <<"due", c>> /\ m \in due[c]
         \/ \E c \in Consumers : x = <<"running", c>> /\ running[c] = m
         \/ x = <<"processed">> /\ m \in processed
         \/ x = <<"dead">> /\ m \in deadLetters
BY DEF Holders

LEMMA HoldersAgree ==
  ASSUME NEW m \in Messages, Apart(m), Unsettled(m),
         NEW x \in Holders(m), NEW y \in Holders(m)
  PROVE  x = y
<1>1. \A c \in Consumers :
        m \in pending[c] \/ m \in due[c] \/ running[c] = m
          => m \notin processed /\ m \notin deadLetters
  BY DEF Unsettled, InQueue
<1>2. ~(m \in processed /\ m \in deadLetters)
  BY DEF Unsettled
<1>3. CASE \E c \in Consumers : x = <<"pending", c>> /\ m \in pending[c]
  BY <1>1, <1>3, HoldersAre DEF Apart
<1>4. CASE \E c \in Consumers : x = <<"due", c>> /\ m \in due[c]
  BY <1>1, <1>4, HoldersAre DEF Apart
<1>5. CASE \E c \in Consumers : x = <<"running", c>> /\ running[c] = m
  BY <1>1, <1>5, HoldersAre DEF Apart
<1>6. CASE x = <<"processed">> /\ m \in processed
  BY <1>1, <1>2, <1>6, HoldersAre
<1>7. CASE x = <<"dead">> /\ m \in deadLetters
  BY <1>1, <1>2, <1>7, HoldersAre
<1>8. QED
  BY <1>3, <1>4, <1>5, <1>6, <1>7, HoldersAre

(* However the loops interleave, a message is in one place: no two loops   *)
(* take it, and it is not retried once it was handled or parked.           *)
THEOREM EveryMessageInOnePlace == MemSafetySpec => []InOnePlace
<1>1. MemInv => InOnePlace
  <2> SUFFICES ASSUME NEW m \in Messages, Apart(m), Unsettled(m)
               PROVE  /\ Cardinality(Holders(m)) <= 1
                      /\ Holders(m) # {} => m \in sent
    BY DEF MemInv, InOnePlace
  <2>1. CASE Holders(m) = {}
    BY <2>1, FS_EmptySet
  <2>2. ASSUME NEW x \in Holders(m)
        PROVE  Cardinality(Holders(m)) <= 1 /\ m \in sent
    <3>1. Holders(m) = {x}
      <4>1. \A y \in Holders(m) : y = x
        BY HoldersAgree
      <4>2. QED
        BY <4>1
    <3>2. Cardinality(Holders(m)) = 1
      BY <3>1, FS_Singleton
    <3>3. InQueue(m) \/ m \in processed \/ m \in deadLetters
      BY HoldersAre DEF InQueue
    <3>4. QED
      BY <3>2, <3>3 DEF Unsettled
  <2>3. QED
    BY <2>1, <2>2
<1>2. QED
  BY <1>1, MemInvariant, PTL

-----------------------------------------------------------------------------
(* The refinement of DeliveryContract *)

Mapped == [m \in Messages |-> ContractStatus(m)]

LEMMA StatusKept ==
  ASSUME NEW m \in Messages,
         InQueue(m)' <=> InQueue(m),
         m \in processed' <=> m \in processed,
         m \in deadLetters' <=> m \in deadLetters
  PROVE  ContractStatus(m)' = ContractStatus(m)
BY DEF ContractStatus

LEMMA StatusLive ==
  ASSUME NEW m \in Messages, Unsettled(m), InQueue(m)
  PROVE  ContractStatus(m) = "live"
BY DEF ContractStatus, Unsettled

LEMMA ContractInitMapped == MemInit => Contract!ContractInit
BY MemoryAssumption DEF MemInit, Contract!ContractInit, ContractStatus, InQueue

(* Every step of the bus is a step of the contract or changes nothing it   *)
(* sees: what is dropped for want of a consumer never enters.              *)
LEMMA ContractStep ==
  MemInv /\ MemInv' /\ [MemNext]_memVars
    => [Contract!ContractNext]_(Contract!contractVars)
<1> SUFFICES ASSUME MemInv, MemInv', [MemNext]_memVars
             PROVE  \/ Contract!ContractNext
                    \/ Mapped' = Mapped /\ attempts' = attempts
  BY DEF Contract!contractVars, Mapped
<1> USE DEF routeVars
<1>0. /\ TypeOK
      /\ \A m \in Messages : Apart(m) /\ Unsettled(m) /\ Unsettled(m)'
      /\ Mapped = [m \in Messages |-> ContractStatus(m)]
      /\ Mapped' = [m \in Messages |-> ContractStatus(m)']
      /\ Nothing \notin Messages
  BY MemoryAssumption DEF MemInv, Mapped
<1>1. ASSUME NEW m \in Messages, Publish(m)
      PROVE  Contract!Enter(m) \/ (Mapped' = Mapped /\ attempts' = attempts)
  <2>1. UNCHANGED <<due, running, processed, deadLetters, attempts>>
    BY <1>1 DEF Publish
  <2>2. \/ UNCHANGED pending
        \/ \E c \in Consumers : pending' = [pending EXCEPT ![c] = @ \cup {m}]
    <3>1. \A k \in Group(m) : registered[k] \in Consumers
      BY <1>0 DEF Group, TypeOK
    <3>2. QED
      BY <1>1, <3>1 DEF Publish
  <2>3. CASE UNCHANGED pending
    <3>1. \A n \in Messages : ContractStatus(n)' = ContractStatus(n)
      BY <2>1, <2>3, StatusKept DEF InQueue
    <3>2. QED
      BY <1>0, <2>1, <3>1
  <2>4. ASSUME NEW h \in Consumers, pending' = [pending EXCEPT ![h] = @ \cup {m}]
        PROVE  Contract!Enter(m)
    <3>1. ContractStatus(m) = "absent"
      BY <1>0, <1>1 DEF Publish, Unsettled, ContractStatus
    <3>2. m \in pending'[h]
      BY <1>0, <2>4 DEF TypeOK
    <3>3. ContractStatus(m)' = "live"
      BY <1>0, <3>2 DEF Unsettled, ContractStatus, InQueue
    <3>4. \A n \in Messages \ {m} : InQueue(n)' <=> InQueue(n)
      BY <1>0, <2>1, <2>4 DEF InQueue, TypeOK
    <3>5. \A n \in Messages \ {m} : ContractStatus(n)' = ContractStatus(n)
      BY <2>1, <3>4, StatusKept
    <3>6. Mapped' = [Mapped EXCEPT ![m] = "live"]
      BY <1>0, <3>3, <3>5
    <3>7. QED
      BY <2>1, <3>1, <3>6 DEF Contract!Enter, Mapped
  <2>5. QED
    BY <2>2, <2>3, <2>4
<1>2. ASSUME NEW t \in Consumers, HandlerReturns(t)
      PROVE  \E m \in Messages : Contract!Process(m)
  <2>1. PICK m \in Messages : m = running[t]
    BY <1>0, <1>2 DEF HandlerReturns, TypeOK
  <2>2. /\ running' = [running EXCEPT ![t] = Nothing]
        /\ processed' = processed \cup {m}
        /\ UNCHANGED <<pending, due, deadLetters, attempts>>
    BY <1>2, <2>1 DEF HandlerReturns
  <2>3. ContractStatus(m) = "live"
    BY <1>0, <2>1, StatusLive DEF InQueue
  <2>4. ContractStatus(m)' = "processed"
    BY <2>2 DEF ContractStatus
  <2>5. \A n \in Messages \ {m} : InQueue(n)' <=> InQueue(n)
    BY <1>0, <2>1, <2>2 DEF InQueue, TypeOK
  <2>6. \A n \in Messages \ {m} : ContractStatus(n)' = ContractStatus(n)
    BY <2>2, <2>5, StatusKept
  <2>7. Mapped' = [Mapped EXCEPT ![m] = "processed"]
    BY <1>0, <2>4, <2>6
  <2>8. QED
    BY <2>2, <2>3, <2>7 DEF Contract!Process, Mapped
<1>3. ASSUME NEW t \in Consumers, HandlerThrows(t)
      PROVE  \E m \in Messages : Contract!Attempt(m)
  <2>1. PICK m \in Messages : m = running[t]
    BY <1>0, <1>3 DEF HandlerThrows, TypeOK
  <2>2. Home(t) \in Consumers
    BY <1>0, <2>1, HomeIsConsumer
  <2>3. /\ running' = [running EXCEPT ![t] = Nothing]
        /\ attempts' = [attempts EXCEPT ![m] = @ + 1]
        /\ UNCHANGED <<due, processed>>
    BY <1>3, <2>1 DEF HandlerThrows
  <2>4. InQueue(m) /\ ContractStatus(m) = "live" /\ attempts[m] < MaxRetries
    BY <1>0, <2>1, StatusLive DEF InQueue, Unsettled
  <2>5. CASE deadLetters' = deadLetters \cup {m} /\ UNCHANGED pending
    <3>1. ContractStatus(m)' = "parked"
      BY <1>0, <2>5 DEF Unsettled, ContractStatus
    <3>2. \A n \in Messages \ {m} : InQueue(n)' <=> InQueue(n)
      BY <1>0, <2>1, <2>3, <2>5 DEF InQueue, TypeOK
    <3>3. \A n \in Messages \ {m} : ContractStatus(n)' = ContractStatus(n)
      BY <2>3, <2>5, <3>2, StatusKept
    <3>4. Mapped' = [Mapped EXCEPT ![m] = "parked"]
      BY <1>0, <3>1, <3>3
    <3>5. QED
      BY <2>3, <2>4, <3>4 DEF Contract!Attempt, Mapped
  <2>6. CASE pending' = [pending EXCEPT ![Home(t)] = @ \cup {m}] /\ UNCHANGED deadLetters
    <3>1. m \in pending'[Home(t)]
      BY <1>0, <2>2, <2>6 DEF TypeOK
    <3>2. InQueue(m)'
      BY <2>2, <3>1 DEF InQueue
    <3>3. \A n \in Messages \ {m} : InQueue(n)' <=> InQueue(n)
      <4>1. \A n \in Messages \ {m}, c \in Consumers :
              /\ n \in pending'[c] <=> n \in pending[c]
              /\ running'[c] = n <=> running[c] = n
        BY <1>0, <2>1, <2>2, <2>3, <2>6 DEF TypeOK
      <4>2. QED
        BY <2>3, <4>1 DEF InQueue
    <3>4. \A n \in Messages : ContractStatus(n)' = ContractStatus(n)
      BY <2>3, <2>4, <2>6, <3>2, <3>3, StatusKept
    <3>5. QED
      BY <1>0, <2>3, <2>4, <3>4 DEF Contract!Attempt, Mapped
  <2>7. QED
    BY <1>3, <2>1, <2>5, <2>6 DEF HandlerThrows, Home
<1>4. ASSUME NEW t \in Consumers, Visit(t)
      PROVE  Mapped' = Mapped /\ attempts' = attempts
  <2> DEFINE h == registered[visiting[t]]
  <2>1. h \in Consumers /\ due[t] = {}
    BY <1>0, <1>4 DEF Visit, TypeOK, Free
  <2>2. /\ pending' = [pending EXCEPT ![h] = @ \cap asleep]
        /\ due' = [due EXCEPT ![t] = pending[h] \ asleep]
        /\ UNCHANGED <<running, processed, deadLetters, attempts>>
    BY <1>4 DEF Visit
  <2> HIDE DEF h
  <2>3. ASSUME NEW n \in Messages PROVE InQueue(n)' <=> InQueue(n)
    <3>1. /\ pending'[h] = pending[h] \cap asleep
          /\ due'[t] = pending[h] \ asleep
          /\ \A c \in Consumers \ {h} : pending'[c] = pending[c]
          /\ \A c \in Consumers \ {t} : due'[c] = due[c]
      BY <1>0, <2>1, <2>2 DEF TypeOK
    <3>2. InQueue(n) => InQueue(n)'
      BY <2>1, <2>2, <3>1 DEF InQueue
    <3>3. InQueue(n)' => InQueue(n)
      BY <2>1, <2>2, <3>1 DEF InQueue
    <3>4. QED
      BY <3>2, <3>3
  <2>4. \A n \in Messages : ContractStatus(n)' = ContractStatus(n)
    BY <2>2, <2>3, StatusKept
  <2>5. QED
    BY <1>0, <2>2, <2>4
<1>5. ASSUME NEW t \in Consumers, NEW m \in Messages, Handle(t, m)
      PROVE  Mapped' = Mapped /\ attempts' = attempts
  <2>1. /\ m \in due[t] /\ running[t] = Nothing
        /\ running' = [running EXCEPT ![t] = m]
        /\ due' = [due EXCEPT ![t] = @ \ {m}]
        /\ UNCHANGED <<pending, processed, deadLetters, attempts>>
    BY <1>5 DEF Handle
  <2>2. ASSUME NEW n \in Messages PROVE InQueue(n)' <=> InQueue(n)
    <3>1. /\ running'[t] = m /\ due'[t] = due[t] \ {m}
          /\ \A c \in Consumers \ {t} : running'[c] = running[c] /\ due'[c] = due[c]
      BY <1>0, <2>1 DEF TypeOK
    <3>2. InQueue(n) => InQueue(n)'
      BY <1>0, <2>1, <3>1 DEF InQueue
    <3>3. InQueue(n)' => InQueue(n)
      BY <2>1, <3>1 DEF InQueue
    <3>4. QED
      BY <3>2, <3>3
  <2>3. \A n \in Messages : ContractStatus(n)' = ContractStatus(n)
    BY <2>1, <2>2, StatusKept
  <2>4. QED
    BY <1>0, <2>1, <2>3
<1>6. CASE UNCHANGED <<pending, due, running, processed, deadLetters, attempts>>
  BY <1>6 DEF Mapped, ContractStatus, InQueue
<1>7. QED
  BY <1>1, <1>2, <1>3, <1>4, <1>5, <1>6
     DEF MemNext, Serve, Consume, Wake, StartTick, EndTick, memVars,
         Contract!ContractNext

(* The in-memory bus implements the delivery contract: eventbus.ts:25, "The*)
(* consumer contract (retry/dead-letter) is identical".                    *)
THEOREM MemBusImplementsContract == MemSafetySpec => MemImplementsContract
<1>1. MemInit => Contract!ContractInit
  BY ContractInitMapped
<1>2. MemInv /\ MemInv' /\ [MemNext]_memVars
        => [Contract!ContractNext]_(Contract!contractVars)
  BY ContractStep
<1>3. QED
  BY <1>1, <1>2, MemInvariant, PTL
     DEF MemSafetySpec, MemImplementsContract, Contract!ContractSpec
=============================================================================
