---------------------------- MODULE EventIngest ----------------------------
(***************************************************************************)
(* ingestEvent (apps/api/src/modules/events/events.service.ts): the POST   *)
(* /api/v1/events requests of the services, with their retries, up to the  *)
(* event bus. A request looks for its idempotency keys in Redis, claims    *)
(* them, inserts the event row and publishes it, one await after the       *)
(* other; nothing makes look and claim one step, and an error between any  *)
(* two of them is answered with 500 and leaves what was done.              *)
(*                                                                         *)
(* The bus is its contract, DeliveryContract, with the queue bound. The    *)
(* event of a request is named like the request. API keys are issued and   *)
(* revoked while requests arrive; what the limiter, the schema and the     *)
(* lookup of the service say is one choice.                                *)
(***************************************************************************)
EXTENDS Naturals, Sequences

CONSTANTS
  Requests,     \* HTTP requests; a client's retry is another request
  Keys,         \* idempotency keys
  KeysOf,       \* idempotency keys of a request, in the order of the code
  Sources,      \* API keys
  SourceOf,     \* the API key a request carries
  MaxRetries,   \* of the event consumer
  MaxExpiries,  \* bound on expiries of keys in a run
  MaxFaults     \* bound on failing requests in a run

ASSUME IngestAssumption ==
  /\ KeysOf \in [Requests -> Seq(Keys) \ {<<>>}]
  /\ SourceOf \in [Requests -> Sources]
  /\ MaxRetries \in Nat /\ MaxExpiries \in Nat /\ MaxFaults \in Nat

VARIABLES
  step,      \* the await a request is at, or its answer
  pos,       \* the key it is at
  apiKeys,   \* row of an API key in api_keys
  claimed,   \* idempotency keys in Redis
  rows,      \* requests whose event row is stored
  status,    \* of each event at the bus
  tries,
  answered,  \* requests accepted before a request arrived (a history)
  expired,   \* keys that ever ran out (a history)
  expiries, faults

requestVars == <<step, pos, apiKeys, claimed, rows>>
busVars == <<status, tries>>
historyVars == <<answered, expired, expiries, faults>>
vars == <<requestVars, busVars, historyVars>>

Bus == INSTANCE DeliveryContract WITH Messages <- Requests

Answers == {"accepted", "duplicate", "error", "rejected"}
KeyStates == {"none", "live", "revoked"}
Steps == {"new", "check", "claim", "insert", "publish", "respond"} \cup Answers

Init ==
  /\ step = [r \in Requests |-> "new"]
  /\ pos = [r \in Requests |-> 1]
  /\ apiKeys = [a \in Sources |-> "none"]
  /\ claimed = {}
  /\ rows = {}
  /\ Bus!ContractInit
  /\ answered = [r \in Requests |-> {}]
  /\ expired = {}
  /\ expiries = 0
  /\ faults = 0

-----------------------------------------------------------------------------
KeySet(r) == {KeysOf[r][k] : k \in DOMAIN KeysOf[r]}
Go(r, to) == step' = [step EXCEPT ![r] = to]

\* On to the next key, or past the last one to the next part.
NextKey(r, then) ==
  IF pos[r] < Len(KeysOf[r])
  THEN pos' = [pos EXCEPT ![r] = @ + 1] /\ UNCHANGED step
  ELSE pos' = [pos EXCEPT ![r] = 1] /\ Go(r, then)

\* POST /api-keys: the random plaintext is a key nobody has had before.
GenerateApiKey(a) ==
  /\ apiKeys[a] = "none"
  /\ apiKeys' = [apiKeys EXCEPT ![a] = "live"]
  /\ UNCHANGED <<step, pos, claimed, rows, busVars, historyVars>>

\* POST /api-keys/:id/revoke. Nothing clears revoked_at.
RevokeApiKey(a) ==
  /\ apiKeys[a] # "none"
  /\ apiKeys' = [apiKeys EXCEPT ![a] = "revoked"]
  /\ UNCHANGED <<step, pos, claimed, rows, busVars, historyVars>>

\* getApiKeyData: the row by prefix, revoked_at IS NULL, the same hash.
Resolved(r) == apiKeys[SourceOf[r]] = "live"

Arrive(r) ==
  /\ step[r] = "new" /\ Resolved(r)
  /\ Go(r, "check")
  /\ answered' =
       [answered EXCEPT ![r] = {q \in Requests : step[q] = "accepted"}]
  /\ UNCHANGED <<pos, apiKeys, claimed, rows, busVars, expired, expiries,
                 faults>>

\* 401, 403, 429 or 400, before anything is looked up in Redis.
Reject(r) ==
  /\ step[r] = "new"
  /\ Go(r, "rejected")
  /\ UNCHANGED <<pos, apiKeys, claimed, rows, busVars, historyVars>>

\* Mutation: the second key is not looked at when there is a request id.
CheckFirst(r) ==
  /\ step[r] = "check"
  /\ IF KeysOf[r][1] \in claimed
     THEN Go(r, "duplicate")
     ELSE Go(r, "claim")
  /\ UNCHANGED <<pos, apiKeys, claimed, rows, busVars, historyVars>>

\* redis.exists(key)
Check(r) ==
  /\ step[r] = "check"
  /\ IF KeysOf[r][pos[r]] \in claimed
     THEN Go(r, "duplicate") /\ UNCHANGED pos
     ELSE NextKey(r, "claim")
  /\ UNCHANGED <<apiKeys, claimed, rows, busVars, historyVars>>

\* redis.set(key, '1', ttl)
Claim(r) ==
  /\ step[r] = "claim"
  /\ claimed' = claimed \cup {KeysOf[r][pos[r]]}
  /\ NextKey(r, "insert")
  /\ UNCHANGED <<apiKeys, rows, busVars, historyVars>>

Insert(r) ==
  /\ step[r] = "insert"
  /\ rows' = rows \cup {r}
  /\ Go(r, "publish")
  /\ UNCHANGED <<pos, apiKeys, claimed, busVars, historyVars>>

\* Mutation: a full broker buffer is not noticed.
PublishMayDrop(r) ==
  /\ step[r] = "publish"
  /\ Bus!Enter(r) \/ UNCHANGED busVars
  /\ Go(r, "respond")
  /\ UNCHANGED <<pos, apiKeys, claimed, rows, historyVars>>

PublishEvent(r) ==
  /\ step[r] = "publish"
  /\ Bus!Enter(r)
  /\ Go(r, "respond")
  /\ UNCHANGED <<pos, apiKeys, claimed, rows, historyVars>>

\* recordPublished swallows its errors; 202.
Respond(r) ==
  /\ step[r] = "respond"
  /\ Go(r, "accepted")
  /\ UNCHANGED <<pos, apiKeys, claimed, rows, busVars, historyVars>>

\* Mutation: a failed request is taken up again from the start.
FailRestarts(r) ==
  /\ step[r] \notin Answers \cup {"new"}
  /\ faults < MaxFaults
  /\ faults' = faults + 1
  /\ Go(r, "check")
  /\ pos' = [pos EXCEPT ![r] = 1]
  /\ UNCHANGED <<apiKeys, claimed, rows, busVars, answered, expired, expiries>>

\* Redis, Postgres or the broker rejects, the process dies, or the answer is
\* lost: for the client the request failed.
Fail(r) ==
  /\ step[r] \notin Answers \cup {"new"}
  /\ faults < MaxFaults
  /\ faults' = faults + 1
  /\ Go(r, "error")
  /\ UNCHANGED <<pos, apiKeys, claimed, rows, busVars, answered, expired,
                 expiries>>

\* The TTL of a key, DEDUPE_WINDOW_MS.
Expire(k) ==
  /\ k \in claimed
  /\ expiries < MaxExpiries
  /\ claimed' = claimed \ {k}
  /\ expired' = expired \cup {k}
  /\ expiries' = expiries + 1
  /\ UNCHANGED <<step, pos, apiKeys, rows, busVars, answered, faults>>

IngestEvent(r) ==
  Check(r) \/ Claim(r) \/ Insert(r) \/ PublishEvent(r) \/ Respond(r)

\* The consumer's side of the bus.
Consume(r) == Bus!Process(r) \/ Bus!Attempt(r) \/ Bus!Park({r})

Next ==
  \/ \E r \in Requests :
       \/ Arrive(r) \/ Reject(r) \/ IngestEvent(r) \/ Fail(r)
       \/ Consume(r) /\ UNCHANGED <<requestVars, historyVars>>
  \/ \E a \in Sources : GenerateApiKey(a) \/ RevokeApiKey(a)
  \/ \E k \in claimed : Expire(k)

(* A request that arrived is worked on, and the bus settles what entered   *)
(* it: RabbitEventBus and MemoryEventBus are shown to.                     *)
Fairness ==
  \A r \in Requests :
    /\ WF_vars(IngestEvent(r))
    /\ WF_vars(Consume(r) /\ UNCHANGED <<requestVars, historyVars>>)

SafetySpec == Init /\ [][Next]_vars
Spec == SafetySpec /\ Fairness

-----------------------------------------------------------------------------
TypeOK ==
  /\ step \in [Requests -> Steps]
  /\ pos \in [Requests -> Nat]
  /\ \A r \in Requests : pos[r] \in DOMAIN KeysOf[r]
  /\ apiKeys \in [Sources -> KeyStates]
  /\ claimed \in SUBSET Keys
  /\ rows \in SUBSET Requests
  /\ status \in [Requests -> Bus!Statuses]
  /\ tries \in [Requests -> 0..MaxRetries]
  /\ answered \in [Requests -> SUBSET Requests]
  /\ expired \in SUBSET Keys
  /\ expiries \in 0..MaxExpiries
  /\ faults \in 0..MaxFaults

Shares(q, r) == KeySet(q) \cap KeySet(r) # {}

(* events.service.ts:55 "exact dedup for retried HTTP calls": a request    *)
(* that arrives after one with a common key was accepted stores nothing,   *)
(* while the common key has not run out. Requests in flight together are   *)
(* not told apart.                                                         *)
LaterRetryStoresNothing ==
  \A q, r \in Requests :
    (q \in answered[r] /\ (KeySet(q) \cap KeySet(r)) \ expired # {})
      => r \notin rows

(* An answer "duplicate" is owed to another request: one with a common key *)
(* that stored the event, is about to, or failed between its claim and its *)
(* INSERT. In the last case the event is lost, and its retries are told it *)
(* was seen.                                                               *)
DuplicateHasOriginal ==
  \A r \in Requests : step[r] = "duplicate" =>
    \E q \in Requests \ {r} :
      /\ Shares(q, r)
      /\ q \in rows \/ step[q] \in {"claim", "insert", "error"}

(* An event whose client was told 202 is settled by the bus: no accepted   *)
(* event is stored and never published (events.service.ts:30).             *)
AcceptedIsSettled ==
  \A r \in Requests :
    step[r] = "accepted" ~> status[r] \in {"processed", "parked"}
=============================================================================
