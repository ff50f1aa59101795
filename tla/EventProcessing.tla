-------------------------- MODULE EventProcessing --------------------------
(***************************************************************************)
(* The incident pipeline: processEvent (apps/worker/src/modules/event-     *)
(* processor/event.processor.ts) run as the handler of the event bus, over *)
(* the tables incidents and incident_events, the Redis dedupe cache        *)
(* inc:active:<fingerprint>, and the API operators that resolve and reopen *)
(* incidents (apps/api/src/modules/incidents/incidents.service.ts).        *)
(*                                                                         *)
(* A handler runs one await at a time; between two of its steps any other  *)
(* handler, operator or crash may act. Every database statement or         *)
(* transaction is one step. Messages are the events; incidents are rows.   *)
(*                                                                         *)
(* Abstracted: the events row (stored by ingestEvent before the publish,   *)
(* or by the handler's INSERT ON CONFLICT DO NOTHING for the events of the *)
(* health checks; nothing here reads it), the sliding counter and the      *)
(* severity it feeds, timeline, audit and realtime messages, the assignee  *)
(* of an incident.                                                         *)
(***************************************************************************)
EXTENDS RabbitEventBus

CONSTANTS
  Fingerprints,   \* dedupe keys
  FingerprintOf,  \* the fingerprint of each event
  Incidents,      \* ids generateId('inc') can return
  NoKey,          \* dedupe_key of a row that does not exist yet
  NoIncident,     \* "no incident": null in the code
  MaxResolves     \* bound on resolve requests in a run

ASSUME ProcessingAssumption ==
  /\ FingerprintOf \in [Messages -> Fingerprints]
  /\ NoKey \notin Fingerprints
  /\ NoIncident \notin Incidents
  /\ MaxResolves \in Nat

VARIABLES
  pc,          \* the await a handler of the event is at
  target,      \* its incidentId
  dedupeKey,   \* incidents.dedupe_key, NoKey while the row is absent
  resolved,    \* incidents whose committed status is RESOLVED
  links,       \* incident_events
  eventCount,  \* incidents.event_count
  announced,   \* CREATED e-mails enqueued for an incident
  cache,       \* inc:active:<fingerprint>
  committing,  \* incidents a resolve transaction has updated, uncommitted
  clearer,     \* clearDedupeCache of the last resolve of an incident
  resolves

handlerVars == <<pc, target>>
tableVars == <<dedupeKey, links, eventCount, announced>>
operatorVars == <<resolved, committing, clearer, resolves>>
pipelineVars == <<handlerVars, tableVars, operatorVars, cache>>
vars == <<busVars, pipelineVars>>

Steps == {"idle", "readCache", "findOpen", "link", "count", "refresh",
          "create", "remember", "notify", "notifyNext", "return"}

Init ==
  /\ BusInit
  /\ pc = [e \in Messages |-> "idle"]
  /\ target = [e \in Messages |-> NoIncident]
  /\ dedupeKey = [i \in Incidents |-> NoKey]
  /\ resolved = {}
  /\ links = {}
  /\ eventCount = [i \in Incidents |-> 0]
  /\ announced = [i \in Incidents |-> 0]
  /\ cache = [f \in Fingerprints |-> NoIncident]
  /\ committing = {}
  /\ clearer = [i \in Incidents |-> "idle"]
  /\ resolves = 0

-----------------------------------------------------------------------------
(* The incidents table *)

Rows == {i \in Incidents : dedupeKey[i] # NoKey}
WithKey(f) == {i \in Incidents : dedupeKey[i] = f}

\* Mutation: a partial UNIQUE index, WHERE status <> 'RESOLVED'.
ConflictOnOpenOnly(f) == WithKey(f) \subseteq resolved

\* dedupe_key is UNIQUE.
NoConflict(f) == WithKey(f) = {}

\* Mutation: the lookup forgets the dedupe key.
AnyOpenIncident(i, f) == i \in Rows \ resolved

\* WHERE dedupe_key = $1 AND status <> 'RESOLVED'
OpenIncident(i, f) == dedupeKey[i] = f /\ i \notin resolved

LinksOf(i) == {e \in Messages : <<i, e>> \in links}

-----------------------------------------------------------------------------
(* The bus, driving the handler *)

BindQueue == Bind /\ UNCHANGED pipelineVars

IngestEvent(e) == Publish(e) /\ UNCHANGED pipelineVars

\* The handler starts; storing the event and counting it in the sliding
\* window leave nothing this module tracks.
StartHandler(c, e) ==
  /\ Deliver(c, e)
  /\ pc' = [pc EXCEPT ![e] = "readCache"]
  /\ UNCHANGED <<target, tableVars, operatorVars, cache>>

StopHandler(e) ==
  /\ pc' = [pc EXCEPT ![e] = "idle"]
  /\ target' = [target EXCEPT ![e] = NoIncident]

\* Mutation: the message is acknowledged when it arrives.
AckOnArrival(e) ==
  /\ pc[e] # "idle"
  /\ Ack(e)
  /\ StopHandler(e)
  /\ UNCHANGED <<tableVars, operatorVars, cache>>

HandlerReturns(e) ==
  /\ pc[e] = "return"
  /\ Ack(e)
  /\ StopHandler(e)
  /\ UNCHANGED <<tableVars, operatorVars, cache>>

\* Mutation: the error is swallowed, the message leaves without a trace.
ErrorSwallowed(e) ==
  /\ place[e] = "held"
  /\ Settle(e)
  /\ StopHandler(e)
  /\ UNCHANGED <<bound, attempts, expiring, processed, deadLetters, crashes,
                 tableVars, operatorVars, cache>>

\* Every await on the database may reject; Redis errors are caught in the
\* handler. Once the handler reached "return" nothing it awaits can reject.
HandlerThrows(e) ==
  /\ pc[e] # "return"
  /\ Retry(e) \/ GiveUp(e)
  /\ StopHandler(e)
  /\ UNCHANGED <<tableVars, operatorVars, cache>>

ResendEvent(e) == Redeliver(e) /\ UNCHANGED pipelineVars

ExpireEvent(e) == Expire(e) /\ UNCHANGED pipelineVars

WorkerCrash(c) ==
  /\ Crash(c)
  /\ pc' = [e \in Messages |-> IF holder[e] = c THEN "idle" ELSE pc[e]]
  /\ target' = [e \in Messages |->
                  IF holder[e] = c THEN NoIncident ELSE target[e]]
  /\ UNCHANGED <<tableVars, operatorVars, cache>>

-----------------------------------------------------------------------------
(* processEvent *)

Go(e, step) == pc' = [pc EXCEPT ![e] = step]
Choose(e, i) == target' = [target EXCEPT ![e] = i]

\* redis.get: a hit, or a miss, which is also what an error amounts to.
ReadCache(e) ==
  /\ pc[e] = "readCache"
  /\ \/ /\ cache[FingerprintOf[e]] # NoIncident
        /\ Choose(e, cache[FingerprintOf[e]])
        /\ Go(e, "link")
     \/ /\ Go(e, "findOpen")
        /\ UNCHANGED target
  /\ UNCHANGED <<busVars, tableVars, operatorVars, cache>>

FindOpen(e) ==
  /\ pc[e] = "findOpen"
  /\ \/ \E i \in Incidents :
          /\ OpenIncident(i, FingerprintOf[e])
          /\ Choose(e, i)
          /\ Go(e, "link")
     \/ /\ \A i \in Incidents : ~OpenIncident(i, FingerprintOf[e])
        /\ Go(e, "create")
        /\ UNCHANGED target
  /\ UNCHANGED <<busVars, tableVars, operatorVars, cache>>

\* Mutation: event_count is raised whether the INSERT inserted or not.
LinkAlwaysCounts(e) ==
  /\ pc[e] = "link"
  /\ Go(e, "count")
  /\ links' = links \cup {<<target[e], e>>}
  /\ UNCHANGED <<busVars, target, dedupeKey, eventCount, announced,
                 operatorVars, cache>>

\* linkEvent, its INSERT ... ON CONFLICT DO NOTHING RETURNING id.
Link(e) ==
  /\ pc[e] = "link"
  /\ IF <<target[e], e>> \in links
     THEN Go(e, "refresh") /\ UNCHANGED links
     ELSE Go(e, "count") /\ links' = links \cup {<<target[e], e>>}
  /\ UNCHANGED <<busVars, target, dedupeKey, eventCount, announced,
                 operatorVars, cache>>

\* linkEvent, its UPDATE; it waits for the row lock of an open resolve
\* transaction.
Count(e) ==
  /\ pc[e] = "count"
  /\ target[e] \notin committing
  /\ eventCount' = [eventCount EXCEPT ![target[e]] = @ + 1]
  /\ Go(e, "refresh")
  /\ UNCHANGED <<busVars, target, dedupeKey, links, announced, operatorVars,
                 cache>>

\* refreshDedupeWindow; a Redis error is swallowed.
Refresh(e, from, to) ==
  /\ pc[e] = from
  /\ cache' \in {cache, [cache EXCEPT ![FingerprintOf[e]] = target[e]]}
  /\ Go(e, to)
  /\ UNCHANGED <<busVars, target, tableVars, operatorVars>>

\* Mutation: on a conflict the handler looks for an open incident again.
CreateOrLookAgain(e) ==
  /\ pc[e] = "create"
  /\ \/ \E i \in Incidents \ Rows :
          /\ NoConflict(FingerprintOf[e])
          /\ dedupeKey' = [dedupeKey EXCEPT ![i] = FingerprintOf[e]]
          /\ links' = links \cup {<<i, e>>}
          /\ eventCount' = [eventCount EXCEPT ![i] = 1]
          /\ Choose(e, i)
          /\ Go(e, "remember")
     \/ /\ ~NoConflict(FingerprintOf[e])
        /\ Go(e, "findOpen")
        /\ UNCHANGED <<dedupeKey, links, eventCount, target>>
  /\ UNCHANGED <<busVars, announced, operatorVars, cache>>

\* createIncidentRecord: the row, the link and event_count = 1 in one
\* transaction, or, ON CONFLICT (dedupe_key), the id of the existing row and
\* nothing else.
Create(e) ==
  /\ pc[e] = "create"
  /\ \/ \E i \in Incidents \ Rows :
          /\ NoConflict(FingerprintOf[e])
          /\ dedupeKey' = [dedupeKey EXCEPT ![i] = FingerprintOf[e]]
          /\ links' = links \cup {<<i, e>>}
          /\ eventCount' = [eventCount EXCEPT ![i] = 1]
          /\ Choose(e, i)
     \/ \E i \in WithKey(FingerprintOf[e]) :
          /\ Choose(e, i)
          /\ UNCHANGED <<dedupeKey, links, eventCount>>
  /\ Go(e, "remember")
  /\ UNCHANGED <<busVars, announced, operatorVars, cache>>

\* enqueueIncidentNotification(CREATED), one INSERT per channel: the e-mail
\* row is counted, the webhook row is the next await. Without an assignee
\* there is nothing to enqueue.
Notify(e) ==
  /\ pc[e] = "notify"
  /\ \/ /\ announced' = [announced EXCEPT ![target[e]] = @ + 1]
        /\ Go(e, "notifyNext")
     \/ /\ Go(e, "return")
        /\ UNCHANGED announced
  /\ UNCHANGED <<busVars, target, dedupeKey, links, eventCount, operatorVars,
                 cache>>

NotifyNext(e) ==
  /\ pc[e] = "notifyNext"
  /\ Go(e, "return")
  /\ UNCHANGED <<busVars, target, tableVars, operatorVars, cache>>

ProcessEvent(e) ==
  \/ ReadCache(e) \/ FindOpen(e) \/ Link(e) \/ Count(e)
  \/ Refresh(e, "refresh", "return")
  \/ Create(e) \/ Refresh(e, "remember", "notify")
  \/ Notify(e) \/ NotifyNext(e)

-----------------------------------------------------------------------------
(* Operators: updateIncidentStatus(RESOLVED) and reopenIncident.           *)

\* The transaction has updated the row and started clearDedupeCache, which
\* runs on its own: before, during or after the commit. One resolve of an
\* incident is in flight at a time here; IncidentCommand has the races
\* between requests.
Resolve(i) ==
  /\ resolves < MaxResolves
  /\ i \in Rows \ (resolved \cup committing)
  /\ clearer[i] = "idle"
  /\ committing' = committing \cup {i}
  /\ clearer' = [clearer EXCEPT ![i] = "get"]
  /\ resolves' = resolves + 1
  /\ UNCHANGED <<busVars, handlerVars, tableVars, resolved, cache>>

\* COMMIT, or a rollback because a later statement failed.
EndResolve(i) ==
  /\ i \in committing
  /\ committing' = committing \ {i}
  /\ resolved' \in {resolved, resolved \cup {i}}
  /\ UNCHANGED <<busVars, handlerVars, tableVars, clearer, resolves, cache>>

\* clearDedupeCache: get and compare, then del. A Redis error ends it.
ClearGet(i) ==
  /\ clearer[i] = "get"
  /\ \/ /\ cache[dedupeKey[i]] = i
        /\ clearer' = [clearer EXCEPT ![i] = "del"]
     \/ clearer' = [clearer EXCEPT ![i] = "idle"]
  /\ UNCHANGED <<busVars, handlerVars, tableVars, resolved, committing,
                 resolves, cache>>

ClearDel(i) ==
  /\ clearer[i] = "del"
  /\ clearer' = [clearer EXCEPT ![i] = "idle"]
  /\ cache' \in {cache, [cache EXCEPT ![dedupeKey[i]] = NoIncident]}
  /\ UNCHANGED <<busVars, handlerVars, tableVars, resolved, committing,
                 resolves>>

Reopen(i) ==
  /\ i \in resolved
  /\ resolved' = resolved \ {i}
  /\ UNCHANGED <<busVars, handlerVars, tableVars, committing, clearer,
                 resolves, cache>>

\* The 30 minute TTL of a cache entry.
CacheExpires(f) ==
  /\ cache[f] # NoIncident
  /\ cache' = [cache EXCEPT ![f] = NoIncident]
  /\ UNCHANGED <<busVars, handlerVars, tableVars, operatorVars>>

-----------------------------------------------------------------------------
Next ==
  \/ BindQueue
  \/ \E e \in Messages :
       \/ IngestEvent(e) \/ ProcessEvent(e) \/ HandlerReturns(e)
       \/ HandlerThrows(e) \/ ResendEvent(e) \/ ExpireEvent(e)
       \/ \E c \in Consumers : StartHandler(c, e)
  \/ \E c \in Consumers : WorkerCrash(c)
  \/ \E i \in Incidents :
       \/ Resolve(i) \/ EndResolve(i) \/ ClearGet(i) \/ ClearDel(i)
       \/ Reopen(i)
  \/ \E f \in Fingerprints : CacheExpires(f)

(* The broker delivers, timers fire, a started handler and an open         *)
(* transaction run to their end: Node runs every ready continuation.       *)
Fairness ==
  /\ \A e \in Messages :
       /\ WF_vars(\E c \in Consumers : StartHandler(c, e))
       /\ WF_vars(ProcessEvent(e) \/ HandlerReturns(e))
       /\ WF_vars(ResendEvent(e))
  /\ \A i \in Incidents : WF_vars(EndResolve(i))

SafetySpec == Init /\ [][Next]_vars
Spec == SafetySpec /\ Fairness

-----------------------------------------------------------------------------
TypeOK ==
  /\ BusTypeOK
  /\ pc \in [Messages -> Steps]
  /\ target \in [Messages -> Incidents \cup {NoIncident}]
  /\ dedupeKey \in [Incidents -> Fingerprints \cup {NoKey}]
  /\ resolved \in SUBSET Incidents
  /\ links \in SUBSET (Incidents \X Messages)
  /\ eventCount \in [Incidents -> Nat]
  /\ announced \in [Incidents -> Nat]
  /\ cache \in [Fingerprints -> Incidents \cup {NoIncident}]
  /\ committing \in SUBSET Incidents
  /\ clearer \in [Incidents -> {"idle", "get", "del"}]
  /\ resolves \in 0..MaxResolves

(* Racing handlers, redeliveries and resolves never make two incidents of  *)
(* one fingerprint (event.processor.ts:45).                                *)
OneIncidentPerFingerprint ==
  \A i, j \in Rows : dedupeKey[i] = dedupeKey[j] => i = j

(* An event is only ever attached to an incident of its own fingerprint,   *)
(* whichever stale cache entry or lost race handed the handler its id.     *)
LinksMatchFingerprint ==
  \A i \in Incidents, e \in Messages :
    <<i, e>> \in links => dedupeKey[i] = FingerprintOf[e]

(* clearDedupeCache compares and deletes in two steps; the entry it        *)
(* deletes can still only be its own incident's (incidents.service.ts:432  *)
(* "Only clear if it still points at this incident").                      *)
ClearEvictsOwnEntry ==
  \A i \in Incidents :
    clearer[i] = "del" => cache[dedupeKey[i]] \in {i, NoIncident}

(* event_count never exceeds the linked events, counting the handlers that *)
(* have linked and not yet counted; it lags behind only after a handler    *)
(* failed or died between the two statements of linkEvent.                 *)
Uncounted(i) == {e \in Messages : pc[e] = "count" /\ target[e] = i}
CountFollowsLinks ==
  \A i \in Incidents :
    LET counted == eventCount[i] + Cardinality(Uncounted(i))
    IN  /\ counted <= Cardinality(LinksOf(i))
        /\ (crashes = 0 /\ \A e \in Messages : attempts[e] = 0)
             => counted = Cardinality(LinksOf(i))

(* An acknowledged event left its trace: an incident of its fingerprint    *)
(* with at least one linked event, though not always itself.               *)
ProcessedIsCovered ==
  \A e \in processed :
    \E i \in WithKey(FingerprintOf[e]) : LinksOf(i) # {} /\ eventCount[i] > 0

(* Every event in the queue is acknowledged or parked in the DLQ in the    *)
(* end: no handler waits for a lock forever.                               *)
EventsSettle ==
  \A e \in Messages : InQueue(e) ~> place[e] = "gone"

-----------------------------------------------------------------------------
(* incidents.service.ts:268 "Clear dedupe cache so the next burst opens a  *)
(* fresh incident": an event that finds no open incident gets one.         *)
BurstOpensFreshIncident ==
  [][\A e \in Messages :
       pc[e] = "create" /\ pc'[e] = "remember" => target'[e] \notin resolved
    ]_vars
=============================================================================
