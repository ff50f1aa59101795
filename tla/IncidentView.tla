---------------------------- MODULE IncidentView ----------------------------
(***************************************************************************)
(* An incident as operators see and change it: detail pages in browsers    *)
(* (incidents/[id]/page.tsx, useFetch.ts, socket.tsx), the API's rate      *)
(* limiter (rate-limit.ts, redis.ts), its pool of connections and its      *)
(* transactions (db.ts, incidents.service.ts), and the messages that make  *)
(* pages load again (ws-hub.ts, realtime-bridge.ts).                       *)
(*                                                                         *)
(* The incident is the number of changes committed to it, its creation     *)
(* the first; a page that shows 0 has no data. A command keeps             *)
(* its connection from BEGIN to COMMIT, the row lock from its UPDATE, and  *)
(* reads the incident back on a second connection in between. Any other    *)
(* statement takes a connection, waits for nobody and gives it back. What  *)
(* a command may do is in IncidentCommand: here its guard says yes or no.  *)
(***************************************************************************)
EXTENDS Naturals, FiniteSets

CONSTANTS
  Pages,         \* open detail pages of the incident
  Commands,      \* clicks in a run
  PageOf,        \* the page of each command
  Broadcasting,  \* commands that announce: status and reopen, no others
  PoolSize,      \* max of the pool
  Keys, KeyOf,   \* req.ip of each page
  Window,        \* ticks in the window of the limiter
  Limit,         \* RATE_LIMIT_API_PER_MINUTE
  MaxLoads,      \* bound on requests of a page under way at one time
  MaxWork,       \* bound on changes of the worker in a run
  MaxFaults,     \* bound on lost connections and failures of Redis in a run
  Nobody

ASSUME ViewAssumption ==
  /\ IsFiniteSet(Commands) /\ Nobody \notin Commands
  /\ PageOf \in [Commands -> Pages] /\ KeyOf \in [Pages -> Keys]
  /\ Broadcasting \subseteq Commands
  /\ PoolSize \in Nat \ {0} /\ Window \in Nat \ {0} /\ Limit \in Nat
  /\ MaxLoads \in Nat /\ MaxWork \in Nat /\ MaxFaults \in Nat

VARIABLES
  changes,   \* changes committed to the incident
  lock,      \* the command that holds the row
  phase,     \* the await each command is at
  opened,    \* pages that are there
  loads,     \* requests of a page for the detail, the cancelled ones too
  shown,     \* what the page shows: the row, and how old the timeline is
  error,     \* whether it shows an error instead
  online,    \* the page's socket
  inbox,     \* messages on their way to it
  work,      \* changes of the worker, and those it has announced
  hits,      \* the sorted set of each key: its entries in the window
  admitted,  \* those that were let through (a history)
  own, told, \* changes a page made itself, or was told of (histories)
  faults

limitVars == <<hits, admitted>>
pageVars == <<opened, loads, shown, error>>
socketVars == <<online, inbox, told>>
vars == <<changes, lock, phase, pageVars, socketVars, work, limitVars, own, faults>>

Ages == 0..(Window - 1)
Entries == [age : Ages, nr : 1..(Limit + 1)]
Phases == {"idle", "connect", "update", "nested", "commit", "answer", "done"}
Views == [row : Nat, timeline : Nat]
Loads == [cancelled : BOOLEAN, at : {"row", "rest", "answer", "failed"},
          row : Nat, timeline : Nat]

Init ==
  /\ changes = 1 /\ lock = Nobody
  /\ phase = [c \in Commands |-> "idle"]
  /\ opened = {}
  /\ loads = [p \in Pages |-> {}]
  /\ shown = [p \in Pages |-> [row |-> 0, timeline |-> 0]]
  /\ error = [p \in Pages |-> FALSE]
  /\ online = [p \in Pages |-> TRUE]
  /\ inbox = [p \in Pages |-> 0]
  /\ work = [done |-> 0, announced |-> 0]
  /\ hits = [k \in Keys |-> {}]
  /\ admitted = [k \in Keys |-> {}]
  /\ own = [p \in Pages |-> 0]
  /\ told = [p \in Pages |-> 0]
  /\ faults = 0

-----------------------------------------------------------------------------
(* The rate limiter.                                                       *)

Fault == faults < MaxFaults /\ faults' = faults + 1

\* slidingWindowAdd: a member of its own, by now and a random number. More
\* than Limit + 1 of one age are not told apart: that is over the limit.
Capped(n) == IF n > Limit THEN Limit + 1 ELSE n
NewEntry(k) ==
  [age |-> 0, nr |-> Capped(Cardinality({e \in hits[k] : e.age = 0}) + 1)]

\* The entry goes in before the window is counted.
Entered(k) == hits[k] \cup {NewEntry(k)}

Admit(k) ==
  /\ Cardinality(Entered(k)) <= Limit
  /\ hits' = [hits EXCEPT ![k] = Entered(k)]
  /\ admitted' = [admitted EXCEPT ![k] = @ \cup {NewEntry(k)}]
  /\ UNCHANGED faults

Refuse(k) ==
  /\ Cardinality(Entered(k)) > Limit
  /\ hits' = [hits EXCEPT ![k] = Entered(k)]
  /\ UNCHANGED <<admitted, faults>>

\* Redis fails: the request goes on, uncounted.
Degrade(k) == Fault /\ UNCHANGED limitVars

\* Entries older than the window are dropped.
Shifted(e) == [e EXCEPT !.age = @ + 1]
Older(S) == {Shifted(e) : e \in {x \in S : x.age + 1 \in Ages}}

\* Mutation: a fixed window, emptied when it expires.
TickFixed ==
  /\ hits' = [k \in Keys |-> {}]
  /\ admitted' = [k \in Keys |-> Older(admitted[k])]
  /\ UNCHANGED <<changes, lock, phase, pageVars, socketVars, work, own, faults>>

Tick ==
  /\ hits' = [k \in Keys |-> Older(hits[k])]
  /\ admitted' = [k \in Keys |-> Older(admitted[k])]
  /\ UNCHANGED <<changes, lock, phase, pageVars, socketVars, work, own, faults>>

-----------------------------------------------------------------------------
(* A page. An effect cancels the one before it and asks for the detail.    *)

Load(p) ==
  /\ Cardinality(loads[p]) < MaxLoads
  /\ \E at \in {"row", "failed"} :
       /\ IF at = "row" THEN Admit(KeyOf[p]) \/ Degrade(KeyOf[p])
                        ELSE Refuse(KeyOf[p])
       /\ opened' = opened \cup {p}
       /\ loads' = [loads EXCEPT ![p] =
            {[l EXCEPT !.cancelled = TRUE] : l \in @} \cup
            {[cancelled |-> FALSE, at |-> at, row |-> 0, timeline |-> 0]}]
       /\ error' = [error EXCEPT ![p] = FALSE]
       /\ UNCHANGED shown

Open(p) ==
  /\ p \notin opened
  /\ Load(p)
  /\ UNCHANGED <<changes, lock, phase, socketVars, work, own>>

\* Mutation: no reload while one is under way.
MessageSkipped(p) ==
  /\ inbox[p] > 0
  /\ inbox' = [inbox EXCEPT ![p] = @ - 1]
  /\ IF loads[p] = {} THEN Load(p)
                      ELSE UNCHANGED <<pageVars, limitVars, faults>>
  /\ UNCHANGED <<changes, lock, phase, online, told, work, own>>

\* useRealtime("incident.updated")
MessageArrives(p) ==
  /\ inbox[p] > 0
  /\ inbox' = [inbox EXCEPT ![p] = @ - 1]
  /\ Load(p)
  /\ UNCHANGED <<changes, lock, phase, online, told, work, own>>

Holding == {c \in Commands : phase[c] \in {"update", "nested", "commit"}}
Free == Cardinality(Holding) < PoolSize

LoadGoesTo(p, l, next) ==
  /\ loads' = [loads EXCEPT ![p] = (@ \ {l}) \cup {next}]
  /\ UNCHANGED <<changes, lock, phase, opened, shown, error, socketVars, work,
                 limitVars, own, faults>>

\* getIncidentDetail: the row, and then everything else.
ReadRow(p, l) ==
  /\ l.at = "row" /\ Free
  /\ LoadGoesTo(p, l, [l EXCEPT !.at = "rest", !.row = changes])

\* Mutation: the timeline is read first, the row with the rest.
ReadRowLast(p, l) ==
  /\ l.at = "rest" /\ Free
  /\ LoadGoesTo(p, l, [l EXCEPT !.at = "answer", !.timeline = l.row, !.row = changes])

ReadRest(p, l) ==
  /\ l.at = "rest" /\ Free
  /\ LoadGoesTo(p, l, [l EXCEPT !.at = "answer", !.timeline = changes])

LoadTimesOut(p, l) ==
  /\ l.at \in {"row", "rest"} /\ ~Free
  /\ LoadGoesTo(p, l, [l EXCEPT !.at = "failed", !.row = 0])

\* requireAuth: the session has run out, or there never was one.
LoadRejected(p, l) ==
  /\ l.at = "row"
  /\ LoadGoesTo(p, l, [l EXCEPT !.at = "failed"])

\* Mutation: cancelled is not looked at.
AnyCounts(l) == TRUE

Counts(l) == ~l.cancelled

\* The response, or the error, is there.
LoadEnds(p, l) ==
  /\ l.at \in {"answer", "failed"}
  /\ loads' = [loads EXCEPT ![p] = @ \ {l}]
  /\ IF ~Counts(l) THEN UNCHANGED <<shown, error>>
     ELSE IF l.at = "answer"
     THEN /\ shown' = [shown EXCEPT ![p] = [row |-> l.row, timeline |-> l.timeline]]
          /\ UNCHANGED error
     ELSE error' = [error EXCEPT ![p] = TRUE] /\ UNCHANGED shown
  /\ UNCHANGED <<changes, lock, phase, opened, socketVars, work, limitVars, own, faults>>

-----------------------------------------------------------------------------
(* A command. The buttons are there when the page has data and no error.   *)

Goto(c, at) == phase' = [phase EXCEPT ![c] = at]

Send(c) ==
  /\ phase[c] = "idle"
  /\ shown[PageOf[c]].row > 0 /\ ~error[PageOf[c]]
  /\ \/ (Admit(KeyOf[PageOf[c]]) \/ Degrade(KeyOf[PageOf[c]])) /\ Goto(c, "connect")
     \/ Refuse(KeyOf[PageOf[c]]) /\ Goto(c, "done")
  /\ UNCHANGED <<changes, lock, pageVars, socketVars, work, own>>

\* The session, the role or the body: before there is a connection.
Reject(c) ==
  /\ phase[c] = "connect"
  /\ Goto(c, "done")
  /\ UNCHANGED <<changes, lock, pageVars, socketVars, work, limitVars, own, faults>>

\* BEGIN, the SELECT and the guard; a command that is refused rolls back.
Connect(c) ==
  /\ phase[c] = "connect" /\ Free
  /\ Goto(c, "update") \/ Goto(c, "done")
  /\ UNCHANGED <<changes, lock, pageVars, socketVars, work, limitVars, own, faults>>

\* To the pages that are connected now.
Listening == {p \in opened : online[p]}
Emit == inbox' = [p \in Pages |-> IF p \in Listening THEN inbox[p] + 1 ELSE inbox[p]]

\* UPDATE, timeline and audit; and the broadcast, before the COMMIT.
Update(c) ==
  /\ phase[c] = "update" /\ lock = Nobody
  /\ Goto(c, "nested")
  /\ lock' = c
  /\ IF c \in Broadcasting THEN Emit ELSE UNCHANGED inbox
  /\ UNCHANGED <<changes, pageVars, online, told, work, limitVars, own, faults>>

\* getIncident, on another connection.
ReadBack(c) ==
  /\ phase[c] = "nested" /\ Free
  /\ Goto(c, "commit")
  /\ UNCHANGED <<changes, lock, pageVars, socketVars, work, limitVars, own, faults>>

Commit(c) ==
  /\ phase[c] = "commit"
  /\ Goto(c, "answer")
  /\ changes' = changes + 1
  /\ lock' = Nobody
  /\ own' = [own EXCEPT ![PageOf[c]] = changes + 1]
  /\ UNCHANGED <<pageVars, socketVars, work, limitVars, faults>>

\* Mutation: connectionTimeoutMillis is left at 0.
NoTimeOut(c) == FALSE /\ UNCHANGED vars

\* connectionTimeoutMillis: an error, and ROLLBACK of what there is.
TimeOut(c) ==
  /\ phase[c] \in {"connect", "nested"} /\ ~Free
  /\ Goto(c, "done")
  /\ lock' = IF lock = c THEN Nobody ELSE lock
  /\ UNCHANGED <<changes, pageVars, socketVars, work, limitVars, own, faults>>

\* run: the page loads again after a success.
Answer(c) ==
  /\ phase[c] = "answer"
  /\ Goto(c, "done")
  /\ Load(PageOf[c])
  /\ UNCHANGED <<changes, lock, socketVars, work, own>>

-----------------------------------------------------------------------------
(* The worker announces what it has committed, over the bus.               *)

WorkerCommits ==
  /\ work.done < MaxWork /\ lock = Nobody
  /\ work' = [work EXCEPT !.done = @ + 1]
  /\ changes' = changes + 1
  /\ UNCHANGED <<lock, phase, pageVars, socketVars, limitVars, own, faults>>

\* emitRealtime and the bridge; a failed publish is ignored.
WorkerAnnounces ==
  /\ work.announced < work.done
  /\ work' = [work EXCEPT !.announced = @ + 1]
  /\ \/ /\ Emit
        /\ told' = [p \in Pages |-> IF p \in Listening THEN changes ELSE told[p]]
        /\ UNCHANGED faults
     \/ Fault /\ UNCHANGED <<inbox, told>>
  /\ UNCHANGED <<changes, lock, phase, pageVars, online, limitVars, own>>

\* What was on its way is gone; nothing is loaded when the socket is back.
Disconnect(p) ==
  /\ online[p] /\ Fault
  /\ online' = [online EXCEPT ![p] = FALSE]
  /\ inbox' = [inbox EXCEPT ![p] = 0]
  /\ told' = [told EXCEPT ![p] = 0]
  /\ UNCHANGED <<changes, lock, phase, pageVars, work, limitVars, own>>

Reconnect(p) ==
  /\ ~online[p]
  /\ online' = [online EXCEPT ![p] = TRUE]
  /\ UNCHANGED <<changes, lock, phase, pageVars, inbox, told, work, limitVars,
                 own, faults>>

-----------------------------------------------------------------------------
Handle(c) ==
  \/ Reject(c) \/ Connect(c) \/ Update(c) \/ ReadBack(c)
  \/ Commit(c) \/ TimeOut(c) \/ Answer(c)

LoadStep(p) ==
  \E l \in loads[p] :
    \/ LoadRejected(p, l) \/ LoadTimesOut(p, l)
    \/ ReadRow(p, l) \/ ReadRest(p, l) \/ LoadEnds(p, l)

Next ==
  \/ Tick \/ WorkerCommits \/ WorkerAnnounces
  \/ \E c \in Commands : Send(c) \/ Handle(c)
  \/ \E p \in Pages : Open(p) \/ MessageArrives(p) \/ LoadStep(p)
                      \/ Disconnect(p) \/ Reconnect(p)

(* A statement returns; a wait for a connection ends with one or with the  *)
(* timeout; a message that is not lost arrives.                            *)
Fairness ==
  /\ \A c \in Commands : WF_vars(Handle(c))
  /\ \A p \in Pages : WF_vars(LoadStep(p)) /\ WF_vars(MessageArrives(p))

SafetySpec == Init /\ [][Next]_vars
Spec == SafetySpec /\ Fairness

-----------------------------------------------------------------------------
TypeOK ==
  /\ changes \in Nat
  /\ lock \in Commands \cup {Nobody}
  /\ phase \in [Commands -> Phases]
  /\ opened \subseteq Pages
  /\ loads \in [Pages -> SUBSET Loads]
  /\ shown \in [Pages -> Views]
  /\ error \in [Pages -> BOOLEAN] /\ online \in [Pages -> BOOLEAN]
  /\ inbox \in [Pages -> Nat]
  /\ work \in [done : Nat, announced : Nat]
  /\ hits \in [Keys -> SUBSET Entries] /\ admitted \in [Keys -> SUBSET Entries]
  /\ own \in [Pages -> Nat] /\ told \in [Pages -> Nat]
  /\ faults \in 0..MaxFaults

Reloading(p) == \E l \in loads[p] : ~l.cancelled

(* "open detail pages update live" (realtime-bridge.ts:19), as far as the  *)
(* code keeps it: a page that shows no error and waits for nothing shows   *)
(* what its own commands committed and what the worker told it of while it *)
(* was connected, however loads, answers and messages cross.               *)
PagesKeepUp ==
  \A p \in Pages :
    \/ error[p] \/ Reloading(p) \/ inbox[p] > 0
    \/ \E c \in Commands : PageOf[c] = p /\ phase[c] = "answer"
    \/ shown[p].row >= own[p] /\ shown[p].row >= told[p]

(* A page never goes back to an older row or timeline, in whatever order   *)
(* the responses come (useFetch.ts:12).                                    *)
PageNeverGoesBack ==
  [][\A p \in Pages : /\ shown'[p].row >= shown[p].row
                      /\ shown'[p].timeline >= shown[p].timeline]_vars

(* Eight statements make a detail, in no transaction (incidents.service.   *)
(* ts:112-146): the timeline may be ahead of the row, never behind it.     *)
TimelineCoversRow == \A p \in Pages : shown[p].timeline >= shown[p].row

(* Transactions that hold every connection and wait for one more, or for a *)
(* row one of them has locked, end all the same; so does every load.       *)
Underway ==
  \/ \E c \in Commands : phase[c] \notin {"idle", "done"}
  \/ \E p \in Pages : loads[p] # {}

RequestsEnd == Underway ~> ~Underway

(* "drop entries older than window, append now, count" (rate-limit.ts:20): *)
(* no window, wherever it starts, admits more requests of a key than the   *)
(* limit, those apart that Redis did not count.                            *)
AdmittedWithinLimit == \A k \in Keys : Cardinality(admitted[k]) <= Limit
=============================================================================
