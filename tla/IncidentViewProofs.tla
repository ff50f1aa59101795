------------------------- MODULE IncidentViewProofs -------------------------
(***************************************************************************)
(* What a detail page shows, for any number of pages, commands, loads and  *)
(* connections, and whatever is lost, refused or timed out.                *)
(***************************************************************************)
EXTENDS IncidentView, FiniteSetTheorems, FunctionTheorems, TLAPS

-----------------------------------------------------------------------------
(* Lemmas about the pieces the actions are made of.                        *)

LEMMA ViewConstants ==
  /\ PageOf \in [Commands -> Pages] /\ KeyOf \in [Pages -> Keys]
  /\ Limit \in Nat /\ MaxFaults \in Nat
  /\ Window \in Nat \ {0} /\ 0 \in Ages
BY ViewAssumption DEF Ages

LEMMA FaultType ==
  ASSUME faults \in 0..MaxFaults, Fault \/ UNCHANGED faults
  PROVE  faults' \in 0..MaxFaults
BY ViewConstants DEF Fault

\* There are so many entries and no more.
LEMMA EntriesFinite ==
  ASSUME NEW S \in SUBSET Entries
  PROVE  IsFiniteSet(S) /\ Cardinality(S) \in Nat
<1> DEFINE f == [t \in Ages \X (1..(Limit + 1)) |-> [age |-> t[1], nr |-> t[2]]]
<1>1. IsFiniteSet(Ages) /\ IsFiniteSet(1..(Limit + 1))
  BY ViewConstants, FS_Interval DEF Ages
<1>2. IsFiniteSet(Ages \X (1..(Limit + 1)))
  BY <1>1, FS_Product
<1>3. f \in Surjection(Ages \X (1..(Limit + 1)), Entries)
  <2>1. f \in [Ages \X (1..(Limit + 1)) -> Entries]
    BY DEF Entries
  <2>2. ASSUME NEW e \in Entries
        PROVE  \E t \in Ages \X (1..(Limit + 1)) : f[t] = e
    <3>1. <<e.age, e.nr>> \in Ages \X (1..(Limit + 1))
      BY DEF Entries
    <3>2. f[<<e.age, e.nr>>] = e
      BY <3>1 DEF Entries
    <3>3. QED
      BY <3>1, <3>2
  <2> HIDE DEF f
  <2>3. QED
    BY <2>1, <2>2, Fun_IsSurj
<1> HIDE DEF f
<1>4. IsFiniteSet(Entries)
  BY <1>2, <1>3, FS_Surjection
<1>5. QED
  BY <1>4, FS_Subset, FS_CardinalityType

\* What is dropped from a window leaves no more of it than there was.
LEMMA OlderFacts ==
  ASSUME NEW S \in SUBSET Entries
  PROVE  /\ Older(S) \in SUBSET Entries
         /\ Cardinality(Older(S)) <= Cardinality(S)
<1> DEFINE T == {x \in S : x.age + 1 \in Ages}
           f == [x \in T |-> Shifted(x)]
<1>1. \A x \in T : Shifted(x) \in Entries
  BY DEF Shifted, Entries
<1>2. Older(S) \in SUBSET Entries
  BY <1>1 DEF Older
<1>3. f \in Surjection(T, Older(S))
  <2>1. f \in [T -> Older(S)]
    BY DEF Older
  <2>2. \A e \in Older(S) : \E x \in T : f[x] = e
    BY DEF Older
  <2> HIDE DEF f, T
  <2>3. QED
    BY <2>1, <2>2, Fun_IsSurj
<1>4. T \in SUBSET S /\ T \in SUBSET Entries
  OBVIOUS
<1> HIDE DEF f, T
<1>5. Cardinality(Older(S)) <= Cardinality(T)
  BY <1>3, <1>4, EntriesFinite, FS_Surjection
<1>6. Cardinality(T) <= Cardinality(S)
  BY <1>4, EntriesFinite, FS_Subset
<1>7. /\ Cardinality(T) \in Nat /\ Cardinality(S) \in Nat
      /\ Cardinality(Older(S)) \in Nat
  BY <1>2, <1>4, EntriesFinite
<1>8. QED
  BY <1>2, <1>5, <1>6, <1>7

LEMMA NewEntryType ==
  ASSUME TypeOK, NEW k \in Keys
  PROVE  NewEntry(k) \in Entries /\ Entered(k) \in SUBSET Entries
<1> DEFINE young == {e \in hits[k] : e.age = 0}
<1>1. hits[k] \in SUBSET Entries
  BY DEF TypeOK
<1>2. Cardinality(young) \in Nat
  BY <1>1, EntriesFinite
<1> HIDE DEF young
<1>3. Capped(Cardinality(young) + 1) \in 1..(Limit + 1)
  BY <1>2, ViewConstants DEF Capped
<1>4. NewEntry(k) \in Entries
  BY <1>3, ViewConstants DEF NewEntry, Entries, young
<1>5. QED
  BY <1>1, <1>4 DEF Entered

\* The limiter answers, or does not.
LEMMA LimiterTypes ==
  ASSUME TypeOK, NEW k \in Keys, Admit(k) \/ Refuse(k) \/ Degrade(k)
  PROVE  /\ hits' \in [Keys -> SUBSET Entries]
         /\ admitted' \in [Keys -> SUBSET Entries]
         /\ faults' \in 0..MaxFaults
<1>1. NewEntry(k) \in Entries /\ Entered(k) \in SUBSET Entries
  BY NewEntryType
<1>2. CASE Admit(k)
  BY <1>1, <1>2 DEF TypeOK, Admit
<1>3. CASE Refuse(k)
  BY <1>1, <1>3 DEF TypeOK, Refuse
<1>4. CASE Degrade(k)
  BY <1>4, FaultType DEF TypeOK, Degrade, limitVars
<1>5. QED
  BY <1>2, <1>3, <1>4

Fresh == {[cancelled |-> FALSE, at |-> at, row |-> 0, timeline |-> 0] :
            at \in {"row", "failed"}}
Cancel(l) == [l EXCEPT !.cancelled = TRUE]

\* A new load cancels those that are under way.
LEMMA LoadFacts ==
  ASSUME NEW p \in Pages, Load(p)
  PROVE  /\ \E new \in Fresh : loads' = [loads EXCEPT ![p] =
                {Cancel(l) : l \in loads[p]} \cup {new}]
         /\ error' = [error EXCEPT ![p] = FALSE]
         /\ opened' = opened \cup {p}
         /\ UNCHANGED shown
         /\ Admit(KeyOf[p]) \/ Refuse(KeyOf[p]) \/ Degrade(KeyOf[p])
BY DEF Load, Fresh, Cancel

LEMMA LoadTypes ==
  ASSUME TypeOK, NEW p \in Pages, Load(p)
  PROVE  /\ loads' \in [Pages -> SUBSET Loads]
         /\ opened' \subseteq Pages
         /\ error' \in [Pages -> BOOLEAN]
         /\ shown' \in [Pages -> Views]
         /\ hits' \in [Keys -> SUBSET Entries]
         /\ admitted' \in [Keys -> SUBSET Entries]
         /\ faults' \in 0..MaxFaults
<1>1. \A l \in Loads : Cancel(l) \in Loads
  BY DEF Loads, Cancel
<1>2. Fresh \subseteq Loads
  <2>1. ASSUME NEW at \in {"row", "failed"}
        PROVE  [cancelled |-> FALSE, at |-> at, row |-> 0, timeline |-> 0] \in Loads
    BY DEF Loads
  <2>2. QED
    BY <2>1 DEF Fresh
<1>3. PICK new \in Fresh : loads' = [loads EXCEPT ![p] =
             {Cancel(l) : l \in loads[p]} \cup {new}]
  BY LoadFacts
<1>4. loads' \in [Pages -> SUBSET Loads]
  BY <1>1, <1>2, <1>3 DEF TypeOK
<1>5. KeyOf[p] \in Keys
  BY ViewConstants
<1>6. /\ opened' \subseteq Pages
      /\ error' \in [Pages -> BOOLEAN]
      /\ shown' \in [Pages -> Views]
  BY LoadFacts DEF TypeOK
<1>7. Admit(KeyOf[p]) \/ Refuse(KeyOf[p]) \/ Degrade(KeyOf[p])
  BY LoadFacts
<1>8. /\ hits' \in [Keys -> SUBSET Entries]
      /\ admitted' \in [Keys -> SUBSET Entries]
      /\ faults' \in 0..MaxFaults
  BY <1>5, <1>7, LimiterTypes
<1>9. QED
  BY <1>4, <1>6, <1>8

\* A load goes on, with what it has read.
LEMMA LoadGoesTypes ==
  ASSUME TypeOK, NEW p \in Pages, NEW l \in loads[p], NEW next \in Loads,
         LoadGoesTo(p, l, next)
  PROVE  TypeOK'
BY DEF LoadGoesTo, TypeOK, socketVars, limitVars

LEMMA EmitTypes ==
  ASSUME TypeOK, Emit PROVE inbox' \in [Pages -> Nat]
BY DEF Emit, TypeOK

(* Every action keeps the types.                                           *)
LEMMA ViewTypesStep == TypeOK /\ [Next]_vars => TypeOK'
<1> SUFFICES ASSUME TypeOK, [Next]_vars PROVE TypeOK'
  OBVIOUS
<1> USE DEF pageVars, socketVars, limitVars
<1>1. CASE Tick
  <2>1. ASSUME NEW S \in SUBSET Entries PROVE Older(S) \in SUBSET Entries
    BY OlderFacts
  <2>2. QED
    BY <1>1, <2>1 DEF Tick, TypeOK
<1>2. CASE WorkerCommits
  BY <1>2 DEF WorkerCommits, TypeOK
<1>3. CASE WorkerAnnounces
  <2>1. inbox' \in [Pages -> Nat] /\ told' \in [Pages -> Nat]
    BY <1>3, EmitTypes DEF WorkerAnnounces, TypeOK
  <2>2. work' \in [done : Nat, announced : Nat]
    BY <1>3 DEF WorkerAnnounces, TypeOK
  <2>3. faults' \in 0..MaxFaults
    BY <1>3, FaultType DEF WorkerAnnounces, TypeOK
  <2>4. QED
    BY <1>3, <2>1, <2>2, <2>3 DEF WorkerAnnounces, TypeOK
<1>4. ASSUME NEW c \in Commands, Send(c) PROVE TypeOK'
  <2> DEFINE k == KeyOf[PageOf[c]]
  <2>1. k \in Keys
    BY ViewConstants
  <2>2. Admit(k) \/ Refuse(k) \/ Degrade(k)
    BY <1>4 DEF Send
  <2>3. /\ hits' \in [Keys -> SUBSET Entries]
        /\ admitted' \in [Keys -> SUBSET Entries]
        /\ faults' \in 0..MaxFaults
    BY <2>1, <2>2, LimiterTypes
  <2>4. phase' \in [Commands -> Phases]
    BY <1>4 DEF Send, Goto, TypeOK, Phases
  <2>5. QED
    BY <1>4, <2>3, <2>4 DEF Send, TypeOK
<1>5. ASSUME NEW c \in Commands,
             Reject(c) \/ Connect(c) \/ ReadBack(c) \/ TimeOut(c)
      PROVE  TypeOK'
  BY <1>5 DEF Reject, Connect, ReadBack, TimeOut, Goto, TypeOK, Phases
<1>6. ASSUME NEW c \in Commands, Update(c) PROVE TypeOK'
  <2>1. inbox' \in [Pages -> Nat]
    BY <1>6, EmitTypes DEF Update, TypeOK
  <2>2. QED
    BY <1>6, <2>1 DEF Update, Goto, TypeOK, Phases
<1>7. ASSUME NEW c \in Commands, Commit(c) PROVE TypeOK'
  <2>1. phase' \in [Commands -> Phases]
    BY <1>7 DEF Commit, Goto, TypeOK, Phases
  <2>2. changes' \in Nat /\ own' \in [Pages -> Nat]
    BY <1>7, ViewConstants DEF Commit, TypeOK
  <2>3. QED
    BY <1>7, <2>1, <2>2 DEF Commit, TypeOK
<1>8. ASSUME NEW c \in Commands, Answer(c) PROVE TypeOK'
  <2>1. PageOf[c] \in Pages /\ Load(PageOf[c])
    BY <1>8, ViewConstants DEF Answer
  <2>2. phase' \in [Commands -> Phases]
    BY <1>8 DEF Answer, Goto, TypeOK, Phases
  <2>3. QED
    BY <1>8, <2>1, <2>2, LoadTypes DEF Answer, TypeOK
<1>9. ASSUME NEW p \in Pages, Open(p) \/ MessageArrives(p) PROVE TypeOK'
  <2>1. Load(p)
    BY <1>9 DEF Open, MessageArrives
  <2>2. inbox' \in [Pages -> Nat]
    BY <1>9 DEF Open, MessageArrives, TypeOK
  <2>3. QED
    BY <1>9, <2>1, <2>2, LoadTypes DEF Open, MessageArrives, TypeOK
<1>10. ASSUME NEW p \in Pages, NEW l \in loads[p],
              \/ ReadRow(p, l) \/ ReadRest(p, l)
              \/ LoadTimesOut(p, l) \/ LoadRejected(p, l)
       PROVE  TypeOK'
  <2>1. l \in Loads /\ changes \in Nat
    BY DEF TypeOK
  <2>2. PICK next \in Loads : LoadGoesTo(p, l, next)
    BY <1>10, <2>1 DEF ReadRow, ReadRest, LoadTimesOut, LoadRejected, Loads
  <2>3. QED
    BY <2>2, LoadGoesTypes
<1>11. ASSUME NEW p \in Pages, NEW l \in loads[p], LoadEnds(p, l) PROVE TypeOK'
  <2>1. [row |-> l.row, timeline |-> l.timeline] \in Views
    BY DEF TypeOK, Loads, Views
  <2>2. shown' \in [Pages -> Views] /\ error' \in [Pages -> BOOLEAN]
    BY <1>11, <2>1 DEF LoadEnds, TypeOK
  <2>3. QED
    BY <1>11, <2>2 DEF LoadEnds, TypeOK
<1>12. ASSUME NEW p \in Pages, Disconnect(p) PROVE TypeOK'
  <2>1. faults' \in 0..MaxFaults
    BY <1>12, FaultType DEF Disconnect, TypeOK
  <2>2. online' \in [Pages -> BOOLEAN] /\ inbox' \in [Pages -> Nat]
    BY <1>12 DEF Disconnect, TypeOK
  <2>3. told' \in [Pages -> Nat]
    BY <1>12 DEF Disconnect, TypeOK
  <2>4. QED
    BY <1>12, <2>1, <2>2, <2>3 DEF Disconnect, TypeOK
<1>13. ASSUME NEW p \in Pages, Reconnect(p) PROVE TypeOK'
  BY <1>13 DEF Reconnect, TypeOK
<1>14. CASE UNCHANGED vars
  BY <1>14 DEF vars, TypeOK
<1>15. QED
  BY <1>1, <1>2, <1>3, <1>4, <1>5, <1>6, <1>7, <1>8, <1>9, <1>10, <1>11, <1>12,
     <1>13, <1>14 DEF Next, Handle, LoadStep

LEMMA ViewTypesInit == Init => TypeOK
<1> SUFFICES ASSUME Init PROVE TypeOK
  OBVIOUS
<1>1. [row |-> 0, timeline |-> 0] \in Views
  BY DEF Views
<1>2. [done |-> 0, announced |-> 0] \in [done : Nat, announced : Nat]
  OBVIOUS
<1>3. QED
  BY <1>1, <1>2, ViewConstants DEF Init, TypeOK, Phases

(* Every variable keeps its type, in every run.                            *)
THEOREM ViewTypeCorrect == SafetySpec => []TypeOK
BY ViewTypesInit, ViewTypesStep, PTL DEF SafetySpec

-----------------------------------------------------------------------------
(* What a page shows, and what its loads will show, is as old as the code  *)
(* allows: only the load that no later one has cancelled will be shown,    *)
(* and it has read no less than the page shows.                            *)
PageInv(p) ==
  /\ shown[p].row <= changes /\ shown[p].timeline <= changes
  /\ shown[p].row <= shown[p].timeline
  /\ own[p] <= changes /\ told[p] <= changes
  /\ \A l \in loads[p] :
       /\ l.at \in {"rest", "answer"} => l.row <= changes
       /\ l.at = "answer" => l.row <= l.timeline /\ l.timeline <= changes
       /\ ~l.cancelled /\ l.at \in {"rest", "answer"} => shown[p].row <= l.row
       /\ ~l.cancelled /\ l.at = "answer" => shown[p].timeline <= l.timeline
  /\ \A l, m \in loads[p] : ~l.cancelled /\ ~m.cancelled => l = m

\* A page that is not up to date with n has a load that will bring it there.
Covered(p, n) ==
  \/ error[p] \/ shown[p].row >= n
  \/ \E l \in loads[p] : ~l.cancelled /\ (l.at \in {"row", "failed"} \/ l.row >= n)

Answering(p) == \E c \in Commands : PageOf[c] = p /\ phase[c] = "answer"

KeepInv(p) ==
  /\ Covered(p, own[p]) \/ Answering(p)
  /\ Covered(p, told[p]) \/ inbox[p] > 0

ViewInv == \A p \in Pages : PageInv(p) /\ KeepInv(p)

LEMMA PageTypes ==
  ASSUME TypeOK, NEW p \in Pages
  PROVE  /\ changes \in Nat
         /\ shown[p] \in Views /\ shown[p].row \in Nat /\ shown[p].timeline \in Nat
         /\ own[p] \in Nat /\ told[p] \in Nat /\ inbox[p] \in Nat
         /\ loads[p] \subseteq Loads
         /\ \A l \in loads[p] : l.row \in Nat /\ l.timeline \in Nat /\ l.cancelled \in BOOLEAN
BY DEF TypeOK, Views, Loads

\* A page that a step does not touch keeps its invariant.
LEMMA PageUntouched ==
  ASSUME TypeOK, NEW p \in Pages, PageInv(p), changes' \in {changes, changes + 1},
         loads'[p] = loads[p], shown'[p] = shown[p], own'[p] = own[p],
         told'[p] \in {0, told[p]} \/ told'[p] = changes
  PROVE  PageInv(p)'
BY PageTypes DEF PageInv

LEMMA KeepUntouched ==
  ASSUME NEW p \in Pages, KeepInv(p),
         loads'[p] = loads[p], shown'[p] = shown[p], error'[p] = error[p],
         own'[p] = own[p], told'[p] = told[p],
         inbox'[p] = inbox[p], Answering(p) => Answering(p)'
  PROVE  KeepInv(p)'
BY DEF KeepInv, Covered

\* A new load: nothing that was cancelled counts, and it covers everything.
LEMMA LoadKeeps ==
  ASSUME TypeOK, NEW p \in Pages, Load(p), PageInv(p),
         UNCHANGED <<changes, own, told>>
  PROVE  PageInv(p)' /\ KeepInv(p)'
<1>1. PICK new \in Fresh : loads' = [loads EXCEPT ![p] =
             {Cancel(l) : l \in loads[p]} \cup {new}]
  BY LoadFacts
<1>2. loads'[p] = {Cancel(l) : l \in loads[p]} \cup {new}
  BY <1>1 DEF TypeOK
<1>3. UNCHANGED shown
  BY LoadFacts
<1>4. \A l \in loads[p] :
        /\ Cancel(l).cancelled = TRUE /\ Cancel(l).at = l.at
        /\ Cancel(l).row = l.row /\ Cancel(l).timeline = l.timeline
  BY DEF TypeOK, Loads, Cancel
<1>5. new.cancelled = FALSE /\ new.at \in {"row", "failed"}
  BY DEF Fresh
<1>6. PageInv(p)'
  BY <1>2, <1>3, <1>4, <1>5, PageTypes DEF PageInv
<1>7. KeepInv(p)'
  BY <1>2, <1>5 DEF KeepInv, Covered
<1>8. QED
  BY <1>6, <1>7

\* A load that goes on: what it read is no older than what is shown.
LEMMA StepKeeps ==
  ASSUME TypeOK, NEW p \in Pages, NEW l \in loads[p], PageInv(p), KeepInv(p),
         \/ ReadRow(p, l) \/ ReadRest(p, l)
         \/ LoadTimesOut(p, l) \/ LoadRejected(p, l)
  PROVE  PageInv(p)' /\ KeepInv(p)'
<1>1. PICK next \in Loads :
        /\ LoadGoesTo(p, l, next) /\ next.cancelled = l.cancelled
        /\ \/ l.at = "row" /\ next.at = "rest" /\ next.row = changes
           \/ /\ l.at = "rest" /\ next.at = "answer"
              /\ next.row = l.row /\ next.timeline = changes
           \/ next.at = "failed"
  <2>1. l \in Loads /\ changes \in Nat
    BY DEF TypeOK
  <2>2. CASE ReadRow(p, l)
    <3> DEFINE next == [l EXCEPT !.at = "rest", !.row = changes]
    <3>1. /\ next \in Loads /\ next.cancelled = l.cancelled
          /\ next.at = "rest" /\ next.row = changes
      BY <2>1 DEF Loads
    <3>2. QED
      BY <2>2, <3>1 DEF ReadRow
  <2>3. CASE ReadRest(p, l)
    <3> DEFINE next == [l EXCEPT !.at = "answer", !.timeline = changes]
    <3>1. /\ next \in Loads /\ next.cancelled = l.cancelled
          /\ next.at = "answer" /\ next.row = l.row /\ next.timeline = changes
      BY <2>1 DEF Loads
    <3>2. QED
      BY <2>3, <3>1 DEF ReadRest
  <2>4. CASE LoadTimesOut(p, l)
    <3> DEFINE next == [l EXCEPT !.at = "failed", !.row = 0]
    <3>1. next \in Loads /\ next.cancelled = l.cancelled /\ next.at = "failed"
      BY <2>1 DEF Loads
    <3>2. QED
      BY <2>4, <3>1 DEF LoadTimesOut
  <2>5. CASE LoadRejected(p, l)
    <3> DEFINE next == [l EXCEPT !.at = "failed"]
    <3>1. next \in Loads /\ next.cancelled = l.cancelled /\ next.at = "failed"
      BY <2>1 DEF Loads
    <3>2. QED
      BY <2>5, <3>1 DEF LoadRejected
  <2>6. QED
    BY <2>2, <2>3, <2>4, <2>5
<1>2. /\ loads'[p] = (loads[p] \ {l}) \cup {next}
      /\ UNCHANGED <<changes, shown, error, own, told, inbox, phase>>
  BY <1>1 DEF LoadGoesTo, TypeOK, socketVars
<1>3. PageInv(p)'
  BY <1>1, <1>2, PageTypes DEF PageInv
<1>4. ASSUME NEW n \in Nat, n <= changes, Covered(p, n) PROVE Covered(p, n)'
  BY <1>1, <1>2, <1>4, PageTypes DEF Covered
<1>5. KeepInv(p)'
  BY <1>2, <1>4, PageTypes DEF KeepInv, PageInv, Answering
<1>6. QED
  BY <1>3, <1>5

\* A response: shown if nothing cancelled it.
LEMMA EndKeeps ==
  ASSUME TypeOK, NEW p \in Pages, NEW l \in loads[p], PageInv(p), KeepInv(p),
         LoadEnds(p, l)
  PROVE  /\ PageInv(p)' /\ KeepInv(p)'
         /\ shown'[p].row >= shown[p].row /\ shown'[p].timeline >= shown[p].timeline
<1>1. /\ loads'[p] = loads[p] \ {l}
      /\ UNCHANGED <<changes, own, told, inbox, phase>>
  BY DEF LoadEnds, TypeOK, socketVars
<1>2. CASE l.cancelled
  <2>1. UNCHANGED <<shown, error>>
    BY <1>2 DEF LoadEnds, Counts
  <2>2. PageInv(p)'
    BY <1>1, <2>1, PageTypes DEF PageInv
  <2>3. KeepInv(p)'
    BY <1>1, <1>2, <2>1 DEF KeepInv, Covered, Answering
  <2>4. QED
    BY <2>1, <2>2, <2>3, PageTypes
<1>3. CASE ~l.cancelled /\ l.at = "answer"
  <2>1. shown'[p] = [row |-> l.row, timeline |-> l.timeline] /\ UNCHANGED error
    BY <1>3 DEF LoadEnds, Counts, TypeOK
  <2>2. \A m \in loads'[p] : m.cancelled
    BY <1>1, <1>3, PageTypes DEF PageInv
  <2>3. shown'[p].row >= shown[p].row /\ shown'[p].timeline >= shown[p].timeline
    BY <1>3, <2>1 DEF PageInv
  <2>4. PageInv(p)'
    BY <1>1, <1>3, <2>1, <2>2, PageTypes DEF PageInv
  <2>5. ASSUME NEW n \in Nat, Covered(p, n) PROVE Covered(p, n)'
    BY <1>3, <2>1, <2>3, <2>5, PageTypes DEF Covered, PageInv
  <2>6. KeepInv(p)'
    BY <1>1, <2>5, PageTypes DEF KeepInv, Answering
  <2>7. QED
    BY <2>3, <2>4, <2>6
<1>4. CASE ~l.cancelled /\ l.at = "failed"
  <2>1. error'[p] = TRUE /\ UNCHANGED shown
    BY <1>4 DEF LoadEnds, Counts, TypeOK
  <2>2. PageInv(p)'
    BY <1>1, <2>1, PageTypes DEF PageInv
  <2>3. KeepInv(p)'
    BY <2>1 DEF KeepInv, Covered
  <2>4. QED
    BY <2>1, <2>2, <2>3, PageTypes
<1>5. QED
  BY <1>2, <1>3, <1>4 DEF LoadEnds

NotBack(p) ==
  shown'[p].row >= shown[p].row /\ shown'[p].timeline >= shown[p].timeline

\* The page that loads, and every other one.
LEMMA LoadKeepsAll ==
  ASSUME TypeOK, ViewInv, NEW p \in Pages, Load(p), NEW q \in Pages,
         UNCHANGED <<changes, own, told>>,
         q # p => inbox'[q] = inbox[q] /\ (Answering(q) => Answering(q)')
  PROVE  PageInv(q)' /\ KeepInv(q)' /\ NotBack(q)
<1>1. PageInv(q) /\ KeepInv(q)
  BY DEF ViewInv
<1>2. UNCHANGED shown
  BY LoadFacts
<1>3. CASE q = p
  BY <1>1, <1>2, <1>3, LoadKeeps, PageTypes DEF NotBack
<1>4. CASE q # p
  <2>1. loads'[q] = loads[q] /\ error'[q] = error[q]
    BY <1>4, LoadFacts DEF TypeOK
  <2>2. QED
    BY <1>1, <1>2, <1>4, <2>1, PageUntouched, KeepUntouched, PageTypes DEF NotBack
<1>5. QED
  BY <1>3, <1>4

LEMMA ViewStep ==
  ASSUME TypeOK, ViewInv, [Next]_vars, NEW q \in Pages
  PROVE  PageInv(q)' /\ KeepInv(q)' /\ NotBack(q)
<1>0. PageInv(q) /\ KeepInv(q)
  BY DEF ViewInv
<1> USE DEF pageVars, socketVars
<1>1. ASSUME changes' \in {changes, changes + 1},
             UNCHANGED <<loads, shown, error, own, told, inbox>>,
             Answering(q) => Answering(q)'
      PROVE  PageInv(q)' /\ KeepInv(q)' /\ NotBack(q)
  BY <1>0, <1>1, PageUntouched, KeepUntouched, PageTypes DEF NotBack
<1>2. CASE Tick \/ WorkerCommits \/ UNCHANGED vars
  BY <1>1, <1>2 DEF Tick, WorkerCommits, vars, Answering
<1>3. CASE WorkerAnnounces
  <2>1. UNCHANGED <<changes, loads, shown, error, own, phase>>
    BY <1>3 DEF WorkerAnnounces
  <2>2. \/ told'[q] = told[q] /\ inbox'[q] \in {inbox[q], inbox[q] + 1}
        \/ told'[q] = changes /\ inbox'[q] = inbox[q] + 1
    BY <1>3 DEF WorkerAnnounces, Emit
  <2>3. PageInv(q)'
    BY <1>0, <2>1, <2>2, PageUntouched
  <2>4. KeepInv(q)'
    BY <1>0, <2>1, <2>2, PageTypes DEF KeepInv, Covered, Answering
  <2>5. QED
    BY <2>1, <2>3, <2>4, PageTypes DEF NotBack
<1>4. ASSUME NEW c \in Commands,
             Send(c) \/ Reject(c) \/ Connect(c) \/ ReadBack(c) \/ TimeOut(c)
      PROVE  PageInv(q)' /\ KeepInv(q)' /\ NotBack(q)
  <2>1. phase[c] # "answer" /\ \E at \in Phases : phase' = [phase EXCEPT ![c] = at]
    BY <1>4 DEF Send, Reject, Connect, ReadBack, TimeOut, Goto, Phases
  <2>2. Answering(q) => Answering(q)'
    BY <2>1 DEF Answering, TypeOK
  <2>3. UNCHANGED <<changes, loads, shown, error, own, told, inbox>>
    BY <1>4 DEF Send, Reject, Connect, ReadBack, TimeOut
  <2>4. QED
    BY <1>1, <2>2, <2>3
<1>5. ASSUME NEW c \in Commands, Update(c)
      PROVE  PageInv(q)' /\ KeepInv(q)' /\ NotBack(q)
  <2>1. UNCHANGED <<changes, loads, shown, error, own, told>>
    BY <1>5 DEF Update
  <2>2. inbox'[q] \in {inbox[q], inbox[q] + 1}
    BY <1>5 DEF Update, Emit
  <2>3. Answering(q) => Answering(q)'
    BY <1>5 DEF Update, Goto, Answering, TypeOK
  <2>4. PageInv(q)'
    BY <1>0, <2>1, PageUntouched
  <2>5. KeepInv(q)'
    BY <1>0, <2>1, <2>2, <2>3, PageTypes DEF KeepInv, Covered
  <2>6. QED
    BY <2>1, <2>4, <2>5, PageTypes DEF NotBack
<1>6. ASSUME NEW c \in Commands, Commit(c)
      PROVE  PageInv(q)' /\ KeepInv(q)' /\ NotBack(q)
  <2>1. /\ changes' = changes + 1
        /\ own' = [own EXCEPT ![PageOf[c]] = changes + 1]
        /\ phase' = [phase EXCEPT ![c] = "answer"] /\ phase[c] = "commit"
        /\ UNCHANGED <<loads, shown, error, told, inbox>>
    BY <1>6 DEF Commit, Goto
  <2>2. Answering(q) => Answering(q)'
    BY <2>1 DEF Answering, TypeOK
  <2>3. CASE PageOf[c] = q
    <3>1. Answering(q)' /\ own'[q] = changes'
      BY <2>1, <2>3 DEF Answering, TypeOK
    <3>2. PageInv(q)'
      BY <1>0, <2>1, <3>1, PageTypes DEF PageInv
    <3>3. KeepInv(q)'
      BY <1>0, <2>1, <3>1 DEF KeepInv, Covered
    <3>4. QED
      BY <2>1, <3>2, <3>3, PageTypes DEF NotBack
  <2>4. CASE PageOf[c] # q
    <3>1. own'[q] = own[q]
      BY <2>1, <2>4 DEF TypeOK
    <3>2. QED
      BY <1>0, <2>1, <2>2, <3>1, PageUntouched, KeepUntouched, PageTypes DEF NotBack
  <2>5. QED
    BY <2>3, <2>4
<1>7. ASSUME NEW c \in Commands, Answer(c)
      PROVE  PageInv(q)' /\ KeepInv(q)' /\ NotBack(q)
  <2>1. /\ PageOf[c] \in Pages /\ Load(PageOf[c])
        /\ phase' = [phase EXCEPT ![c] = "done"]
        /\ UNCHANGED <<changes, own, told, inbox>>
    BY <1>7, ViewConstants DEF Answer, Goto
  <2>2. q # PageOf[c] => (Answering(q) => Answering(q)')
    BY <2>1 DEF Answering, TypeOK
  <2>3. QED
    BY <2>1, <2>2, LoadKeepsAll
<1>8. ASSUME NEW p \in Pages, Open(p) \/ MessageArrives(p)
      PROVE  PageInv(q)' /\ KeepInv(q)' /\ NotBack(q)
  <2>1. /\ Load(p) /\ UNCHANGED <<changes, own, told, phase>>
        /\ q # p => inbox'[q] = inbox[q]
    BY <1>8 DEF Open, MessageArrives, TypeOK
  <2>2. Answering(q) => Answering(q)'
    BY <2>1 DEF Answering
  <2>3. QED
    BY <2>1, <2>2, LoadKeepsAll
<1>9. ASSUME NEW p \in Pages, NEW l \in loads[p],
             \/ ReadRow(p, l) \/ ReadRest(p, l) \/ LoadTimesOut(p, l)
             \/ LoadRejected(p, l) \/ LoadEnds(p, l)
      PROVE  PageInv(q)' /\ KeepInv(q)' /\ NotBack(q)
  <2>1. CASE q # p
    <3>1. /\ loads'[q] = loads[q] /\ shown'[q] = shown[q] /\ error'[q] = error[q]
          /\ UNCHANGED <<changes, own, told, inbox, phase>>
      BY <1>9, <2>1 DEF ReadRow, ReadRest, LoadTimesOut, LoadRejected, LoadEnds,
                        LoadGoesTo, TypeOK
    <3>2. Answering(q) => Answering(q)'
      BY <3>1 DEF Answering
    <3>3. QED
      BY <1>0, <3>1, <3>2, PageUntouched, KeepUntouched, PageTypes DEF NotBack
  <2>2. CASE q = p /\ LoadEnds(p, l)
    BY <1>0, <2>2, EndKeeps DEF NotBack
  <2>3. CASE q = p /\ ~LoadEnds(p, l)
    <3>1. UNCHANGED shown
      BY <1>9, <2>3 DEF ReadRow, ReadRest, LoadTimesOut, LoadRejected, LoadGoesTo
    <3>2. QED
      BY <1>0, <1>9, <2>3, <3>1, StepKeeps, PageTypes DEF NotBack
  <2>4. QED
    BY <2>1, <2>2, <2>3
<1>10. ASSUME NEW p \in Pages, Disconnect(p)
       PROVE  PageInv(q)' /\ KeepInv(q)' /\ NotBack(q)
  <2>1. UNCHANGED <<changes, loads, shown, error, own, phase>>
    BY <1>10 DEF Disconnect
  <2>2. \/ told'[q] = told[q] /\ inbox'[q] = inbox[q]
        \/ told'[q] = 0
    BY <1>10 DEF Disconnect, TypeOK
  <2>3. PageInv(q)'
    BY <1>0, <2>1, <2>2, PageUntouched
  <2>4. KeepInv(q)'
    BY <1>0, <2>1, <2>2, PageTypes DEF KeepInv, Covered, Answering
  <2>5. QED
    BY <2>1, <2>3, <2>4, PageTypes DEF NotBack
<1>11. ASSUME NEW p \in Pages, Reconnect(p)
       PROVE  PageInv(q)' /\ KeepInv(q)' /\ NotBack(q)
  BY <1>1, <1>11 DEF Reconnect, Answering
<1>12. QED
  BY <1>2, <1>3, <1>4, <1>5, <1>6, <1>7, <1>8, <1>9, <1>10, <1>11
     DEF Next, Handle, LoadStep

LEMMA ViewInvariant == SafetySpec => []ViewInv
<1>1. Init => ViewInv
  BY DEF Init, ViewInv, PageInv, KeepInv, Covered
<1>2. TypeOK /\ ViewInv /\ [Next]_vars => ViewInv'
  BY ViewStep DEF ViewInv
<1>3. QED
  BY <1>1, <1>2, ViewTypeCorrect, PTL DEF SafetySpec

(* A page that waits for nothing and shows no error shows what its own     *)
(* commands committed and what it was told of, for any number of pages,    *)
(* commands, crossing loads and messages.                                  *)
THEOREM PagesStayCurrent == SafetySpec => []PagesKeepUp
<1>1. TypeOK /\ ViewInv => PagesKeepUp
  <2> SUFFICES ASSUME TypeOK, NEW p \in Pages, KeepInv(p),
                      ~error[p], ~Reloading(p), ~(inbox[p] > 0), ~Answering(p)
               PROVE  shown[p].row >= own[p] /\ shown[p].row >= told[p]
    BY DEF ViewInv, PagesKeepUp, Answering
  <2>1. QED
    BY PageTypes DEF KeepInv, Covered, Reloading
<1>2. QED
  BY <1>1, ViewInvariant, ViewTypeCorrect, PTL

(* The timeline of a page is never behind its row.                         *)
THEOREM TimelineIsCovered == SafetySpec => []TimelineCoversRow
<1>1. TypeOK /\ ViewInv => TimelineCoversRow
  BY PageTypes DEF ViewInv, PageInv, TimelineCoversRow
<1>2. QED
  BY <1>1, ViewInvariant, ViewTypeCorrect, PTL

(* And no response takes a page back, in whatever order they come.         *)
THEOREM PagesMoveForward == SafetySpec => PageNeverGoesBack
<1>1. ASSUME TypeOK, ViewInv, [Next]_vars
      PROVE  [\A p \in Pages : /\ shown'[p].row >= shown[p].row
                               /\ shown'[p].timeline >= shown[p].timeline]_vars
  BY <1>1, ViewStep DEF NotBack
<1>2. QED
  BY <1>1, ViewInvariant, ViewTypeCorrect, PTL DEF SafetySpec, PageNeverGoesBack

-----------------------------------------------------------------------------
(* The limiter. Every admitted request is an entry of its key's window, as *)
(* long as the window is, and the window was counted with the entry in it. *)
AdmittedInWindow ==
  \A k \in Keys : admitted[k] \subseteq hits[k] /\ Cardinality(admitted[k]) <= Limit

\* Whatever the page or the command is, it passes the limiter or meets no
\* limiter at all.
LEMMA LimiterKeeps ==
  ASSUME TypeOK, AdmittedInWindow,
         UNCHANGED limitVars
           \/ \E k \in Keys : Admit(k) \/ Refuse(k) \/ Degrade(k)
  PROVE  AdmittedInWindow'
<1> USE DEF AdmittedInWindow
<1>1. ASSUME NEW k \in Keys, Admit(k) PROVE AdmittedInWindow'
  <2>1. Entered(k) \in SUBSET Entries
    BY NewEntryType
  <2>2. hits'[k] = Entered(k) /\ admitted'[k] = admitted[k] \cup {NewEntry(k)}
    BY <1>1 DEF Admit, TypeOK
  <2>3. admitted'[k] \in SUBSET Entered(k)
    BY <2>2 DEF Entered
  <2>4. Cardinality(admitted'[k]) <= Limit
    <3>1. IsFiniteSet(Entered(k)) /\ Cardinality(Entered(k)) \in Nat
      BY <2>1, EntriesFinite
    <3>2. /\ Cardinality(admitted'[k]) <= Cardinality(Entered(k))
          /\ Cardinality(admitted'[k]) \in Nat
      BY <2>3, <3>1, FS_Subset, FS_CardinalityType
    <3>3. QED
      BY <1>1, <3>1, <3>2, ViewConstants DEF Admit
  <2>5. \A j \in Keys \ {k} : hits'[j] = hits[j] /\ admitted'[j] = admitted[j]
    BY <1>1 DEF Admit, TypeOK
  <2>6. QED
    BY <2>2, <2>3, <2>4, <2>5
<1>2. ASSUME NEW k \in Keys, Refuse(k) PROVE AdmittedInWindow'
  <2>1. \A j \in Keys : hits[j] \subseteq hits'[j]
    BY <1>2 DEF Refuse, Entered, TypeOK
  <2>2. QED
    BY <1>2, <2>1 DEF Refuse
<1>3. CASE UNCHANGED limitVars
  BY <1>3 DEF limitVars
<1>4. QED
  BY <1>1, <1>2, <1>3 DEF Degrade

LEMMA WindowStep == TypeOK /\ AdmittedInWindow /\ [Next]_vars => AdmittedInWindow'
<1> SUFFICES ASSUME TypeOK, AdmittedInWindow, [Next]_vars
             PROVE  AdmittedInWindow'
  OBVIOUS
<1>1. CASE Tick
  <2>1. ASSUME NEW k \in Keys
        PROVE  /\ admitted'[k] \subseteq hits'[k]
               /\ Cardinality(admitted'[k]) <= Limit
    <3>1. /\ admitted[k] \in SUBSET Entries
          /\ hits'[k] = Older(hits[k]) /\ admitted'[k] = Older(admitted[k])
      BY <1>1 DEF Tick, TypeOK
    <3>2. admitted'[k] \subseteq hits'[k]
      BY <3>1 DEF AdmittedInWindow, Older
    <3>3. Cardinality(Older(admitted[k])) <= Cardinality(admitted[k])
      BY <3>1, OlderFacts
    <3>4. /\ Cardinality(admitted[k]) \in Nat
          /\ Cardinality(Older(admitted[k])) \in Nat
      BY <3>1, OlderFacts, EntriesFinite
    <3>5. QED
      BY <3>1, <3>2, <3>3, <3>4, ViewConstants DEF AdmittedInWindow
  <2>2. QED
    BY <2>1 DEF AdmittedInWindow
<1>2. ASSUME NEW p \in Pages, Load(p) PROVE AdmittedInWindow'
  BY <1>2, LoadFacts, LimiterKeeps, ViewConstants
<1>3. ASSUME NEW c \in Commands, Send(c) PROVE AdmittedInWindow'
  <2>1. KeyOf[PageOf[c]] \in Keys
    BY ViewConstants
  <2>2. QED
    BY <1>3, <2>1, LimiterKeeps DEF Send
<1>4. CASE UNCHANGED limitVars
  BY <1>4, LimiterKeeps
<1>5. ASSUME NEW c \in Commands, Handle(c) PROVE AdmittedInWindow'
  <2>1. PageOf[c] \in Pages
    BY ViewConstants
  <2>2. QED
    BY <1>2, <1>4, <1>5, <2>1
       DEF Handle, Reject, Connect, Update, ReadBack, Commit, TimeOut, Answer
<1>6. ASSUME NEW p \in Pages, LoadStep(p) PROVE AdmittedInWindow'
  BY <1>4, <1>6 DEF LoadStep, LoadRejected, LoadTimesOut, ReadRow, ReadRest,
                    LoadEnds, LoadGoesTo
<1>7. QED
  BY <1>1, <1>2, <1>3, <1>4, <1>5, <1>6
     DEF Next, WorkerCommits, WorkerAnnounces, Open, MessageArrives,
         Disconnect, Reconnect, vars

(* Wherever a window of the limiter starts, it admits no more requests of  *)
(* a key than the limit, for every limit, window and number of pages.      *)
THEOREM LimitHolds == SafetySpec => []AdmittedWithinLimit
<1>1. Init => AdmittedInWindow
  BY ViewConstants, FS_EmptySet DEF Init, AdmittedInWindow
<1>2. TypeOK /\ AdmittedInWindow /\ [Next]_vars => AdmittedInWindow'
  BY WindowStep
<1>3. AdmittedInWindow => AdmittedWithinLimit
  BY DEF AdmittedInWindow, AdmittedWithinLimit
<1>4. QED
  BY <1>1, <1>2, <1>3, ViewTypeCorrect, PTL DEF SafetySpec
=============================================================================
