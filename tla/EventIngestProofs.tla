------------------------- MODULE EventIngestProofs -------------------------
(***************************************************************************)
(* Safety of EventIngest for any requests and any idempotency keys: the    *)
(* types, that a retry sent after the answer stores nothing, that an       *)
(* answer "duplicate" has an original, and that a revoked key lets no      *)
(* request in.                                                             *)
(***************************************************************************)
EXTENDS EventIngest, TLAPS

PastClaims == {"insert", "publish", "respond", "accepted"}
PastChecks == {"claim"} \cup PastClaims

Kept(q) == KeySet(q) \ expired

(* What a request claimed is in Redis until it runs out: all its keys once *)
(* it is past the claims, the keys before its position while it claims.    *)
HasClaimed(q, k) == step[q] \in PastClaims \/ (step[q] = "claim" /\ k < pos[q])

ClaimsHeld ==
  \A q \in Requests : \A k \in DOMAIN KeysOf[q] :
    HasClaimed(q, k) => KeysOf[q][k] \in claimed \cup expired

(* A request that arrived after q was accepted does not get past a key of  *)
(* q: not while it looks, so not later either.                             *)
LaterStopped(q, r) ==
  /\ step[q] = "accepted"
  /\ step[r] # "new"
  /\ step[r] = "check" =>
       \A k \in DOMAIN KeysOf[r] : k < pos[r] => KeysOf[r][k] \notin Kept(q)
  /\ step[r] \in PastChecks \/ r \in rows =>
       KeySet(q) \cap KeySet(r) \subseteq expired

RetriesStopped ==
  \A r \in Requests : \A q \in answered[r] : LaterStopped(q, r)

(* A request reaches "insert" only through the claims, and the position is *)
(* the first key when a loop over the keys begins.                         *)
StepsInv ==
  \A r \in Requests :
    /\ step[r] = "new" => pos[r] = 1
    /\ step[r] \in {"new", "check", "claim", "insert", "duplicate"} =>
         r \notin rows

(* Whoever claimed a key stored its event, is about to, or failed.         *)
Claimer(q) == q \in rows \/ step[q] \in {"claim", "insert", "error"}

ClaimsOwned ==
  /\ \A k \in claimed : \E q \in Requests : k \in KeySet(q) /\ Claimer(q)
  /\ \A r \in Requests : step[r] = "duplicate" =>
       \E q \in Requests : Shares(q, r) /\ Claimer(q)

IngestInv == TypeOK /\ StepsInv /\ ClaimsHeld /\ RetriesStopped /\ ClaimsOwned

-----------------------------------------------------------------------------
LEMMA KeysTyped ==
  ASSUME NEW r \in Requests
  PROVE  /\ Len(KeysOf[r]) \in Nat /\ Len(KeysOf[r]) >= 1
         /\ DOMAIN KeysOf[r] = 1..Len(KeysOf[r])
         /\ \A k \in DOMAIN KeysOf[r] : KeysOf[r][k] \in Keys
         /\ KeySet(r) \subseteq Keys
<1>1. KeysOf[r] \in Seq(Keys) /\ KeysOf[r] # <<>>
  BY IngestAssumption
<1>2. /\ Len(KeysOf[r]) \in Nat
      /\ DOMAIN KeysOf[r] = 1..Len(KeysOf[r])
      /\ \A k \in 1..Len(KeysOf[r]) : KeysOf[r][k] \in Keys
  BY <1>1
<1>3. Len(KeysOf[r]) # 0
  BY <1>1
<1> QED
  BY <1>2, <1>3 DEF KeySet

LEMMA IngestInit == Init => IngestInv
<1> SUFFICES ASSUME Init PROVE IngestInv
  OBVIOUS
<1>1. TypeOK
  BY IngestAssumption, KeysTyped
     DEF Init, TypeOK, Steps, Answers, KeyStates, Bus!ContractInit, Bus!Statuses
<1>2. StepsInv /\ ClaimsHeld /\ RetriesStopped /\ ClaimsOwned
  BY DEF Init, StepsInv, ClaimsHeld, HasClaimed, RetriesStopped, ClaimsOwned,
         PastClaims
<1> QED
  BY <1>1, <1>2 DEF IngestInv

LEMMA NextKeyTyped ==
  ASSUME TypeOK, NEW r \in Requests, NEW then \in Steps, NextKey(r, then)
  PROVE  /\ step' \in [Requests -> Steps]
         /\ pos' \in [Requests -> Nat]
         /\ \A q \in Requests : pos'[q] \in DOMAIN KeysOf[q]
<1>1. /\ Len(KeysOf[r]) \in Nat /\ Len(KeysOf[r]) >= 1
      /\ DOMAIN KeysOf[r] = 1..Len(KeysOf[r])
  BY KeysTyped
<1>2. CASE pos[r] < Len(KeysOf[r])
  <2>1. pos' = [pos EXCEPT ![r] = @ + 1] /\ step' = step
    BY <1>2 DEF NextKey
  <2>2. pos[r] \in 1..Len(KeysOf[r])
    BY <1>1 DEF TypeOK
  <2>3. pos[r] + 1 \in DOMAIN KeysOf[r] /\ pos[r] + 1 \in Nat
    BY <1>1, <1>2, <2>2
  <2> QED
    BY <2>1, <2>3 DEF TypeOK
<1>3. CASE ~(pos[r] < Len(KeysOf[r]))
  <2>1. pos' = [pos EXCEPT ![r] = 1] /\ step' = [step EXCEPT ![r] = then]
    BY <1>3 DEF NextKey, Go
  <2>2. 1 \in DOMAIN KeysOf[r]
    BY <1>1
  <2> QED
    BY <2>1, <2>2 DEF TypeOK
<1> QED
  BY <1>2, <1>3

LEMMA ConsumeTyped ==
  ASSUME TypeOK, NEW r \in Requests, Consume(r)
  PROVE  status' \in [Requests -> Bus!Statuses] /\ tries' \in [Requests -> 0..MaxRetries]
<1>1. /\ status \in [Requests -> Bus!Statuses]
      /\ tries \in [Requests -> 0..MaxRetries] /\ MaxRetries \in Nat
  BY IngestAssumption DEF TypeOK
<1>2. CASE Bus!Process(r)
  BY <1>1, <1>2 DEF Bus!Process, Bus!Statuses
<1>3. CASE Bus!Attempt(r)
  BY <1>1, <1>3 DEF Bus!Attempt, Bus!Statuses
<1>4. CASE Bus!Park({r})
  BY <1>1, <1>4 DEF Bus!Park, Bus!Statuses
<1> QED
  BY <1>2, <1>3, <1>4 DEF Consume

LEMMA TypeStep == TypeOK /\ [Next]_vars => TypeOK'
<1> SUFFICES ASSUME TypeOK, [Next]_vars PROVE TypeOK'
  OBVIOUS
<1> USE IngestAssumption, KeysTyped
    DEF TypeOK, Steps, Answers, Go, requestVars, busVars, historyVars, vars
<1>1. ASSUME NEW r \in Requests, Arrive(r)
      PROVE  TypeOK'
  BY <1>1 DEF Arrive
<1>2. ASSUME NEW r \in Requests, Check(r)
      PROVE  TypeOK'
  <2>1. CASE KeysOf[r][pos[r]] \in claimed
    BY <1>2, <2>1 DEF Check
  <2>2. CASE KeysOf[r][pos[r]] \notin claimed
    <3>1. NextKey(r, "claim")
      BY <1>2, <2>2 DEF Check
    <3>2. /\ step' \in [Requests -> Steps]
          /\ pos' \in [Requests -> Nat]
          /\ \A q \in Requests : pos'[q] \in DOMAIN KeysOf[q]
      BY <3>1, NextKeyTyped
    <3> QED
      BY <1>2, <3>2 DEF Check
  <2> QED
    BY <2>1, <2>2
<1>3. ASSUME NEW r \in Requests, Claim(r)
      PROVE  TypeOK'
  <2>1. NextKey(r, "insert")
    BY <1>3 DEF Claim
  <2>2. /\ step' \in [Requests -> Steps]
        /\ pos' \in [Requests -> Nat]
        /\ \A q \in Requests : pos'[q] \in DOMAIN KeysOf[q]
    BY <2>1, NextKeyTyped
  <2>3. KeysOf[r][pos[r]] \in Keys
    OBVIOUS
  <2> QED
    BY <1>3, <2>2, <2>3 DEF Claim
<1>4. ASSUME NEW r \in Requests, Insert(r)
      PROVE  TypeOK'
  BY <1>4 DEF Insert
<1>5. ASSUME NEW r \in Requests, PublishEvent(r)
      PROVE  TypeOK'
  BY <1>5 DEF PublishEvent, Bus!Enter, Bus!Statuses
<1>6. ASSUME NEW r \in Requests, Respond(r)
      PROVE  TypeOK'
  BY <1>6 DEF Respond
<1>7. ASSUME NEW r \in Requests, Fail(r)
      PROVE  TypeOK'
  BY <1>7 DEF Fail
<1>8. ASSUME NEW r \in Requests, Consume(r),
             UNCHANGED <<requestVars, historyVars>>
      PROVE  TypeOK'
  <2>1. status' \in [Requests -> Bus!Statuses] /\ tries' \in [Requests -> 0..MaxRetries]
    BY <1>8, ConsumeTyped
  <2> QED
    BY <1>8, <2>1
<1>9. ASSUME NEW k \in claimed, Expire(k)
      PROVE  TypeOK'
  BY <1>9 DEF Expire
<1>10. ASSUME NEW r \in Requests, Reject(r)
       PROVE  TypeOK'
  BY <1>10 DEF Reject
<1>11. ASSUME NEW a \in Sources, GenerateApiKey(a) \/ RevokeApiKey(a)
       PROVE  TypeOK'
  BY <1>11 DEF GenerateApiKey, RevokeApiKey, KeyStates
<1>12. CASE UNCHANGED vars
  BY <1>12
<1> QED
  BY <1>1, <1>2, <1>3, <1>4, <1>5, <1>6, <1>7, <1>8, <1>9, <1>10, <1>11, <1>12
     DEF Next, IngestEvent

-----------------------------------------------------------------------------
(* How a request moves in one step, for the parts that follow.             *)
Moves(r) ==
  \/ Arrive(r) \/ Check(r) \/ Claim(r) \/ Insert(r) \/ PublishEvent(r)
  \/ Respond(r) \/ Fail(r) \/ Reject(r)

Rests ==
  \/ UNCHANGED <<step, pos, claimed, rows, answered, expired>>
  \/ \E k \in claimed : Expire(k)

LEMMA NextMoves ==
  [Next]_vars => Rests \/ \E r \in Requests : Moves(r)
BY DEF Next, IngestEvent, GenerateApiKey, RevokeApiKey, Moves, Rests, vars,
       requestVars, historyVars

(* A step moves one request and leaves the others where they are.          *)
LEMMA OthersStay ==
  ASSUME TypeOK, NEW r \in Requests, Moves(r), NEW q \in Requests, q # r
  PROVE  /\ step'[q] = step[q] /\ pos'[q] = pos[q]
         /\ q \in rows' <=> q \in rows
         /\ answered'[q] = answered[q]
BY DEF Moves, Arrive, Check, Claim, Insert, PublishEvent, Respond, Fail, Reject,
       NextKey, Go, TypeOK, historyVars, busVars

(* Only Expire takes a key away, and it writes it down.                    *)
LEMMA KeysStay ==
  ASSUME TypeOK, NEW r \in Requests, Moves(r)
  PROVE  claimed \subseteq claimed' /\ expired' = expired /\ rows \subseteq rows'
BY DEF Moves, Arrive, Check, Claim, Insert, PublishEvent, Respond, Fail, Reject,
       historyVars, busVars

LEMMA StepsStep == TypeOK /\ StepsInv /\ [Next]_vars => StepsInv'
<1> SUFFICES ASSUME TypeOK, StepsInv, [Next]_vars PROVE StepsInv'
  OBVIOUS
<1>1. CASE Rests
  BY <1>1 DEF Rests, Expire, StepsInv
<1>2. ASSUME NEW r \in Requests, Moves(r)
      PROVE  StepsInv'
  <2>1. ASSUME NEW q \in Requests
        PROVE  /\ step'[q] = "new" => pos'[q] = 1
               /\ step'[q] \in {"new", "check", "claim", "insert", "duplicate"}
                    => q \notin rows'
    <3>1. CASE q # r
      BY <1>2, <3>1, OthersStay DEF StepsInv
    <3>2. CASE q = r
      BY <1>2, <3>2 DEF Moves, Arrive, Check, Claim, Insert, PublishEvent,
         Respond, Fail, Reject, NextKey, Go, TypeOK, StepsInv, Answers
    <3> QED
      BY <3>1, <3>2
  <2> QED
    BY <2>1 DEF StepsInv
<1> QED
  BY <1>1, <1>2, NextMoves

LEMMA ClaimsHeldStep == TypeOK /\ ClaimsHeld /\ [Next]_vars => ClaimsHeld'
<1> SUFFICES ASSUME TypeOK, ClaimsHeld, [Next]_vars,
                    NEW q \in Requests, NEW k \in DOMAIN KeysOf[q],
                    HasClaimed(q, k)'
             PROVE  KeysOf[q][k] \in claimed' \cup expired'
  BY DEF ClaimsHeld
<1>1. CASE Rests
  BY <1>1 DEF Rests, Expire, ClaimsHeld, HasClaimed
<1>2. ASSUME NEW r \in Requests, Moves(r)
      PROVE  KeysOf[q][k] \in claimed' \cup expired'
  <2>1. claimed \subseteq claimed' /\ expired' = expired
    BY <1>2, KeysStay
  <2>2. CASE HasClaimed(q, k)
    BY <2>1, <2>2 DEF ClaimsHeld
  <2>3. CASE q # r
    <3>1. HasClaimed(q, k)
      BY <1>2, <2>3, OthersStay DEF HasClaimed
    <3> QED
      BY <2>2, <3>1
  <2>4. CASE q = r /\ Claim(r)
    <3>1. k = pos[r] \/ HasClaimed(q, k)
      <4>1. /\ Len(KeysOf[r]) \in Nat /\ k \in 1..Len(KeysOf[r])
            /\ pos[r] \in 1..Len(KeysOf[r]) /\ step[r] = "claim"
        BY <2>4, KeysTyped DEF TypeOK, Claim
      <4>2. CASE pos[r] < Len(KeysOf[r])
        <5>1. step'[r] = "claim" /\ pos'[r] = pos[r] + 1
          BY <2>4, <4>1, <4>2 DEF Claim, NextKey, TypeOK
        <5>2. k < pos[r] + 1
          BY <2>4, <5>1 DEF HasClaimed, PastClaims
        <5> QED
          BY <2>4, <4>1, <5>2 DEF HasClaimed
      <4>3. CASE ~(pos[r] < Len(KeysOf[r]))
        <5>1. k <= pos[r]
          BY <4>1, <4>3
        <5> QED
          BY <2>4, <4>1, <5>1 DEF HasClaimed
      <4> QED
        BY <4>2, <4>3
    <3>2. KeysOf[r][pos[r]] \in claimed'
      BY <2>4 DEF Claim
    <3> QED
      BY <2>2, <2>4, <3>1, <3>2
  <2>5. CASE q = r /\ ~Claim(r)
    <3>1. k \in Nat /\ k >= 1
      BY KeysTyped
    <3>2. HasClaimed(q, k)
      BY <1>2, <2>5, <3>1 DEF Moves, Arrive, Check, Insert, PublishEvent,
         Respond, Fail, Reject, NextKey, Go, TypeOK, HasClaimed, PastClaims
    <3> QED
      BY <2>2, <3>2
  <2> QED
    BY <2>3, <2>4, <2>5
<1> QED
  BY <1>1, <1>2, NextMoves

-----------------------------------------------------------------------------
(* The key of an accepted request is found by whoever looks at it.         *)
LEMMA KeptIsClaimed ==
  ASSUME ClaimsHeld, NEW q \in Requests, step[q] = "accepted"
  PROVE  Kept(q) \subseteq claimed
BY DEF ClaimsHeld, HasClaimed, PastClaims, Kept, KeySet

(* A look that finds nothing has not met a key of an accepted request.     *)
LEMMA CheckStops ==
  ASSUME TypeOK, ClaimsHeld, NEW q \in Requests, NEW r \in Requests, q # r,
         LaterStopped(q, r), StepsInv, Check(r)
  PROVE  LaterStopped(q, r)'
<1>1. /\ Len(KeysOf[r]) \in Nat /\ pos[r] \in 1..Len(KeysOf[r])
      /\ DOMAIN KeysOf[r] = 1..Len(KeysOf[r])
  BY KeysTyped DEF TypeOK
<1>2. /\ step[r] = "check" /\ r \notin rows /\ rows' = rows
      /\ expired' = expired /\ step'[q] = "accepted"
  BY DEF Check, StepsInv, historyVars, LaterStopped, NextKey, Go, TypeOK
<1>3. CASE KeysOf[r][pos[r]] \in claimed
  <2>1. step'[r] = "duplicate"
    BY <1>3 DEF Check, Go, TypeOK
  <2> QED
    BY <1>2, <2>1 DEF LaterStopped, PastChecks, PastClaims
<1>4. CASE KeysOf[r][pos[r]] \notin claimed
  <2>1. KeysOf[r][pos[r]] \notin Kept(q)
    BY <1>4, KeptIsClaimed DEF LaterStopped
  <2>2. \A k \in DOMAIN KeysOf[r] :
          k <= pos[r] => KeysOf[r][k] \notin Kept(q)
    BY <1>1, <1>2, <2>1 DEF LaterStopped
  <2>3. Kept(q)' = Kept(q)
    BY <1>2 DEF Kept, KeySet
  <2>4. CASE pos[r] < Len(KeysOf[r])
    <3>1. step'[r] = "check" /\ pos'[r] = pos[r] + 1
      BY <1>2, <1>4, <2>4 DEF Check, NextKey, TypeOK
    <3>2. \A k \in DOMAIN KeysOf[r] :
            k < pos'[r] => KeysOf[r][k] \notin Kept(q)'
      BY <1>1, <2>2, <2>3, <3>1
    <3> QED
      BY <1>2, <3>1, <3>2 DEF LaterStopped, PastChecks, PastClaims
  <2>5. CASE ~(pos[r] < Len(KeysOf[r]))
    <3>1. step'[r] = "claim"
      BY <1>2, <1>4, <2>5 DEF Check, NextKey, Go, TypeOK
    <3>2. \A k \in DOMAIN KeysOf[r] : KeysOf[r][k] \notin Kept(q)
      BY <1>1, <2>2, <2>5
    <3>3. KeySet(q) \cap KeySet(r) \subseteq expired
      BY <3>2 DEF Kept, KeySet
    <3> QED
      BY <1>2, <3>1, <3>3 DEF LaterStopped, KeySet
  <2> QED
    BY <2>4, <2>5
<1> QED
  BY <1>3, <1>4

LEMMA RetriesStep ==
  TypeOK /\ StepsInv /\ ClaimsHeld /\ RetriesStopped /\ [Next]_vars
    => RetriesStopped'
<1> SUFFICES ASSUME TypeOK, StepsInv, ClaimsHeld, RetriesStopped, [Next]_vars,
                    NEW r \in Requests, NEW q \in answered'[r]
             PROVE  LaterStopped(q, r)'
  BY DEF RetriesStopped
<1>1. CASE Rests
  <2>1. /\ step' = step /\ pos' = pos /\ rows' = rows /\ answered' = answered
        /\ expired \subseteq expired'
    BY <1>1 DEF Rests, Expire
  <2>2. LaterStopped(q, r)
    BY <2>1 DEF RetriesStopped
  <2> QED
    BY <2>1, <2>2 DEF LaterStopped, Kept, KeySet
<1>2. ASSUME NEW x \in Requests, Moves(x), x # r
      PROVE  LaterStopped(q, r)'
  <2>1. /\ q \in answered[r] /\ step'[r] = step[r] /\ pos'[r] = pos[r]
        /\ r \in rows' <=> r \in rows
    BY <1>2, OthersStay
  <2>2. LaterStopped(q, r) /\ q \in Requests
    BY <2>1 DEF RetriesStopped, TypeOK
  <2>3. q # x
    BY <1>2, <2>2 DEF LaterStopped, Moves, Arrive, Check, Claim, Insert,
       PublishEvent, Respond, Fail, Reject, Answers
  <2>4. step'[q] = "accepted"
    BY <1>2, <2>2, <2>3, OthersStay DEF LaterStopped
  <2>5. expired' = expired
    BY <1>2, KeysStay
  <2> QED
    BY <2>1, <2>2, <2>4, <2>5 DEF LaterStopped, Kept, KeySet
<1>3. CASE Arrive(r)
  <2>1. /\ step[r] = "new" /\ q \in Requests /\ step[q] = "accepted"
        /\ step' = [step EXCEPT ![r] = "check"] /\ pos' = pos /\ rows' = rows
    BY <1>3 DEF Arrive, Go, TypeOK
  <2>2. step'[q] = "accepted" /\ step'[r] = "check"
    BY <2>1 DEF TypeOK
  <2>3. pos'[r] = 1 /\ r \notin rows'
    BY <2>1 DEF StepsInv
  <2>4. \A k \in DOMAIN KeysOf[r] : ~(k < 1)
    BY KeysTyped
  <2> QED
    BY <2>2, <2>3, <2>4 DEF LaterStopped, PastChecks, PastClaims
<1>4. CASE Moves(r) /\ ~Arrive(r)
  <2>1. answered' = answered
    BY <1>4 DEF Moves, Check, Claim, Insert, PublishEvent, Respond, Fail, Reject,
       historyVars
  <2>2. LaterStopped(q, r) /\ q \in Requests
    BY <2>1 DEF RetriesStopped, TypeOK
  <2>3. q # r
    BY <1>4, <2>2 DEF LaterStopped, Moves, Check, Claim, Insert,
       PublishEvent, Respond, Fail, Reject, Answers
  <2>4. CASE Check(r)
    BY <2>2, <2>3, <2>4, CheckStops
  <2>5. CASE ~Check(r)
    <3>1. step'[q] = "accepted" /\ expired' = expired
      BY <1>4, <2>2, <2>3, OthersStay, KeysStay DEF LaterStopped
    <3>2. step'[r] \notin {"new", "check"}
      BY <1>4, <2>5 DEF Moves, Claim, Insert, PublishEvent, Respond, Fail, Reject,
         NextKey, Go, TypeOK, Answers
    <3>3. step'[r] \in PastChecks \/ r \in rows' =>
            step[r] \in PastChecks \/ r \in rows
      BY <1>4, <2>5 DEF Moves, Claim, Insert, PublishEvent, Respond, Fail, Reject,
         Go, TypeOK, Answers, PastChecks, PastClaims
    <3> QED
      BY <2>2, <3>1, <3>2, <3>3 DEF LaterStopped, KeySet
  <2> QED
    BY <2>4, <2>5
<1> QED
  BY <1>1, <1>2, <1>3, <1>4, NextMoves

-----------------------------------------------------------------------------
(* A claimer of a key stays one: it stores its event or it fails.          *)
LEMMA ClaimersStay ==
  ASSUME TypeOK, StepsInv, NEW r \in Requests, Moves(r), NEW q \in Requests,
         Claimer(q)
  PROVE  Claimer(q)'
<1>1. CASE q # r
  BY <1>1, OthersStay DEF Claimer
<1>2. CASE q = r
  BY <1>2 DEF Claimer, Moves, Arrive, Check, Claim, Insert, PublishEvent,
     Respond, Fail, Reject, NextKey, Go, TypeOK, StepsInv, Answers, historyVars, busVars
<1> QED
  BY <1>1, <1>2

LEMMA OwnedStep ==
  TypeOK /\ StepsInv /\ ClaimsOwned /\ [Next]_vars => ClaimsOwned'
<1> SUFFICES ASSUME TypeOK, StepsInv, ClaimsOwned, [Next]_vars
             PROVE  ClaimsOwned'
  OBVIOUS
<1>1. CASE Rests
  <2>1. step' = step /\ rows' = rows /\ claimed' \subseteq claimed
    BY <1>1 DEF Rests, Expire
  <2> QED
    BY <2>1 DEF ClaimsOwned, Claimer, KeySet, Shares
<1>2. ASSUME NEW r \in Requests, Moves(r)
      PROVE  ClaimsOwned'
  <2>1. ASSUME NEW k \in claimed'
        PROVE  \E q \in Requests : k \in KeySet(q) /\ Claimer(q)'
    <3>1. CASE k \in claimed
      BY <1>2, <3>1, ClaimersStay DEF ClaimsOwned
    <3>2. CASE k \notin claimed
      <4>1. Claim(r) /\ k = KeysOf[r][pos[r]]
        BY <1>2, <3>2 DEF Moves, Arrive, Check, Claim, Insert, PublishEvent,
           Respond, Fail, Reject, historyVars, busVars
      <4>2. k \in KeySet(r)
        BY <4>1 DEF KeySet, TypeOK
      <4>3. Claimer(r)'
        BY <4>1, <1>2, ClaimersStay DEF Claimer, Claim
      <4> QED
        BY <4>2, <4>3
    <3> QED
      BY <3>1, <3>2
  <2>2. ASSUME NEW d \in Requests, step'[d] = "duplicate"
        PROVE  \E q \in Requests : Shares(q, d) /\ Claimer(q)'
    <3>1. CASE step[d] = "duplicate"
      BY <1>2, <3>1, ClaimersStay DEF ClaimsOwned
    <3>2. CASE step[d] # "duplicate"
      <4>1. d = r
        BY <1>2, <2>2, <3>2, OthersStay
      <4>2. KeysOf[d][pos[d]] \in claimed
        BY <1>2, <2>2, <3>2, <4>1 DEF Moves, Arrive, Check, Claim, Insert,
           PublishEvent, Respond, Fail, Reject, NextKey, Go, TypeOK
      <4>3. PICK q \in Requests : KeysOf[d][pos[d]] \in KeySet(q) /\ Claimer(q)
        BY <4>2 DEF ClaimsOwned
      <4>4. Shares(q, d)
        BY <4>3 DEF Shares, KeySet, TypeOK
      <4> QED
        BY <1>2, <4>3, <4>4, ClaimersStay
    <3> QED
      BY <3>1, <3>2
  <2> QED
    BY <2>1, <2>2 DEF ClaimsOwned, KeySet, Shares
<1> QED
  BY <1>1, <1>2, NextMoves

-----------------------------------------------------------------------------
(* The inductive invariant, on which the three theorems below rest.        *)
THEOREM IngestInvariant == SafetySpec => []IngestInv
<1>1. Init => IngestInv
  BY IngestInit
<1>2. IngestInv /\ [Next]_vars => IngestInv'
  BY TypeStep, StepsStep, ClaimsHeldStep, RetriesStep, OwnedStep DEF IngestInv
<1> QED
  BY <1>1, <1>2, PTL DEF SafetySpec

(* Requests, keys, rows and the bus keep their types.                      *)
THEOREM IngestTypeCorrect == SafetySpec => []TypeOK
<1>1. IngestInv => TypeOK
  BY DEF IngestInv
<1> QED
  BY <1>1, IngestInvariant, PTL

(* A request sent after one with a common key was accepted stores nothing, *)
(* while the key has not run out.                                          *)
THEOREM LaterRetriesStoreNothing == SafetySpec => []LaterRetryStoresNothing
<1>1. IngestInv => LaterRetryStoresNothing
  BY DEF IngestInv, RetriesStopped, LaterStopped, LaterRetryStoresNothing
<1> QED
  BY <1>1, IngestInvariant, PTL

(* An answer "duplicate" is owed to a request that stored the event, is    *)
(* about to, or failed after its claim.                                    *)
THEOREM DuplicatesHaveOriginals == SafetySpec => []DuplicateHasOriginal
<1>1. IngestInv => DuplicateHasOriginal
  <2> SUFFICES ASSUME IngestInv, NEW r \in Requests, step[r] = "duplicate"
               PROVE  \E q \in Requests \ {r} : Shares(q, r) /\ Claimer(q)
    BY DEF DuplicateHasOriginal, Claimer
  <2>1. PICK q \in Requests : Shares(q, r) /\ Claimer(q)
    BY DEF IngestInv, ClaimsOwned
  <2>2. r \notin rows
    BY DEF IngestInv, StepsInv
  <2>3. q # r
    BY <2>1, <2>2 DEF Claimer
  <2> QED
    BY <2>1, <2>3
<1> QED
  BY <1>1, IngestInvariant, PTL

-----------------------------------------------------------------------------
(* Once a request's key is revoked and the request is not in, it stays out *)
(* and nothing of it is stored.                                            *)
Out(r) ==
  /\ apiKeys[SourceOf[r]] = "revoked"
  /\ step[r] \in {"new", "rejected"} /\ r \notin rows

LEMMA OutStep ==
  ASSUME NEW r \in Requests PROVE TypeOK /\ Out(r) /\ [Next]_vars => Out(r)'
<1> SUFFICES ASSUME TypeOK, Out(r), [Next]_vars PROVE Out(r)'
  OBVIOUS
<1>1. apiKeys'[SourceOf[r]] = "revoked"
  <2>1. SourceOf[r] \in Sources
    BY IngestAssumption
  <2>2. ASSUME NEW a \in Sources, GenerateApiKey(a) \/ RevokeApiKey(a)
        PROVE  apiKeys'[SourceOf[r]] = "revoked"
    BY <2>1, <2>2 DEF GenerateApiKey, RevokeApiKey, TypeOK, Out
  <2>3. CASE UNCHANGED apiKeys
    BY <2>3 DEF Out
  <2> QED
    BY <2>2, <2>3 DEF Next, IngestEvent, Arrive, Check, Claim, Insert, Expire,
       PublishEvent, Respond, Fail, Reject, requestVars, vars
<1>2. CASE Rests
  BY <1>1, <1>2 DEF Rests, Expire, Out
<1>3. ASSUME NEW q \in Requests, Moves(q) PROVE Out(r)'
  <2>1. CASE q # r
    BY <1>1, <1>3, <2>1, OthersStay DEF Out
  <2>2. CASE q = r
    BY <1>1, <1>3, <2>2 DEF Out, Moves, Arrive, Resolved, Check, Claim, Insert,
       PublishEvent, Respond, Fail, Reject, Go, TypeOK, Answers
  <2> QED
    BY <2>1, <2>2
<1> QED
  BY <1>2, <1>3, NextMoves

(* From the moment a key is revoked, no request that has not been let in   *)
(* yet gets in with it, whatever else is issued, revoked or in flight.     *)
THEOREM RevokedKeysStayOut ==
  ASSUME NEW r \in Requests
  PROVE  SafetySpec =>
           [](apiKeys[SourceOf[r]] = "revoked" /\ step[r] = "new"
                => [](step[r] \in {"new", "rejected"} /\ r \notin rows))
<1>1. IngestInv /\ apiKeys[SourceOf[r]] = "revoked" /\ step[r] = "new" => Out(r)
  BY DEF IngestInv, StepsInv, Out
<1>2. Out(r) => step[r] \in {"new", "rejected"} /\ r \notin rows
  BY DEF Out
<1>3. TypeOK /\ Out(r) /\ [Next]_vars => Out(r)'
  BY OutStep
<1> QED
  BY <1>1, <1>2, <1>3, IngestInvariant, IngestTypeCorrect, PTL DEF SafetySpec
=============================================================================
