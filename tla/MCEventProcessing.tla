------------------------- MODULE MCEventProcessing -------------------------
(* EventProcessing on a small instance: e1 and e2 differ in a number and   *)
(* in who is affected and share a fingerprint, e3 has its own.             *)
EXTENDS EventProcessing, Fingerprint, TLC

CONSTANTS e1, e2, e3, w1, w2, f1, f2, i1, i2

Word(text) == [pattern |-> "none", text |-> text]
Number(text) == [pattern |-> "n", text |-> text]
Failure(message, severity, users) ==
  [service |-> "payments", eventType |-> "timeout", environment |-> "production",
   severity |-> severity, message |-> message, affectedUsers |-> users]

IngestEventInput ==
     e1 :> Failure(<<Word("timeout"), Word("after"), Number("30")>>, "HIGH", "10")
  @@ e2 :> Failure(<<Word("timeout"), Word("after"), Number("45")>>, "HIGH", "90")
  @@ e3 :> Failure(<<Word("timeout"), Word("after"), Number("30")>>, "LOW", "10")

\* The digests.
Digest ==
     CreateFingerprintFromEvent(IngestEventInput[e1]) :> f1
  @@ CreateFingerprintFromEvent(IngestEventInput[e3]) :> f2
DigestOf(events) ==
  [e \in events |-> Digest[CreateFingerprintFromEvent(IngestEventInput[e])]]

MCWorkers == {w1, w2}
PairSymmetry ==
  Permutations({w1, w2}) \cup Permutations({e1, e2}) \cup Permutations({i1, i2})
PairEvents == {e1, e2}
PairFingerprints == {f1}
PairFingerprintOf == DigestOf(PairEvents)
PairIncidents == {i1, i2}
MCWorker == {w1}
MixedEvents == {e1, e3}
MixedFingerprints == {f1, f2}
MixedFingerprintOf == DigestOf(MixedEvents)
=============================================================================
