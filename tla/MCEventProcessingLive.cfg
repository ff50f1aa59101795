CONSTANTS
  e1 = e1
  e2 = e2
  e3 = e3
  w1 = w1
  w2 = w2
  f1 = f1
  f2 = f2
  i1 = i1
  i2 = i2
  Nobody = Nobody
  NoKey = NoKey
  NoIncident = NoIncident
  Messages <- MixedEvents
  Consumers <- MCWorker
  Fingerprints <- MixedFingerprints
  FingerprintOf <- MixedFingerprintOf
  Incidents <- PairIncidents
  MaxRetries = 2
  Prefetch = 2
  MaxCrashes = 0
  MaxResolves = 1
SPECIFICATION Spec
INVARIANTS LinksMatchFingerprint
PROPERTIES EventsSettle BusSpec
CHECK_DEADLOCK FALSE
