CONSTANTS
  m1 = m1
  m2 = m2
  m3 = m3
  c1 = c1
  c2 = c2
  Nobody = Nobody
  Messages <- MCMessages
  Consumers <- MCConsumers
  MaxRetries = 3
  Prefetch = 1
  MaxCrashes = 2
SPECIFICATION BusSpec
INVARIANTS NoMessageLost 
PROPERTIES ImplementsContract EventuallySettled
CHECK_DEADLOCK FALSE
