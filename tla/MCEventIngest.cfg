CONSTANTS
  q1 = q1
  q2 = q2
  q3 = q3
  a1 = a1
  Requests <- MCRequests
  Keys <- MCKeys
  KeysOf <- MCKeysOf
  Sources = {a1}
  SourceOf <- MCSourceOf
  MaxRetries = 1
  MaxExpiries = 1
  MaxFaults = 1
SPECIFICATION Spec
INVARIANTS LaterRetryStoresNothing DuplicateHasOriginal
 
CHECK_DEADLOCK FALSE
