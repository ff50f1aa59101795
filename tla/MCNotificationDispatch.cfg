CONSTANTS
  c1 = c1
  c2 = c2
  p1 = p1
  k1 = k1
  NoteCount = 2
  Keys = {k1}
  KeyOf <- MCKeyOf
  Processes = {p1}
  Cycles = {c1, c2}
  ProcessOf <- MCProcessOf
  MaxAttempts = 2
  Limit = 1
  MaxFaults = 1
  MaxRetries = 1
SPECIFICATION Spec
INVARIANTS AttemptsBounded DispatchesAccounted FailedWasTried
PROPERTIES DueIsSettled
