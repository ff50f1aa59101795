CONSTANTS
  r1 = r1
  r2 = r2
  p1 = p1
  p2 = p2
  NoRequest = NoRequest
  NumIncidents = 2
  Requests <- OneRequest
  Polls <- OnePoll
  Steps <- LiveSteps
  LevelCap = 2
  PollLimit = 2
  MaxCommands = 3
  MaxFaults = 1
SPECIFICATION Spec
INVARIANTS StepsInOrder
PROPERTIES ImplementsLifecycle 
