CONSTANTS
  r1 = r1
  r2 = r2
  p1 = p1
  p2 = p2
  NoRequest = NoRequest
  NumIncidents = 1
  Requests <- TwoRequests
  Polls <- TwoPolls
  Steps <- OneIncidentSteps
  LevelCap = 3
  PollLimit = 2
  MaxCommands = 4
  MaxFaults = 1
SPECIFICATION SafetySpec
INVARIANTS LevelCountsExecutions StaleEscalationsBounded
SYMMETRY MCSymmetry
