CONSTANTS
  u1 = u1
  u2 = u2
  k1 = k1
  i1 = i1
  r1 = r1
  c1 = c1
  w1 = w1
  w2 = w2
  Nobody = Nobody
  Users = {u1, u2}
  Members <- MCMembers
  Schedules = {k1}
  OrderOf <- MCOrderOf
  Days = {7, 11, 18}
  Workers = {w1, w2}
  Incidents = {i1}
  EventOf <- MCEventOf
  Assignments = {r1}
  UserOf <- MCUserOf
  IncidentOf <- MCIncidentOf
  Polls = {c1}
  Steps <- MCSteps
  Switched = {u2}
  MaxRetries = 1
  MaxRestarts = 1
SPECIFICATION Spec
INVARIANTS ShiftsFollowRotation SeverityNearEvent OwnedStaysOwned HistoryNamesAssignee
 
