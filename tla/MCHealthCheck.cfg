CONSTANTS
  s1 = s1
  q1 = q1
  q2 = q2
  p1 = p1
  Services = {s1}
  Processes = {p1}
  Polls = {q1, q2}
  ProcessOf <- MCProcessOf
  DownAfter = 3
  MaxFlips = 3
  MaxFaults = 2
SPECIFICATION Spec
INVARIANTS AnnouncementsAddUp ProcessingIsRunning
PROPERTIES MaintenanceIsKept StatusFollowsService
