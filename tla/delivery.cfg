SPECIFICATION FairSpec
CONSTANTS
  Events = {1}
  Workers = {1,2}
  JobAttempts = 2
  MaxStalled = 1
  KeepCompleted = 1
  MaxFaults = 1
  MaxCrashes = 0
  Processors = {p1}
  MaxRetries = 1
  BatchLimit = 1
  Subscribers = {s1,s2}
  Blocked = {s2}
  LiveStalls = TRUE
  Operators = {a1,a2}
  MaxRequests = 2
CHECK_DEADLOCK FALSE
INVARIANT CompletedWasSent AuditComplete QueuedIsNotLost
PROPERTIES FollowsEventLife JobsEnd
