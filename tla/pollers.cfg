SPECIFICATION FairSpec
CONSTANTS
  Events = {1,2}
  Workers = {1}
  JobAttempts = 1
  MaxStalled = 0
  KeepCompleted = 1
  MaxFaults = 3
  MaxCrashes = 1
  Processors = {p1,p2}
  MaxRetries = 1
  BatchLimit = 2
  Subscribers = {s1}
  Blocked = {s1}
  LiveStalls = FALSE
  Operators = {}
  MaxRequests = 0
CHECK_DEADLOCK FALSE
INVARIANT DeliveryInv RetriesBounded
PROPERTY EventsSettle
