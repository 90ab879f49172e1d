SPECIFICATION Spec
CONSTANTS
  Orders = {"o1", "o2", "o3"}
  Skus = {1}
  Listed = {1}
  Qty <- OneOfEach
  InitStock <- OneInStock
  JobAttempts = 1
  MaxStalled = 0
  ChargeRetries = 0
  Admins = {}
  Contention = FALSE
  LiveStalls = FALSE
  MaxFaults = 0
  MaxCrashes = 0
CHECK_DEADLOCK FALSE
INVARIANT NoOversell
