SPECIFICATION Spec
CONSTANTS
  Orders = {"o1"}
  Skus = {1}
  Listed = {1}
  Qty <- OneOfEach
  InitStock <- TwoInStock
  JobAttempts = 1
  MaxStalled = 1
  ChargeRetries = 0
  Admins = {}
  Contention = FALSE
  LiveStalls = FALSE
  MaxFaults = 0
  MaxCrashes = 1
CHECK_DEADLOCK FALSE
INVARIANT ChargedOnce
