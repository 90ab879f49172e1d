SPECIFICATION Spec
CONSTANTS
  Orders = {"o1"}
  Skus = {1, 2}
  Listed = {1, 2}
  Qty <- OneOfEach
  InitStock <- OneInStock
  JobAttempts = 2
  MaxStalled = 1
  ChargeRetries = 1
  Admins = {}
  Contention = TRUE
  LiveStalls = TRUE
  MaxFaults = 1
  MaxCrashes = 1
CHECK_DEADLOCK FALSE
INVARIANTS SagaIsWhole CompensatedMeansReleased PendingIsExplained
PROPERTY FollowsLifecycle
