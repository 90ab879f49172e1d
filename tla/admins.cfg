SPECIFICATION Spec
CONSTANTS
  Orders = {"o1"}
  Skus = {1}
  Listed = {1}
  Qty <- OneOfEach
  InitStock <- OneInStock
  JobAttempts = 1
  MaxStalled = 1
  ChargeRetries = 1
  Admins = {"ann"}
  Contention = FALSE
  LiveStalls = FALSE
  MaxFaults = 1
  MaxCrashes = 1
CHECK_DEADLOCK FALSE
INVARIANTS IInv PaidIsBacked OneRunAtATime
PROPERTIES ChargeOnlyWhenReserved PaymentRecordSurvives
