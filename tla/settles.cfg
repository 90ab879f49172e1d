SPECIFICATION FairSpec
CONSTANTS
  Orders = {"o1", "o2"}
  Skus = {1, 2}
  Listed = {1}
  Qty <- O2WantsMore
  InitStock <- OneInStock
  JobAttempts = 1
  MaxStalled = 1
  ChargeRetries = 0
  Admins = {}
  Contention = FALSE
  LiveStalls = FALSE
  MaxFaults = 1
  MaxCrashes = 1
CHECK_DEADLOCK FALSE
INVARIANTS StockNeverVanishes LedgerExact
PROPERTIES JobSettles OrderSettles
