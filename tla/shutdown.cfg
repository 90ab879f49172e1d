SPECIFICATION FairSpec
CONSTANTS
  Requests = {r1, r2}
  Jobs = {j1, j2}
  Compensations = {c1}
  Batch = Batch
  Signals = {sigterm, sigint}
CHECK_DEADLOCK FALSE
INVARIANT LifeInv CleanExit DrainsInOrder
PROPERTY ShutdownEnds
