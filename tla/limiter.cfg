SPECIFICATION Spec
CONSTANTS
  ann1 = ann1
  ann2 = ann2
  ann3 = ann3
  ann4 = ann4
  bob1 = bob1
  bob2 = bob2
  Requests = {ann1, ann2, ann3, ann4, bob1, bob2}
  Client <- MCClient
  RateMax = 2
  LastWindow = 1
  MaxOutages = 2
SYMMETRY Alike
CHECK_DEADLOCK FALSE
INVARIANT LimiterInv
