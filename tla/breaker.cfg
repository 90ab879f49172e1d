SPECIFICATION FairSpec
CONSTANTS
  Charges = {c1, c2, c3, c4}
  Threshold = 2
  MaxAttempts = 1
  NoTest = NoTest
INVARIANT BreakerInv
PROPERTY ChargesAnswered Recovers
