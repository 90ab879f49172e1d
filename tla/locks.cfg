SPECIFICATION FairSpec
CONSTANTS
  a = a
  b = b
  c = c
  p1 = p1
  p2 = p2
  q1 = q1
  Calls = {a, b, c}
  Skus = {1, 2}
  Sessions = {p1, p2, q1}
  Pool <- MCPool
  MaxExpiries = 1
  MaxFaults = 1
  Listed = {1, 2}
  Reserving = {a, b}
  Qty <- MCQty
  InitStock <- MCStock
CHECK_DEADLOCK FALSE
INVARIANT LockInv LocksExclude
PROPERTY TakesAreAtomic CallsReturn
