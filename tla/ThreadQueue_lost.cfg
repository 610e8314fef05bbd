SPECIFICATION Spec
CONSTANTS
  t1 = t1
  t2 = t2
  t3 = t3
  Thread <- Threads
  Scenario <- TwoToOne
  MaxItems = 4
INVARIANTS
  BlockedOnlyWhileShort
CHECK_DEADLOCK FALSE
