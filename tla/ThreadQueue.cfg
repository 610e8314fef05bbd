SPECIFICATION FairSpec
CONSTANTS
  t1 = t1
  t2 = t2
  t3 = t3
  Thread <- Threads
  Scenario <- Scenarios
  MaxItems = 3
INVARIANTS
  TypeOK
  NothingLost
  NoLostWakeup
  LimitHolds
PROPERTIES
  DequeueGetsItsCount
  IndexesMeanPositions
  SleepersProceed
  EndUnblocks
CHECK_DEADLOCK FALSE
