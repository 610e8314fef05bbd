SPECIFICATION ItSpec
CONSTANTS
  MaxThreads = 3
  MaxObjects = 2
  ItScenario <- Keeper
INVARIANT
  NoLockCycle
CHECK_DEADLOCK FALSE
