SPECIFICATION PrSpec
CONSTANTS
  MaxThreads = 2
  MaxObjects = 1
  ItScenario <- SafetyScenarios
  MaxSignal = 2
  SIG_PENDING_DIE_COUNT = 3
  SgScenario <- CalmAndRough
  MaxSent = 2
INVARIANTS
  PrTypeOK
  LivesAreCounted
  NoLockCycle
  SignalsAreKept
PROPERTIES
  PendingIsHandled
CHECK_DEADLOCK FALSE
