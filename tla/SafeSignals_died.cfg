SPECIFICATION SgSpec
CONSTANTS
  MaxSignal = 2
  SIG_PENDING_DIE_COUNT = 3
  SgScenario <- OnlyDeadly
  MaxSent = 1
INVARIANT HandledBeforeNextOp
CHECK_DEADLOCK FALSE
