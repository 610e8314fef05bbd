SPECIFICATION SlFairSpec
CONSTANTS
  Thread = {t1, t2}
  v1 = v1
  v2 = v2
  Var <- Vars
  NoThread = NoThread
  NoVar = NoVar
  MaxDepth <- Depths
  BadDeadline = TRUE
PROPERTIES
  UnwindingEnds
CHECK_DEADLOCK FALSE
