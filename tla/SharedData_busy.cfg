SPECIFICATION SdSpec
CONSTANTS
  MainThread = t1
  User = {t1, t2, t3}
  Scalar = s
  Object = {o1, o2}
  NoObject = NoObject
  Habit = {"busy"}
INVARIANT
  NoFreedReferent
CHECK_DEADLOCK FALSE
