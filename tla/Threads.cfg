SPECIFICATION ThSpec
CONSTANTS
  Thread = {t1, t2, t3}
  v1 = v1
  v2 = v2
  Var <- Vars
  NoThread = NoThread
  NoVar = NoVar
  MaxDepth <- Depths
  BadDeadline = TRUE
  t1 = t1
  t2 = t2
  t3 = t3
  Caller <- Threads
  TsScenario <- Scenarios
  MaxChanges = 3
  MainThread = t1
  User = {t1, t2, t3}
  Scalar = s
  Object = {o1, o2}
  NoObject = NoObject
  Habit = {"turns", "quiet"}
  c1 = c1
  c2 = c2
  c3 = c3
  pA = pA
  pB = pB
  pC = pC
  Compiler <- Compilers
  Property <- Properties
  Program <- UserPrograms
  Retries = 1
  Locker = {t1, t2, t3}
  Nobody = Nobody
  MaxLocale = 2
INVARIANTS
  ThTypeOK
  LocksFollowScopes
  NoLostLockWakeup
  NoLostWakeup
  SectionsAreSound
  SomebodyCanGo
  ExpansionsAreSound
  
PROPERTIES
  ImplementsMonitor
  FreeLockIsTaken
  ImplementsPromise
  UnitsUnblock
  ImplementsReadersWriter
  WriterWakes
  CompilationEnds
  DestroyedOnce
CHECK_DEADLOCK FALSE
