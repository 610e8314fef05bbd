SPECIFICATION McSpec
CONSTANTS
  pA = pA
  pB = pB
  pC = pC
  pU = pU
  Package <- Packages
  Universal = pU
  Parents <- Isas
  Callers = {pC}
  Destroyed = {pC}
  MaxChanges = 3
INVARIANT
  DestructorIsRight
CHECK_DEADLOCK FALSE
