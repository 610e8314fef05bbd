SPECIFICATION InSpec
CONSTANTS
  m1 = m1
  m2 = m2
  m3 = m3
  m4 = m4
  Entry <- Entries
  NoEntry = NoEntry
  MaxAdded = 2
  Habits <- AllHabits
  Lists <- SomeLists
  Ref = {r1, r2, r3, r4}
  NoRef = NoRef
  n1 = n1
  n2 = n2
  n3 = n3
  n4 = n4
  NoNode = NoNode
  Node <- Nodes
  KeyOf <- Keys
  Hash <- Hashes
  Mask = {0, 5}
  Plans <- CarefulPlans
  PERL_HASH_DEFAULT_HVMAX = 3
  MAX_BUCKET_MAX = 7
  Var = {x, y}
  TiedVars = {y}
  MaxValue = 5
  MaxScopes = 4
  MaxFrames = 4
  MaxSaves = 2
  MaxDeaths = 2
  Element = {v1, v2}
  Null = Null
  Junk = Junk
  NewMinKey = 1
  Margin = 2
  Spare = 2
  MaxKey = 3
  pA = pA
  pB = pB
  pC = pC
  pU = pU
  Package <- Packages
  Universal = pU
  Parents <- Isas
  Callers = {pC}
  Destroyed = {pB}
  MaxChanges = 3
  Highest = 5
  byteA = byteA
  newline = newline
  RecSep = newline
  Record <- Recs
  Files <- SomeFiles
  memory = 4
  dw_size = 3
  autodefer_threshhold = 2
  autodefer_filelen_threshhold = 2
  Careless = {}
  MaxRecords = 3
  MaxInserted = 1
INVARIANTS
  InTypeOK
  BackrefsAreRight
  UnwindingIsRight
  StorageIsClean
  CachesAreRight
  ListMeansItsSet
  FileIsIndexed
  ArrayIsKept
PROPERTIES
  WalksAreSound
  IterationIsSafe
  ImplementsPerlArray
CHECK_DEADLOCK FALSE
