SPECIFICATION HiSpec
CONSTANTS
  n1 = n1
  n2 = n2
  n3 = n3
  n4 = n4
  NoNode = NoNode
  Node <- Nodes
  KeyOf <- Keys
  Hash <- Hashes
  Mask = {0, 5}
  Plans <- CarelessPlans
  PERL_HASH_DEFAULT_HVMAX = 3
  MAX_BUCKET_MAX = 7
INVARIANT
  NoFreedEntry
CHECK_DEADLOCK FALSE
