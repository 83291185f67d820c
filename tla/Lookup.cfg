SPECIFICATION LookupSpec
CONSTANTS
  me = me
  n1 = n1
  n2 = n2
  n3 = n3
  n4 = n4
  n5 = n5
  Nodes = {n1, n2, n3, n4, n5}
  Self = me
  Dist <- MCDist
  Knows <- MCKnows
  Table0 = {n3, n4, n5}
  BucketSize = 3
  Alpha = 2
INVARIANTS ResultClosest AllAsked
PROPERTY LookupReturns
CHECK_DEADLOCK FALSE
