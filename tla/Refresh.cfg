SPECIFICATION Spec
CONSTANTS
  n1 = n1
  n2 = n2
  me = me
  version = version
  Procs = {p1, p2}
  Nodes = {n1, n2}
  Self = me
  NoKey = NoKey
  OtherKeys = {version}
  Prefetch = 3
  Order <- MCOrder
  Nursery = {n2}
  Stored = {n1, n2, me}
  SeedCount = 1
  MaxDrops = 1
  MaxExpiries = 1
  MaxCalls = 2
PROPERTIES RefreshSeeds SeederSound RefreshReturns
CHECK_DEADLOCK FALSE
