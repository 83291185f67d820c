SPECIFICATION Spec
CONSTANTS
  a = a
  b = b
  c = c
  p1 = p1
  p2 = p2
  q1 = q1
  Nodes = {a, b, c}
  Procs = {p1, p2}
  Queries = {q1}
  NoOne = NoOne
  NoNode = NoNode
  BucketSize = 2
  MaxSlots = 1
  MaxFails = 2
  Entries0 <- MCEntries0
  Known0 <- MCKnown0
  Fails0 <- MCFails0
  PromptReader = FALSE
  MaxInbox = 1
  MaxEvents = 1
INVARIANTS BucketSound OneBondPerNode EntriesBonded
PROPERTY EveryBondReturns
CHECK_DEADLOCK FALSE
