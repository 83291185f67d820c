SPECIFICATION Spec
CONSTANTS
  a = a
  self = self
  Nodes = {a}
  Self = self
  NoNode = NoNode
  Prefetch = 5
  Order <- MCOrder
  Procs = {p1}
  Callees = {a}
  Stored0 = {self}
  Versions = {1, 2}
  NoVersion = 0
  Expiration = 2
  MaxBond = 1
  MaxScan = 1
  MaxStarts = 3
INVARIANTS VersionSound PongKept
PROPERTIES SeenKept UnseenDropped
CHECK_DEADLOCK FALSE
