SPECIFICATION Spec
CONSTANTS
  a = a
  b = b
  Nodes = {a, b}
  Conns = {c1, c2}
  NoConn = NoConn
  Configs <- MCConfigs
  Found <- MCFound
  Random <- MCRandom
  HistExpiration = 1
  LookupInterval = 1
INVARIANTS DynDialsBounded NoDoubleTask
PROPERTIES DialsSpaced StaticRedialed
CHECK_DEADLOCK FALSE
