SPECIFICATION Spec
CONSTANTS
  r1 = r1
  r2 = r2
  n1 = n1
  Reqs = {r1, r2}
  NoReq = NoReq
  Want <- MCWant
  Traffic <- MCTraffic
  NoPacket = NoPacket
  BucketSize = 2
  RespTimeout = 2
  MaxTime = 3
  MaxPackets = 2
  MaxRefreshes = 1
INVARIANTS
  OneResult
  QueueExact
  WakeupArmed
PROPERTIES
  NoEarlyTimeout
  EveryRequestReturns
  ImplementsContract
CHECK_DEADLOCK FALSE
