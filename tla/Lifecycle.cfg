\* Start called by one goroutine and Stop by another, with both port mappings.
SPECIFICATION Spec
CONSTANTS
  Protocols = {"udp", "tcp"}
  Gateways = {"gw1"}
  Lifetime = 4
  Interval = 1
  MaxCall = 1
  Starters = {"a"}
  Stoppers = {"b"}
  MaxCalls = 2
INVARIANTS KeptAlive UseSound
PROPERTIES DiscoveryEnds StopReleases
CHECK_DEADLOCK FALSE
