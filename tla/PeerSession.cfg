SPECIFICATION Spec
CONSTANTS
  AliveLoop = 2
  AliveMax = 3
  MaxInbox = 2
  MaxSends = 1
INVARIANT SilenceBounded
PROPERTIES AliveKept SessionReturns
CHECK_DEADLOCK FALSE
