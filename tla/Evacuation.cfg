\* Lookups that ask a bonded node with a full table: for a target whose text is
\* short enough to be sent, and for a usual one.
SPECIFICATION Spec
CONSTANTS
  Targets = {200, 229}
  Table <- MCTable
  bucketSize = 16
  maxNeighbors = 1024
  maxFindnodeFailures = 5
INVARIANT EvacuatedNonBonded
CHECK_DEADLOCK FALSE
