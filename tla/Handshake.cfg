SPECIFICATION Spec
CONSTANTS
  n1 = n1
  n2 = n2
  n3 = n3
  Nodes = {n1, n2, n3}
  Stranger = Stranger
  NoId = NoId
  Version <- MCVersion
  StrangeFrames <- MCStrangeFrames
  MaxWrites = 2
INVARIANTS Agreement FramesKept NodesNeverPanic
PROPERTY HandshakeEnds
CHECK_DEADLOCK FALSE
