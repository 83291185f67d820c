---------------------------- MODULE MCHandshake ----------------------------
(* Three nodes, one of which runs another version, and a stranger that      *)
(* writes heartbeats and hellos with too few ids.                           *)
EXTENDS Handshake

CONSTANTS n1, n2, n3

MCVersion == [n \in Nodes |-> IF n = n3 THEN 2 ELSE 1]

MCStrangeFrames ==
  {Marshal(1, typePingMsg, << >>),
   Marshal(1, typeHelloRequest, <<n1>>),
   Marshal(1, typeReHelloRequest, << >>)}
=============================================================================
