-------------------------- MODULE MCPendingReplies --------------------------
(* Two lookups that ask the same node; packets answer one, both or none. *)
EXTENDS PendingReplies

CONSTANTS r1, r2, n1

MCWant == [r \in {r1, r2} |-> [from |-> n1, ptype |-> "neighbors"]]

MCTraffic ==
  {[from |-> n1, ptype |-> "neighbors", size |-> 1],
   [from |-> n1, ptype |-> "neighbors", size |-> 2],
   [from |-> n1, ptype |-> "pong", size |-> 0]}
=============================================================================
