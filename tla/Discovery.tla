----------------------------- MODULE Discovery -----------------------------
(***************************************************************************)
(* The nodes of the network, as Lookup and Refresh see them.               *)
(***************************************************************************)
CONSTANTS
  Nodes,  \* remote nodes
  Self    \* the local node

ASSUME SelfAssumption == Self \notin Nodes

AllNodes == Nodes \cup {Self}
=============================================================================
