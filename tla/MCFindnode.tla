----------------------------- MODULE MCFindnode -----------------------------
(* Findnode with nodes whose texts have their usual lengths. *)
EXTENDS Findnode

MCTable == [i \in 1..16 |-> [ip |-> 12, udp |-> 5, tcp |-> 5, id |-> 229]]
=============================================================================
