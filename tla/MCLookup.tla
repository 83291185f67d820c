------------------------------ MODULE MCLookup ------------------------------
(* A small network: the nearest nodes are found only through others. *)
EXTENDS Lookup

CONSTANTS me, n1, n2, n3, n4, n5

MCDist == [n \in AllNodes |-> CASE n = n1 -> 1 [] n = n2 -> 2 [] n = n3 -> 3
                             [] n = n4 -> 4 [] n = me -> 5 [] n = n5 -> 6]
MCKnows == [n \in AllNodes |-> CASE n = n1 -> {n2} [] n = n2 -> {n1, me}
                              [] n = n3 -> {n1, n4} [] n = n4 -> {n1, n2}
                              [] n = n5 -> {n1, n3} [] n = me -> {}]
=============================================================================
