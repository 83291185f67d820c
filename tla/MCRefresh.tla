----------------------------- MODULE MCRefresh -----------------------------
(* Two goroutines, two remote nodes, of which one is a bootstrap node.  With     *)
(* Prefetch = 3 an iterator over four keys passes over the first.                *)
EXTENDS Refresh

CONSTANTS n1, n2, me, version

MCOrder(k) == CASE k = n1 -> 1 [] k = me -> 2 [] k = n2 -> 3 [] k = version -> 4
=============================================================================
