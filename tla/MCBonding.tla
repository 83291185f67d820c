----------------------------- MODULE MCBonding -----------------------------
(* Small instances of Bonding: a full bucket of two, and a third node. *)
EXTENDS Bonding, TLC

CONSTANTS a, b, c, p1, p2, q1

MCEntries0 == <<a, b>>
MCKnown0 == {a, b}
MCFails0 == [n \in Nodes |-> IF n = a THEN 1 ELSE 0]

Symmetry == Permutations(Procs)
=============================================================================
