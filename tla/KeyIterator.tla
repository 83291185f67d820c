---------------------------- MODULE KeyIterator ----------------------------
(***************************************************************************)
(* The iterator of storage/badger/badger.go, which deleteNode and          *)
(* querySeeds of discover/nodedb.go use.                                   *)
(*                                                                         *)
(* An iterator walks over the keys that the storage has when it is made,   *)
(* in their order.  Next keeps the item that badger's iterator stands on   *)
(* and moves that iterator on at once, although an item is valid only      *)
(* until then: badger, which reads Prefetch items ahead, uses the item     *)
(* again for the next key that it has not read.  So Key gives a key that   *)
(* lies Prefetch places ahead, as long as there is one.                    *)
(***************************************************************************)
EXTENDS Integers, FiniteSets

CONSTANTS
  Prefetch,  \* PrefetchSize of badger.DefaultIteratorOptions, 100
  Order(_)   \* Order(k): where key k comes in the order of all keys

ASSUME PrefetchAssumption == Prefetch \in Nat \ {0}

\* The place of k among the keys S.
Place(k, S) == Cardinality({j \in S : Order(j) <= Order(k)})

\* The place, of n, of the key that Key gives after t calls of Next.
Given(t, n) == IF t + Prefetch <= n THEN t + Prefetch ELSE t

\* The calls of Next after which Key gives the key at place p of n.
Turns(p, n) == {t \in {p, p - Prefetch} \cap (1..n) : Given(t, n) = p}

\* What an iterator over the keys S gives: pairs of a turn and a key.
NewIterator(S) == UNION {Turns(Place(k, S), Cardinality(S)) \X {k} : k \in S}

\* The next of the pairs that are left of an iterator.
First(e, it) == e \in it /\ \A d \in it : e[1] <= d[1]

\* The keys that it never gives: of the first Prefetch, those with a key that
\* many places behind.
PassedOver(S) ==
  {k \in S : Place(k, S) <= Prefetch /\ Place(k, S) + Prefetch <= Cardinality(S)}
=============================================================================
