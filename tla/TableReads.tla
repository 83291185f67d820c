----------------------------- MODULE TableReads -----------------------------
(***************************************************************************)
(* The distances of discover/node.go and the two reads of the table of     *)
(* discover/table.go: closest and ReadRandomNodes.                         *)
(*                                                                         *)
(* A hash is a sequence of bytes; a bucket is the sequence of its entries. *)
(***************************************************************************)
EXTENDS Integers, SequencesExt, FiniteSetsExt, Bitwise

\* The table lzcount: the leading zero bits of a byte.
lzcount == [x \in 0..255 |-> Cardinality({k \in 0..7 : x < 2^k})]

\* The positions in which two hashes differ.
Differ(a, b) == {i \in DOMAIN a : a[i] # b[i]}

\* Mutant of logdist: the bits of the byte that differs are not counted.
logdistBytes(a, b) ==
  IF Differ(a, b) = {} THEN 0 ELSE 8 * Len(a) - 8 * (Min(Differ(a, b)) - 1)

logdist(a, b) ==
  IF Differ(a, b) = {} THEN 0
  ELSE LET i == Min(Differ(a, b))
       IN  8 * Len(a) - (8 * (i - 1) + lzcount[a[i] ^^ b[i]])

\* Negative when a is closer to target, positive when b is.
distcmp(target, a, b) ==
  IF Differ(a, b) = {} THEN 0
  ELSE LET i == Min(Differ(a, b))
       IN  IF a[i] ^^ target[i] > b[i] ^^ target[i] THEN 1 ELSE -1

-----------------------------------------------------------------------------
(* nodesByDistance.push and Table.closest, over hashes. *)

\* push, with sort.Search: n goes before the first entry that is farther away.
push(target, s, n, maxElems) ==
  LET ix == SelectInSeq(s, LAMBDA e : distcmp(target, e, n) > 0)
      at == IF ix = 0 THEN Len(s) + 1 ELSE ix
  IN  IF Len(s) < maxElems THEN InsertAt(s, at, n)
      ELSE IF at > Len(s) THEN s
      ELSE InsertAt(SubSeq(s, 1, Len(s) - 1), at, n)

\* Mutant of closest: the search ends with the bucket that fills the result.
closestBuckets(buckets, target, nresults) ==
  FoldLeft(LAMBDA c, b :
             IF Len(c) = nresults THEN c
             ELSE FoldLeft(LAMBDA d, n : push(target, d, n, nresults), c, b),
           << >>, buckets)

closest(buckets, target, nresults) ==
  FoldLeft(LAMBDA c, n : push(target, c, n, nresults), << >>, FlattenSeq(buckets))

-----------------------------------------------------------------------------
(* ReadRandomNodes. *)

\* The orders that the shuffle can give: the last of the first i buckets is
\* exchanged with one of those before it.
RECURSIVE Shuffles(_, _)
Shuffles(bs, i) ==
  IF i <= 1 THEN {bs}
  ELSE UNION {Shuffles([bs EXCEPT ![i] = bs[j], ![j] = bs[i]], i - 1) : j \in 1..(i - 1)}

\* Mutant of NextHead: a bucket keeps its head.
NextHeadKept(bs, j) == IF Len(bs[j]) = 1 THEN RemoveAt(bs, j) ELSE bs

\* The buckets without the head of bucket j.
NextHead(bs, j) ==
  IF Len(bs[j]) = 1 THEN RemoveAt(bs, j) ELSE [bs EXCEPT ![j] = Tail(@)]

\* The loop that moves the heads of the buckets into buf, which has room for
\* size nodes; n is what ReadRandomNodes returns.
RECURSIVE MoveHeads(_, _, _, _)
MoveHeads(bs, j, buf, size) ==
  IF Len(buf) = size THEN [buf |-> buf, n |-> size + 1]
  ELSE LET got  == Append(buf, Head(bs[j]))
           left == NextHead(bs, j)
       IN  IF left = << >> THEN [buf |-> got, n |-> Len(got)]
           ELSE MoveHeads(left, (j % Len(left)) + 1, got, size)

\* The results that ReadRandomNodes can have.
ReadRandomNodes(buckets, size) ==
  LET bs == SelectSeq(buckets, LAMBDA b : b # << >>)
  IN  IF bs = << >> THEN {[buf |-> << >>, n |-> 0]}
      ELSE {MoveHeads(s, 1, << >>, size) : s \in Shuffles(bs, Len(bs))}
=============================================================================
