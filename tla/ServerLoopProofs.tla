-------------------------- MODULE ServerLoopProofs --------------------------
(***************************************************************************)
(* Proofs about ServerLoop: the dynamic dials stay within their limit, no  *)
(* two tasks do the same, and dials of a node are spaced.                  *)
(***************************************************************************)
EXTENDS ServerLoop, FiniteSetTheorems, WellFoundedInduction, TLAPS

\* Steps with a large context need more time than the default.
USE SMTT(30)

\* A task that runs or waits has its mark in the dialer's state.
Owned(t) ==
  /\ t.kind = "dial" => dialing[t.node] = t.flag
  /\ t.kind = "discover" => lookupRunning

Marked ==
  /\ \A x \in tasks : Owned(x.task)
  /\ \A i \in 1..Len(pendingTasks) : Owned(pendingTasks[i])

\* A peer is a connection of that node, with a session.
Sessions ==
  \A n \in Nodes :
    peers[n] # NoConn => /\ conn[peers[n]].state \in {"running", "closed", "ended"}
                         /\ conn[peers[n]].node = n

\* A connection that was dialed, and that the loop has not taken yet, belongs
\* to a task that waits for that.
Offered(c) == conn[c].state = "offered" /\ conn[c].flag # "inbound"

Offers ==
  /\ \A c \in Conns :
       Offered(c) => \E x \in tasks : /\ x.task = DialTask(conn[c].node, conn[c].flag)
                                      /\ x.phase = "serve"
  /\ \A c, d \in Conns : Offered(c) /\ Offered(d) /\ conn[c].node = conn[d].node => c = d

\* A node that is dialed was chosen when now was read, or before; what the
\* history still holds of a node that is not, and the time since its dial
\* began, make up the time between two dials.
Ages ==
  \A n \in Nodes :
    /\ dialing[n] # "no" => rest[n] >= age \/ rest[n] >= HistExpiration
    /\ dialing[n] = "no" => rest[n] >= HistExpiration \/ hist[n] >= HistExpiration - rest[n]

IInv ==
  /\ TypeOK /\ IsFiniteSet(tasks)
  /\ NoDoubleTask /\ Marked /\ Sessions /\ Offers /\ Ages
  /\ DynDialsBounded

-----------------------------------------------------------------------------
(* Numbers. *)

\* The smaller of two numbers.
LEMMA MinPair ==
  ASSUME NEW a \in Int, NEW b \in Int
  PROVE  Min({a, b}) = IF a <= b THEN a ELSE b
<1>. DEFINE m == IF a <= b THEN a ELSE b
<1>1. m \in {a, b} /\ \A y \in {a, b} : m <= y
  OBVIOUS
<1>2. \A x \in {a, b} : (\A y \in {a, b} : x <= y) => x = m
  OBVIOUS
<1>3. Min({a, b}) \in {a, b} /\ \A y \in {a, b} : Min({a, b}) <= y
  BY <1>1, Zenon DEF Min
<1>. QED
  BY <1>2, <1>3, Zenon

\* The larger of two numbers.
LEMMA MaxPair ==
  ASSUME NEW a \in Int, NEW b \in Int
  PROVE  Max({a, b}) = IF a >= b THEN a ELSE b
<1>. DEFINE m == IF a >= b THEN a ELSE b
<1>1. m \in {a, b} /\ \A y \in {a, b} : m >= y
  OBVIOUS
<1>2. \A x \in {a, b} : (\A y \in {a, b} : x >= y) => x = m
  OBVIOUS
<1>3. Max({a, b}) \in {a, b} /\ \A y \in {a, b} : Max({a, b}) >= y
  BY <1>1, Zenon DEF Max
<1>. QED
  BY <1>2, <1>3, Zenon

\* What Append does.
LEMMA AppendFacts ==
  ASSUME NEW X, NEW s \in Seq(X), NEW x \in X, NEW m \in Nat, m = Len(s)
  PROVE  /\ Append(s, x) \in Seq(X)
         /\ Len(Append(s, x)) = m + 1 /\ Append(s, x)[m + 1] = x
         /\ \A i \in 1..m : Append(s, x)[i] = s[i]
  OBVIOUS

\* A set of numbers that is not empty has a smallest one.
LEMMA MinNat ==
  ASSUME NEW T, T \subseteq Nat, T # {}
  PROVE  Min(T) \in T /\ \A y \in T : Min(T) <= y
<1>1. PICK x \in T : \A y \in T : ~(<<y, x>> \in OpToRel(<, Nat))
  BY NatLessThanWellFounded, WFMin, Zenon
<1>2. \A y \in Nat : y < x => <<y, x>> \in OpToRel(<, Nat)
  <2>. SUFFICES ASSUME NEW y \in Nat, y < x
                PROVE  <<y, x>> \in OpToRel(<, Nat)
    BY Zenon
  <2>1. <<y, x>> \in Nat \X Nat /\ <<y, x>>[1] = y /\ <<y, x>>[2] = x
    OBVIOUS
  <2>. QED
    BY <2>1, Zenon DEF OpToRel
<1>3. \A y \in T : ~(y < x)
  BY <1>1, <1>2, Zenon
<1>4. \A y \in T : x <= y
  BY <1>3
<1>. QED
  BY <1>4, Zenon DEF Min

-----------------------------------------------------------------------------
(* The loops of newTasks. *)

\* ds is what the loop has done of the first n nodes of s.
Loops(ds, s, S, n) ==
  ds = [k \in 0..n |-> IF k = 0 THEN << >> ELSE AddDial(ds[k - 1], s[k], S)]

\* A loop over n nodes can be extended by one.
LEMMA LoopExtended ==
  ASSUME NEW s, NEW S, NEW n \in Nat, NEW ds, Loops(ds, s, S, n)
  PROVE  \E es : Loops(es, s, S, n + 1)
<1>. DEFINE es == [k \in 0..(n + 1) |-> IF k <= n THEN ds[k] ELSE AddDial(ds[n], s[n + 1], S)]
<1>1. ASSUME NEW k \in 0..(n + 1)
      PROVE  es[k] = IF k = 0 THEN << >> ELSE AddDial(es[k - 1], s[k], S)
  <2>1. CASE k = 0
    BY <2>1 DEF Loops
  <2>2. CASE k # 0 /\ k <= n
    <3>1. k - 1 \in 0..n /\ k \in 0..n
      BY <2>2
    <3>2. ds[k] = AddDial(ds[k - 1], s[k], S)
      BY <2>2, <3>1, Zenon DEF Loops
    <3>3. es[k] = ds[k] /\ es[k - 1] = ds[k - 1]
      BY <2>2, <3>1
    <3>. QED
      BY <2>2, <3>2, <3>3, Zenon
  <2>3. CASE k = n + 1
    <3>1. es[k] = AddDial(ds[n], s[n + 1], S) /\ es[k - 1] = ds[n] /\ k # 0
      BY <2>3
    <3>. QED
      BY <2>3, <3>1, Zenon
  <2>. QED
    BY <2>1, <2>2, <2>3
<1>2. es = [k \in 0..(n + 1) |-> IF k = 0 THEN << >> ELSE AddDial(es[k - 1], s[k], S)]
  BY <1>1, Zenon
<1>. QED
  BY <1>2, Zenon DEF Loops

\* The loop runs to its end.
LEMMA LoopExists ==
  ASSUME NEW s, NEW S, NEW m \in Nat
  PROVE  \E ds : Loops(ds, s, S, m)
<1>. DEFINE T == {n \in Nat : ~\E ds : Loops(ds, s, S, n)}
<1>. SUFFICES T = {}
  OBVIOUS
<1>. SUFFICES ASSUME T # {}
              PROVE  FALSE
  OBVIOUS
<1>1. PICK n \in T : \A y \in T : n <= y
  <2>1. T \subseteq Nat
    OBVIOUS
  <2>. QED
    BY <2>1, MinNat, Zenon
<1>2. n # 0
  <2>1. Loops([k \in 0..0 |-> << >>], s, S, 0)
    BY DEF Loops
  <2>. QED
    BY <2>1, Zenon
<1>3. n \in Nat /\ n - 1 \in Nat /\ n - 1 \notin T /\ (n - 1) + 1 = n
  BY <1>1, <1>2
<1>4. PICK ds : Loops(ds, s, S, n - 1)
  BY <1>3, Zenon
<1>5. \E es : Loops(es, s, S, n)
  BY <1>3, <1>4, LoopExtended, Zenon
<1>. QED
  BY <1>5, Zenon

\* Dials is what its definition says.
LEMMA DialsLoop ==
  ASSUME NEW s, NEW S, Len(s) \in Nat
  PROVE  Loops(Dials(s, S), s, S, Len(s))
<1>1. \E ds : Loops(ds, s, S, Len(s))
  BY LoopExists, Zenon
<1>. QED
  BY <1>1, Zenon DEF Loops, Dials

\* A list of dials: no node is in it twice, none is in S, each may be dialed.
Dialable(ds, S) ==
  /\ ds \in Seq(Nodes)
  /\ \A i, j \in 1..Len(ds) : ds[i] = ds[j] => i = j
  /\ \A i \in 1..Len(ds) : CanDial(ds[i]) /\ ds[i] \notin S

\* addDial adds one dial at most, and keeps the list as it should be.
LEMMA AddDialFacts ==
  ASSUME NEW ds, NEW S, NEW n \in Nodes, Dialable(ds, S)
  PROVE  /\ Dialable(AddDial(ds, n, S), S)
         /\ Len(AddDial(ds, n, S)) \in {Len(ds), Len(ds) + 1}
<1>1. /\ ds \in Seq(Nodes)
      /\ \A i, j \in 1..Len(ds) : ds[i] = ds[j] => i = j
      /\ \A i \in 1..Len(ds) : CanDial(ds[i]) /\ ds[i] \notin S
  BY Zenon DEF Dialable
<1>2. CASE CanDial(n) /\ n \notin S \cup Range(ds)
  <2>1. AddDial(ds, n, S) = Append(ds, n)
    BY <1>2, Zenon DEF AddDial
  <2>2. PICK m \in Nat : m = Len(ds)
    BY <1>1
  <2>3. PICK es \in Seq(Nodes) :
          /\ es = Append(ds, n)
          /\ Len(es) = m + 1 /\ es[m + 1] = n
          /\ \A i \in 1..m : es[i] = ds[i]
    <3>1. /\ Append(ds, n) \in Seq(Nodes)
          /\ Len(Append(ds, n)) = m + 1 /\ Append(ds, n)[m + 1] = n
          /\ \A i \in 1..m : Append(ds, n)[i] = ds[i]
      <4>1. ds \in Seq(Nodes)
        BY <1>1, Zenon
      <4>. QED
        BY <4>1, <2>2, AppendFacts
    <3>. QED
      BY <3>1, Zenon
  <2>4. /\ Len(es) = m + 1 /\ es[m + 1] = n
        /\ \A i \in 1..m : es[i] = ds[i]
    BY <2>3, Zenon
  <2>5. \A i \in 1..m : ds[i] # n
    BY <1>1, <1>2, <2>2 DEF Range
  <2>6. \A i, j \in 1..(m + 1) : es[i] = es[j] => i = j
    BY <1>1, <2>2, <2>4, <2>5
  <2>7. \A i \in 1..(m + 1) : CanDial(es[i]) /\ es[i] \notin S
    BY <1>1, <1>2, <2>2, <2>4
  <2>8. Dialable(es, S)
    BY <2>4, <2>6, <2>7, Zenon DEF Dialable
  <2>. QED
    BY <2>1, <2>2, <2>3, <2>4, <2>8, Zenon
<1>3. CASE ~(CanDial(n) /\ n \notin S \cup Range(ds))
  BY <1>3, Zenon DEF AddDial
<1>. QED
  BY <1>2, <1>3, Zenon

\* The step of the loop.
LEMMA DialsStep ==
  ASSUME NEW s, NEW S, Len(s) \in Nat
  PROVE  /\ Dials(s, S)[0] = << >>
         /\ \A k \in Nat : k < Len(s) =>
              Dials(s, S)[k + 1] = AddDial(Dials(s, S)[k], s[k + 1], S)
<1>1. PICK ds : ds = Dials(s, S)
  OBVIOUS
<1>2. PICK m \in Nat : m = Len(s)
  OBVIOUS
<1>3. ds = [k \in 0..m |-> IF k = 0 THEN << >> ELSE AddDial(ds[k - 1], s[k], S)]
  <2>1. Loops(ds, s, S, m)
    BY <1>1, <1>2, DialsLoop, Zenon
  <2>. QED
    BY <2>1, Zenon DEF Loops
<1>4. ds[0] = << >>
  BY <1>3
<1>5. ASSUME NEW k \in Nat, k < m
      PROVE  ds[k + 1] = AddDial(ds[k], s[k + 1], S)
  <2>1. k + 1 \in 0..m /\ k + 1 # 0 /\ (k + 1) - 1 = k
    BY <1>5
  <2>. QED
    BY <1>3, <2>1, Zenon
<1>. QED
  BY <1>1, <1>2, <1>4, <1>5, Zenon

\* What every loop of newTasks adds.
LEMMA DialsFacts ==
  ASSUME NEW s \in Seq(Nodes), NEW S, NEW m \in Nat, m <= Len(s)
  PROVE  Dialable(Dials(s, S)[m], S) /\ Len(Dials(s, S)[m]) <= m
<1>1. PICK ds : ds = Dials(s, S)
  OBVIOUS
<1>. DEFINE Good(k) == Dialable(ds[k], S) /\ Len(ds[k]) <= k
            T == {k \in Nat : k <= Len(s) /\ ~Good(k)}
<1>2. /\ ds[0] = << >>
      /\ \A k \in Nat : k < Len(s) => ds[k + 1] = AddDial(ds[k], s[k + 1], S)
  BY <1>1, DialsStep
<1>3. T = {}
  <2>. SUFFICES ASSUME T # {}
                PROVE  FALSE
    OBVIOUS
  <2>1. PICK n \in T : \A y \in T : n <= y
    <3>1. T \subseteq Nat
      OBVIOUS
    <3>. HIDE DEF T
    <3>. QED
      BY <3>1, MinNat, Zenon
  <2>2. n \in Nat /\ n <= Len(s) /\ ~Good(n)
    BY <2>1, Zenon
  <2>3. Good(0)
    BY <1>2 DEF Dialable
  <2>4. n # 0
    BY <2>2, <2>3, Zenon
  <2>5. PICK k \in Nat : n = k + 1
    BY <2>2, <2>4
  <2>6. k < Len(s) /\ k <= Len(s) /\ ~(n <= k)
    BY <2>2, <2>5
  <2>7. Good(k)
    BY <2>1, <2>6, Zenon
  <2>8. ds[n] = AddDial(ds[k], s[n], S) /\ s[n] \in Nodes
    BY <1>2, <2>5, <2>6
  <2>9. Dialable(ds[n], S) /\ Len(ds[n]) \in {Len(ds[k]), Len(ds[k]) + 1}
    BY <2>7, <2>8, AddDialFacts, Zenon
  <2>10. Len(ds[k]) \in Nat /\ Len(ds[k]) <= k
    BY <2>7 DEF Dialable
  <2>. QED
    BY <2>2, <2>5, <2>9, <2>10
<1>. QED
  BY <1>1, <1>3, Zenon

\* The loop over lookupBuf does not add more than is needed.
LEMMA ConsumedFacts ==
  ASSUME TypeOK, NEW S, NEW need \in Int
  PROVE  /\ Consumed(S, need) \in 0..Len(lookupBuf)
         /\ Dialable(Dials(lookupBuf, S)[Consumed(S, need)], S)
         /\ \/ Len(Dials(lookupBuf, S)[Consumed(S, need)]) = 0
            \/ Len(Dials(lookupBuf, S)[Consumed(S, need)]) <= need
<1>1. lookupBuf \in Seq(Nodes)
  BY Zenon DEF TypeOK
<1>2. PICK m \in Nat : m = Len(lookupBuf)
  BY <1>1
<1>3. PICK ds : ds = Dials(lookupBuf, S)
  OBVIOUS
<1>. DEFINE T == {k \in 0..m : k = m \/ Len(ds[k]) >= need}
<1>4. T \subseteq Nat /\ T # {}
  <2>1. m \in T
    BY <1>2
  <2>. QED
    BY <1>2, <2>1
<1>5. PICK u : u = Consumed(S, need)
  OBVIOUS
<1>6. u \in T /\ \A y \in T : u <= y
  <2>1. u = Min(T)
    BY <1>2, <1>3, <1>5, Zenon DEF Consumed
  <2>. HIDE DEF T
  <2>. QED
    BY <1>4, <2>1, MinNat, Zenon
<1>7. u \in 0..m /\ \A k \in 0..m : k < u => ~(Len(ds[k]) >= need)
  BY <1>6
<1>8. \A k \in 0..m : Dialable(ds[k], S) /\ Len(ds[k]) <= k /\ Len(ds[k]) \in Nat
  <2>1. \A k \in 0..m : Dialable(ds[k], S) /\ Len(ds[k]) <= k
    BY <1>1, <1>2, <1>3, DialsFacts
  <2>2. \A k \in 0..m : ds[k] \in Seq(Nodes)
    BY <2>1, Zenon DEF Dialable
  <2>. QED
    BY <2>1, <2>2
<1>9. Len(ds[u]) = 0 \/ Len(ds[u]) <= need
  <2>1. CASE u = 0
    BY <1>2, <1>8, <2>1
  <2>2. CASE u # 0
    <3>1. PICK k \in Nat : u = k + 1
      BY <1>7, <2>2
    <3>2. k \in 0..m /\ k < u /\ k < m
      BY <1>7, <3>1
    <3>3. lookupBuf[k + 1] \in Nodes
      BY <1>1, <1>2, <3>2
    <3>4. ds[u] = AddDial(ds[k], lookupBuf[k + 1], S)
      BY <1>2, <1>3, <3>1, <3>2, DialsStep, Zenon
    <3>5. Len(ds[u]) \in {Len(ds[k]), Len(ds[k]) + 1}
      BY <1>8, <3>2, <3>3, <3>4, AddDialFacts, Zenon
    <3>. QED
      BY <1>7, <1>8, <3>2, <3>5
  <2>. QED
    BY <2>1, <2>2, Zenon
<1>. QED
  BY <1>2, <1>3, <1>5, <1>7, <1>8, <1>9, Zenon

\* The sets that needDynDials counts are finite.
LEMMA DynFinite ==
  /\ IsFiniteSet(DynPeers) /\ Cardinality(DynPeers) \in Nat
  /\ IsFiniteSet(DynDials) /\ Cardinality(DynDials) \in Nat
<1>1. DynPeers \in SUBSET Nodes /\ DynDials \in SUBSET Nodes
  BY Zenon DEF DynPeers, DynDials
<1>2. IsFiniteSet(DynPeers) /\ IsFiniteSet(DynDials)
  BY <1>1, ServerAssumption, FS_Subset, Zenon
<1>. QED
  BY <1>2, FS_CardinalityType, Zenon

\* A union is no larger than its parts together.
LEMMA UnionBound ==
  ASSUME NEW S, NEW T, IsFiniteSet(S), IsFiniteSet(T)
  PROVE  /\ IsFiniteSet(S \cup T)
         /\ Cardinality(S \cup T) <= Cardinality(S) + Cardinality(T)
<1>1. IsFiniteSet(S \cap T)
  BY FS_Subset, Zenon
<1>2. Cardinality(S) \in Nat /\ Cardinality(T) \in Nat /\ Cardinality(S \cap T) \in Nat
  BY <1>1, FS_CardinalityType, Zenon
<1>3. /\ IsFiniteSet(S \cup T)
      /\ Cardinality(S \cup T) = Cardinality(S) + Cardinality(T) - Cardinality(S \cap T)
  BY FS_Union, Zenon
<1>. QED
  BY <1>2, <1>3

\* needDynDials may be negative: a peer and the dial that made it count twice.
LEMMA NeedType == TypeOK => NeedDynDials \in Int
<1>. SUFFICES ASSUME TypeOK
              PROVE  NeedDynDials \in Int
  OBVIOUS
<1>1. config.maxDynDials \in Nat
  BY ServerAssumption, Zenon DEF TypeOK
<1>. QED
  BY <1>1, DynFinite DEF NeedDynDials

\* The random nodes looked at are no more than there are, and no more than
\* are needed.
LEMMA RandomFacts ==
  ASSUME TypeOK, NEW r \in Seq(Nodes)
  PROVE  /\ RandomCandidates(r) \in Nat /\ RandomCandidates(r) <= Len(r)
         /\ RandomCandidates(r) = 0 \/ RandomCandidates(r) <= NeedDynDials
<1>1. PICK need \in Int : need = NeedDynDials
  BY NeedType, Zenon
<1>2. PICK m \in Nat : m = Len(r)
  OBVIOUS
<1>3. CASE bootstrapped /\ need > 1
  <2>1. need \div 2 \in Int /\ need \div 2 >= 0 /\ need \div 2 <= need
    BY <1>3
  <2>2. RandomCandidates(r) = Min({need \div 2, m})
    BY <1>1, <1>2, <1>3, Zenon DEF RandomCandidates
  <2>3. RandomCandidates(r) = IF need \div 2 <= m THEN need \div 2 ELSE m
    BY <2>1, <2>2, MinPair
  <2>. QED
    BY <1>1, <1>2, <2>1, <2>3
<1>4. CASE ~(bootstrapped /\ need > 1)
  <2>1. RandomCandidates(r) = 0
    BY <1>1, <1>4, Zenon DEF RandomCandidates
  <2>. QED
    BY <1>2, <2>1
<1>. QED
  BY <1>3, <1>4, Zenon

\* u is s, of length m, and then t, of length n.
Joins(u, s, m, t, n) ==
  /\ Len(u) = m + n
  /\ \A i \in 1..m : u[i] = s[i]
  /\ \A i \in 1..n : u[m + i] = t[i]

\* What concatenation does.
LEMMA ConcatFacts ==
  ASSUME NEW X, NEW s \in Seq(X), NEW t \in Seq(X), NEW m \in Nat, NEW n \in Nat,
         m = Len(s), n = Len(t)
  PROVE  s \o t \in Seq(X) /\ Joins(s \o t, s, m, t, n)
  BY DEF Joins

\* A concatenation has the elements of its parts.
LEMMA ConcatSeq ==
  ASSUME NEW X, NEW s \in Seq(X), NEW t \in Seq(X)
  PROVE  s \o t \in Seq(X)
  OBVIOUS

\* A position in a concatenation is one in either part.
LEMMA Positions ==
  ASSUME NEW m \in Nat, NEW n \in Nat, NEW i \in 1..(m + n)
  PROVE  i \in 1..m \/ \E k \in 1..n : i = m + k
<1>1. CASE i <= m
  BY <1>1
<1>2. CASE ~(i <= m)
  <2>1. i - m \in 1..n /\ i = m + (i - m)
    BY <1>2
  <2>. QED
    BY <2>1, Zenon
<1>. QED
  BY <1>1, <1>2, Zenon

\* What is in a concatenation.
LEMMA ConcatRange ==
  ASSUME NEW X, NEW s \in Seq(X), NEW t \in Seq(X)
  PROVE  Range(s \o t) = Range(s) \cup Range(t)
<1>1. PICK m \in Nat : m = Len(s)
  OBVIOUS
<1>2. PICK n \in Nat : n = Len(t)
  OBVIOUS
<1>3. s \o t \in Seq(X) /\ Joins(s \o t, s, m, t, n)
  BY <1>1, <1>2, ConcatFacts, Zenon
<1>4. PICK u \in Seq(X) : u = s \o t /\ Joins(u, s, m, t, n)
  BY <1>3, Zenon
<1>5. /\ Len(u) = m + n
      /\ \A i \in 1..m : u[i] = s[i]
      /\ \A i \in 1..n : u[m + i] = t[i]
  BY <1>4, Zenon DEF Joins
<1>6. DOMAIN s = 1..m /\ DOMAIN t = 1..n /\ DOMAIN u = 1..(m + n)
  BY <1>1, <1>2, <1>5
<1>7. ASSUME NEW i \in 1..(m + n)
      PROVE  u[i] \in Range(s) \cup Range(t)
  <2>1. CASE i \in 1..m
    BY <1>5, <1>6, <2>1, Zenon DEF Range
  <2>2. CASE \E k \in 1..n : i = m + k
    BY <1>5, <1>6, <2>2, Zenon DEF Range
  <2>. QED
    BY <2>1, <2>2, Positions, Zenon
<1>8. \A i \in 1..m : s[i] \in Range(u)
  <2>1. \A i \in 1..m : i \in 1..(m + n)
    BY ONLY m \in Nat, n \in Nat
  <2>. QED
    BY <1>5, <1>6, <2>1, Zenon DEF Range
<1>9. \A i \in 1..n : t[i] \in Range(u)
  <2>1. \A i \in 1..n : m + i \in 1..(m + n)
    BY ONLY m \in Nat, n \in Nat
  <2>. QED
    BY <1>5, <1>6, <2>1, Zenon DEF Range
<1>10. Range(u) = Range(s) \cup Range(t)
  BY <1>6, <1>7, <1>8, <1>9, Zenon DEF Range
<1>. QED
  BY <1>4, <1>10, Zenon

\* The dials of two loops, the second of which knows those of the first.
LEMMA ConcatDialable ==
  ASSUME NEW S, NEW rd, NEW ld, NEW T, Range(rd) \subseteq T, S \subseteq T
  PROVE  Dialable(rd, S) /\ Dialable(ld, T) => Dialable(rd \o ld, S)
<1>1. SUFFICES ASSUME Dialable(rd, S), Dialable(ld, T)
               PROVE  Dialable(rd \o ld, S)
  OBVIOUS
<1>2. /\ rd \in Seq(Nodes) /\ ld \in Seq(Nodes)
      /\ \A i, j \in 1..Len(rd) : rd[i] = rd[j] => i = j
      /\ \A i \in 1..Len(rd) : CanDial(rd[i]) /\ rd[i] \notin S
      /\ \A i, j \in 1..Len(ld) : ld[i] = ld[j] => i = j
      /\ \A i \in 1..Len(ld) : CanDial(ld[i]) /\ ld[i] \notin T
  BY <1>1, Zenon DEF Dialable
<1>3. rd \in Seq(Nodes) /\ ld \in Seq(Nodes)
  BY <1>2, Zenon
<1>4. PICK m \in Nat : m = Len(rd)
  BY <1>3
<1>5. PICK n \in Nat : n = Len(ld)
  BY <1>3
<1>6. rd \o ld \in Seq(Nodes) /\ Joins(rd \o ld, rd, m, ld, n)
  BY <1>3, <1>4, <1>5, ConcatFacts, Zenon
<1>7. PICK u \in Seq(Nodes) : u = rd \o ld /\ Joins(u, rd, m, ld, n)
  BY <1>6, Zenon
<1>8. /\ Len(u) = m + n
      /\ \A i \in 1..m : u[i] = rd[i]
      /\ \A i \in 1..n : u[m + i] = ld[i]
  BY <1>7, Zenon DEF Joins
<1>9. \A i \in 1..m : rd[i] \in T
  BY <1>3, <1>4 DEF Range
<1>10. /\ \A i \in 1..m : CanDial(u[i]) /\ u[i] \notin S /\ u[i] \in T
       /\ \A k \in 1..n : CanDial(u[m + k]) /\ u[m + k] \notin T
  BY <1>2, <1>4, <1>5, <1>8, <1>9, Zenon
<1>11. /\ \A i, j \in 1..m : u[i] = u[j] => i = j
       /\ \A k, l \in 1..n : u[m + k] = u[m + l] => k = l
  BY <1>2, <1>4, <1>5, <1>8
<1>12. ASSUME NEW i \in 1..(m + n)
       PROVE  CanDial(u[i]) /\ u[i] \notin S
  <2>1. i \in 1..m \/ \E k \in 1..n : i = m + k
    BY Positions, Zenon
  <2>. QED
    BY <1>10, <2>1, Zenon
<1>13. ASSUME NEW i \in 1..(m + n), NEW j \in 1..(m + n), u[i] = u[j]
       PROVE  i = j
  <2>1. i \in 1..m \/ \E k \in 1..n : i = m + k
    BY Positions, Zenon
  <2>2. j \in 1..m \/ \E k \in 1..n : j = m + k
    BY Positions, Zenon
  <2>3. CASE i \in 1..m /\ j \in 1..m
    BY <1>11, <1>13, <2>3, Zenon
  <2>4. CASE (\E k \in 1..n : i = m + k) /\ \E k \in 1..n : j = m + k
    BY <1>11, <1>13, <2>4, Zenon
  <2>5. CASE i \in 1..m /\ \E k \in 1..n : j = m + k
    BY <1>10, <1>13, <2>5, Zenon
  <2>6. CASE j \in 1..m /\ \E k \in 1..n : i = m + k
    BY <1>10, <1>13, <2>6, Zenon
  <2>. QED
    BY <2>1, <2>2, <2>3, <2>4, <2>5, <2>6, Zenon
<1>14. Dialable(u, S)
  BY <1>8, <1>12, <1>13, Zenon DEF Dialable
<1>. QED
  BY <1>7, <1>14, Zenon

-----------------------------------------------------------------------------
(* The tasks that newTasks returns. *)

\* The three kinds of tasks.
LEMMA TaskShape ==
  ASSUME NEW t \in Tasks
  PROVE  /\ t.kind \in {"dial", "discover", "wait"}
         /\ t.kind = "dial" => /\ t.node \in Nodes /\ t.flag \in {"static", "dynamic"}
                               /\ t = DialTask(t.node, t.flag)
         /\ t.kind = "discover" => t.bootstrap \in BOOLEAN
         /\ t.kind = "wait" => t.time \in 0..HistExpiration
<1>1. CASE t \in {DialTask(n, f) : n \in Nodes, f \in {"static", "dynamic"}}
  BY <1>1 DEF DialTask
<1>2. CASE t \in {DiscoverTask(b) : b \in BOOLEAN}
  BY <1>2 DEF DiscoverTask
<1>3. CASE t \in {WaitTask(d) : d \in 0..HistExpiration}
  BY <1>3 DEF WaitTask
<1>. QED
  BY <1>1, <1>2, <1>3 DEF Tasks

\* It is no matter which of two tasks comes first.
LEMMA SameTaskSymmetric ==
  ASSUME NEW t, NEW u, SameTask(t, u)
  PROVE  SameTask(u, t)
  BY Zenon DEF SameTask

\* No two tasks of a list do the same; no task of one list does what one of
\* another does.
Distinct(ts) == \A i, j \in 1..Len(ts) : SameTask(ts[i], ts[j]) => i = j
Apart(ts, us) == \A t \in Range(ts), u \in Range(us) : ~SameTask(t, u)

\* Two lists of distinct tasks that are apart make one.
LEMMA DistinctConcat ==
  ASSUME NEW ts \in Seq(Tasks), NEW us \in Seq(Tasks)
  PROVE  Distinct(ts) /\ Distinct(us) /\ Apart(ts, us) => Distinct(ts \o us)
<1>1. SUFFICES ASSUME Distinct(ts), Distinct(us), Apart(ts, us)
               PROVE  Distinct(ts \o us)
  OBVIOUS
<1>2. PICK m \in Nat : m = Len(ts)
  OBVIOUS
<1>3. PICK n \in Nat : n = Len(us)
  OBVIOUS
<1>4. ts \o us \in Seq(Tasks) /\ Joins(ts \o us, ts, m, us, n)
  BY <1>2, <1>3, ConcatFacts, Zenon
<1>5. PICK u \in Seq(Tasks) : u = ts \o us /\ Joins(u, ts, m, us, n)
  BY <1>4, Zenon
<1>6. /\ Len(u) = m + n
      /\ \A i \in 1..m : u[i] = ts[i]
      /\ \A i \in 1..n : u[m + i] = us[i]
  BY <1>5, Zenon DEF Joins
<1>7. DOMAIN ts = 1..m /\ DOMAIN us = 1..n
  BY <1>2, <1>3
<1>8. \A i \in 1..m, k \in 1..n : ~SameTask(ts[i], us[k])
  BY <1>1, <1>7, Zenon DEF Apart, Range
<1>9. \A i \in 1..m, k \in 1..n : ~SameTask(u[i], u[m + k]) /\ ~SameTask(u[m + k], u[i])
  BY <1>6, <1>8, SameTaskSymmetric, Zenon
<1>10. /\ \A i, j \in 1..m : SameTask(u[i], u[j]) => i = j
       /\ \A k, l \in 1..n : SameTask(u[m + k], u[m + l]) => k = l
  <2>1. /\ \A i, j \in 1..m : SameTask(ts[i], ts[j]) => i = j
        /\ \A k, l \in 1..n : SameTask(us[k], us[l]) => k = l
    BY <1>1, <1>2, <1>3, Zenon DEF Distinct
  <2>. QED
    BY <1>6, <2>1, Zenon
<1>11. ASSUME NEW i \in 1..(m + n), NEW j \in 1..(m + n), SameTask(u[i], u[j])
       PROVE  i = j
  <2>1. i \in 1..m \/ \E k \in 1..n : i = m + k
    BY Positions, Zenon
  <2>2. j \in 1..m \/ \E k \in 1..n : j = m + k
    BY Positions, Zenon
  <2>3. CASE i \in 1..m /\ j \in 1..m
    BY <1>10, <1>11, <2>3, Zenon
  <2>4. CASE (\E k \in 1..n : i = m + k) /\ \E k \in 1..n : j = m + k
    BY <1>10, <1>11, <2>4, Zenon
  <2>5. CASE i \in 1..m /\ \E k \in 1..n : j = m + k
    BY <1>9, <1>11, <2>5, Zenon
  <2>6. CASE j \in 1..m /\ \E k \in 1..n : i = m + k
    BY <1>9, <1>11, <2>6, Zenon
  <2>. QED
    BY <2>1, <2>2, <2>3, <2>4, <2>5, <2>6, Zenon
<1>12. Distinct(u)
  BY <1>6, <1>11, Zenon DEF Distinct
<1>. QED
  BY <1>5, <1>12, Zenon

\* The tasks of the dials that a loop has added.
LEMMA DialTasksFacts ==
  ASSUME NEW ds, NEW S, NEW f \in {"static", "dynamic"}
  PROVE  Dialable(ds, S) =>
           /\ DialTasks(ds, f) \in Seq(Tasks)
           /\ Distinct(DialTasks(ds, f))
           /\ \A t \in Range(DialTasks(ds, f)) :
                \E n \in Range(ds) : n \in Nodes /\ CanDial(n) /\ t = DialTask(n, f)
<1>1. SUFFICES ASSUME Dialable(ds, S)
               PROVE  /\ DialTasks(ds, f) \in Seq(Tasks)
                      /\ Distinct(DialTasks(ds, f))
                      /\ \A t \in Range(DialTasks(ds, f)) :
                           \E n \in Range(ds) : n \in Nodes /\ CanDial(n) /\ t = DialTask(n, f)
  OBVIOUS
<1>2. /\ ds \in Seq(Nodes)
      /\ \A i, j \in 1..Len(ds) : ds[i] = ds[j] => i = j
      /\ \A i \in 1..Len(ds) : CanDial(ds[i])
  BY <1>1, Zenon DEF Dialable
<1>3. PICK m \in Nat : m = Len(ds)
  BY <1>2
<1>4. DOMAIN ds = 1..m /\ \A i \in 1..m : ds[i] \in Nodes /\ ds[i] \in Range(ds) /\ CanDial(ds[i])
  BY <1>2, <1>3 DEF Range
<1>5. PICK ts : ts = [i \in 1..m |-> DialTask(ds[i], f)]
  BY Zenon
<1>6. ts = DialTasks(ds, f)
  BY <1>3, <1>5, Zenon DEF DialTasks
<1>7. \A i \in 1..m : ts[i] \in Tasks /\ ts[i] = DialTask(ds[i], f)
  BY <1>4, <1>5 DEF Tasks
<1>8. ts \in Seq(Tasks) /\ Len(ts) = m /\ DOMAIN ts = 1..m
  BY <1>5, <1>7
<1>9. \A i, j \in 1..m : SameTask(ts[i], ts[j]) => ds[i] = ds[j]
  <2>1. ASSUME NEW i \in 1..m
        PROVE  ts[i].kind = "dial" /\ ts[i].node = ds[i]
    <3>1. ts[i] = [kind |-> "dial", node |-> ds[i], flag |-> f]
      BY <1>5, Zenon DEF DialTask
    <3>. QED
      BY <3>1
  <2>. QED
    BY <2>1, Zenon DEF SameTask
<1>10. Distinct(ts)
  BY <1>2, <1>3, <1>8, <1>9, Zenon DEF Distinct
<1>11. \A t \in Range(ts) : \E n \in Range(ds) : n \in Nodes /\ CanDial(n) /\ t = DialTask(n, f)
  BY <1>4, <1>7, <1>8, Zenon DEF Range
<1>. QED
  BY <1>6, <1>8, <1>10, <1>11, Zenon

\* The time until the first entry of the history expires.
LEMMA FirstExpiryType ==
  ASSUME TypeOK, NEW ts, NeedWait(ts)
  PROVE  FirstExpiry \in 0..HistExpiration
<1>. DEFINE M == {m \in Nodes : Expired[m] # Gone}
            T == {Expired[n] : n \in M}
<1>1. HistExpiration \in Nat
  BY ServerAssumption, Zenon
<1>2. \A n \in Nodes : Expired[n] = Gone \/ Expired[n] \in 0..HistExpiration
  BY <1>1 DEF TypeOK, Expired, Gone
<1>3. T \subseteq 0..HistExpiration /\ T # {}
  BY <1>2, Zenon DEF NeedWait
<1>4. FirstExpiry = Min(T)
  BY Zenon DEF FirstExpiry
<1>. HIDE DEF T
<1>5. T \subseteq Nat
  BY <1>3
<1>6. Min(T) \in T
  BY <1>3, <1>5, MinNat, Zenon
<1>. QED
  BY <1>3, <1>4, <1>6, Zenon

\* A task that may be new: a node that is in A or in B is dialed, or a lookup
\* is started, or there is nothing else to do than to wait.
Fits(t, A, B, look) ==
  \/ \E n \in A : n \in Nodes /\ CanDial(n) /\ t = DialTask(n, "static")
  \/ \E n \in B : n \in Nodes /\ CanDial(n) /\ t = DialTask(n, "dynamic")
  \/ look /\ \E b \in BOOLEAN : t = DiscoverTask(b)
  \/ /\ tasks = {} /\ pendingTasks = << >>
     /\ \E d \in 0..HistExpiration : t = WaitTask(d)

NewList(ts, A, B, look) ==
  /\ ts \in Seq(Tasks) /\ Distinct(ts)
  /\ \A t \in Range(ts) : Fits(t, A, B, look)

\* A list of one task.
LEMMA OneTask ==
  ASSUME NEW t \in Tasks
  PROVE  /\ <<t>> \in Seq(Tasks) /\ Distinct(<<t>>)
         /\ \A u \in Range(<<t>>) : u = t
<1>1. <<t>> \in Seq(Tasks) /\ Len(<<t>>) = 1 /\ DOMAIN <<t>> = 1..1 /\ <<t>>[1] = t
  OBVIOUS
<1>2. \A i, j \in 1..1 : i = j
  OBVIOUS
<1>3. Distinct(<<t>>)
  BY <1>1, <1>2, Zenon DEF Distinct
<1>4. \A u \in Range(<<t>>) : u = t
  BY <1>1 DEF Range
<1>. QED
  BY <1>1, <1>3, <1>4, Zenon

\* The empty list.
LEMMA NoTask ==
  << >> \in Seq(Tasks) /\ Distinct(<< >>) /\ Range(<< >>) = {}
<1>1. << >> \in Seq(Tasks) /\ Len(<< >>) = 0 /\ DOMAIN << >> = 1..0
  OBVIOUS
<1>2. \A i \in 1..0 : FALSE
  OBVIOUS
<1>3. Distinct(<< >>)
  BY <1>1, <1>2, Zenon DEF Distinct
<1>4. Range(<< >>) = {}
  BY <1>1, <1>2, Zenon DEF Range
<1>. QED
  BY <1>1, <1>3, <1>4, Zenon

\* The dials of static nodes, then those of dynamic ones, then a lookup.
LEMMA TaskList ==
  ASSUME NEW sd, NEW dd, NEW look \in BOOLEAN, NEW b \in BOOLEAN,
         NEW lt, lt = IF look THEN <<DiscoverTask(b)>> ELSE << >>
  PROVE  Dialable(sd, {}) /\ Dialable(dd, Range(sd)) =>
           NewList(DialTasks(sd, "static") \o DialTasks(dd, "dynamic") \o lt,
                   Range(sd), Range(dd), look)
<1>1. SUFFICES ASSUME Dialable(sd, {}), Dialable(dd, Range(sd))
               PROVE  NewList(DialTasks(sd, "static") \o DialTasks(dd, "dynamic") \o lt,
                              Range(sd), Range(dd), look)
  OBVIOUS
<1>2. PICK s1 \in Seq(Tasks) :
        /\ s1 = DialTasks(sd, "static") /\ Distinct(s1)
        /\ \A t \in Range(s1) :
             \E n \in Range(sd) : n \in Nodes /\ CanDial(n) /\ t = DialTask(n, "static")
  BY <1>1, DialTasksFacts, Zenon
<1>3. PICK s2 \in Seq(Tasks) :
        /\ s2 = DialTasks(dd, "dynamic") /\ Distinct(s2)
        /\ \A t \in Range(s2) :
             \E n \in Range(dd) : n \in Nodes /\ CanDial(n) /\ t = DialTask(n, "dynamic")
  BY <1>1, DialTasksFacts, Zenon
<1>4. DiscoverTask(b) \in Tasks
  BY DEF Tasks
<1>5. /\ lt \in Seq(Tasks) /\ Distinct(lt)
      /\ \A t \in Range(lt) : look /\ t = DiscoverTask(b)
  <2>1. CASE look
    BY <1>4, <2>1, OneTask, Zenon
  <2>2. CASE ~look
    BY <2>2, NoTask, Zenon
  <2>. QED
    BY <2>1, <2>2, Zenon
<1>6. \A n \in Range(dd) : n \notin Range(sd)
  <2>1. dd \in Seq(Nodes) /\ \A i \in 1..Len(dd) : dd[i] \notin Range(sd)
    BY <1>1, Zenon DEF Dialable
  <2>. QED
    BY <2>1 DEF Range
<1>7. Apart(s1, s2)
  <2>1. \A n, m : SameTask(DialTask(n, "static"), DialTask(m, "dynamic")) => n = m
    BY Zenon DEF SameTask, DialTask
  <2>2. ASSUME NEW t \in Range(s1), NEW u \in Range(s2), SameTask(t, u)
        PROVE  FALSE
    <3>1. PICK n \in Range(sd) : t = DialTask(n, "static")
      BY <1>2, Zenon
    <3>2. PICK m \in Range(dd) : u = DialTask(m, "dynamic")
      BY <1>3, Zenon
    <3>3. n = m
      BY <2>1, <2>2, <3>1, <3>2, Zenon
    <3>. QED
      BY <1>6, <3>3, Zenon
  <2>. QED
    BY <2>2, Zenon DEF Apart
<1>8. Apart(s1, lt) /\ Apart(s2, lt)
  <2>1. \A n, f : ~SameTask(DialTask(n, f), DiscoverTask(b))
    BY Zenon DEF SameTask, DialTask, DiscoverTask
  <2>2. ASSUME NEW t, NEW u \in Range(lt), NEW n, NEW f, t = DialTask(n, f)
        PROVE  ~SameTask(t, u)
    <3>1. u = DiscoverTask(b)
      BY <1>5, Zenon
    <3>. QED
      BY <2>1, <2>2, <3>1, Zenon
  <2>3. \A t \in Range(s1) : \E n : t = DialTask(n, "static")
    BY <1>2, Zenon
  <2>4. \A t \in Range(s2) : \E n : t = DialTask(n, "dynamic")
    BY <1>3, Zenon
  <2>. QED
    BY <2>2, <2>3, <2>4, Zenon DEF Apart
<1>9. /\ s1 \o s2 \in Seq(Tasks) /\ Range(s1 \o s2) = Range(s1) \cup Range(s2)
      /\ Distinct(s1 \o s2)
  <2>1. s1 \o s2 \in Seq(Tasks)
    OBVIOUS
  <2>2. Range(s1 \o s2) = Range(s1) \cup Range(s2)
    BY ConcatRange, ZenonT(30)
  <2>3. Distinct(s1 \o s2)
    BY <1>2, <1>3, <1>7, DistinctConcat, Zenon
  <2>. QED
    BY <2>1, <2>2, <2>3, Zenon
<1>10. PICK s3 \in Seq(Tasks) : s3 = s1 \o s2
  BY <1>9, Zenon
<1>11. Apart(s3, lt) /\ Distinct(s3)
  <2>1. \A t \in Range(s3) : t \in Range(s1) \/ t \in Range(s2)
    BY <1>9, <1>10, Zenon
  <2>. QED
    BY <1>8, <1>9, <1>10, <2>1, Zenon DEF Apart
<1>12. s3 \o lt \in Seq(Tasks) /\ Range(s3 \o lt) = Range(s3) \cup Range(lt)
  <2>1. lt \in Seq(Tasks)
    BY <1>5, Zenon
  <2>2. s3 \o lt \in Seq(Tasks)
    BY <2>1
  <2>3. Range(s3 \o lt) = Range(s3) \cup Range(lt)
    <3>1. \A u \in Seq(Tasks) : Range(s3 \o u) = Range(s3) \cup Range(u)
      BY ConcatRange, Zenon
    <3>. QED
      BY <2>1, <3>1, Zenon
  <2>. QED
    BY <2>2, <2>3, Zenon
<1>13. Distinct(s3 \o lt)
  BY <1>5, <1>11, DistinctConcat, Zenon
<1>14. \A t \in Range(s3 \o lt) : Fits(t, Range(sd), Range(dd), look)
  <2>1. \A t \in Range(s1) : Fits(t, Range(sd), Range(dd), look)
    BY <1>2, Zenon DEF Fits
  <2>2. \A t \in Range(s2) : Fits(t, Range(sd), Range(dd), look)
    BY <1>3, Zenon DEF Fits
  <2>3. \A t \in Range(lt) : Fits(t, Range(sd), Range(dd), look)
    BY <1>5, Zenon DEF Fits
  <2>4. \A t \in Range(s3 \o lt) : t \in Range(s1) \/ t \in Range(s2) \/ t \in Range(lt)
    BY <1>9, <1>10, <1>12, Zenon
  <2>. QED
    BY <2>1, <2>2, <2>3, <2>4, Zenon
<1>15. NewList(s3 \o lt, Range(sd), Range(dd), look)
  BY <1>12, <1>13, <1>14, Zenon DEF NewList
<1>. QED
  BY <1>2, <1>3, <1>10, <1>15, Zenon

\* What one call of newTasks does: sd are the static and dd the dynamic dials.
Chosen(nt, sd, dd) ==
  /\ Dialable(sd, {}) /\ Dialable(dd, Range(sd))
  /\ Len(dd) = 0 \/ Len(dd) <= NeedDynDials
  /\ nt.static = Range(sd) /\ nt.dynamic = Range(dd)
  /\ nt.buf \in Seq(Nodes)
  /\ nt.look \in BOOLEAN /\ (nt.look => ~lookupRunning)
  /\ NewList(nt.tasks, Range(sd), Range(dd), nt.look)

\* newTasks adds dials that addDial allows, no more dynamic ones than are needed,
\* and a lookup only when none runs.
LEMMA NewTasksChosen ==
  ASSUME TypeOK, NEW ns \in StaticOrders, NEW r \in Random
  PROVE  \E sd, dd : Chosen(NewTasks(ns, r), sd, dd)
<1>1. ns \in Seq(Nodes) /\ r \in Seq(Nodes) /\ lookupBuf \in Seq(Nodes)
  <2>1. static \in SUBSET Nodes
    BY Zenon DEF TypeOK
  <2>2. Cardinality(static) \in Nat
    BY <2>1, ServerAssumption, FS_Subset, FS_CardinalityType, Zenon
  <2>3. ns \in [1..Cardinality(static) -> static]
    BY Zenon DEF StaticOrders
  <2>4. PICK k \in Nat : ns \in [1..k -> static]
    BY <2>2, <2>3, Zenon
  <2>5. ns \in Seq(Nodes)
    BY <2>1, <2>4
  <2>. QED
    BY <2>5, ServerAssumption, Zenon DEF TypeOK
<1>2. PICK sd : sd = Dials(ns, {})[Len(ns)] /\ Dialable(sd, {})
  <2>1. Len(ns) \in Nat /\ Len(ns) <= Len(ns)
    BY <1>1
  <2>. QED
    BY <1>1, <2>1, DialsFacts, Zenon
<1>3. PICK k \in Nat : k = RandomCandidates(r)
  BY <1>1, RandomFacts, Zenon
<1>4. PICK need \in Int : need = NeedDynDials
  BY NeedType, Zenon
<1>5. k <= Len(r) /\ (k = 0 \/ k <= need)
  BY <1>1, <1>3, <1>4, RandomFacts, Zenon
<1>6. PICK rd : rd = Dials(r, Range(sd))[k] /\ Dialable(rd, Range(sd)) /\ Len(rd) <= k
  BY <1>1, <1>5, DialsFacts, Zenon
<1>7. sd \in Seq(Nodes) /\ rd \in Seq(Nodes)
  BY <1>2, <1>6, Zenon DEF Dialable
<1>8. PICK l \in Nat : l = Len(rd)
  BY <1>7
<1>9. PICK S : S = Range(sd \o rd)
  OBVIOUS
<1>10. S = Range(sd) \cup Range(rd)
  BY <1>7, <1>9, ConcatRange
<1>11. need - l \in Int
  OBVIOUS
<1>12. PICK used : used = Consumed(S, need - l)
  OBVIOUS
<1>13. PICK ld : ld = Dials(lookupBuf, S)[used]
  OBVIOUS
<1>14. /\ used \in 0..Len(lookupBuf) /\ Dialable(ld, S)
       /\ Len(ld) = 0 \/ Len(ld) <= need - l
  BY <1>11, <1>12, <1>13, ConsumedFacts, Zenon
<1>15. PICK dd : dd = rd \o ld
  BY Zenon
<1>16. Dialable(dd, Range(sd))
  <2>1. Range(rd) \subseteq S /\ Range(sd) \subseteq S
    BY <1>10, Zenon
  <2>. QED
    BY <1>6, <1>14, <1>15, <2>1, ConcatDialable, Zenon
<1>17. Len(dd) = 0 \/ Len(dd) <= need
  <2>1. ld \in Seq(Nodes)
    BY <1>14, Zenon DEF Dialable
  <2>2. PICK q \in Nat : q = Len(ld)
    BY <2>1
  <2>3. Len(dd) = l + q
    BY <1>7, <1>8, <1>15, <2>1, <2>2
  <2>4. (q = 0 \/ q <= need - l) /\ l <= k
    BY <1>6, <1>8, <1>14, <2>2, Zenon
  <2>. QED
    BY <1>5, <2>3, <2>4
<1>18. PICK buf : buf = SubSeq(lookupBuf, used + 1, Len(lookupBuf))
  BY Zenon
<1>19. buf \in Seq(Nodes)
  BY <1>1, <1>14, <1>18
<1>20. PICK look \in BOOLEAN : look = (Len(buf) < (need - l) - Len(ld) /\ ~lookupRunning)
  BY Zenon
<1>21. PICK lt : lt = IF look THEN <<DiscoverTask(~bootstrapped)>> ELSE << >>
  BY Zenon
<1>22. PICK ts : ts = DialTasks(sd, "static") \o DialTasks(dd, "dynamic") \o lt
  BY Zenon
<1>23. NewList(ts, Range(sd), Range(dd), look)
  <2>1. (~bootstrapped) \in BOOLEAN
    OBVIOUS
  <2>. QED
    BY <1>2, <1>16, <1>21, <1>22, <2>1, TaskList, Zenon
<1>24. PICK us : us = IF NeedWait(ts) THEN <<WaitTask(FirstExpiry)>> ELSE ts
  BY Zenon
<1>25. NewList(us, Range(sd), Range(dd), look)
  <2>1. CASE NeedWait(ts)
    <3>1. FirstExpiry \in 0..HistExpiration
      BY <2>1, FirstExpiryType, Zenon
    <3>2. WaitTask(FirstExpiry) \in Tasks
      BY <3>1 DEF Tasks
    <3>3. tasks = {} /\ pendingTasks = << >>
      BY <2>1, Zenon DEF NeedWait
    <3>4. Fits(WaitTask(FirstExpiry), Range(sd), Range(dd), look)
      BY <3>1, <3>3, Zenon DEF Fits
    <3>5. us = <<WaitTask(FirstExpiry)>>
      BY <1>24, <2>1, Zenon
    <3>. QED
      BY <3>2, <3>4, <3>5, OneTask, Zenon DEF NewList
  <2>2. CASE ~NeedWait(ts)
    BY <1>23, <1>24, <2>2, Zenon
  <2>. QED
    BY <2>1, <2>2, Zenon
<1>26. NewTasks(ns, r) = [tasks |-> us, static |-> Range(sd), dynamic |-> Range(dd),
                          buf |-> buf, look |-> look]
  BY <1>2, <1>3, <1>4, <1>6, <1>8, <1>9, <1>12, <1>13, <1>15, <1>18, <1>20, <1>21,
     <1>22, <1>24, ZenonT(30) DEF NewTasks
<1>27. PICK nt : nt = NewTasks(ns, r)
  OBVIOUS
<1>28. /\ nt.tasks = us /\ nt.static = Range(sd) /\ nt.dynamic = Range(dd)
       /\ nt.buf = buf /\ nt.look = look
  BY <1>26, <1>27
<1>29. look => ~lookupRunning
  BY <1>20, Zenon
<1>30. Chosen(nt, sd, dd)
  BY <1>2, <1>4, <1>16, <1>17, <1>19, <1>25, <1>28, <1>29, Zenon DEF Chosen
<1>. QED
  BY <1>27, <1>30, Zenon

-----------------------------------------------------------------------------
(* scheduleTasks. *)

\* No task sleeps longer than MaxSleep.
LEMMA MaxSleepType ==
  MaxSleep \in Nat /\ HistExpiration <= MaxSleep /\ LookupInterval <= MaxSleep
<1>1. HistExpiration \in Nat /\ LookupInterval \in Nat
  BY ServerAssumption, Zenon
<1>2. MaxSleep = IF HistExpiration >= LookupInterval THEN HistExpiration ELSE LookupInterval
  BY <1>1, MaxPair DEF MaxSleep
<1>. QED
  BY <1>1, <1>2

\* The goroutines that run tasks.
Runs == [task : Tasks, phase : Phases, left : 0..MaxSleep]

\* A goroutine that starts.
LEMMA StartedType ==
  ASSUME NEW t \in Tasks
  PROVE  /\ Started(t) \in Runs
         /\ Started(t).task = t /\ Started(t).phase # "serve"
<1>1. PICK ph \in Phases : /\ ph = IF t.kind = "wait" THEN "sleep" ELSE "start"
                           /\ ph # "serve"
  BY Zenon DEF Phases
<1>2. PICK l \in 0..MaxSleep : l = IF t.kind = "wait" THEN t.time ELSE 0
  <2>1. t.kind = "wait" => t.time \in 0..HistExpiration
    BY TaskShape, Zenon
  <2>2. HistExpiration \in Nat
    BY ServerAssumption, Zenon
  <2>. QED
    BY <2>1, <2>2, MaxSleepType
<1>3. Started(t) = [task |-> t, phase |-> ph, left |-> l]
  BY <1>1, <1>2, Zenon DEF Started
<1>. QED
  BY <1>1, <1>3 DEF Runs

\* The set of the tasks that are started is finite.
StartedOf(pt, n) == {Started(pt[i]) : i \in 1..n}

\* scheduleTasks starts finitely many tasks.
LEMMA StartedFinite ==
  ASSUME NEW pt, NEW n \in Nat
  PROVE  IsFiniteSet(StartedOf(pt, n))
<1>. DEFINE T == {Started(pt[i]) : i \in 1..n}
            g == [i \in 1..n |-> Started(pt[i])]
<1>1. g \in Surjection(1..n, T)
  BY Zenon DEF Surjection
<1>2. IsFiniteSet(1..n)
  BY FS_Interval
<1>. QED
  BY <1>1, <1>2, FS_Surjection DEF StartedOf

\* What scheduleTasks does with pt, the tasks that wait and those that are new.
LEMMA ScheduleFacts ==
  ASSUME TypeOK, IsFiniteSet(tasks), NEW new \in Seq(Tasks), Schedule(new),
         NEW pt \in Seq(Tasks), pt = pendingTasks \o new
  PROVE  \/ UNCHANGED <<tasks, pendingTasks>>
         \/ \E n \in 1..Len(pt) :
              /\ tasks' = tasks \cup {Started(pt[i]) : i \in 1..n}
              /\ pendingTasks' = SubSeq(pt, n + 1, Len(pt))
<1>1. Cardinality(tasks) \in Nat /\ config.maxTasks \in Nat
  BY FS_CardinalityType, ServerAssumption, Zenon DEF TypeOK
<1>2. PICK m \in Nat : m = Len(pt)
  OBVIOUS
<1>3. PICK k \in Int : k = config.maxTasks - Cardinality(tasks)
  BY <1>1
<1>4. PICK n \in Int : n = Min({k, m}) /\ n <= m
  <2>1. m \in Int
    OBVIOUS
  <2>2. Min({k, m}) = IF k <= m THEN k ELSE m
    BY <2>1, MinPair, Zenon
  <2>. QED
    BY <2>1, <2>2
<1>5. n <= m
  BY <1>4, Zenon
<1>6. n = Min({config.maxTasks - Cardinality(tasks), Len(pendingTasks \o new)})
  BY <1>2, <1>3, <1>4, Zenon
<1>7. IF n > 0
      THEN /\ tasks' = tasks \cup {Started(pt[i]) : i \in 1..n}
           /\ pendingTasks' = SubSeq(pt, n + 1, Len(pt))
      ELSE UNCHANGED <<tasks, pendingTasks>>
  BY <1>6, Zenon DEF Schedule
<1>8. CASE n > 0
  <2>1. n \in 1..Len(pt)
    BY <1>2, <1>5, <1>8
  <2>. QED
    BY <1>7, <1>8, <2>1, Zenon
<1>9. CASE ~(n > 0)
  BY <1>7, <1>9, Zenon
<1>. QED
  BY <1>8, <1>9, Zenon

\* What is in a sequence.
LEMMA SeqRange ==
  ASSUME NEW X, NEW s \in Seq(X), NEW m \in Nat, m = Len(s)
  PROVE  /\ DOMAIN s = 1..m
         /\ \A i \in 1..m : s[i] \in X /\ s[i] \in Range(s)
         /\ \A x \in Range(s) : \E i \in 1..m : x = s[i]
  BY DEF Range

\* u is what is left of s, of length m, after n elements.
Rest(u, s, n, m) ==
  /\ Len(u) = m - n
  /\ \A i \in 1..(m - n) : n + i \in 1..m /\ u[i] = s[n + i]

\* What scheduleTasks keeps in pendingTasks is the rest of the list.
LEMMA SubSeqTail ==
  ASSUME NEW X, NEW s \in Seq(X), NEW m \in Nat, m = Len(s), NEW n \in 1..m
  PROVE  SubSeq(s, n + 1, m) \in Seq(X) /\ Rest(SubSeq(s, n + 1, m), s, n, m)
  BY DEF Rest

\* scheduleTasks neither loses a task that waited nor runs one twice.
LEMMA ScheduleStep ==
  ASSUME TypeOK, IsFiniteSet(tasks), NEW new \in Seq(Tasks), Schedule(new),
         NEW pt \in Seq(Tasks), pt = pendingTasks \o new,
         \A x, y \in tasks : SameTask(x.task, y.task) => x = y,
         \A x \in tasks : \A t \in Range(pt) : ~SameTask(x.task, t),
         NEW m \in Nat, m = Len(pt),
         \A i, j \in 1..m : SameTask(pt[i], pt[j]) => i = j,
         Range(pendingTasks) \subseteq Range(pt), NoDoubleTask
  PROVE  /\ tasks' \subseteq Runs /\ IsFiniteSet(tasks')
         /\ pendingTasks' \in Seq(Tasks)
         /\ tasks \subseteq tasks'
         /\ \A x \in tasks' : x \in tasks \/ x.task \in Range(pt)
         /\ \A i \in 1..Len(pendingTasks') : pendingTasks'[i] \in Range(pt)
         /\ NoDoubleTask'
<1>1. tasks \subseteq Runs /\ pendingTasks \in Seq(Tasks)
  BY Zenon DEF TypeOK, Runs
<1>2. CASE UNCHANGED <<tasks, pendingTasks>>
  <2>1. \A i \in 1..Len(pendingTasks) : pendingTasks[i] \in Range(pendingTasks)
    BY <1>1 DEF Range
  <2>2. NoDoubleTask'
    BY <1>2, Zenon DEF NoDoubleTask
  <2>. QED
    BY <1>1, <1>2, <2>1, <2>2, Zenon
<1>3. ASSUME NEW n \in 1..m,
             tasks' = tasks \cup {Started(pt[i]) : i \in 1..n},
             pendingTasks' = SubSeq(pt, n + 1, m)
      PROVE  /\ tasks' \subseteq Runs /\ IsFiniteSet(tasks')
             /\ pendingTasks' \in Seq(Tasks)
             /\ tasks \subseteq tasks'
             /\ \A x \in tasks' : x \in tasks \/ x.task \in Range(pt)
             /\ \A i \in 1..Len(pendingTasks') : pendingTasks'[i] \in Range(pt)
             /\ NoDoubleTask'
  <2>1. DOMAIN pt = 1..m /\ \A i \in 1..m : pt[i] \in Tasks /\ pt[i] \in Range(pt)
    BY SeqRange, Zenon
  <2>2. \A i \in 1..n : i \in 1..m
    OBVIOUS
  <2>3. \A x \in tasks' : x \in tasks \/ \E i \in 1..n : x = Started(pt[i])
    BY <1>3, Zenon
  <2>4. \A i \in 1..n : Started(pt[i]) \in Runs /\ Started(pt[i]).task = pt[i]
    BY <2>1, <2>2, StartedType, Zenon
  <2>5. tasks' \subseteq Runs
    BY <1>1, <1>3, <2>4, Zenon
  <2>6. IsFiniteSet(tasks')
    <3>1. IsFiniteSet({Started(pt[i]) : i \in 1..n})
      <4>1. n \in Nat
        OBVIOUS
      <4>2. IsFiniteSet(StartedOf(pt, n))
        BY <4>1, StartedFinite, Zenon
      <4>. QED
        BY <4>2, Zenon DEF StartedOf
    <3>. QED
      BY <1>3, <3>1, FS_Union, Zenon
  <2>7. PICK p \in Seq(Tasks) :
          /\ p = pendingTasks' /\ Len(p) = m - n
          /\ \A i \in 1..(m - n) : n + i \in 1..m /\ p[i] = pt[n + i]
    <3>1. SubSeq(pt, n + 1, m) \in Seq(Tasks) /\ Rest(SubSeq(pt, n + 1, m), pt, n, m)
      BY SubSeqTail, Zenon
    <3>. QED
      BY <1>3, <3>1, Zenon DEF Rest
  <2>8. \A i \in 1..(m - n) : p[i] \in Range(pt)
    BY <2>1, <2>7, Zenon
  <2>9. \A x \in tasks' : x \in tasks \/ \E i \in 1..n : x = Started(pt[i]) /\ x.task = pt[i]
    BY <2>3, <2>4, Zenon
  <2>10. ASSUME NEW x \in tasks', NEW y \in tasks', SameTask(x.task, y.task)
         PROVE  x = y
    <3>1. CASE x \in tasks /\ y \in tasks
      BY <2>10, <3>1, Zenon
    <3>2. ASSUME NEW i \in 1..n, NEW j \in 1..n, x = Started(pt[i]), x.task = pt[i],
                 y = Started(pt[j]), y.task = pt[j]
          PROVE  x = y
      <4>1. SameTask(pt[i], pt[j])
        BY <2>10, <3>2, Zenon
      <4>2. i = j
        BY <2>2, <4>1, Zenon
      <4>. QED
        BY <3>2, <4>2, Zenon
    <3>3. ASSUME NEW j \in 1..n, x \in tasks, y.task = pt[j]
          PROVE  FALSE
      <4>1. pt[j] \in Range(pt)
        BY <2>1, <2>2, Zenon
      <4>. QED
        BY <2>10, <3>3, <4>1, Zenon
    <3>4. ASSUME NEW i \in 1..n, y \in tasks, x.task = pt[i]
          PROVE  FALSE
      <4>1. pt[i] \in Range(pt)
        BY <2>1, <2>2, Zenon
      <4>2. SameTask(y.task, x.task)
        BY <2>10, SameTaskSymmetric, Zenon
      <4>. QED
        BY <3>4, <4>1, <4>2, Zenon
    <3>. QED
      BY <2>9, <3>1, <3>2, <3>3, <3>4, Zenon
  <2>11. ASSUME NEW i \in 1..(m - n), NEW x \in tasks'
         PROVE  ~SameTask(x.task, p[i])
    <3>1. CASE x \in tasks
      BY <2>8, <3>1, Zenon
    <3>2. ASSUME NEW j \in 1..n, x.task = pt[j]
          PROVE  ~SameTask(x.task, p[i])
      <4>1. j \in 1..m /\ n + i \in 1..m /\ j # n + i /\ p[i] = pt[n + i]
        BY <2>7
      <4>2. ~SameTask(pt[j], pt[n + i])
        BY <4>1, Zenon
      <4>. QED
        BY <3>2, <4>1, <4>2, Zenon
    <3>. QED
      BY <2>9, <3>1, <3>2, Zenon
  <2>12. ASSUME NEW i \in 1..(m - n), NEW j \in 1..(m - n), SameTask(p[i], p[j])
         PROVE  i = j
    <3>1. n + i \in 1..m /\ n + j \in 1..m /\ SameTask(pt[n + i], pt[n + j])
      BY <2>7, <2>12, Zenon
    <3>2. n + i = n + j
      BY <3>1, Zenon
    <3>. QED
      BY <3>2
  <2>13. NoDoubleTask'
    <3>1. Len(pendingTasks') = m - n /\ p = pendingTasks'
      BY <2>7, Zenon
    <3>. QED
      BY <2>10, <2>11, <2>12, <3>1, Zenon DEF NoDoubleTask
  <2>14. \A i \in 1..Len(pendingTasks') : pendingTasks'[i] \in Range(pt)
    <3>1. Len(pendingTasks') = m - n /\ p = pendingTasks'
      BY <2>7, Zenon
    <3>. QED
      BY <2>8, <3>1, Zenon
  <2>15. pendingTasks' \in Seq(Tasks) /\ tasks \subseteq tasks'
    BY <1>3, <2>7, Zenon
  <2>16. \A x \in tasks' : x \in tasks \/ x.task \in Range(pt)
    BY <2>1, <2>2, <2>9, Zenon
  <2>. QED
    BY <2>5, <2>6, <2>13, <2>14, <2>15, <2>16, Zenon
<1>. QED
  BY <1>2, <1>3, ScheduleFacts, Zenon

-----------------------------------------------------------------------------
(* The top of the loop. *)

\* The dials that a call of newTasks adds, as sets.
LEMMA ChosenSets ==
  ASSUME TypeOK, NEW nt, NEW sd, NEW dd
  PROVE  Chosen(nt, sd, dd) =>
           /\ \A n \in nt.static \cup nt.dynamic : n \in Nodes /\ CanDial(n)
           /\ nt.static \cap nt.dynamic = {}
           /\ IsFiniteSet(nt.dynamic)
           /\ nt.dynamic = {} \/ Cardinality(nt.dynamic) <= NeedDynDials
<1>1. SUFFICES ASSUME Chosen(nt, sd, dd)
               PROVE  /\ \A n \in nt.static \cup nt.dynamic : n \in Nodes /\ CanDial(n)
                      /\ nt.static \cap nt.dynamic = {}
                      /\ IsFiniteSet(nt.dynamic)
                      /\ nt.dynamic = {} \/ Cardinality(nt.dynamic) <= NeedDynDials
  OBVIOUS
<1>2. /\ sd \in Seq(Nodes) /\ dd \in Seq(Nodes)
      /\ \A i \in 1..Len(sd) : CanDial(sd[i])
      /\ \A i \in 1..Len(dd) : CanDial(dd[i]) /\ dd[i] \notin Range(sd)
      /\ Len(dd) = 0 \/ Len(dd) <= NeedDynDials
      /\ nt.static = Range(sd) /\ nt.dynamic = Range(dd)
  BY <1>1, Zenon DEF Chosen, Dialable
<1>3. PICK m \in Nat : m = Len(sd)
  BY <1>2
<1>4. PICK k \in Nat : k = Len(dd)
  BY <1>2
<1>5. /\ \A n \in Range(sd) : \E i \in 1..m : n = sd[i]
      /\ \A i \in 1..m : sd[i] \in Nodes
  <2>1. sd \in Seq(Nodes)
    BY <1>2, Zenon
  <2>. QED
    BY <1>3, <2>1, SeqRange, Zenon
<1>6. /\ \A n \in Range(dd) : \E i \in 1..k : n = dd[i]
      /\ \A i \in 1..k : dd[i] \in Nodes
      /\ DOMAIN dd = 1..k
  <2>1. dd \in Seq(Nodes)
    BY <1>2, Zenon
  <2>. QED
    BY <1>4, <2>1, SeqRange, Zenon
<1>7. \A n \in nt.static \cup nt.dynamic : n \in Nodes /\ CanDial(n)
  BY <1>2, <1>3, <1>4, <1>5, <1>6
<1>8. nt.static \cap nt.dynamic = {}
  BY <1>2, <1>4, <1>6
<1>9. IsFiniteSet(Range(dd)) /\ Cardinality(Range(dd)) <= k
  <2>1. dd \in Surjection(1..k, Range(dd))
    BY <1>2, <1>6 DEF Surjection, Range
  <2>2. IsFiniteSet(1..k) /\ Cardinality(1..k) = k
    BY FS_Interval
  <2>. QED
    BY <2>1, <2>2, FS_Surjection
<1>10. Range(dd) = {} \/ Cardinality(Range(dd)) <= NeedDynDials
  <2>1. CASE k = 0
    BY <1>6, <2>1
  <2>2. CASE k # 0
    <3>1. k <= NeedDynDials
      BY <1>2, <1>4, <2>2, Zenon
    <3>2. Cardinality(Range(dd)) \in Nat
      BY <1>9, FS_CardinalityType, Zenon
    <3>3. NeedDynDials \in Int
      BY NeedType, Zenon
    <3>. QED
      BY <1>9, <3>1, <3>2, <3>3
  <2>. QED
    BY <2>1, <2>2, Zenon
<1>. QED
  BY <1>2, <1>7, <1>8, <1>9, <1>10, Zenon

\* What the top of the loop does with the result of newTasks.
Applies(nt) ==
  /\ dialing' = [n \in Nodes |->
                   IF n \in nt.static THEN "static"
                   ELSE IF n \in nt.dynamic THEN "dynamic"
                   ELSE dialing[n]]
  /\ rest' = [n \in Nodes |->
                IF n \in nt.static \cup nt.dynamic THEN 0 ELSE rest[n]]
  /\ lookupBuf' = nt.buf
  /\ lookupRunning' = (lookupRunning \/ nt.look)
  /\ Schedule(nt.tasks)
  /\ hist' = Expired
  /\ age' = 0
  /\ loop' = "select"
  /\ UNCHANGED <<static, bootstrapped, peers, conn, lastLookup, config, edits>>

\* The top of the loop applies what one call of newTasks has chosen.
LEMMA TopApplies ==
  ASSUME TypeOK, Top
  PROVE  \E nt, sd, dd : Chosen(nt, sd, dd) /\ Applies(nt)
<1>1. PICK ns \in StaticOrders, r \in Random : Applies(NewTasks(ns, r))
  BY Zenon DEF Top, Applies
<1>2. PICK sd, dd : Chosen(NewTasks(ns, r), sd, dd)
  BY NewTasksChosen, Zenon
<1>. QED
  BY <1>1, <1>2, Zenon

\* A task that has its mark keeps it, and one that is new gets it.
LEMMA MarksKept ==
  ASSUME TypeOK, NEW nt, Applies(nt),
         \A n \in nt.static \cup nt.dynamic : n \in Nodes /\ CanDial(n),
         nt.static \cap nt.dynamic = {},
         NEW t \in Tasks
  PROVE  /\ Owned(t) => Owned(t)'
         /\ Fits(t, nt.static, nt.dynamic, nt.look) => Owned(t)'
<1>1. \A n \in nt.static \cup nt.dynamic : n \in Nodes /\ dialing[n] = "no"
  BY Zenon DEF CanDial
<1>2. /\ t.kind \in {"dial", "discover", "wait"}
      /\ t.kind = "dial" => t.node \in Nodes /\ t.flag # "no"
  BY TaskShape, Zenon
<1>3. /\ \A n \in Nodes : dialing'[n] = IF n \in nt.static THEN "static"
                                        ELSE IF n \in nt.dynamic THEN "dynamic"
                                        ELSE dialing[n]
      /\ lookupRunning \/ nt.look => lookupRunning'
  BY Zenon DEF Applies
<1>4. Owned(t) => Owned(t)'
  BY <1>1, <1>2, <1>3, Zenon DEF Owned
<1>5. ASSUME NEW n \in nt.static, t = DialTask(n, "static")
      PROVE  Owned(t)'
  <2>1. t.kind = "dial" /\ t.node = n /\ t.flag = "static"
    BY <1>5, Zenon DEF DialTask
  <2>. QED
    BY <1>1, <1>3, <2>1, Zenon DEF Owned
<1>6. ASSUME NEW n \in nt.dynamic, t = DialTask(n, "dynamic")
      PROVE  Owned(t)'
  <2>1. t.kind = "dial" /\ t.node = n /\ t.flag = "dynamic"
    BY <1>6, Zenon DEF DialTask
  <2>. QED
    BY <1>1, <1>3, <2>1, Zenon DEF Owned
<1>7. ASSUME nt.look, NEW b, t = DiscoverTask(b)
      PROVE  Owned(t)'
  <2>1. t.kind = "discover"
    BY <1>7, Zenon DEF DiscoverTask
  <2>. QED
    BY <1>3, <1>7, <2>1, Zenon DEF Owned
<1>8. ASSUME NEW d, t = WaitTask(d)
      PROVE  Owned(t)'
  <2>1. t.kind = "wait"
    BY <1>8, Zenon DEF WaitTask
  <2>. QED
    BY <2>1, Zenon DEF Owned
<1>. QED
  BY <1>4, <1>5, <1>6, <1>7, <1>8, Zenon DEF Fits

\* A new task does nothing that a task of before does.
LEMMA NewApart ==
  ASSUME IInv, NEW A, NEW B, NEW look, look => ~lookupRunning,
         NEW t, Fits(t, A, B, look), NEW u \in Tasks, Owned(u),
         NEW v, v \in tasks \/ v \in Range(pendingTasks)
  PROVE  ~SameTask(u, t)
<1>1. /\ u.kind = "dial" => u.node \in Nodes /\ u.flag # "no"
  BY TaskShape, Zenon
<1>2. ASSUME NEW n, NEW f, CanDial(n), t = DialTask(n, f)
      PROVE  ~SameTask(u, t)
  <2>1. t.kind = "dial" /\ t.node = n
    BY <1>2, Zenon DEF DialTask
  <2>2. dialing[n] = "no"
    BY <1>2, Zenon DEF CanDial
  <2>. QED
    BY <1>1, <2>1, <2>2, Zenon DEF SameTask, Owned
<1>3. ASSUME look, NEW b, t = DiscoverTask(b)
      PROVE  ~SameTask(u, t)
  <2>1. t.kind = "discover"
    BY <1>3, Zenon DEF DiscoverTask
  <2>. QED
    BY <1>3, <2>1, Zenon DEF SameTask, Owned
<1>4. ASSUME tasks = {}, pendingTasks = << >>
      PROVE  FALSE
  BY <1>4 DEF Range
<1>. QED
  BY <1>2, <1>3, <1>4, Zenon DEF Fits

\* The limit, without the types.
Count == Cardinality(DynPeers \cup DynDials) <= config.maxDynDials

\* The tasks that run, those that wait, and their marks, after the top.
LEMMA TopTasks ==
  ASSUME IInv, NEW nt, NEW sd, NEW dd, Chosen(nt, sd, dd), Applies(nt)
  PROVE  /\ tasks' \subseteq Runs /\ IsFiniteSet(tasks')
         /\ pendingTasks' \in Seq(Tasks)
         /\ tasks \subseteq tasks'
         /\ NoDoubleTask' /\ Marked'
<1>1. PICK new \in Seq(Tasks) :
        /\ new = nt.tasks /\ Distinct(new)
        /\ \A t \in Range(new) : Fits(t, nt.static, nt.dynamic, nt.look)
  BY Zenon DEF Chosen, NewList
<1>2. TypeOK /\ IsFiniteSet(tasks) /\ NoDoubleTask /\ Marked
  BY Zenon DEF IInv
<1>3. PICK p \in Seq(Tasks) : p = pendingTasks
  BY <1>2, Zenon DEF TypeOK
<1>4. PICK k \in Nat : k = Len(p)
  OBVIOUS
<1>5. PICK pt \in Seq(Tasks) : pt = p \o new
  BY ConcatSeq, Zenon
<1>6. Range(pt) = Range(p) \cup Range(new)
  BY <1>5, ConcatRange, ZenonT(30)
<1>7. /\ \A t \in Range(p) : \E i \in 1..k : t = p[i]
      /\ \A i \in 1..k : p[i] \in Tasks
  BY <1>4, SeqRange, Zenon
<1>8. \A t \in Range(p) : t \in Tasks /\ Owned(t)
  <2>1. \A i \in 1..k : Owned(p[i])
    BY <1>2, <1>3, <1>4, Zenon DEF Marked
  <2>. QED
    BY <1>7, <2>1, Zenon
<1>9. \A x \in tasks : x.task \in Tasks /\ Owned(x.task)
  <2>1. \A x \in tasks : x.task \in Tasks
    BY <1>2, Zenon DEF TypeOK
  <2>. QED
    BY <1>2, <2>1, Zenon DEF Marked
<1>10. nt.look => ~lookupRunning
  BY Zenon DEF Chosen
<1>11. Apart(p, new)
  <2>1. ASSUME NEW t \in Range(p), NEW u \in Range(new)
        PROVE  ~SameTask(t, u)
    <3>1. t \in Tasks /\ Owned(t) /\ t \in Range(pendingTasks)
      BY <1>3, <1>8, Zenon
    <3>2. Fits(u, nt.static, nt.dynamic, nt.look)
      BY <1>1, Zenon
    <3>. QED
      BY <1>10, <3>1, <3>2, NewApart, Zenon
  <2>. QED
    BY <2>1, Zenon DEF Apart
<1>12. Distinct(p)
  BY <1>2, <1>3, Zenon DEF NoDoubleTask, Distinct
<1>13. Distinct(pt)
  BY <1>1, <1>5, <1>11, <1>12, DistinctConcat, Zenon
<1>14. ASSUME NEW x \in tasks, NEW t \in Range(pt)
       PROVE  ~SameTask(x.task, t)
  <2>1. CASE t \in Range(new)
    <3>1. x.task \in Tasks /\ Owned(x.task)
      BY <1>9, Zenon
    <3>2. Fits(t, nt.static, nt.dynamic, nt.look)
      BY <1>1, <2>1, Zenon
    <3>. QED
      BY <1>10, <3>1, <3>2, NewApart, Zenon
  <2>2. CASE t \in Range(p)
    <3>1. PICK i \in 1..k : t = p[i]
      BY <1>7, <2>2, Zenon
    <3>. QED
      BY <1>2, <1>3, <1>4, <3>1, Zenon DEF NoDoubleTask
  <2>. QED
    BY <1>6, <2>1, <2>2, Zenon
<1>15. PICK m \in Nat : m = Len(pt)
  OBVIOUS
<1>16. \A i, j \in 1..m : SameTask(pt[i], pt[j]) => i = j
  BY <1>13, <1>15, Zenon DEF Distinct
<1>17. Range(pendingTasks) \subseteq Range(pt)
  BY <1>3, <1>6, Zenon
<1>18. \A x, y \in tasks : SameTask(x.task, y.task) => x = y
  BY <1>2, Zenon DEF NoDoubleTask
<1>19. Schedule(new)
  BY <1>1, Zenon DEF Applies
<1>20. pt = pendingTasks \o new
  BY <1>3, <1>5, Zenon
<1>21. /\ tasks' \subseteq Runs /\ IsFiniteSet(tasks')
       /\ pendingTasks' \in Seq(Tasks)
       /\ tasks \subseteq tasks'
       /\ \A x \in tasks' : x \in tasks \/ x.task \in Range(pt)
       /\ \A i \in 1..Len(pendingTasks') : pendingTasks'[i] \in Range(pt)
       /\ NoDoubleTask'
  BY <1>2, <1>14, <1>15, <1>16, <1>17, <1>18, <1>19, <1>20, ScheduleStep, Zenon
<1>22. /\ \A n \in nt.static \cup nt.dynamic : n \in Nodes /\ CanDial(n)
       /\ nt.static \cap nt.dynamic = {}
  BY <1>2, ChosenSets, Zenon
<1>23. \A t \in Range(new) : t \in Tasks
  BY DEF Range
<1>24. \A t \in Range(pt) : Owned(t)'
  <2>1. \A t \in Range(p) : Owned(t)'
    BY <1>2, <1>8, <1>22, MarksKept, Zenon
  <2>2. \A t \in Range(new) : Owned(t)'
    BY <1>1, <1>2, <1>22, <1>23, MarksKept, Zenon
  <2>. QED
    BY <1>6, <2>1, <2>2, Zenon
<1>25. \A x \in tasks : Owned(x.task)'
  BY <1>2, <1>9, <1>22, MarksKept, Zenon
<1>26. Marked'
  <2>1. \A x \in tasks' : Owned(x.task)'
    BY <1>21, <1>24, <1>25, Zenon DEF Owned
  <2>2. \A i \in 1..Len(pendingTasks') : Owned(pendingTasks[i])'
    BY <1>21, <1>24, Zenon DEF Owned
  <2>. QED
    BY <2>1, <2>2, Zenon DEF Marked
<1>. QED
  BY <1>21, <1>26, Zenon

\* The dynamic dials stay within their limit at the top: newTasks counts a
\* peer and a dial of the same node twice, so it adds too few, never too many.
LEMMA TopCount ==
  ASSUME IInv, NEW nt, NEW sd, NEW dd, Chosen(nt, sd, dd), Applies(nt)
  PROVE  Count'
<1>1. TypeOK /\ Count
  BY Zenon DEF IInv, DynDialsBounded, Count
<1>2. /\ \A n \in nt.static \cup nt.dynamic : n \in Nodes /\ CanDial(n)
      /\ nt.static \cap nt.dynamic = {}
      /\ IsFiniteSet(nt.dynamic)
      /\ nt.dynamic = {} \/ Cardinality(nt.dynamic) <= NeedDynDials
  BY <1>1, ChosenSets, Zenon
<1>3. UNCHANGED <<peers, conn, config>>
  BY Zenon DEF Applies
<1>4. DynPeers' = DynPeers
  BY <1>3, Zenon DEF DynPeers
<1>5. DynDials' = DynDials \cup nt.dynamic
  <2>1. \A n \in Nodes : dialing'[n] = IF n \in nt.static THEN "static"
                                       ELSE IF n \in nt.dynamic THEN "dynamic"
                                       ELSE dialing[n]
    BY Zenon DEF Applies
  <2>2. \A n \in nt.static \cup nt.dynamic : n \in Nodes /\ dialing[n] = "no"
    BY <1>2, Zenon DEF CanDial
  <2>3. \A n \in nt.dynamic : n \notin nt.static
    BY <1>2, Zenon
  <2>. QED
    BY <2>1, <2>2, <2>3, Zenon DEF DynDials
<1>6. PICK P : P = DynPeers
  OBVIOUS
<1>7. PICK D : D = DynDials
  OBVIOUS
<1>8. PICK N : N = nt.dynamic
  OBVIOUS
<1>9. /\ IsFiniteSet(P) /\ IsFiniteSet(D) /\ IsFiniteSet(N)
      /\ Cardinality(P) \in Nat /\ Cardinality(D) \in Nat /\ Cardinality(N) \in Nat
  BY <1>2, <1>6, <1>7, <1>8, DynFinite, FS_CardinalityType, Zenon
<1>10. PICK max \in Nat : max = config.maxDynDials
  BY <1>1, ServerAssumption, Zenon DEF TypeOK
<1>11. Cardinality(P \cup (D \cup N)) <= max
  <2>1. CASE N = {}
    <3>1. P \cup (D \cup N) = P \cup D
      BY <2>1, Zenon
    <3>. QED
      BY <1>1, <1>6, <1>7, <1>10, <3>1, Zenon DEF Count
  <2>2. CASE N # {}
    <3>1. Cardinality(N) <= max - Cardinality(P) - Cardinality(D)
      BY <1>2, <1>6, <1>7, <1>8, <1>10, <2>2, Zenon DEF NeedDynDials
    <3>2. /\ IsFiniteSet(D \cup N)
          /\ Cardinality(D \cup N) <= Cardinality(D) + Cardinality(N)
      BY <1>9, UnionBound, Zenon
    <3>3. Cardinality(P \cup (D \cup N)) <= Cardinality(P) + Cardinality(D \cup N)
      BY <1>9, <3>2, UnionBound, Zenon
    <3>4. Cardinality(D \cup N) \in Nat /\ Cardinality(P \cup (D \cup N)) \in Nat
      BY <1>9, <3>2, FS_Union, FS_CardinalityType, Zenon
    <3>. QED
      BY <1>9, <3>1, <3>2, <3>3, <3>4
  <2>. QED
    BY <2>1, <2>2, Zenon
<1>. QED
  BY <1>3, <1>4, <1>5, <1>6, <1>7, <1>8, <1>10, <1>11, Zenon DEF Count

\* A node that is chosen at the top has rested, and its rest begins anew.
LEMMA TopAges ==
  ASSUME IInv, NEW nt, NEW sd, NEW dd, Chosen(nt, sd, dd), Applies(nt)
  PROVE  /\ Ages'
         /\ \A n \in Nodes : dialing[n] = "no" /\ dialing'[n] # "no"
                               => rest[n] >= HistExpiration
<1>1. TypeOK /\ Ages
  BY Zenon DEF IInv
<1>2. \A n \in nt.static \cup nt.dynamic : n \in Nodes /\ CanDial(n)
  BY <1>1, ChosenSets, Zenon
<1>3. PICK H \in Nat : H = HistExpiration
  BY ServerAssumption, Zenon
<1>4. \A n \in Nodes : rest[n] \in 0..H /\ hist[n] \in -2..H
  BY <1>1, <1>3, Zenon DEF TypeOK, Gone
<1>5. /\ age' = 0
      /\ \A n \in Nodes : /\ hist'[n] = IF hist[n] < 0 THEN -2 ELSE hist[n]
                          /\ n \notin nt.static \cup nt.dynamic =>
                               dialing'[n] = dialing[n] /\ rest'[n] = rest[n]
                          /\ n \in nt.static \cup nt.dynamic =>
                               dialing'[n] # "no" /\ rest'[n] = 0
  BY Zenon DEF Applies, Expired, Gone
<1>6. \A n \in nt.static \cup nt.dynamic : dialing[n] = "no" /\ hist[n] < 0
  <2>1. ASSUME NEW n \in nt.static \cup nt.dynamic, ~(hist[n] < 0)
        PROVE  FALSE
    <3>1. n \in Nodes /\ Expired[n] = Gone
      BY <1>2, Zenon DEF CanDial
    <3>. QED
      BY <1>3, <1>4, <2>1, <3>1 DEF Expired, Gone
  <2>. QED
    BY <1>2, <2>1, Zenon DEF CanDial
<1>7. \A n \in Nodes : dialing[n] = "no" => rest[n] >= H \/ hist[n] >= H - rest[n]
  BY <1>1, <1>3, Zenon DEF Ages
<1>8. \A n \in nt.static \cup nt.dynamic : rest[n] >= H
  BY <1>2, <1>4, <1>6, <1>7
<1>9. Ages'
  <2>1. ASSUME NEW n \in Nodes
        PROVE  /\ dialing'[n] # "no" => rest'[n] >= age' \/ rest'[n] >= H
               /\ dialing'[n] = "no" => rest'[n] >= H \/ hist'[n] >= H - rest'[n]
    <3>1. CASE n \in nt.static \cup nt.dynamic
      BY <1>5, <3>1
    <3>2. CASE n \notin nt.static \cup nt.dynamic
      BY <1>4, <1>5, <1>7, <3>2
    <3>. QED
      BY <3>1, <3>2, Zenon
  <2>. QED
    BY <1>3, <2>1, Zenon DEF Ages
<1>. QED
  BY <1>3, <1>5, <1>8, <1>9, Zenon

\* Every variable keeps its type at the top.
LEMMA TopType ==
  ASSUME IInv, NEW nt, NEW sd, NEW dd, Chosen(nt, sd, dd), Applies(nt)
  PROVE  TypeOK'
<1>1. TypeOK
  BY Zenon DEF IInv
<1>2. PICK H \in Nat \ {0} : H = HistExpiration
  BY ServerAssumption, Zenon
<1>3. age' \in 0..(HistExpiration + 1)
  BY <1>2 DEF Applies
<1>4. hist' \in [Nodes -> Gone..HistExpiration]
  <2>1. \A n \in Nodes : hist[n] \in Gone..HistExpiration
    BY <1>1, Zenon DEF TypeOK
  <2>2. Gone \in Gone..HistExpiration
    BY <1>2 DEF Gone
  <2>3. \A n \in Nodes : (IF hist[n] < 0 THEN Gone ELSE hist[n]) \in Gone..HistExpiration
    BY <2>1, <2>2, Zenon
  <2>4. hist' = [n \in Nodes |-> IF hist[n] < 0 THEN Gone ELSE hist[n]]
    BY Zenon DEF Applies, Expired
  <2>. QED
    BY <2>3, <2>4, Zenon
<1>5. dialing' \in [Nodes -> {"no", "static", "dynamic"}]
  BY <1>1, Zenon DEF TypeOK, Applies
<1>6. rest' \in [Nodes -> 0..HistExpiration]
  BY <1>1, <1>2 DEF TypeOK, Applies
<1>7. lookupBuf' \in Seq(Nodes)
  BY Zenon DEF Applies, Chosen
<1>8. lookupRunning' \in BOOLEAN
  <2>1. lookupRunning' = (lookupRunning \/ nt.look)
    BY Zenon DEF Applies
  <2>. QED
    BY <2>1, Zenon
<1>9. tasks' \subseteq Runs /\ pendingTasks' \in Seq(Tasks)
  BY TopTasks, Zenon
<1>10. UNCHANGED <<static, bootstrapped, peers, conn, lastLookup, config, edits>>
  BY Zenon DEF Applies
<1>11. loop' \in {"top", "select", "panic"}
  BY Zenon DEF Applies
<1>. QED
  BY <1>1, <1>3, <1>4, <1>5, <1>6, <1>7, <1>8, <1>9, <1>10, <1>11, Zenon DEF TypeOK, Runs

\* The top of the loop keeps the invariant, and what it dials has rested.
LEMMA TopStep ==
  ASSUME IInv, Top
  PROVE  /\ IInv'
         /\ \A n \in Nodes : dialing[n] = "no" /\ dialing'[n] # "no"
                               => rest[n] >= HistExpiration
<1>1. TypeOK /\ Sessions /\ Offers
  BY Zenon DEF IInv
<1>2. PICK nt, sd, dd : Chosen(nt, sd, dd) /\ Applies(nt)
  BY <1>1, TopApplies, Zenon
<1>3. /\ IsFiniteSet(tasks') /\ tasks \subseteq tasks'
      /\ NoDoubleTask' /\ Marked'
  BY <1>2, TopTasks, Zenon
<1>4. Count' /\ TypeOK'
  BY <1>2, TopCount, TopType, Zenon
<1>5. /\ Ages'
      /\ \A n \in Nodes : dialing[n] = "no" /\ dialing'[n] # "no"
                            => rest[n] >= HistExpiration
  BY <1>2, TopAges, Zenon
<1>6. UNCHANGED <<peers, conn>>
  BY <1>2, Zenon DEF Applies
<1>7. Sessions'
  BY <1>1, <1>6, Zenon DEF Sessions
<1>8. Offers'
  <2>1. \A c \in Conns : Offered(c)' = Offered(c)
    BY <1>6, Zenon DEF Offered
  <2>. QED
    BY <1>1, <1>3, <1>6, <2>1, Zenon DEF Offers
<1>. QED
  BY <1>3, <1>4, <1>5, <1>7, <1>8, Zenon DEF IInv, DynDialsBounded, Count

-----------------------------------------------------------------------------
(* The steps of the others. *)

\* A task moves on: f tells what becomes of the goroutine that runs it.
Moves(f) ==
  /\ f \in [tasks -> Runs]
  /\ \A x \in tasks : f[x].task = x.task
  /\ tasks' = {f[x] : x \in tasks}

\* Tasks that move on stay distinct and keep their marks.
LEMMA TasksMoved ==
  ASSUME IInv, NEW f, Moves(f), UNCHANGED <<pendingTasks, dialing, lookupRunning>>
  PROVE  /\ tasks' \subseteq Runs /\ IsFiniteSet(tasks')
         /\ NoDoubleTask' /\ Marked'
<1>1. IsFiniteSet(tasks) /\ NoDoubleTask /\ Marked
  BY Zenon DEF IInv
<1>2. f \in [tasks -> Runs] /\ tasks' = {f[x] : x \in tasks}
  BY Zenon DEF Moves
<1>3. IsFiniteSet(tasks')
  <2>1. f \in Surjection(tasks, tasks')
    BY <1>2, Zenon DEF Surjection
  <2>. QED
    BY <1>1, <2>1, FS_Surjection, Zenon
<1>4. \A y \in tasks' : \E x \in tasks : y = f[x] /\ y.task = x.task
  BY <1>2, Zenon DEF Moves
<1>5. NoDoubleTask'
  <2>1. ASSUME NEW y \in tasks', NEW z \in tasks', SameTask(y.task, z.task)
        PROVE  y = z
    <3>1. PICK x \in tasks : y = f[x] /\ y.task = x.task
      BY <1>4, Zenon
    <3>2. PICK w \in tasks : z = f[w] /\ z.task = w.task
      BY <1>4, Zenon
    <3>3. x = w
      BY <1>1, <2>1, <3>1, <3>2, Zenon DEF NoDoubleTask
    <3>. QED
      BY <3>1, <3>2, <3>3, Zenon
  <2>2. \A i \in 1..Len(pendingTasks) :
          /\ \A y \in tasks' : ~SameTask(y.task, pendingTasks[i])
          /\ \A j \in 1..Len(pendingTasks) :
               SameTask(pendingTasks[i], pendingTasks[j]) => i = j
    BY <1>1, <1>4, Zenon DEF NoDoubleTask
  <2>3. pendingTasks' = pendingTasks
    OBVIOUS
  <2>. QED
    BY <2>1, <2>2, <2>3, Zenon DEF NoDoubleTask
<1>6. Marked'
  <2>1. \A y \in tasks' : Owned(y.task)
    BY <1>1, <1>4, Zenon DEF Marked
  <2>2. \A i \in 1..Len(pendingTasks) : Owned(pendingTasks[i])
    BY <1>1, Zenon DEF Marked
  <2>3. pendingTasks' = pendingTasks /\ dialing' = dialing /\ lookupRunning' = lookupRunning
    OBVIOUS
  <2>4. \A y \in tasks' : Owned(y.task)'
    BY <2>1, <2>3 DEF Owned
  <2>5. \A i \in 1..Len(pendingTasks') : Owned(pendingTasks[i])'
    BY <2>2, <2>3 DEF Owned
  <2>. QED
    BY <2>4, <2>5, Zenon DEF Marked
<1>. QED
  BY <1>2, <1>3, <1>5, <1>6, Zenon

\* Fewer dynamic peers and dials.
LEMMA CountKept ==
  ASSUME TypeOK, Count, UNCHANGED config,
         (DynPeers \cup DynDials)' \subseteq DynPeers \cup DynDials
  PROVE  Count'
<1>1. PICK S : S = DynPeers \cup DynDials
  BY Zenon
<1>2. PICK T : T = (DynPeers \cup DynDials)'
  BY Zenon
<1>3. IsFiniteSet(S)
  BY <1>1, DynFinite, FS_Union, Zenon
<1>4. T \in SUBSET S
  BY <1>1, <1>2, Zenon
<1>5. IsFiniteSet(T) /\ Cardinality(T) <= Cardinality(S)
  BY <1>3, <1>4, FS_Subset, Zenon
<1>6. Cardinality(T) \in Nat /\ Cardinality(S) \in Nat
  BY <1>3, <1>5, FS_CardinalityType, Zenon
<1>7. PICK max \in Nat : max = config.maxDynDials
  BY ServerAssumption, Zenon DEF TypeOK
<1>8. Cardinality(S) <= max
  BY <1>1, <1>7, Zenon DEF Count
<1>9. Cardinality(T) <= max
  BY <1>5, <1>6, <1>8
<1>. QED
  BY <1>2, <1>7, <1>9, Zenon DEF Count

\* What a step of a task or of a connection leaves alone.
TasksOnly ==
  UNCHANGED <<loop, age, dialVars, pendingTasks, peers, config, edits, rest>>

\* One task moves on.
LEMMA OneMoves ==
  ASSUME IInv, NEW x \in tasks, NEW y \in Runs, y.task = x.task,
         tasks' = (tasks \ {x}) \cup {y}
  PROVE  \E f : Moves(f)
<1>. DEFINE f == [z \in tasks |-> IF z = x THEN y ELSE z]
<1>1. tasks \subseteq Runs
  BY Zenon DEF IInv, TypeOK, Runs
<1>2. f \in [tasks -> Runs] /\ \A z \in tasks : f[z].task = z.task
  BY <1>1, Zenon
<1>3. tasks' = {f[z] : z \in tasks}
  OBVIOUS
<1>4. Moves(f)
  BY <1>2, <1>3, Zenon DEF Moves
<1>. QED
  BY <1>4, Zenon

\* A task whose connection is not waited for moves on.
LEMMA TaskMoves ==
  ASSUME IInv, NEW x \in tasks, x.phase # "serve", NEW y \in Runs, y.task = x.task,
         tasks' = (tasks \ {x}) \cup {y},
         TasksOnly, UNCHANGED conn, lastLookup' \in 0..LookupInterval
  PROVE  IInv'
<1>1. TypeOK /\ Sessions /\ Offers /\ Ages /\ Count
  BY Zenon DEF IInv, DynDialsBounded, Count
<1>2. UNCHANGED <<pendingTasks, dialing, lookupRunning, peers, conn, config, hist, rest, age>>
  BY Zenon DEF TasksOnly, dialVars
<1>3. PICK f : Moves(f)
  BY OneMoves, Zenon
<1>4. tasks' \subseteq Runs /\ IsFiniteSet(tasks') /\ NoDoubleTask' /\ Marked'
  BY <1>2, <1>3, TasksMoved, Zenon
<1>5. TypeOK'
  BY <1>1, <1>4, Zenon DEF TypeOK, Runs, TasksOnly, dialVars
<1>6. Sessions' /\ Ages'
  BY <1>1, <1>2, Zenon DEF Sessions, Ages
<1>7. Count'
  BY <1>1, <1>2, Zenon DEF Count, DynPeers, DynDials
<1>8. Offers'
  <2>1. \A z \in tasks : z.phase = "serve" => z \in tasks'
    OBVIOUS
  <2>2. \A c \in Conns : Offered(c)' = Offered(c)
    BY <1>2, Zenon DEF Offered
  <2>. QED
    BY <1>1, <1>2, <2>1, <2>2, Zenon DEF Offers
<1>. QED
  BY <1>4, <1>5, <1>6, <1>7, <1>8, Zenon DEF IInv, DynDialsBounded, Count

\* The record of a goroutine whose phase changes.
LEMMA PhaseType ==
  ASSUME NEW x \in Runs, NEW p \in Phases
  PROVE  /\ [x EXCEPT !.phase = p] \in Runs
         /\ [x EXCEPT !.phase = p].task = x.task
         /\ [x EXCEPT !.phase = p].phase = p
  BY Zenon DEF Runs

\* The record of a goroutine that goes to sleep.
LEMMA SleepType ==
  ASSUME NEW x \in Runs, NEW p \in Phases, NEW l \in 0..MaxSleep
  PROVE  /\ [x EXCEPT !.phase = p, !.left = l] \in Runs
         /\ [x EXCEPT !.phase = p, !.left = l].task = x.task
<1>1. PICK y \in Runs : y = [x EXCEPT !.phase = p] /\ y.task = x.task
  BY PhaseType, Zenon
<1>2. [y EXCEPT !.left = l] \in Runs /\ [y EXCEPT !.left = l].task = y.task
  BY Zenon DEF Runs
<1>3. [x EXCEPT !.phase = p, !.left = l] = [y EXCEPT !.left = l]
  BY <1>1, Zenon
<1>. QED
  BY <1>1, <1>2, <1>3, Zenon

\* The steps of a task, but for the one that offers a connection.
LEMMA TaskStepKeeps ==
  ASSUME IInv, NEW x \in tasks,
         DialFails(x) \/ DiscoverStarts(x) \/ LookupStarts(x) \/ DiscoverEnds(x)
           \/ WaitEnds(x)
  PROVE  IInv'
<1>1. x \in Runs /\ lastLookup \in 0..LookupInterval
  BY Zenon DEF IInv, TypeOK, Runs
<1>2. LookupInterval \in Nat
  BY ServerAssumption, Zenon
<1>3. ASSUME NEW p \in Phases, Phase(x, p), x.phase # "serve", TasksOnly, UNCHANGED conn,
             lastLookup' \in 0..LookupInterval
      PROVE  IInv'
  <2>1. PICK y \in Runs : y = [x EXCEPT !.phase = p] /\ y.task = x.task
    BY <1>1, PhaseType, Zenon
  <2>2. tasks' = (tasks \ {x}) \cup {y}
    BY <1>3, <2>1, Zenon DEF Phase
  <2>. QED
    BY <1>3, <2>1, <2>2, TaskMoves, Zenon
<1>4. "done" \in Phases /\ "work" \in Phases
  BY Zenon DEF Phases
<1>5. CASE DialFails(x)
  <2>1. Phase(x, "done") /\ x.phase # "serve" /\ TasksOnly /\ UNCHANGED <<conn, lastLookup>>
    BY <1>5, Zenon DEF DialFails, TasksOnly
  <2>. QED
    BY <1>1, <1>3, <1>4, <2>1, Zenon
<1>6. CASE DiscoverEnds(x)
  <2>1. Phase(x, "done") /\ x.phase # "serve" /\ TasksOnly /\ UNCHANGED <<conn, lastLookup>>
    BY <1>6, Zenon DEF DiscoverEnds, TasksOnly
  <2>. QED
    BY <1>1, <1>3, <1>4, <2>1, Zenon
<1>7. CASE WaitEnds(x)
  <2>1. Phase(x, "done") /\ x.phase # "serve" /\ TasksOnly /\ UNCHANGED <<conn, lastLookup>>
    BY <1>7, Zenon DEF WaitEnds, TasksOnly
  <2>. QED
    BY <1>1, <1>3, <1>4, <2>1, Zenon
<1>8. CASE LookupStarts(x)
  <2>1. Phase(x, "work") /\ x.phase # "serve" /\ TasksOnly /\ UNCHANGED conn /\ lastLookup' = 0
    BY <1>8, Zenon DEF LookupStarts, TasksOnly
  <2>2. lastLookup' \in 0..LookupInterval
    BY <1>2, <2>1
  <2>. QED
    BY <1>3, <1>4, <2>1, <2>2, Zenon
<1>9. CASE DiscoverStarts(x)
  <2>1. PICK y : /\ y = [x EXCEPT !.phase = IF x.task.bootstrap THEN "work" ELSE "sleep",
                                  !.left = LookupInterval - lastLookup]
                 /\ tasks' = (tasks \ {x}) \cup {y}
    BY <1>9, Zenon DEF DiscoverStarts
  <2>2. PICK p \in Phases : p = IF x.task.bootstrap THEN "work" ELSE "sleep"
    BY Zenon DEF Phases
  <2>3. PICK l \in 0..MaxSleep : l = LookupInterval - lastLookup
    BY <1>1, <1>2, MaxSleepType
  <2>4. y \in Runs /\ y.task = x.task
    BY <1>1, <2>1, <2>2, <2>3, SleepType, ZenonT(30)
  <2>5. x.phase # "serve" /\ TasksOnly /\ UNCHANGED <<conn, lastLookup>>
    BY <1>9, Zenon DEF DiscoverStarts, TasksOnly
  <2>6. UNCHANGED conn /\ lastLookup' \in 0..LookupInterval
    BY <1>1, <2>5, Zenon
  <2>. QED
    BY <2>1, <2>4, <2>5, <2>6, TaskMoves, Zenon
<1>. QED
  BY <1>5, <1>6, <1>7, <1>8, <1>9, Zenon

-----------------------------------------------------------------------------
(* Connections. *)

States == {"offered", "running", "closed", "ended"}
ConnRecords == [state : {"free"}] \cup [state : States, node : Nodes, flag : Flags]

\* A connection that is in use has a node and a flag.
LEMMA ConnShape ==
  ASSUME TypeOK, NEW c \in Conns
  PROVE  /\ conn[c] \in ConnRecords
         /\ conn[c].state # "free" =>
              conn[c].node \in Nodes /\ conn[c].flag \in Flags /\ conn[c].state \in States
<1>1. conn[c] \in ConnRecords
  BY Zenon DEF TypeOK, ConnRecords, States
<1>2. CASE conn[c] \in [state : {"free"}]
  BY <1>1, <1>2, Zenon
<1>3. CASE conn[c] \in [state : States, node : Nodes, flag : Flags]
  BY <1>1, <1>3, Zenon
<1>. QED
  BY <1>1, <1>2, <1>3, Zenon DEF ConnRecords

\* One connection changes, the others do not.
ConnIs(c, r) ==
  /\ r \in ConnRecords
  /\ conn' = [conn EXCEPT ![c] = r]

\* The other connections stay what they are.
LEMMA ConnChanged ==
  ASSUME TypeOK, NEW c \in Conns, NEW r, ConnIs(c, r)
  PROVE  /\ conn' \in [Conns -> ConnRecords]
         /\ conn'[c] = r
         /\ \A d \in Conns : d # c => conn'[d] = conn[d]
<1>1. conn \in [Conns -> ConnRecords]
  BY Zenon DEF TypeOK, ConnRecords, States
<1>. QED
  BY <1>1, Zenon DEF ConnIs

\* Only the state of a connection changes.
StateIs(c, s) == conn' = [conn EXCEPT ![c].state = s]
SameButState(r, c, s) == r.state = s /\ r.node = conn[c].node /\ r.flag = conn[c].flag

\* A connection whose state changes keeps its node and its flag.
LEMMA StateChanged ==
  ASSUME TypeOK, NEW c \in Conns, conn[c].state # "free", NEW s \in States,
         StateIs(c, s)
  PROVE  \E r : ConnIs(c, r) /\ SameButState(r, c, s)
<1>1. conn \in [Conns -> ConnRecords] /\ conn[c].state # "free"
  BY Zenon DEF TypeOK, ConnRecords, States
<1>2. PICK q : q = conn[c]
  OBVIOUS
<1>3. q \in [state : States, node : Nodes, flag : Flags]
  <2>1. q \notin [state : {"free"}]
    BY <1>1, <1>2, Zenon
  <2>. QED
    BY <1>1, <1>2, <2>1, Zenon DEF ConnRecords
<1>4. PICK r : r = [q EXCEPT !.state = s]
  BY Zenon
<1>5. /\ r \in [state : States, node : Nodes, flag : Flags]
      /\ r.state = s /\ r.node = q.node /\ r.flag = q.flag
  BY <1>3, <1>4, Zenon
<1>6. conn' = [conn EXCEPT ![c] = r]
  BY <1>2, <1>4, Zenon DEF StateIs
<1>7. ConnIs(c, r)
  <2>1. r \in ConnRecords
    BY <1>5, Zenon DEF ConnRecords
  <2>. QED
    BY <1>6, <2>1, Zenon DEF ConnIs
<1>8. SameButState(r, c, s)
  BY <1>2, <1>5, Zenon DEF SameButState
<1>. QED
  BY <1>7, <1>8, Zenon

\* Connections that were offered before, and as they were, keep their tasks.
LEMMA OffersKept ==
  ASSUME Offers, tasks' = tasks,
         \A d \in Conns : Offered(d)' => /\ Offered(d)
                                        /\ conn'[d].node = conn[d].node
                                        /\ conn'[d].flag = conn[d].flag
  PROVE  Offers'
<1>1. ASSUME NEW d \in Conns, Offered(d)'
      PROVE  \E x \in tasks' : /\ x.task = DialTask(conn'[d].node, conn'[d].flag)
                               /\ x.phase = "serve"
  <2>1. Offered(d) /\ conn'[d].node = conn[d].node /\ conn'[d].flag = conn[d].flag
    BY <1>1, Zenon
  <2>2. \E x \in tasks : /\ x.task = DialTask(conn[d].node, conn[d].flag)
                         /\ x.phase = "serve"
    BY <2>1, Zenon DEF Offers
  <2>. QED
    BY <2>1, <2>2, Zenon
<1>2. ASSUME NEW d \in Conns, NEW e \in Conns, Offered(d)', Offered(e)',
             conn'[d].node = conn'[e].node
      PROVE  d = e
  <2>1. Offered(d) /\ Offered(e) /\ conn[d].node = conn[e].node
    BY <1>2, Zenon
  <2>. QED
    BY <2>1, Zenon DEF Offers
<1>. QED
  BY <1>1, <1>2, Zenon DEF Offers

\* A session is closed, or its Run returns.
LEMMA SessionStep ==
  ASSUME IInv, NEW c \in Conns, conn[c].state \in {"running", "closed"},
         NEW s \in {"closed", "ended"}, StateIs(c, s),
         TasksOnly, UNCHANGED <<tasks, lastLookup>>
  PROVE  IInv'
<1>1. /\ TypeOK /\ IsFiniteSet(tasks) /\ NoDoubleTask /\ Marked
      /\ Sessions /\ Offers /\ Ages /\ Count
  BY Zenon DEF IInv, DynDialsBounded, Count
<1>2. UNCHANGED <<pendingTasks, dialing, lookupRunning, peers, config, hist, rest, age, tasks>>
  BY Zenon DEF TasksOnly, dialVars
<1>3. PICK r : ConnIs(c, r) /\ SameButState(r, c, s)
  <2>1. s \in States /\ conn[c].state # "free"
    BY Zenon DEF States
  <2>2. TypeOK
    BY <1>1, Zenon
  <2>. QED
    BY <2>1, <2>2, StateChanged, Zenon
<1>4. /\ conn' \in [Conns -> ConnRecords]
      /\ conn'[c] = r
      /\ \A d \in Conns : d # c => conn'[d] = conn[d]
  BY <1>1, <1>3, ConnChanged, Zenon
<1>5. TypeOK'
  BY <1>1, <1>4, Zenon DEF TypeOK, TasksOnly, dialVars, ConnRecords, States
<1>6. NoDoubleTask' /\ Marked' /\ Ages' /\ IsFiniteSet(tasks')
  BY <1>1, <1>2, Zenon DEF NoDoubleTask, Marked, Owned, Ages
<1>7. \A d \in Conns : conn'[d].node = conn[d].node /\ conn'[d].flag = conn[d].flag
  BY <1>3, <1>4, Zenon DEF SameButState
<1>8. \A d \in Conns : conn'[d].state = conn[d].state
        \/ (d = c /\ conn'[d].state \in {"closed", "ended"})
  BY <1>3, <1>4, Zenon DEF SameButState
<1>9. \A n \in Nodes : peers[n] # NoConn => peers[n] \in Conns
  BY <1>1, Zenon DEF TypeOK
<1>10. Sessions'
  BY <1>1, <1>2, <1>7, <1>8, <1>9, Zenon DEF Sessions
<1>11. Count'
  <2>1. (DynPeers \cup DynDials)' \subseteq DynPeers \cup DynDials
    BY <1>2, <1>7, <1>9, Zenon DEF DynPeers, DynDials
  <2>2. config' = config
    BY <1>2, Zenon
  <2>. QED
    BY <1>1, <2>1, <2>2, CountKept, Zenon
<1>12. Offers'
  <2>1. \A d \in Conns : Offered(d)' => Offered(d)
    BY <1>7, <1>8, Zenon DEF Offered
  <2>2. tasks' = tasks
    BY <1>2, Zenon
  <2>3. Offers
    BY <1>1, Zenon
  <2>. QED
    BY <1>7, <2>1, <2>2, <2>3, OffersKept, Zenon
<1>. QED
  BY <1>5, <1>6, <1>10, <1>11, <1>12, Zenon DEF IInv, DynDialsBounded, Count

\* A connection that has no session is no peer.
LEMMA NoPeer ==
  ASSUME IInv, NEW c \in Conns, conn[c].state \in {"free", "offered"}
  PROVE  \A n \in Nodes : peers[n] # NoConn => peers[n] \in Conns \ {c}
<1>1. peers \in [Nodes -> Conns \cup {NoConn}] /\ Sessions
  BY Zenon DEF IInv, TypeOK
<1>. QED
  BY <1>1, Zenon DEF Sessions

\* A free connection is taken; the peers and the dynamic nodes stay what they
\* are.
LEMMA FreeTaken ==
  ASSUME IInv, NEW c \in Conns, conn[c].state = "free", NEW r, ConnIs(c, r),
         UNCHANGED <<dialing, peers, config>>
  PROVE  Sessions' /\ Count'
<1>1. TypeOK /\ Sessions /\ Count
  BY Zenon DEF IInv, DynDialsBounded, Count
<1>2. \A n \in Nodes : peers[n] # NoConn => peers[n] \in Conns \ {c}
  BY NoPeer, Zenon
<1>3. \A d \in Conns : d # c => conn'[d] = conn[d]
  BY <1>1, ConnChanged, Zenon
<1>4. Sessions'
  BY <1>1, <1>2, <1>3, Zenon DEF Sessions
<1>5. (DynPeers \cup DynDials)' \subseteq DynPeers \cup DynDials
  BY <1>2, <1>3, Zenon DEF DynPeers, DynDials
<1>6. config' = config
  OBVIOUS
<1>7. Count'
  BY <1>1, <1>5, <1>6, CountKept, Zenon
<1>. QED
  BY <1>4, <1>7, Zenon

\* A node connects.
LEMMA InboundStep ==
  ASSUME IInv, NEW c \in Conns, NEW n \in config.callers, Inbound(c, n)
  PROVE  IInv'
<1>1. /\ TypeOK /\ IsFiniteSet(tasks) /\ NoDoubleTask /\ Marked /\ Offers /\ Ages
  BY Zenon DEF IInv
<1>2. UNCHANGED <<pendingTasks, dialing, lookupRunning, peers, config, hist, rest, age, tasks>>
  BY Zenon DEF Inbound, dialVars
<1>3. n \in Nodes
  BY <1>1, ServerAssumption, Zenon DEF TypeOK
<1>4. PICK r : r = [state |-> "offered", node |-> n, flag |-> "inbound"]
  BY Zenon
<1>5. r \in ConnRecords /\ r.flag = "inbound"
  BY <1>3, <1>4, Zenon DEF ConnRecords, States, Flags
<1>6. ConnIs(c, r) /\ conn[c].state = "free"
  BY <1>4, <1>5, Zenon DEF ConnIs, Inbound
<1>7. Sessions' /\ Count'
  BY <1>2, <1>6, FreeTaken, Zenon
<1>8. /\ conn' \in [Conns -> ConnRecords]
      /\ conn'[c] = r
      /\ \A d \in Conns : d # c => conn'[d] = conn[d]
  BY <1>1, <1>6, ConnChanged, Zenon
<1>9. TypeOK'
  BY <1>1, <1>8, Zenon DEF TypeOK, Inbound, dialVars, ConnRecords, States
<1>10. NoDoubleTask' /\ Marked' /\ Ages' /\ IsFiniteSet(tasks')
  BY <1>1, <1>2, Zenon DEF NoDoubleTask, Marked, Owned, Ages
<1>11. Offers'
  <2>1. \A d \in Conns : Offered(d)' => Offered(d) /\ conn'[d] = conn[d]
    BY <1>5, <1>8, Zenon DEF Offered
  <2>. QED
    BY <1>1, <1>2, <2>1, Zenon DEF Offers
<1>. QED
  BY <1>7, <1>9, <1>10, <1>11, Zenon DEF IInv, DynDialsBounded, Count

\* A dial succeeds: its task waits for the loop to take the connection.
LEMMA ConnectStep ==
  ASSUME IInv, NEW x \in tasks, NEW c \in Conns, DialConnects(x, c)
  PROVE  IInv'
<1>1. /\ TypeOK /\ IsFiniteSet(tasks) /\ NoDoubleTask /\ Marked /\ Offers /\ Ages
  BY Zenon DEF IInv
<1>2. UNCHANGED <<pendingTasks, dialing, lookupRunning, peers, config, hist, rest, age>>
  BY Zenon DEF DialConnects, dialVars
<1>3. x \in Runs /\ x.task \in Tasks /\ x.task.kind = "dial" /\ x.phase = "start"
  BY <1>1, Zenon DEF TypeOK, Runs, DialConnects
<1>4. /\ x.task.node \in Nodes /\ x.task.flag \in {"static", "dynamic"}
      /\ x.task = DialTask(x.task.node, x.task.flag)
  BY <1>3, TaskShape, Zenon
<1>5. PICK r : r = [state |-> "offered", node |-> x.task.node, flag |-> x.task.flag]
  BY Zenon
<1>6. r \in ConnRecords /\ r.node = x.task.node /\ r.flag = x.task.flag
  BY <1>4, <1>5, Zenon DEF ConnRecords, States, Flags
<1>7. ConnIs(c, r) /\ conn[c].state = "free"
  BY <1>5, <1>6, Zenon DEF ConnIs, DialConnects
<1>8. Sessions' /\ Count'
  BY <1>2, <1>7, FreeTaken, Zenon
<1>9. /\ conn' \in [Conns -> ConnRecords]
      /\ conn'[c] = r
      /\ \A d \in Conns : d # c => conn'[d] = conn[d]
  BY <1>1, <1>7, ConnChanged, Zenon
<1>10. PICK y \in Runs : /\ y = [x EXCEPT !.phase = "serve"]
                         /\ y.task = x.task /\ y.phase = "serve"
  <2>1. "serve" \in Phases
    BY Zenon DEF Phases
  <2>. QED
    BY <1>3, <2>1, PhaseType, Zenon
<1>11. tasks' = (tasks \ {x}) \cup {y}
  BY <1>10, Zenon DEF DialConnects, Phase
<1>12. PICK f : Moves(f)
  BY <1>10, <1>11, OneMoves, Zenon
<1>13. tasks' \subseteq Runs /\ IsFiniteSet(tasks') /\ NoDoubleTask' /\ Marked'
  BY <1>2, <1>12, TasksMoved, Zenon
<1>14. TypeOK'
  BY <1>1, <1>9, <1>13, Zenon DEF TypeOK, DialConnects, dialVars, ConnRecords, States, Runs
<1>15. Ages'
  BY <1>1, <1>2, Zenon DEF Ages
<1>16. \A d \in Conns : d # c /\ Offered(d)' => Offered(d) /\ conn'[d] = conn[d]
  BY <1>9, Zenon DEF Offered
<1>17. \A d \in Conns : Offered(d) => conn[d].node # x.task.node
  <2>1. ASSUME NEW d \in Conns, Offered(d), conn[d].node = x.task.node
        PROVE  FALSE
    <3>1. PICK z \in tasks : /\ z.task = DialTask(conn[d].node, conn[d].flag)
                             /\ z.phase = "serve"
      BY <1>1, <2>1, Zenon DEF Offers
    <3>2. z.task.kind = "dial" /\ z.task.node = conn[d].node
      BY <3>1 DEF DialTask
    <3>3. SameTask(z.task, x.task)
      BY <1>3, <2>1, <3>2, Zenon DEF SameTask
    <3>4. z = x
      BY <1>1, <3>3, Zenon DEF NoDoubleTask
    <3>. QED
      BY <1>3, <3>1, <3>4, Zenon
  <2>. QED
    BY <2>1, Zenon
<1>18. Offers'
  <2>1. \A z \in tasks : z.phase = "serve" => z \in tasks'
    BY <1>3, <1>11, Zenon
  <2>2. y \in tasks' /\ y.task = DialTask(r.node, r.flag) /\ y.phase = "serve"
    BY <1>4, <1>6, <1>10, <1>11, Zenon
  <2>3. ASSUME NEW d \in Conns, Offered(d)'
        PROVE  \E z \in tasks' : /\ z.task = DialTask(conn'[d].node, conn'[d].flag)
                                 /\ z.phase = "serve"
    <3>1. CASE d = c
      BY <1>9, <2>2, <3>1, Zenon
    <3>2. CASE d # c
      BY <1>1, <1>16, <2>1, <2>3, <3>2, ZenonT(30) DEF Offers
    <3>. QED
      BY <3>1, <3>2, Zenon
  <2>4. ASSUME NEW d \in Conns, NEW e \in Conns, Offered(d)', Offered(e)',
               conn'[d].node = conn'[e].node
        PROVE  d = e
    <3>1. CASE d # c /\ e # c
      BY <1>1, <1>16, <2>4, <3>1, Zenon DEF Offers
    <3>2. CASE d = c /\ e # c
      BY <1>6, <1>9, <1>16, <1>17, <2>4, <3>2, Zenon
    <3>3. CASE d # c /\ e = c
      BY <1>6, <1>9, <1>16, <1>17, <2>4, <3>3, Zenon
    <3>. QED
      BY <3>1, <3>2, <3>3, Zenon
  <2>. QED
    BY <2>3, <2>4, Zenon DEF Offers
<1>. QED
  BY <1>8, <1>13, <1>14, <1>15, <1>18, Zenon DEF IInv, DynDialsBounded, Count

\* Time passes.
LEMMA LaterFacts ==
  ASSUME NEW t \in Nat, NEW max \in Nat, t <= max
  PROVE  Later(t, max) = IF t + 1 <= max THEN t + 1 ELSE max
<1>1. t + 1 \in Int /\ max \in Int
  OBVIOUS
<1>. QED
  BY <1>1, MinPair, Zenon DEF Later

\* A goroutine that has slept a little longer.
Slept(x) == [x EXCEPT !.left = Max({x.left - 1, 0})]

\* A tick makes every time older by the same amount, so that what a node has
\* rested and what the history holds of it still add up.
LEMMA TickStep ==
  ASSUME IInv, Tick
  PROVE  IInv'
<1>1. /\ TypeOK /\ Sessions /\ Offers /\ Ages /\ Count
  BY Zenon DEF IInv, DynDialsBounded, Count
<1>2. UNCHANGED <<loop, static, dialing, lookupBuf, lookupRunning, bootstrapped,
                  pendingTasks, peers, conn, config, edits>>
  BY Zenon DEF Tick
<1>3. PICK H \in Nat \ {0} : H = HistExpiration
  BY ServerAssumption, Zenon
<1>4. PICK a \in Nat : a = age /\ a <= H + 1
  BY <1>1, <1>3 DEF TypeOK
<1>5. age' = IF a + 1 <= H + 1 THEN a + 1 ELSE H + 1
  <2>1. H + 1 \in Nat
    OBVIOUS
  <2>2. age' = Later(a, H + 1)
    BY <1>3, <1>4, Zenon DEF Tick
  <2>. QED
    BY <1>4, <2>1, <2>2, LaterFacts, Zenon
<1>6. \A n \in Nodes : rest[n] \in 0..H /\ hist[n] \in -2..H
  BY <1>1, <1>3, Zenon DEF TypeOK, Gone
<1>7. \A n \in Nodes : rest'[n] = IF rest[n] + 1 <= H THEN rest[n] + 1 ELSE H
  <2>1. ASSUME NEW n \in Nodes
        PROVE  rest'[n] = IF rest[n] + 1 <= H THEN rest[n] + 1 ELSE H
    <3>1. PICK t \in Nat : t = rest[n] /\ t <= H
      BY <1>6
    <3>2. rest'[n] = Later(t, H)
      BY <1>3, <3>1, Zenon DEF Tick
    <3>. QED
      BY <3>1, <3>2, LaterFacts, Zenon
  <2>. QED
    BY <2>1, Zenon
<1>8. \A n \in Nodes : hist'[n] = IF hist[n] >= 0 THEN hist[n] - 1 ELSE hist[n]
  BY Zenon DEF Tick
<1>9. Ages'
  <2>1. ASSUME NEW n \in Nodes
        PROVE  /\ dialing[n] # "no" => rest'[n] >= age' \/ rest'[n] >= H
               /\ dialing[n] = "no" => rest'[n] >= H \/ hist'[n] >= H - rest'[n]
    <3>1. /\ dialing[n] # "no" => rest[n] >= a \/ rest[n] >= H
          /\ dialing[n] = "no" => rest[n] >= H \/ hist[n] >= H - rest[n]
      BY <1>1, <1>3, <1>4, Zenon DEF Ages
    <3>. QED
      BY <1>5, <1>6, <1>7, <1>8, <3>1
  <2>. QED
    BY <1>2, <1>3, <2>1, Zenon DEF Ages
<1>10. lastLookup' \in 0..LookupInterval
  <2>1. PICK L \in Nat : L = LookupInterval
    BY ServerAssumption, Zenon
  <2>2. PICK t \in Nat : t = lastLookup /\ t <= L
    BY <1>1, <2>1 DEF TypeOK
  <2>3. lastLookup' = Later(t, L)
    BY <2>1, <2>2, Zenon DEF Tick
  <2>. QED
    BY <2>1, <2>2, <2>3, LaterFacts
<1>. DEFINE f == [x \in tasks |-> Slept(x)]
<1>11. ASSUME NEW x \in tasks
       PROVE  Slept(x) \in Runs /\ Slept(x).task = x.task /\ Slept(x).phase = x.phase
  <2>1. x \in Runs
    BY <1>1, Zenon DEF TypeOK, Runs
  <2>2. PICK M \in Nat : M = MaxSleep
    BY MaxSleepType, Zenon
  <2>3. PICK k \in Int : k = x.left - 1 /\ k <= M
    BY <2>1, <2>2 DEF Runs
  <2>4. PICK l \in 0..MaxSleep : l = Max({x.left - 1, 0})
    <3>1. Max({k, 0}) = IF k >= 0 THEN k ELSE 0
      BY MaxPair
    <3>. QED
      BY <2>2, <2>3, <3>1
  <2>5. Slept(x) = [x EXCEPT !.left = l]
    BY <2>4, Zenon DEF Slept
  <2>. QED
    BY <2>1, <2>5, Zenon DEF Runs
<1>12. Moves(f)
  <2>1. f \in [tasks -> Runs] /\ \A x \in tasks : f[x].task = x.task
    BY <1>11, Zenon
  <2>2. tasks' = {Slept(x) : x \in tasks}
    BY Zenon DEF Tick, Slept
  <2>3. tasks' = {f[x] : x \in tasks}
    BY <2>2, Zenon
  <2>. QED
    BY <2>1, <2>3, Zenon DEF Moves
<1>13. tasks' \subseteq Runs /\ IsFiniteSet(tasks') /\ NoDoubleTask' /\ Marked'
  BY <1>2, <1>12, TasksMoved, Zenon
<1>14. TypeOK'
  <2>1. age' \in 0..(HistExpiration + 1)
    BY <1>3, <1>5
  <2>2. rest' \in [Nodes -> 0..HistExpiration]
    <3>1. \A n \in Nodes : Later(rest[n], HistExpiration) \in 0..HistExpiration
      <4>1. ASSUME NEW n \in Nodes
            PROVE  Later(rest[n], H) \in 0..H
        <5>1. PICK t \in Nat : t = rest[n] /\ t <= H
          BY <1>6
        <5>. QED
          BY <5>1, LaterFacts
      <4>. QED
        BY <1>3, <4>1, Zenon
    <3>. QED
      BY <3>1, Zenon DEF Tick
  <2>3. hist' \in [Nodes -> Gone..HistExpiration]
    BY <1>3, <1>6 DEF Tick, Gone
  <2>. QED
    BY <1>1, <1>2, <1>10, <1>13, <2>1, <2>2, <2>3, ZenonT(30) DEF TypeOK, Runs
<1>15. Sessions'
  BY <1>1, <1>2, Zenon DEF Sessions
<1>16. Count'
  BY <1>1, <1>2, Zenon DEF Count, DynPeers, DynDials
<1>17. Offers'
  <2>1. \A x \in tasks : Slept(x) \in tasks'
    BY Zenon DEF Tick, Slept
  <2>2. \A d \in Conns : Offered(d)' = Offered(d)
    BY <1>2, Zenon DEF Offered
  <2>3. \A d \in Conns : Offered(d) =>
          \E z \in tasks' : /\ z.task = DialTask(conn[d].node, conn[d].flag)
                            /\ z.phase = "serve"
    <3>1. ASSUME NEW d \in Conns, Offered(d)
          PROVE  \E z \in tasks' : /\ z.task = DialTask(conn[d].node, conn[d].flag)
                                   /\ z.phase = "serve"
      <4>1. PICK x \in tasks : /\ x.task = DialTask(conn[d].node, conn[d].flag)
                               /\ x.phase = "serve"
        BY <1>1, <3>1, Zenon DEF Offers
      <4>. QED
        BY <1>11, <2>1, <4>1, Zenon
    <3>. QED
      BY <3>1, Zenon
  <2>. QED
    BY <1>1, <1>2, <2>2, <2>3, Zenon DEF Offers
<1>. QED
  BY <1>9, <1>13, <1>14, <1>15, <1>16, <1>17, Zenon DEF IInv, DynDialsBounded, Count

-----------------------------------------------------------------------------
(* The channels of the loop. *)

\* What AddPeer and RemovePeer leave alone, but for the peer that is removed.
EditsOnly ==
  UNCHANGED <<age, dialing, hist, lookupBuf, lookupRunning, bootstrapped, tasks,
              pendingTasks, lastLookup, config, rest>>

\* The static nodes change, and a session ends with them, or none.
LEMMA EditStep ==
  ASSUME IInv, EditsOnly, static' \subseteq Nodes, edits' \in 0..config.edits,
         loop' \in {"top", "select", "panic"},
         peers' \in [Nodes -> Conns \cup {NoConn}], conn' \in [Conns -> ConnRecords],
         Sessions', Offers', Count'
  PROVE  IInv'
<1>1. TypeOK /\ IsFiniteSet(tasks) /\ NoDoubleTask /\ Marked /\ Ages
  BY Zenon DEF IInv
<1>2. TypeOK'
  BY <1>1, Zenon DEF TypeOK, EditsOnly, ConnRecords, States
<1>3. UNCHANGED <<tasks, pendingTasks, dialing, lookupRunning, hist, rest, age>>
  BY Zenon DEF EditsOnly
<1>4. NoDoubleTask' /\ Marked' /\ Ages' /\ IsFiniteSet(tasks')
  BY <1>1, <1>3, Zenon DEF NoDoubleTask, Marked, Owned, Ages
<1>. QED
  BY <1>2, <1>4, Zenon DEF IInv, DynDialsBounded, Count

\* No session ends.
LEMMA PeersSame ==
  ASSUME IInv, UNCHANGED <<peers, conn, tasks, dialing, config>>
  PROVE  /\ peers' \in [Nodes -> Conns \cup {NoConn}] /\ conn' \in [Conns -> ConnRecords]
         /\ Sessions' /\ Offers' /\ Count'
<1>1. TypeOK /\ Sessions /\ Offers /\ Count
  BY Zenon DEF IInv, DynDialsBounded, Count
<1>2. UNCHANGED <<peers, conn, tasks, dialing, config>>
  OBVIOUS
<1>3. peers' \in [Nodes -> Conns \cup {NoConn}] /\ conn' \in [Conns -> ConnRecords]
  BY <1>1, <1>2, Zenon DEF TypeOK, ConnRecords, States
<1>4. Sessions'
  BY <1>1, <1>2, Zenon DEF Sessions
<1>5. Offers'
  <2>1. \A d \in Conns : Offered(d)' = Offered(d)
    BY <1>2, Zenon DEF Offered
  <2>. QED
    BY <1>1, <1>2, <2>1, Zenon DEF Offers
<1>6. Count'
  BY <1>1, <1>2, Zenon DEF Count, DynPeers, DynDials
<1>. QED
  BY <1>3, <1>4, <1>5, <1>6, Zenon

\* The peer with the id of n becomes v.
PeerIs(n, v) == peers' = [peers EXCEPT ![n] = v]

\* The peer with a node's id is forgotten, when the session of a connection
\* with that node is over.  It is no matter whether it is that session's.
LEMMA PeerGone ==
  ASSUME IInv, NEW c \in Conns, conn[c].state # "free", NEW n \in Nodes, conn[c].node = n,
         NEW r, ConnIs(c, r), r.state \in {"closed", "free"},
         PeerIs(n, NoConn),
         UNCHANGED <<tasks, dialing, config>>
  PROVE  /\ peers' \in [Nodes -> Conns \cup {NoConn}] /\ conn' \in [Conns -> ConnRecords]
         /\ Sessions' /\ Offers' /\ Count'
<1>1. TypeOK /\ Sessions /\ Offers /\ Count
  BY Zenon DEF IInv, DynDialsBounded, Count
<1>2. UNCHANGED <<tasks, dialing, config>>
  OBVIOUS
<1>3. /\ conn' \in [Conns -> ConnRecords]
      /\ conn'[c] = r
      /\ \A d \in Conns : d # c => conn'[d] = conn[d]
  BY <1>1, ConnChanged, Zenon
<1>4. /\ peers' \in [Nodes -> Conns \cup {NoConn}] /\ peers'[n] = NoConn
      /\ \A m \in Nodes : m # n => peers'[m] = peers[m]
  BY <1>1, Zenon DEF TypeOK, PeerIs
<1>5. ASSUME NEW m \in Nodes, peers'[m] # NoConn
      PROVE  /\ peers'[m] = peers[m] /\ peers[m] \in Conns /\ peers[m] # NoConn
             /\ conn'[peers[m]] = conn[peers[m]]
  <2>1. m # n /\ peers'[m] = peers[m] /\ peers[m] # NoConn
    BY <1>4, <1>5, Zenon
  <2>2. peers[m] \in Conns
    BY <1>1, <2>1, Zenon DEF TypeOK
  <2>3. peers[m] # c
    BY <1>1, <2>1, Zenon DEF Sessions
  <2>. QED
    BY <1>3, <2>1, <2>2, <2>3, Zenon
<1>6. Sessions'
  BY <1>1, <1>5 DEF Sessions
<1>7. Count'
  <2>1. (DynPeers \cup DynDials)' \subseteq DynPeers \cup DynDials
    BY <1>2, <1>5, Zenon DEF DynPeers, DynDials
  <2>. QED
    BY <1>1, <1>2, <2>1, CountKept, Zenon
<1>8. Offers'
  <2>1. \A d \in Conns : Offered(d)' => Offered(d) /\ conn'[d] = conn[d]
    BY <1>3, Zenon DEF Offered
  <2>2. tasks' = tasks
    BY <1>2, Zenon
  <2>3. Offers
    BY <1>1, Zenon
  <2>. QED
    BY <2>1, <2>2, <2>3, OffersKept, Zenon
<1>. QED
  BY <1>3, <1>4, <1>6, <1>7, <1>8, Zenon

\* A static node is added or removed.
LEMMA StaticStep ==
  ASSUME IInv, NEW n \in config.static, AddStatic(n) \/ RemoveStatic(n)
  PROVE  IInv' /\ UNCHANGED dialing
<1>1. TypeOK
  BY Zenon DEF IInv
<1>2. n \in Nodes /\ config.edits \in Nat
  BY <1>1, ServerAssumption, Zenon DEF TypeOK
<1>3. edits' \in 0..config.edits
  <2>1. edits \in Nat /\ edits < config.edits /\ edits' = edits + 1
    BY <1>1 DEF TypeOK, AddStatic, RemoveStatic
  <2>. QED
    BY <1>2, <2>1
<1>4. static' \subseteq Nodes
  <2>1. static \subseteq Nodes
    BY <1>1, Zenon DEF TypeOK
  <2>2. static' = static \cup {n} \/ static' = static \ {n}
    BY Zenon DEF AddStatic, RemoveStatic
  <2>. QED
    BY <1>2, <2>1, <2>2, Zenon
<1>5. EditsOnly /\ loop' \in {"top", "select", "panic"}
  BY Zenon DEF EditsOnly, AddStatic, RemoveStatic
<1>6. UNCHANGED <<tasks, dialing, config>>
  BY <1>5, Zenon DEF EditsOnly
<1>7. CASE UNCHANGED <<peers, conn>>
  <2>1. /\ peers' \in [Nodes -> Conns \cup {NoConn}] /\ conn' \in [Conns -> ConnRecords]
        /\ Sessions' /\ Offers' /\ Count'
    BY <1>6, <1>7, PeersSame, Zenon
  <2>. QED
    BY <1>3, <1>4, <1>5, <1>6, <2>1, EditStep, Zenon
<1>8. ASSUME peers[n] # NoConn, conn[peers[n]].state = "running",
             StateIs(peers[n], "closed"),
             PeerIs(n, NoConn)
      PROVE  IInv'
  <2>1. PICK c \in Conns : c = peers[n]
    BY <1>1, <1>2, <1>8, Zenon DEF TypeOK
  <2>2. conn[c].state # "free" /\ conn[c].node = n
    BY <1>2, <1>8, <2>1, Zenon DEF IInv, Sessions
  <2>3. PICK r : ConnIs(c, r) /\ SameButState(r, c, "closed")
    <3>1. "closed" \in States /\ StateIs(c, "closed")
      BY <1>8, <2>1, Zenon DEF States
    <3>. QED
      BY <1>1, <2>2, <3>1, StateChanged, Zenon
  <2>4. r.state \in {"closed", "free"}
    BY <2>3, Zenon DEF SameButState
  <2>5. /\ peers' \in [Nodes -> Conns \cup {NoConn}] /\ conn' \in [Conns -> ConnRecords]
        /\ Sessions' /\ Offers' /\ Count'
    BY <1>2, <1>6, <1>8, <2>2, <2>3, <2>4, PeerGone, Zenon
  <2>. QED
    BY <1>3, <1>4, <1>5, <2>5, EditStep, Zenon
<1>9. \/ UNCHANGED <<peers, conn>>
      \/ /\ peers[n] # NoConn /\ conn[peers[n]].state = "running"
         /\ StateIs(peers[n], "closed") /\ PeerIs(n, NoConn)
  <2>1. CASE AddStatic(n)
    BY <2>1, Zenon DEF AddStatic
  <2>2. CASE RemoveStatic(n)
    BY <2>2, Zenon DEF RemoveStatic, StateIs, PeerIs
  <2>. QED
    BY <2>1, <2>2, Zenon
<1>. QED
  BY <1>6, <1>7, <1>8, <1>9, Zenon

\* A session is over and the loop forgets the peer.
LEMMA DelPeerStep ==
  ASSUME IInv, NEW c \in Conns, DelPeer(c)
  PROVE  IInv' /\ UNCHANGED dialing
<1>1. TypeOK
  BY Zenon DEF IInv
<1>2. /\ conn[c].state = "ended" /\ loop' = "top"
      /\ UNCHANGED <<age, dialVars, tasks, pendingTasks, lastLookup, config, edits, rest>>
  BY Zenon DEF DelPeer
<1>3. PICK n \in Nodes : n = conn[c].node
  BY <1>1, <1>2, ConnShape, Zenon
<1>4. PICK r : r = [state |-> "free"]
  BY Zenon
<1>5. r \in ConnRecords /\ r.state \in {"closed", "free"}
  BY <1>4, Zenon DEF ConnRecords
<1>6. ConnIs(c, r) /\ PeerIs(n, NoConn)
  BY <1>3, <1>4, <1>5, Zenon DEF ConnIs, PeerIs, DelPeer
<1>7. UNCHANGED <<tasks, dialing, config>> /\ EditsOnly
  BY <1>2, Zenon DEF EditsOnly, dialVars
<1>8. conn[c].state # "free" /\ conn[c].node = n
  BY <1>2, <1>3, Zenon
<1>9. /\ peers' \in [Nodes -> Conns \cup {NoConn}] /\ conn' \in [Conns -> ConnRecords]
      /\ Sessions' /\ Offers' /\ Count'
  BY <1>5, <1>6, <1>7, <1>8, PeerGone, Zenon
<1>10. static' \subseteq Nodes /\ edits' \in 0..config.edits
  BY <1>1, <1>2, Zenon DEF TypeOK, dialVars
<1>11. loop' \in {"top", "select", "panic"}
  BY <1>2, Zenon
<1>. QED
  BY <1>7, <1>9, <1>10, <1>11, EditStep, Zenon

\* The task whose connection the loop takes is done.
Served(x, c) ==
  IF conn[c].flag # "inbound" /\ x.task = DialTask(conn[c].node, conn[c].flag)
  THEN [x EXCEPT !.phase = "done"] ELSE x

\* The loop takes a connection.  A dynamic peer was dialed, and it still is, so
\* no node is added to those that count.
LEMMA AddPeerStep ==
  ASSUME IInv, NEW c \in Conns, AddPeer(c)
  PROVE  IInv' /\ UNCHANGED dialing
<1>1. TypeOK /\ Sessions /\ Offers /\ Ages /\ Count /\ Marked
  BY Zenon DEF IInv, DynDialsBounded, Count
<1>2. /\ conn[c].state = "offered" /\ loop' = "top"
      /\ UNCHANGED <<age, dialVars, pendingTasks, lastLookup, config, edits, rest>>
  BY Zenon DEF AddPeer
<1>3. UNCHANGED <<pendingTasks, dialing, lookupRunning, config, hist, rest, age>>
  BY <1>2, Zenon DEF dialVars
<1>4. PICK n \in Nodes : n = conn[c].node
  BY <1>1, <1>2, ConnShape, Zenon
<1>5. PICK r : ConnIs(c, r) /\ SameButState(r, c, "running")
  <2>1. "running" \in States /\ conn[c].state # "free"
    BY <1>2, Zenon DEF States
  <2>2. StateIs(c, "running")
    BY Zenon DEF AddPeer, StateIs
  <2>. QED
    BY <1>1, <2>1, <2>2, StateChanged, Zenon
<1>6. r.state = "running" /\ r.node = n /\ r.flag = conn[c].flag
  BY <1>4, <1>5, Zenon DEF SameButState
<1>7. /\ conn' \in [Conns -> ConnRecords]
      /\ conn'[c] = r
      /\ \A d \in Conns : d # c => conn'[d] = conn[d]
  BY <1>1, <1>5, ConnChanged, Zenon
<1>8. /\ peers' \in [Nodes -> Conns \cup {NoConn}] /\ peers'[n] = c
      /\ \A m \in Nodes : m # n => peers'[m] = peers[m]
  <2>1. peers' = [peers EXCEPT ![n] = c]
    BY <1>4, Zenon DEF AddPeer
  <2>. QED
    BY <1>1, <2>1, Zenon DEF TypeOK
<1>9. \A m \in Nodes : peers[m] # NoConn => peers[m] \in Conns \ {c}
  BY <1>2, NoPeer, Zenon
<1>10. Sessions'
  BY <1>1, <1>6, <1>7, <1>8, <1>9 DEF Sessions
<1>11. ASSUME NEW x \in tasks
       PROVE  Served(x, c) \in Runs /\ Served(x, c).task = x.task
  <2>1. x \in Runs /\ "done" \in Phases
    BY <1>1, Zenon DEF TypeOK, Runs, Phases
  <2>2. [x EXCEPT !.phase = "done"] \in Runs /\ [x EXCEPT !.phase = "done"].task = x.task
    BY <2>1, PhaseType, Zenon
  <2>. QED
    BY <2>1, <2>2, Zenon DEF Served
<1>12. tasks' = {Served(x, c) : x \in tasks}
  BY Zenon DEF AddPeer, Served
<1>. DEFINE f == [x \in tasks |-> Served(x, c)]
<1>13. Moves(f)
  <2>1. f \in [tasks -> Runs] /\ \A x \in tasks : f[x].task = x.task
    BY <1>11, Zenon
  <2>2. tasks' = {f[x] : x \in tasks}
    BY <1>12, Zenon
  <2>. QED
    BY <2>1, <2>2, Zenon DEF Moves
<1>14. tasks' \subseteq Runs /\ IsFiniteSet(tasks') /\ NoDoubleTask' /\ Marked'
  BY <1>3, <1>13, TasksMoved, Zenon
<1>15. TypeOK'
  BY <1>1, <1>2, <1>7, <1>8, <1>14, ZenonT(30) DEF TypeOK, dialVars, ConnRecords, States, Runs
<1>16. Ages'
  BY <1>1, <1>3, Zenon DEF Ages
<1>17. conn[c].flag = "dynamic" => dialing[n] = "dynamic"
  <2>1. SUFFICES ASSUME conn[c].flag = "dynamic"
                 PROVE  dialing[n] = "dynamic"
    OBVIOUS
  <2>2. Offered(c)
    BY <1>2, <2>1, Zenon DEF Offered
  <2>3. PICK z \in tasks : z.task = DialTask(conn[c].node, conn[c].flag)
    BY <1>1, <2>2, Zenon DEF Offers
  <2>4. z.task.kind = "dial" /\ z.task.node = n /\ z.task.flag = "dynamic"
    BY <1>4, <2>1, <2>3 DEF DialTask
  <2>5. Owned(z.task)
    BY <1>1, Zenon DEF Marked
  <2>. QED
    BY <2>4, <2>5, Zenon DEF Owned
<1>18. Count'
  <2>1. ASSUME NEW m \in Nodes, peers'[m] # NoConn, conn'[peers'[m]].flag = "dynamic"
        PROVE  m \in DynPeers \cup DynDials
    <3>1. CASE m = n
      BY <1>6, <1>7, <1>8, <1>17, <2>1, <3>1, Zenon DEF DynDials
    <3>2. CASE m # n
      BY <1>7, <1>8, <1>9, <2>1, <3>2, Zenon DEF DynPeers
    <3>. QED
      BY <3>1, <3>2, Zenon
  <2>2. DynDials' = DynDials
    BY <1>3, Zenon DEF DynDials
  <2>3. (DynPeers \cup DynDials)' \subseteq DynPeers \cup DynDials
    BY <2>1, <2>2, Zenon DEF DynPeers
  <2>4. config' = config
    BY <1>3, Zenon
  <2>. QED
    BY <1>1, <2>3, <2>4, CountKept, Zenon
<1>19. \A d \in Conns : Offered(d)' => d # c /\ Offered(d) /\ conn'[d] = conn[d]
  BY <1>6, <1>7, Zenon DEF Offered
<1>20. ASSUME NEW d \in Conns, Offered(d)'
       PROVE  \E z \in tasks' : /\ z.task = DialTask(conn'[d].node, conn'[d].flag)
                                /\ z.phase = "serve"
  <2>1. d # c /\ Offered(d) /\ conn'[d] = conn[d]
    BY <1>19, <1>20, Zenon
  <2>2. PICK z \in tasks : /\ z.task = DialTask(conn[d].node, conn[d].flag)
                           /\ z.phase = "serve"
    BY <1>1, <2>1, Zenon DEF Offers
  <2>3. ~(conn[c].flag # "inbound" /\ z.task = DialTask(conn[c].node, conn[c].flag))
    <3>1. SUFFICES ASSUME conn[c].flag # "inbound",
                          z.task = DialTask(conn[c].node, conn[c].flag)
                   PROVE  FALSE
      OBVIOUS
    <3>2. Offered(c)
      BY <1>2, <3>1, Zenon DEF Offered
    <3>3. conn[c].node = conn[d].node
      BY <2>2, <3>1 DEF DialTask
    <3>. QED
      BY <1>1, <2>1, <3>2, <3>3, Zenon DEF Offers
  <2>4. Served(z, c) = z
    BY <2>3, Zenon DEF Served
  <2>5. z \in tasks'
    BY <1>12, <2>4, Zenon
  <2>. QED
    BY <2>1, <2>2, <2>5, Zenon
<1>21. Offers'
  <2>1. \A d, e \in Conns :
          Offered(d)' /\ Offered(e)' /\ conn'[d].node = conn'[e].node => d = e
    BY <1>1, <1>19, Zenon DEF Offers
  <2>. QED
    BY <1>20, <2>1, Zenon DEF Offers
<1>. QED
  BY <1>3, <1>10, <1>14, <1>15, <1>16, <1>18, <1>21, Zenon DEF IInv, DynDialsBounded, Count

\* Only the mark of the task that is done is taken away: no other has it.
LEMMA DoneMarks ==
  ASSUME IInv, NEW x \in tasks, tasks' = tasks \ {x}, UNCHANGED pendingTasks,
         \A n \in Nodes : dialing'[n] = dialing[n] \/ (x.task.kind = "dial" /\ x.task.node = n),
         lookupRunning' = lookupRunning \/ x.task.kind = "discover"
  PROVE  IsFiniteSet(tasks') /\ NoDoubleTask' /\ Marked'
<1>1. TypeOK /\ IsFiniteSet(tasks) /\ NoDoubleTask /\ Marked
  BY Zenon DEF IInv
<1>2. IsFiniteSet(tasks')
  BY <1>1, FS_RemoveElement, Zenon
<1>3. NoDoubleTask'
  <2>1. \A y \in tasks' : y \in tasks
    OBVIOUS
  <2>2. pendingTasks' = pendingTasks
    OBVIOUS
  <2>. QED
    BY <1>1, <2>1, <2>2, Zenon DEF NoDoubleTask
<1>4. ASSUME NEW t \in Tasks, Owned(t), ~SameTask(x.task, t)
      PROVE  Owned(t)'
  <2>1. t.kind = "dial" => t.node \in Nodes
    BY TaskShape, Zenon
  <2>. QED
    BY <1>4, <2>1, Zenon DEF Owned, SameTask
<1>5. ASSUME NEW y \in tasks'
      PROVE  Owned(y.task)'
  <2>1. y \in tasks /\ y # x
    OBVIOUS
  <2>2. y.task \in Tasks
    BY <1>1, <2>1, Zenon DEF TypeOK
  <2>3. Owned(y.task) /\ ~SameTask(x.task, y.task)
    BY <1>1, <2>1, Zenon DEF Marked, NoDoubleTask
  <2>. QED
    BY <1>4, <2>2, <2>3, Zenon
<1>6. ASSUME NEW i \in 1..Len(pendingTasks)
      PROVE  Owned(pendingTasks[i])'
  <2>1. PICK t \in Tasks : t = pendingTasks[i]
    BY <1>1 DEF TypeOK
  <2>2. Owned(t) /\ ~SameTask(x.task, t)
    BY <1>1, <2>1, Zenon DEF Marked, NoDoubleTask
  <2>3. Owned(t)'
    BY <1>4, <2>2, Zenon
  <2>4. pendingTasks'[i] = t
    BY <2>1, Zenon
  <2>. QED
    BY <2>3, <2>4, Zenon DEF Owned
<1>7. Marked'
  <2>1. pendingTasks' = pendingTasks
    OBVIOUS
  <2>. QED
    BY <1>5, <1>6, <2>1, Zenon DEF Marked
<1>. QED
  BY <1>2, <1>3, <1>7, Zenon

\* What taskDone does with the marks, the history and the lookup buffer.
LEMMA DoneType ==
  ASSUME IInv, NEW x \in tasks, TaskDone(x)
  PROVE  /\ TypeOK'
         /\ \A n \in Nodes : \/ dialing'[n] = dialing[n] /\ hist'[n] = hist[n]
                             \/ /\ x.task.kind = "dial" /\ x.task.node = n
                                /\ dialing'[n] = "no"
                                /\ hist'[n] >= HistExpiration - age
         /\ lookupRunning' = lookupRunning \/ x.task.kind = "discover"
<1>1. TypeOK
  BY Zenon DEF IInv
<1>2. x.task \in Tasks /\ tasks' \subseteq tasks /\ loop' = "top"
  BY <1>1, Zenon DEF TypeOK, TaskDone
<1>3. UNCHANGED <<age, static, pendingTasks, peers, conn, lastLookup, config, edits, rest>>
  BY Zenon DEF TaskDone
<1>4. PICK H \in Nat \ {0} : H = HistExpiration
  BY ServerAssumption, Zenon
<1>5. PICK a \in Nat : a = age /\ a <= H + 1
  <2>1. age \in 0..(H + 1)
    BY <1>1, <1>4, Zenon DEF TypeOK
  <2>. QED
    BY <1>4, <2>1
<1>6. hist \in [Nodes -> -2..H] /\ dialing \in [Nodes -> {"no", "static", "dynamic"}]
  BY <1>1, <1>4, Zenon DEF TypeOK, Gone
<1>7. ASSUME hist' \in [Nodes -> -2..H], dialing' \in [Nodes -> {"no", "static", "dynamic"}],
             lookupBuf' \in Seq(Nodes), lookupRunning' \in BOOLEAN, bootstrapped' \in BOOLEAN
      PROVE  TypeOK'
  BY <1>1, <1>2, <1>3, <1>4, <1>7, Zenon DEF TypeOK, Gone
<1>8. lookupBuf \in Seq(Nodes) /\ lookupRunning \in BOOLEAN /\ bootstrapped \in BOOLEAN
  BY <1>1, Zenon DEF TypeOK
<1>9. CASE x.task.kind = "dial" /\ DialDone(x.task.node)
  <2>1. PICK n \in Nodes : n = x.task.node
    BY <1>2, <1>9, TaskShape, Zenon
  <2>2. PICK k \in -2..H : k = Max({HistExpiration - age, -1}) /\ k >= H - a
    <3>1. H - a \in Int /\ -1 \in Int
      OBVIOUS
    <3>2. Max({H - a, -1}) = IF H - a >= -1 THEN H - a ELSE -1
      BY <3>1, MaxPair, Zenon
    <3>. QED
      BY <1>4, <1>5, <3>2
  <2>3. /\ hist' = [hist EXCEPT ![n] = k] /\ dialing' = [dialing EXCEPT ![n] = "no"]
        /\ UNCHANGED <<lookupBuf, lookupRunning, bootstrapped>>
    BY <1>9, <2>1, <2>2, Zenon DEF DialDone
  <2>4. hist' \in [Nodes -> -2..H] /\ dialing' \in [Nodes -> {"no", "static", "dynamic"}]
    BY <1>6, <2>3, Zenon
  <2>5. TypeOK'
    BY <1>7, <1>8, <2>3, <2>4, Zenon
  <2>6. ASSUME NEW m \in Nodes
        PROVE  \/ dialing'[m] = dialing[m] /\ hist'[m] = hist[m]
               \/ m = n /\ dialing'[m] = "no" /\ hist'[m] = k
    BY <1>6, <2>3, Zenon
  <2>7. k >= HistExpiration - age
    BY <1>4, <1>5, <2>2, Zenon
  <2>8. lookupRunning' = lookupRunning
    BY <2>3, Zenon
  <2>. QED
    BY <1>9, <2>1, <2>5, <2>6, <2>7, <2>8, Zenon
<1>10. CASE x.task.kind = "discover" /\ DiscoverDone(x.task.bootstrap)
  <2>1. x.task.bootstrap \in BOOLEAN
    BY <1>2, <1>10, TaskShape, Zenon
  <2>2. UNCHANGED <<hist, dialing>> /\ lookupRunning' = FALSE
    BY <1>10, Zenon DEF DiscoverDone
  <2>3. bootstrapped' = (bootstrapped \/ x.task.bootstrap)
    BY <1>10, Zenon DEF DiscoverDone
  <2>4. bootstrapped' \in BOOLEAN
    BY <2>3, Zenon
  <2>5. lookupBuf' \in Seq(Nodes)
    <3>1. PICK fs \in Found : lookupBuf' = IF x.task.bootstrap THEN lookupBuf ELSE lookupBuf \o fs
      BY <1>10, Zenon DEF DiscoverDone
    <3>2. fs \in Seq(Nodes)
      BY ServerAssumption, Zenon
    <3>3. lookupBuf \o fs \in Seq(Nodes)
      BY <1>8, <3>2
    <3>. QED
      BY <1>8, <3>1, <3>3, Zenon
  <2>6. TypeOK'
    <3>1. lookupRunning' \in BOOLEAN
      BY <2>2, Zenon
    <3>2. hist' = hist /\ dialing' = dialing
      BY <2>2, Zenon
    <3>. QED
      BY <1>6, <1>7, <2>4, <2>5, <3>1, <3>2, Zenon
  <2>. QED
    BY <1>10, <2>2, <2>6, Zenon
<1>11. CASE UNCHANGED <<hist, dialing, lookupBuf, lookupRunning, bootstrapped>>
  <2>1. TypeOK'
    BY <1>6, <1>7, <1>8, <1>11, Zenon
  <2>. QED
    BY <1>11, <2>1, Zenon
<1>. QED
  BY <1>9, <1>10, <1>11, Zenon DEF TaskDone

\* A task is done.  A dial goes into the history with a time that was read no
\* earlier than the dial was chosen.
LEMMA DoneStep ==
  ASSUME IInv, NEW x \in tasks, TaskDone(x)
  PROVE  IInv' /\ \A n \in Nodes : dialing'[n] = dialing[n] \/ dialing'[n] = "no"
<1>1. TypeOK /\ Sessions /\ Offers /\ Ages /\ Count
  BY Zenon DEF IInv, DynDialsBounded, Count
<1>2. /\ x.phase = "done" /\ tasks' = tasks \ {x}
      /\ UNCHANGED <<age, pendingTasks, peers, conn, config, rest>>
  BY Zenon DEF TaskDone
<1>3. /\ TypeOK'
      /\ \A n \in Nodes : \/ dialing'[n] = dialing[n] /\ hist'[n] = hist[n]
                          \/ /\ x.task.kind = "dial" /\ x.task.node = n
                             /\ dialing'[n] = "no"
                             /\ hist'[n] >= HistExpiration - age
      /\ lookupRunning' = lookupRunning \/ x.task.kind = "discover"
  BY DoneType, Zenon
<1>4. IsFiniteSet(tasks') /\ NoDoubleTask' /\ Marked'
  <2>1. \A n \in Nodes : dialing'[n] = dialing[n] \/ (x.task.kind = "dial" /\ x.task.node = n)
    BY <1>3, Zenon
  <2>2. tasks' = tasks \ {x} /\ UNCHANGED pendingTasks
    BY <1>2, Zenon
  <2>. QED
    BY <1>3, <2>1, <2>2, DoneMarks, Zenon
<1>5. Sessions'
  BY <1>1, <1>2, Zenon DEF Sessions
<1>6. Count'
  <2>1. (DynPeers \cup DynDials)' \subseteq DynPeers \cup DynDials
    BY <1>2, <1>3, Zenon DEF DynPeers, DynDials
  <2>2. config' = config
    BY <1>2, Zenon
  <2>. QED
    BY <1>1, <2>1, <2>2, CountKept, Zenon
<1>7. Offers'
  <2>1. \A z \in tasks : z.phase = "serve" => z \in tasks'
    BY <1>2, Zenon
  <2>2. \A d \in Conns : Offered(d)' = Offered(d)
    BY <1>2, Zenon DEF Offered
  <2>. QED
    BY <1>1, <1>2, <2>1, <2>2, Zenon DEF Offers
<1>8. Ages'
  <2>1. PICK H \in Nat \ {0} : H = HistExpiration
    BY ServerAssumption, Zenon
  <2>2. ASSUME NEW n \in Nodes
        PROVE  /\ dialing'[n] # "no" => rest[n] >= age \/ rest[n] >= H
               /\ dialing'[n] = "no" => rest[n] >= H \/ hist'[n] >= H - rest[n]
    <3>1. PICK q \in 0..H : q = rest[n]
      BY <1>1, <2>1, Zenon DEF TypeOK
    <3>2. PICK a \in Nat : a = age
      BY <1>1, <2>1 DEF TypeOK
    <3>3. /\ dialing[n] # "no" => q >= a \/ q >= H
          /\ dialing[n] = "no" => q >= H \/ hist[n] >= H - q
      BY <1>1, <2>1, <3>1, <3>2, Zenon DEF Ages
    <3>4. CASE dialing'[n] = dialing[n] /\ hist'[n] = hist[n]
      BY <3>1, <3>2, <3>3, <3>4, Zenon
    <3>5. CASE /\ x.task.kind = "dial" /\ x.task.node = n
               /\ dialing'[n] = "no" /\ hist'[n] >= HistExpiration - age
      <4>1. dialing[n] # "no"
        <5>1. Owned(x.task) /\ x.task \in Tasks
          BY <1>1, Zenon DEF IInv, Marked, TypeOK
        <5>2. x.task.flag \in {"static", "dynamic"}
          BY <3>5, <5>1, TaskShape, Zenon
        <5>. QED
          BY <3>5, <5>1, <5>2, Zenon DEF Owned
      <4>2. TypeOK'
        BY <1>3, Zenon
      <4>3. hist'[n] \in -2..H
        BY <2>1, <4>2, Zenon DEF TypeOK, Gone
      <4>4. PICK k \in Int : k = hist'[n]
        BY <2>1, <4>3
      <4>5. k >= H - a
        BY <2>1, <3>2, <3>5, <4>4, Zenon
      <4>6. q >= a \/ q >= H
        BY <3>3, <4>1, Zenon
      <4>7. q >= H \/ k >= H - q
        BY <2>1, <3>1, <3>2, <4>4, <4>5, <4>6
      <4>. QED
        BY <3>1, <3>5, <4>4, <4>7, Zenon
    <3>. QED
      BY <1>3, <3>4, <3>5, Zenon
  <2>. QED
    BY <1>2, <2>1, <2>2, ZenonT(30) DEF Ages
<1>. QED
  BY <1>3, <1>4, <1>5, <1>6, <1>7, <1>8, Zenon DEF IInv, DynDialsBounded, Count

-----------------------------------------------------------------------------
(* The invariant. *)

\* The invariant holds when run starts.
LEMMA Initially == Init => IInv
<1>. SUFFICES ASSUME Init
              PROVE  IInv
  OBVIOUS
<1>1. PICK H \in Nat \ {0} : H = HistExpiration
  BY ServerAssumption, Zenon
<1>2. config \in Configs /\ static = config.static
  BY Zenon DEF Init
<1>3. static \subseteq Nodes /\ config.edits \in Nat /\ config.maxDynDials \in Nat
  BY <1>2, ServerAssumption, Zenon
<1>4. tasks = {} /\ pendingTasks = << >> /\ Len(pendingTasks) = 0
  BY Zenon DEF Init
<1>5. \A i \in 1..0 : FALSE
  OBVIOUS
<1>6. /\ \A n \in Nodes : peers[n] = NoConn /\ dialing[n] = "no" /\ rest[n] = H
      /\ \A c \in Conns : conn[c].state = "free"
  BY <1>1, Zenon DEF Init
<1>7. TypeOK
  <2>1. age \in 0..(HistExpiration + 1) /\ edits \in 0..config.edits
    BY <1>1, <1>3 DEF Init
  <2>2. rest \in [Nodes -> 0..HistExpiration] /\ hist \in [Nodes -> Gone..HistExpiration]
    BY <1>1 DEF Init, Gone
  <2>3. lastLookup \in 0..LookupInterval
    BY ServerAssumption DEF Init
  <2>4. pendingTasks \in Seq(Tasks) /\ lookupBuf \in Seq(Nodes)
    BY DEF Init
  <2>5. lookupRunning \in BOOLEAN /\ bootstrapped \in BOOLEAN
    BY Zenon DEF Init
  <2>6. conn \in [Conns -> ConnRecords]
    BY Zenon DEF Init, ConnRecords
  <2>7. /\ peers \in [Nodes -> Conns \cup {NoConn}]
        /\ dialing \in [Nodes -> {"no", "static", "dynamic"}]
        /\ loop \in {"top", "select", "panic"}
    BY Zenon DEF Init
  <2>. QED
    BY <1>2, <1>3, <1>4, <2>1, <2>2, <2>3, <2>4, <2>5, <2>6, <2>7, ZenonT(30)
       DEF TypeOK, ConnRecords, States
<1>8. IsFiniteSet(tasks)
  BY <1>4, FS_EmptySet, Zenon
<1>9. NoDoubleTask /\ Marked
  BY <1>4, <1>5, Zenon DEF NoDoubleTask, Marked
<1>10. Sessions /\ Offers /\ Ages
  BY <1>1, <1>6 DEF Sessions, Offers, Offered, Ages
<1>11. Count
  <2>1. DynPeers \cup DynDials = {}
    BY <1>6, Zenon DEF DynPeers, DynDials
  <2>. QED
    BY <1>3, <2>1, FS_EmptySet DEF Count
<1>. QED
  BY <1>7, <1>8, <1>9, <1>10, <1>11, Zenon DEF IInv, DynDialsBounded, Count

\* A node is dialed at the top of the loop only, when it has rested.
Rested ==
  \A n \in Nodes : dialing[n] = "no" /\ dialing'[n] # "no" => rest[n] >= HistExpiration

\* One step of anyone.
LEMMA Steps ==
  ASSUME IInv, [Next]_vars
  PROVE  IInv' /\ Rested
<1>1. ASSUME UNCHANGED dialing
      PROVE  Rested
  BY <1>1, Zenon DEF Rested
<1>2. CASE Top
  BY <1>2, TopStep, Zenon DEF Rested
<1>3. ASSUME NEW n \in config.static, AddStatic(n) \/ RemoveStatic(n)
      PROVE  IInv' /\ Rested
  BY <1>1, <1>3, StaticStep, Zenon
<1>4. ASSUME NEW c \in Conns, AddPeer(c)
      PROVE  IInv' /\ Rested
  BY <1>1, <1>4, AddPeerStep, Zenon
<1>5. ASSUME NEW c \in Conns, DelPeer(c)
      PROVE  IInv' /\ Rested
  BY <1>1, <1>5, DelPeerStep, Zenon
<1>6. ASSUME NEW x \in tasks, TaskDone(x)
      PROVE  IInv' /\ Rested
  BY <1>6, DoneStep, Zenon DEF Rested
<1>7. ASSUME NEW x \in tasks, TaskStep(x)
      PROVE  IInv' /\ Rested
  <2>1. UNCHANGED dialing
    BY <1>7, Zenon DEF TaskStep, DialFails, DialConnects, DiscoverStarts, LookupStarts,
                DiscoverEnds, WaitEnds, dialVars
  <2>2. IInv'
    BY <1>7, TaskStepKeeps, ConnectStep, Zenon DEF TaskStep
  <2>. QED
    BY <1>1, <2>1, <2>2, Zenon
<1>8. ASSUME NEW c \in Conns, SessionCloses(c)
      PROVE  IInv' /\ Rested
  <2>1. /\ conn[c].state \in {"running", "closed"} /\ StateIs(c, "closed") /\ TasksOnly
        /\ UNCHANGED <<tasks, lastLookup>> /\ UNCHANGED dialing
    BY <1>8, Zenon DEF SessionCloses, StateIs, TasksOnly, dialVars
  <2>2. "closed" \in {"closed", "ended"}
    OBVIOUS
  <2>. QED
    BY <1>1, <2>1, <2>2, SessionStep, Zenon
<1>9. ASSUME NEW c \in Conns, SessionReturns(c)
      PROVE  IInv' /\ Rested
  <2>1. /\ conn[c].state \in {"running", "closed"} /\ StateIs(c, "ended") /\ TasksOnly
        /\ UNCHANGED <<tasks, lastLookup>> /\ UNCHANGED dialing
    BY <1>9, Zenon DEF SessionReturns, StateIs, TasksOnly, dialVars
  <2>2. "ended" \in {"closed", "ended"}
    OBVIOUS
  <2>. QED
    BY <1>1, <2>1, <2>2, SessionStep, Zenon
<1>10. ASSUME NEW c \in Conns, NEW n \in config.callers, Inbound(c, n)
       PROVE  IInv' /\ Rested
  <2>1. UNCHANGED dialing
    BY <1>10, Zenon DEF Inbound, dialVars
  <2>. QED
    BY <1>1, <1>10, <2>1, InboundStep, Zenon
<1>11. CASE Tick
  <2>1. UNCHANGED dialing
    BY <1>11, Zenon DEF Tick
  <2>. QED
    BY <1>1, <1>11, <2>1, TickStep, Zenon
<1>12. CASE UNCHANGED vars
  <2>1. TypeOK /\ IsFiniteSet(tasks) /\ NoDoubleTask /\ Marked /\ Sessions /\ Offers
          /\ Ages /\ Count
    BY Zenon DEF IInv, DynDialsBounded, Count
  <2>2. TasksOnly /\ EditsOnly
    BY <1>12, Zenon DEF vars, dialVars, TasksOnly, EditsOnly
  <2>3. UNCHANGED <<peers, conn, tasks, dialing, config, static, edits, loop>>
    BY <1>12, Zenon DEF vars, dialVars
  <2>4. /\ peers' \in [Nodes -> Conns \cup {NoConn}] /\ conn' \in [Conns -> ConnRecords]
        /\ Sessions' /\ Offers' /\ Count'
    BY <2>3, PeersSame, Zenon
  <2>5. /\ static' \subseteq Nodes /\ edits' \in 0..config.edits
        /\ loop' \in {"top", "select", "panic"}
    BY <2>1, <2>3, Zenon DEF TypeOK
  <2>6. IInv'
    BY <2>2, <2>4, <2>5, EditStep, Zenon
  <2>7. UNCHANGED dialing
    BY <2>3, Zenon
  <2>. QED
    BY <1>1, <2>6, <2>7, Zenon
<1>. QED
  BY <1>2, <1>3, <1>4, <1>5, <1>6, <1>7, <1>8, <1>9, <1>10, <1>11, <1>12, ZenonT(30) DEF Next

\* Every reachable state satisfies the inductive invariant, with any set of
\* nodes, connections and servers and whatever the table and the network answer.
THEOREM LoopInvariant == SafetySpec => []IInv
<1>1. IInv /\ [Next]_vars => IInv'
  BY Steps, Zenon
<1>. QED
  BY Initially, <1>1, PTL DEF SafetySpec

\* newTasks keeps the dynamic peers and the dynamic dials within maxDynDials,
\* in every iteration of run and whatever comes in between.
THEOREM DynDialsBoundedHolds == Spec => []DynDialsBounded
<1>1. IInv => DynDialsBounded
  BY Zenon DEF IInv
<1>. QED
  BY LoopInvariant, <1>1, PTL DEF Spec

\* No two tasks of run and of pendingTasks dial the same node, and no two are
\* lookups: scheduleTasks and taskDone keep the marks of newTasks.
THEOREM NoDoubleTaskHolds == Spec => []NoDoubleTask
<1>1. IInv => NoDoubleTask
  BY Zenon DEF IInv
<1>. QED
  BY LoopInvariant, <1>1, PTL DEF Spec

\* Two dials of a node are at least dialHistoryExpiration apart.
THEOREM DialsSpacedHolds == Spec => DialsSpaced
<1>1. IInv /\ [Next]_vars =>
        [\A n \in Nodes : dialing[n] = "no" /\ dialing'[n] # "no"
                            => rest[n] >= HistExpiration]_vars
  BY Steps, Zenon DEF Rested
<1>. QED
  BY LoopInvariant, <1>1, PTL DEF Spec, SafetySpec, DialsSpaced
=============================================================================
