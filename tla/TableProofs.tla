---------------------------- MODULE TableProofs ----------------------------
(***************************************************************************)
(* Proofs about Lookup and Refresh, for any nodes, distances, answers,     *)
(* tables and bounds.  Of a lookup: the result is the closest of what was  *)
(* found, nothing in it is left out, and no goroutine blocks or is left    *)
(* behind.  Of refreshes: the table is seeded, and the shared iterator is  *)
(* used soundly as long as no two of them are in querySeeds at once.       *)
(***************************************************************************)
EXTENDS Lookup, Refresh, FiniteSetTheorems, WellFoundedInduction, TLAPS

\* Steps with a large context need more time than the default.
USE SMTT(30)

-----------------------------------------------------------------------------
(* push. *)

Ordered(s) == \A i, j \in 1..Len(s) : i < j => Dist[s[i]] <= Dist[s[j]]

\* The list s is full, and all of it is as close as n.
Covers(s, n) == Len(s) = BucketSize /\ \A i \in 1..Len(s) : Dist[s[i]] <= Dist[n]

\* A set of numbers that is not empty has a smallest one.
LEMMA MinNat ==
  ASSUME NEW T, T \subseteq Nat, T # {}
  PROVE  Min(T) \in T /\ \A y \in T : Min(T) <= y
<1>1. PICK x \in T : \A y \in T : ~(<<y, x>> \in OpToRel(<, Nat))
  BY NatLessThanWellFounded, WFMin, Zenon
<1>2. \A y \in Nat : y < x => <<y, x>> \in OpToRel(<, Nat)
  <2>. SUFFICES ASSUME NEW y \in Nat, y < x
                PROVE  <<y, x>> \in OpToRel(<, Nat)
    BY Zenon
  <2>1. <<y, x>> \in Nat \X Nat /\ <<y, x>>[1] = y /\ <<y, x>>[2] = x
    OBVIOUS
  <2>. QED
    BY <2>1, Zenon DEF OpToRel
<1>3. \A y \in T : ~(y < x)
  BY <1>1, <1>2, Zenon
<1>4. \A y \in T : x <= y
  BY <1>3
<1>. QED
  BY <1>4, Zenon DEF Min

\* What sort.Search gives: no entry before it is farther away than n, and the
\* entry there, if there is one, is.
LEMMA FartherFacts ==
  ASSUME NEW s \in Seq(AllNodes), NEW n \in AllNodes
  PROVE  /\ Farther(s, n) \in 1..(Len(s) + 1)
         /\ \A j \in 1..Len(s) : j < Farther(s, n) => Dist[s[j]] <= Dist[n]
         /\ Farther(s, n) <= Len(s) => Dist[n] < Dist[s[Farther(s, n)]]
<1>. DEFINE T == {j \in 1..Len(s) : Dist[s[j]] > Dist[n]} \cup {Len(s) + 1}
<1>1. Len(s) \in Nat /\ Dist[n] \in Nat /\ \A j \in 1..Len(s) : Dist[s[j]] \in Nat
  BY LookupAssumption
<1>2. T \subseteq Nat /\ T # {}
  BY <1>1
<1>3. Min(T) \in T /\ \A y \in T : Min(T) <= y
  <2>. HIDE DEF T
  <2>. QED
    BY <1>2, MinNat, Zenon
<1>4. Farther(s, n) = Min(T)
  BY Zenon DEF Farther
<1>5. PICK x : x = Min(T)
  BY Zenon
<1>6. x \in T /\ \A y \in T : x <= y
  BY <1>3, <1>5, Zenon
<1>7. x \in 1..(Len(s) + 1)
  BY <1>1, <1>6
<1>8. \A j \in 1..Len(s) : j < x => Dist[s[j]] <= Dist[n]
  BY <1>1, <1>6, <1>7
<1>9. x <= Len(s) => Dist[n] < Dist[s[x]]
  BY <1>1, <1>6
<1>. QED
  BY <1>4, <1>5, <1>7, <1>8, <1>9, Zenon

\* push keeps the list in order and in its bounds, and what it drops or does not
\* take is covered by the list.
LEMMA PushFacts ==
  ASSUME NEW s \in Seq(AllNodes), NEW n \in AllNodes, Ordered(s), Len(s) <= BucketSize
  PROVE  /\ Push(s, n) \in Seq(AllNodes) /\ Ordered(Push(s, n))
         /\ Len(Push(s, n)) <= BucketSize
         /\ \A m \in Range(s) \cup {n} : m \in Range(Push(s, n)) \/ Covers(Push(s, n), m)
         /\ \A m \in AllNodes : Covers(s, m) => Covers(Push(s, n), m)
<1>. DEFINE t == Push(s, n)
<1>1. PICK B \in Nat \ {0} : B = BucketSize
  BY LookupAssumption, Zenon
<1>2. PICK L \in Nat : L = Len(s)
  OBVIOUS
<1>3. PICK x \in 1..(L + 1) : x = Farther(s, n)
  BY <1>2, FartherFacts, Zenon
<1>4. PICK size \in Nat : size = IF L < B THEN L + 1 ELSE L
  BY <1>1, <1>2
<1>5. size <= B /\ size >= L /\ (size = L => L = B) /\ (size # L => size = L + 1)
  BY <1>1, <1>2, <1>4
<1>6. t = [j \in 1..size |-> IF j < x THEN s[j] ELSE IF j = x THEN n ELSE s[j - 1]]
  BY <1>1, <1>2, <1>3, <1>4, Zenon DEF Push, Slide
<1>7. /\ \A j \in 1..L : s[j] \in AllNodes /\ Dist[s[j]] \in Nat
      /\ Dist[n] \in Nat /\ \A m \in AllNodes : Dist[m] \in Nat
  BY <1>2, LookupAssumption
<1>8. /\ \A j \in 1..L : j < x => Dist[s[j]] <= Dist[n]
      /\ x <= L => Dist[n] < Dist[s[x]]
      /\ \A i, j \in 1..L : i < j => Dist[s[i]] <= Dist[s[j]]
  BY <1>2, <1>3, FartherFacts, Zenon DEF Ordered
<1>9. \A j \in 1..L : j >= x => Dist[n] < Dist[s[j]]
  <2>. SUFFICES ASSUME NEW j \in 1..L, j >= x PROVE Dist[n] < Dist[s[j]]
    OBVIOUS
  <2>1. x \in 1..L /\ (x = j \/ x < j)
    BY <1>2, <1>3
  <2>. QED
    BY <1>7, <1>8, <2>1
<1>10. \A j \in 1..size :
         /\ j < x => j \in 1..L /\ t[j] = s[j]
         /\ j = x => t[j] = n
         /\ j > x => j - 1 \in 1..L /\ t[j] = s[j - 1] /\ j - 1 >= x
  BY <1>3, <1>5, <1>6
<1>. HIDE DEF t
<1>11. t \in Seq(AllNodes) /\ Len(t) = size
  <2>1. \A j \in 1..size : t[j] \in AllNodes
    <3>1. \A j \in 1..size : j < x \/ j = x \/ j > x
      BY <1>3
    <3>. QED
      BY <1>7, <1>10, <3>1, Zenon
  <2>2. t \in [1..size -> AllNodes]
    BY <1>6, <2>1, Zenon
  <2>. QED
    BY <2>2
<1>12. Ordered(t)
  <2>. SUFFICES ASSUME NEW i \in 1..size, NEW j \in 1..size, i < j
                PROVE  Dist[t[i]] <= Dist[t[j]]
    BY <1>11, Zenon DEF Ordered
  <2>1. CASE j < x
    BY <1>8, <1>10, <2>1
  <2>2. CASE j = x
    BY <1>8, <1>10, <2>2, Zenon
  <2>3. CASE j > x /\ i < x
    BY <1>8, <1>10, <2>3
  <2>4. CASE j > x /\ i = x
    BY <1>7, <1>9, <1>10, <2>4
  <2>5. CASE j > x /\ i > x
    <3>1. /\ i - 1 \in 1..L /\ j - 1 \in 1..L /\ i - 1 < j - 1
          /\ t[i] = s[i - 1] /\ t[j] = s[j - 1]
      BY <1>10, <2>5
    <3>. QED
      BY <1>8, <3>1, Zenon
  <2>. QED
    BY <2>1, <2>2, <2>3, <2>4, <2>5, <1>3
<1>13. ASSUME NEW m \in AllNodes, Covers(s, m) PROVE Covers(t, m)
  <2>1. L = B /\ size = L /\ \A i \in 1..L : Dist[s[i]] <= Dist[m]
    BY <1>1, <1>2, <1>4, <1>13 DEF Covers
  <2>. SUFFICES ASSUME NEW i \in 1..size PROVE Dist[t[i]] <= Dist[m]
    BY <1>1, <1>11, <2>1, Zenon DEF Covers
  <2>2. CASE i # x
    BY <1>10, <2>1, <2>2, <1>3
  <2>3. CASE i = x
    BY <1>7, <1>9, <1>10, <2>1, <2>3
  <2>. QED
    BY <2>2, <2>3, Zenon
<1>14. n \in Range(t) \/ Covers(t, n)
  <2>1. CASE x <= size
    <3>1. x \in 1..size /\ t[x] = n
      BY <1>3, <1>10, <2>1
    <3>. QED
      BY <1>11, <3>1 DEF Range
  <2>2. CASE x > size
    <3>1. size = L /\ L = B
      BY <1>3, <1>5, <2>2
    <3>2. \A i \in 1..size : Dist[t[i]] <= Dist[n]
      BY <1>8, <1>10, <2>2, <3>1, <1>3
    <3>. QED
      BY <1>1, <1>11, <3>1, <3>2, Zenon DEF Covers
  <2>. QED
    BY <2>1, <2>2, <1>3
<1>15. ASSUME NEW k \in 1..L PROVE s[k] \in Range(t) \/ Covers(t, s[k])
  <2>1. CASE k < x
    <3>1. k \in 1..size /\ t[k] = s[k]
      BY <1>5, <1>10, <2>1
    <3>. QED
      BY <1>11, <3>1 DEF Range
  <2>2. CASE k >= x /\ k + 1 <= size
    <3>1. k + 1 \in 1..size /\ t[k + 1] = s[k]
      BY <1>3, <1>10, <2>2
    <3>. QED
      BY <1>11, <3>1 DEF Range
  <2>3. CASE k >= x /\ k + 1 > size
    <3>1. size = L /\ L = B /\ k = L
      BY <1>5, <2>3
    <3>2. ASSUME NEW i \in 1..size PROVE Dist[t[i]] <= Dist[s[k]]
      <4>1. CASE i < x
        BY <1>8, <1>10, <2>3, <4>1, <1>3
      <4>2. CASE i = x
        BY <1>7, <1>9, <1>10, <2>3, <4>2
      <4>3. CASE i > x
        BY <1>8, <1>10, <3>1, <4>3
      <4>. QED
        BY <4>1, <4>2, <4>3, <1>3
    <3>. QED
      BY <1>1, <1>11, <3>1, <3>2, Zenon DEF Covers
  <2>. QED
    BY <2>1, <2>2, <2>3, <1>3
<1>16. \A m \in Range(s) : m \in Range(t) \/ Covers(t, m)
  <2>1. \A m \in Range(s) : \E k \in 1..L : m = s[k]
    BY <1>2 DEF Range
  <2>. QED
    BY <1>15, <2>1, Zenon
<1>17. Len(t) <= BucketSize
  BY <1>1, <1>5, <1>11, Zenon
<1>. QED
  BY <1>11, <1>12, <1>13, <1>14, <1>16, <1>17, Zenon DEF t

-----------------------------------------------------------------------------
(* The invariant of a lookup. *)

\* The queries that were begun and have sent no reply.
Running == {n \in AllNodes : query[n] \in {"findnode", "failed", "bond", "lost"}}

\* The result is in order, in its bounds, and covers what was found and is not in it.
Listed ==
  /\ Len(result) <= BucketSize /\ Ordered(result)
  /\ \A n \in Found : n \in Range(result) \/ Covers(result, n)

\* A query that pends runs, is in the channel or is being pushed.
Pending ==
  /\ IsFiniteSet(Running)
  /\ pendingQueries =
       Cardinality(Running) + Len(replyCh) + (IF pc = "push" THEN 1 ELSE 0)

\* Only nodes that were asked have a query; the loop that asks has left none out;
\* the search stops when nothing pends and no node is left out.
AskedSound ==
  /\ \A n \in AllNodes : query[n] # "none" => n \in asked
  /\ index \in 0..Len(result)
  /\ \A j \in 1..index : result[j] \in asked
  /\ pc # "ask" => index = 0
  /\ pc = "done" => pendingQueries = 0 /\ \A j \in 1..Len(result) : result[j] \in asked

LookupInv == LookupTypeOK /\ Listed /\ Pending /\ AskedSound

\* What the invariant says of numbers.
LEMMA LookupNumbers ==
  ASSUME LookupInv
  PROVE  /\ Alpha \in Nat \ {0} /\ pendingQueries \in Nat /\ pendingQueries <= Alpha
         /\ Cardinality(Running) \in Nat /\ Len(replyCh) \in Nat /\ Len(result) \in Nat
         /\ index \in Nat /\ index <= Len(result)
<1>1. IsFiniteSet(Running)
  BY Zenon DEF LookupInv, Pending
<1>2. Cardinality(Running) \in Nat
  BY <1>1, FS_CardinalityType, Zenon
<1>3. /\ Alpha \in Nat \ {0} /\ pendingQueries \in 0..Alpha
      /\ replyCh \in Seq(SUBSET AllNodes) /\ result \in Seq(AllNodes)
      /\ index \in 0..Len(result)
  BY LookupAssumption, Zenon DEF LookupInv, LookupTypeOK, AskedSound
<1>. QED
  BY <1>2, <1>3

\* A node that is pushed is one more that is found.
LEMMA PushListed ==
  ASSUME LookupInv, NEW n \in AllNodes, result' = Push(result, n), Found' \subseteq Found \cup {n}
  PROVE  result' \in Seq(AllNodes) /\ Listed'
<1>1. result \in Seq(AllNodes) /\ Ordered(result) /\ Len(result) <= BucketSize
  BY Zenon DEF LookupInv, LookupTypeOK, Listed
<1>2. Found \subseteq AllNodes
  BY LookupAssumption, Zenon DEF LookupInv, LookupTypeOK, Found, AllNodes
<1>3. \A m \in Found : m \in Range(result) \/ Covers(result, m)
  BY Zenon DEF LookupInv, Listed
<1>. DEFINE t == Push(result, n)
<1>4. /\ t \in Seq(AllNodes) /\ Ordered(t) /\ Len(t) <= BucketSize
      /\ \A m \in Range(result) \cup {n} : m \in Range(t) \/ Covers(t, m)
      /\ \A m \in AllNodes : Covers(result, m) => Covers(t, m)
  BY <1>1, PushFacts, Zenon
<1>5. result' = t
  OBVIOUS
<1>. HIDE DEF t
<1>6. \A m \in Found' : m \in Range(t) \/ Covers(t, m)
  BY <1>2, <1>3, <1>4, Zenon
<1>7. \A m : Covers(result, m)' <=> Covers(t, m)
  BY <1>5, Zenon DEF Covers
<1>8. Ordered(result)' /\ (Len(result) <= BucketSize)'
  BY <1>4, <1>5, Zenon DEF Ordered
<1>9. (\A m \in Found : m \in Range(result) \/ Covers(result, m))'
  BY <1>5, <1>6, <1>7, Zenon
<1>. QED
  BY <1>4, <1>5, <1>8, <1>9, Zenon DEF Listed

\* The result stays, and nothing more is found.
LEMMA ListedKept ==
  ASSUME LookupInv, result' = result, Found' \subseteq Found
  PROVE  Listed'
<1>1. Listed
  BY Zenon DEF LookupInv
<1>. QED
  BY <1>1, Zenon DEF Listed, Ordered, Covers

\* No query begins or ends.
LEMMA PendingKept ==
  ASSUME LookupInv, UNCHANGED <<query, replyCh, pendingQueries>>,
         pc' = "push" <=> pc = "push"
  PROVE  Pending'
<1>1. Running' = Running
  BY Zenon DEF Running
<1>2. Pending
  BY Zenon DEF LookupInv
<1>. QED
  BY <1>1, <1>2, Zenon DEF Pending

\* A round of closest.
LEMMA CollectStep ==
  ASSUME LookupInv, NEW n, Collect(n)
  PROVE  LookupInv'
<1>1. n \in AllNodes /\ left \subseteq AllNodes
  BY Zenon DEF LookupInv, LookupTypeOK, Collect
<1>2. Found' \subseteq Found \cup {n}
  BY Zenon DEF Collect, Found
<1>3. result' \in Seq(AllNodes) /\ Listed'
  BY <1>1, <1>2, PushListed, Zenon DEF Collect
<1>4. Pending'
  <2>1. pc' # "push" /\ pc # "push"
    BY Zenon DEF Collect
  <2>. QED
    BY <2>1, PendingKept, Zenon DEF Collect
<1>5. LookupTypeOK'
  <2>1. pc' \in {"collect", "ask", "wait", "push", "done"} /\ left' \subseteq AllNodes
    BY <1>1, Zenon DEF Collect
  <2>. QED
    BY <1>3, <2>1, Zenon DEF LookupInv, LookupTypeOK, Collect
<1>6. AskedSound'
  <2>1. index' = 0 /\ pc' # "done" /\ UNCHANGED <<asked, query>>
    BY Zenon DEF LookupInv, AskedSound, Collect
  <2>2. index' \in 0..Len(result')
    BY <1>3, <2>1
  <2>3. \A j \in 1..index' : result'[j] \in asked'
    BY <2>1
  <2>. QED
    BY <2>1, <2>2, <2>3, Zenon DEF LookupInv, AskedSound
<1>. QED
  BY <1>3, <1>4, <1>5, <1>6, Zenon DEF LookupInv

\* A round of the loop that asks.
LEMMA AskNextStep ==
  ASSUME LookupInv, AskNext
  PROVE  LookupInv'
<1>1. /\ pc = "ask" /\ index < Len(result) /\ pendingQueries < Alpha /\ index' = index + 1
      /\ UNCHANGED <<pc, result, left, seen, replyCh, db>>
  BY Zenon DEF AskNext, Asking
<1>2. PICK k \in 1..Len(result) : k = index + 1
  BY <1>1, LookupNumbers
<1>3. PICK n \in AllNodes : n = result[k]
  <2>1. result \in Seq(AllNodes)
    BY Zenon DEF LookupInv, LookupTypeOK
  <2>. QED
    BY <2>1
<1>4. \/ /\ n \notin asked /\ asked' = asked \cup {n} /\ pendingQueries' = pendingQueries + 1
         /\ query' = [query EXCEPT ![n] = "findnode"]
      \/ n \in asked /\ UNCHANGED <<asked, pendingQueries, query>>
  BY <1>2, <1>3, Zenon DEF AskNext
<1>5. n \in asked' /\ asked \subseteq asked'
  BY <1>4, Zenon
<1>6. index' \in Nat /\ index' \in 0..Len(result) /\ \A j \in 1..index' : j \in 1..index \/ j = k
  BY <1>1, <1>2, LookupNumbers
<1>7. Listed'
  <2>1. Found' = Found
    BY <1>1, Zenon DEF Found
  <2>. QED
    BY <1>1, <2>1, ListedKept, Zenon
<1>8. AskedSound' /\ query' \in [AllNodes -> {"none", "findnode", "failed", "bond", "ended", "lost"}]
  <2>1. \A j \in 1..index' : result[j] \in asked'
    BY <1>3, <1>5, <1>6, Zenon DEF LookupInv, AskedSound
  <2>2. /\ query' \in [AllNodes -> {"none", "findnode", "failed", "bond", "ended", "lost"}]
        /\ \A m \in AllNodes : query'[m] # "none" => m \in asked'
    BY <1>4, <1>5, Zenon DEF LookupInv, LookupTypeOK, AskedSound
  <2>3. index' \in 0..Len(result')
    BY <1>1, <1>6, Zenon
  <2>4. pc' = "ask"
    BY <1>1, Zenon
  <2>. QED
    BY <1>1, <2>1, <2>2, <2>3, <2>4, Zenon DEF AskedSound
<1>9. Pending' /\ pendingQueries' \in 0..Alpha
  <2>1. CASE n \in asked /\ UNCHANGED <<asked, pendingQueries, query>>
    <3>1. Pending'
      BY <1>1, <2>1, PendingKept, Zenon
    <3>2. pendingQueries \in 0..Alpha
      BY Zenon DEF LookupInv, LookupTypeOK
    <3>. QED
      BY <2>1, <3>1, <3>2, Zenon
  <2>2. CASE n \notin asked /\ pendingQueries' = pendingQueries + 1
             /\ query' = [query EXCEPT ![n] = "findnode"]
    <3>1. query \in [AllNodes -> {"none", "findnode", "failed", "bond", "ended", "lost"}]
      BY Zenon DEF LookupInv, LookupTypeOK
    <3>2. n \notin Running
      BY <2>2, Zenon DEF LookupInv, AskedSound, Running
    <3>3. Running' = Running \cup {n}
      BY <2>2, <3>1, Zenon DEF Running
    <3>4. IsFiniteSet(Running') /\ Cardinality(Running') = Cardinality(Running) + 1
      BY <3>2, <3>3, FS_AddElement, Zenon DEF LookupInv, Pending
    <3>5. /\ pc # "push" /\ pc' # "push"
          /\ pendingQueries = Cardinality(Running) + Len(replyCh) + 0
      BY <1>1, Zenon DEF LookupInv, Pending
    <3>6. pendingQueries' = Cardinality(Running') + Len(replyCh') + 0
      <4>1. replyCh' = replyCh
        BY <1>1, Zenon
      <4>. QED
        BY <2>2, <3>4, <3>5, <4>1, LookupNumbers
    <3>7. Pending'
      BY <3>4, <3>5, <3>6, Zenon DEF Pending
    <3>8. pendingQueries' \in 0..Alpha
      BY <1>1, <2>2, LookupNumbers
    <3>. QED
      BY <3>7, <3>8, Zenon
  <2>. QED
    BY <1>4, <2>1, <2>2, Zenon
<1>10. LookupTypeOK'
  <2>1. asked' \subseteq AllNodes
    BY <1>4, Zenon DEF LookupInv, LookupTypeOK
  <2>. QED
    BY <1>1, <1>6, <1>8, <1>9, <2>1, Zenon DEF LookupInv, LookupTypeOK
<1>. QED
  BY <1>7, <1>8, <1>9, <1>10, Zenon DEF LookupInv

\* The loop that asks ends, and with it the search when nothing pends.
LEMMA AskEndStep ==
  ASSUME LookupInv, AskEnd
  PROVE  LookupInv'
<1>1. /\ pc = "ask" /\ ~Asking /\ index' = 0
      /\ pc' = IF pendingQueries = 0 THEN "done" ELSE "wait"
      /\ UNCHANGED <<result, left, asked, seen, pendingQueries, query, replyCh, db>>
  BY Zenon DEF AskEnd
<1>2. Listed'
  <2>1. Found' = Found
    BY <1>1, Zenon DEF Found
  <2>. QED
    BY <1>1, <2>1, ListedKept, Zenon
<1>3. Pending'
  <2>1. pc' # "push" /\ pc # "push"
    BY <1>1, Zenon
  <2>. QED
    BY <1>1, <2>1, PendingKept, Zenon
<1>4. AskedSound'
  <2>1. index' \in 0..Len(result') /\ 1..index' = {}
    BY <1>1, LookupNumbers
  <2>2. ASSUME pc' = "done"
        PROVE  pendingQueries = 0 /\ \A j \in 1..Len(result) : result[j] \in asked
    <3>1. pendingQueries = 0
      BY <1>1, <2>2, Zenon
    <3>2. index = Len(result)
      BY <1>1, <3>1, LookupNumbers DEF Asking
    <3>3. \A j \in 1..index : result[j] \in asked
      BY Zenon DEF LookupInv, AskedSound
    <3>. QED
      BY <3>1, <3>2, <3>3, Zenon
  <2>3. \A n \in AllNodes : query[n] # "none" => n \in asked
    BY Zenon DEF LookupInv, AskedSound
  <2>. QED
    BY <1>1, <2>1, <2>2, <2>3, Zenon DEF AskedSound
<1>5. LookupTypeOK'
  <2>1. index' \in Nat /\ pc' \in {"collect", "ask", "wait", "push", "done"}
    BY <1>1, Zenon
  <2>. QED
    BY <1>1, <2>1, Zenon DEF LookupInv, LookupTypeOK
<1>. QED
  BY <1>2, <1>3, <1>4, <1>5, Zenon DEF LookupInv

\* A reply is taken, its nodes are pushed, and it pends no more.
LEMMA ReplyStep ==
  ASSUME LookupInv, Receive \/ (\E n \in left : PushNext(n)) \/ PushEnd
  PROVE  LookupInv'
<1>1. pc \in {"wait", "push"} /\ pc' \in {"push", "ask"}
      /\ UNCHANGED <<index, asked, query, db>>
  BY Zenon DEF Receive, PushNext, PushEnd
<1>2. index = 0
  BY <1>1, Zenon DEF LookupInv, AskedSound
<1>3. ASSUME result' \in Seq(AllNodes) PROVE AskedSound'
  <2>1. index' \in 0..Len(result') /\ 1..index' = {}
    BY <1>1, <1>2, <1>3
  <2>2. \A n \in AllNodes : query[n] # "none" => n \in asked
    BY Zenon DEF LookupInv, AskedSound
  <2>3. pc' # "done"
    BY <1>1, Zenon
  <2>. QED
    BY <1>1, <1>2, <2>1, <2>2, <2>3, Zenon DEF AskedSound
<1>4. Running' = Running /\ IsFiniteSet(Running)
  BY <1>1, Zenon DEF LookupInv, Pending, Running
<1>5. result \in Seq(AllNodes) /\ replyCh \in Seq(SUBSET AllNodes) /\ left \subseteq AllNodes
  BY Zenon DEF LookupInv, LookupTypeOK
<1>6. CASE Receive
  <2>1. /\ pc = "wait" /\ pc' = "push" /\ replyCh # << >> /\ left' = Head(replyCh)
        /\ replyCh' = Tail(replyCh) /\ UNCHANGED <<result, seen, pendingQueries>>
    BY <1>6, Zenon DEF Receive
  <2>2. /\ Head(replyCh) \in SUBSET AllNodes /\ Tail(replyCh) \in Seq(SUBSET AllNodes)
        /\ Len(Tail(replyCh)) = Len(replyCh) - 1
    BY <1>5, <2>1
  <2>3. Listed'
    <3>1. Found' = Found
      BY <2>1, Zenon DEF Found
    <3>. QED
      BY <2>1, <3>1, ListedKept, Zenon
  <2>4. Pending'
    <3>1. pendingQueries = Cardinality(Running) + Len(replyCh) + 0
      BY <2>1, Zenon DEF LookupInv, Pending
    <3>2. pendingQueries' = Cardinality(Running') + Len(replyCh') + 1
      BY <1>4, <2>1, <2>2, <3>1, LookupNumbers
    <3>. QED
      BY <1>4, <2>1, <3>2, Zenon DEF Pending
  <2>5. LookupTypeOK'
    BY <1>1, <2>1, <2>2, Zenon DEF LookupInv, LookupTypeOK
  <2>6. AskedSound'
    BY <1>3, <1>5, <2>1, Zenon
  <2>. QED
    BY <2>3, <2>4, <2>5, <2>6, Zenon DEF LookupInv
<1>7. CASE \E n \in left : PushNext(n)
  <2>1. PICK n \in AllNodes : n \in left /\ PushNext(n)
    BY <1>5, <1>7, Zenon
  <2>2. /\ pc = "push" /\ pc' = "push" /\ left' = left \ {n}
        /\ UNCHANGED <<replyCh, pendingQueries, query>>
    BY <2>1, Zenon DEF PushNext
  <2>3. result' \in Seq(AllNodes) /\ Listed' /\ seen' \subseteq AllNodes
    <3>1. CASE n \notin seen /\ seen' = seen \cup {n} /\ result' = Push(result, n)
      <4>1. Found' \subseteq Found \cup {n}
        BY <2>2, <3>1, Zenon DEF Found
      <4>. QED
        BY <2>1, <3>1, <4>1, PushListed, Zenon DEF LookupInv, LookupTypeOK
    <3>2. CASE n \in seen /\ UNCHANGED <<seen, result>>
      <4>1. Found' = Found
        BY <2>2, <3>2, Zenon DEF Found
      <4>. QED
        BY <1>5, <3>2, <4>1, ListedKept, Zenon DEF LookupInv, LookupTypeOK
    <3>. QED
      BY <2>1, <3>1, <3>2, Zenon DEF PushNext
  <2>4. Pending'
    BY <2>2, PendingKept, Zenon
  <2>5. LookupTypeOK'
    <3>1. left' \subseteq AllNodes
      BY <1>5, <2>2, Zenon
    <3>. QED
      BY <1>1, <2>2, <2>3, <3>1, Zenon DEF LookupInv, LookupTypeOK
  <2>6. AskedSound'
    BY <1>3, <2>3, Zenon
  <2>. QED
    BY <2>3, <2>4, <2>5, <2>6, Zenon DEF LookupInv
<1>8. CASE PushEnd
  <2>1. /\ pc = "push" /\ pc' = "ask" /\ pendingQueries' = pendingQueries - 1
        /\ UNCHANGED <<result, left, seen, replyCh>>
    BY <1>8, Zenon DEF PushEnd
  <2>2. Listed'
    <3>1. Found' = Found
      BY <2>1, Zenon DEF Found
    <3>. QED
      BY <2>1, <3>1, ListedKept, Zenon
  <2>3. pendingQueries = Cardinality(Running) + Len(replyCh) + 1
    BY <2>1, Zenon DEF LookupInv, Pending
  <2>4. pendingQueries' = Cardinality(Running') + Len(replyCh') + 0 /\ pendingQueries' \in 0..Alpha
    BY <1>4, <2>1, <2>3, LookupNumbers
  <2>5. Pending'
    BY <1>4, <2>1, <2>4, Zenon DEF Pending
  <2>6. LookupTypeOK'
    BY <1>1, <2>1, <2>4, Zenon DEF LookupInv, LookupTypeOK
  <2>7. AskedSound'
    BY <1>3, <1>5, <2>1, Zenon
  <2>. QED
    BY <2>2, <2>5, <2>6, <2>7, Zenon DEF LookupInv
<1>. QED
  BY <1>6, <1>7, <1>8, Zenon

\* The goroutines that ask, and the end of the database.
LEMMA QueryStep ==
  ASSUME LookupInv, (\E n \in AllNodes : Query(n)) \/ CloseDB
  PROVE  LookupInv'
<1>. DEFINE States == {"none", "findnode", "failed", "bond", "ended", "lost"}
<1>1. UNCHANGED searchVars
  BY Zenon DEF Query, FindnodeReturns, CountFailure, SendReply, Reply, CloseDB
<1>2. UNCHANGED <<pc, result, index, left, asked, seen, pendingQueries>>
  BY <1>1, Zenon DEF searchVars
<1>3. Listed'
  <2>1. Found' = Found
    BY <1>2, Zenon DEF Found
  <2>. QED
    BY <1>2, <2>1, ListedKept, Zenon
<1>4. query \in [AllNodes -> States] /\ replyCh \in Seq(SUBSET AllNodes)
  BY Zenon DEF LookupInv, LookupTypeOK
<1>5. ASSUME query' \in [AllNodes -> States], replyCh' \in Seq(SUBSET AllNodes), db' \in BOOLEAN,
             \A n \in AllNodes : query'[n] # "none" => query[n] # "none", Pending'
      PROVE  LookupInv'
  <2>1. AskedSound'
    BY <1>2, <1>5, Zenon DEF LookupInv, AskedSound
  <2>2. LookupTypeOK'
    BY <1>2, <1>5, Zenon DEF LookupInv, LookupTypeOK
  <2>. QED
    BY <1>3, <1>5, <2>1, <2>2, Zenon DEF LookupInv
<1>6. CASE CloseDB
  <2>1. UNCHANGED <<query, replyCh>> /\ db' = FALSE
    BY <1>6, Zenon DEF CloseDB
  <2>2. Pending'
    BY <1>2, <2>1, PendingKept, Zenon
  <2>. QED
    BY <1>4, <1>5, <2>1, <2>2, Zenon
<1>7. ASSUME NEW n \in AllNodes, NEW l \in {"bond", "failed", "lost"},
             query[n] \in {"findnode", "failed"}, query' = [query EXCEPT ![n] = l],
             UNCHANGED <<replyCh, db>>
      PROVE  LookupInv'
  <2>1. query' \in [AllNodes -> States] /\ \A m \in AllNodes : query'[m] # "none" => query[m] # "none"
    BY <1>4, <1>7, Zenon
  <2>2. Running' = Running
    BY <1>4, <1>7, Zenon DEF Running
  <2>3. Pending
    BY Zenon DEF LookupInv
  <2>4. Pending'
    BY <1>2, <1>7, <2>2, <2>3, Zenon DEF Pending
  <2>5. replyCh' \in Seq(SUBSET AllNodes) /\ db' \in BOOLEAN
    BY <1>7, Zenon DEF LookupInv, LookupTypeOK
  <2>. QED
    BY <1>5, <2>1, <2>4, <2>5, Zenon
<1>8. ASSUME NEW n \in AllNodes, SendReply(n) PROVE LookupInv'
  <2>1. PICK S \in SUBSET Knows[n] : Reply(n, S)
    BY <1>8, Zenon DEF SendReply
  <2>2. /\ query[n] = "bond" /\ replyCh' = Append(replyCh, S) /\ UNCHANGED db
        /\ query' = [query EXCEPT ![n] = "ended"]
    BY <2>1, Zenon DEF Reply
  <2>3. S \in SUBSET AllNodes
    BY LookupAssumption, Zenon
  <2>4. replyCh' \in Seq(SUBSET AllNodes) /\ Len(replyCh') = Len(replyCh) + 1
    BY <1>4, <2>2, <2>3
  <2>5. query' \in [AllNodes -> States] /\ \A m \in AllNodes : query'[m] # "none" => query[m] # "none"
    BY <1>4, <2>2, Zenon
  <2>6. n \in Running /\ Running' = Running \ {n}
    BY <1>4, <2>2, Zenon DEF Running
  <2>7. IsFiniteSet(Running)
    BY Zenon DEF LookupInv, Pending
  <2>8. IsFiniteSet(Running') /\ Cardinality(Running') = Cardinality(Running) - 1
    BY <2>6, <2>7, FS_RemoveElement, Zenon
  <2>9. PICK d \in {0, 1} : d = IF pc = "push" THEN 1 ELSE 0
    BY Zenon
  <2>10. pendingQueries = Cardinality(Running) + Len(replyCh) + d
    BY <2>9, Zenon DEF LookupInv, Pending
  <2>11. pendingQueries' = Cardinality(Running') + Len(replyCh') + d
    BY <1>2, <2>4, <2>8, <2>10, LookupNumbers
  <2>12. Pending'
    BY <1>2, <2>8, <2>9, <2>11, Zenon DEF Pending
  <2>13. db' \in BOOLEAN
    BY <2>2, Zenon DEF LookupInv, LookupTypeOK
  <2>. QED
    BY <1>5, <2>4, <2>5, <2>12, <2>13, Zenon
<1>9. ASSUME NEW n \in AllNodes, Query(n) PROVE LookupInv'
  <2>1. CASE FindnodeReturns(n, TRUE) \/ FindnodeReturns(n, FALSE)
    <3>1. CASE FindnodeReturns(n, TRUE)
      BY <1>7, <3>1, Zenon DEF FindnodeReturns
    <3>2. CASE FindnodeReturns(n, FALSE)
      BY <1>7, <3>2, Zenon DEF FindnodeReturns
    <3>. QED
      BY <2>1, <3>1, <3>2, Zenon
  <2>2. CASE CountFailure(n)
    <3>1. PICK l \in {"bond", "failed", "lost"} : l = IF db THEN "bond" ELSE "lost"
      BY Zenon
    <3>2. /\ query[n] = "failed" /\ query' = [query EXCEPT ![n] = l]
          /\ UNCHANGED <<replyCh, db>>
      BY <2>2, <3>1, Zenon DEF CountFailure
    <3>. QED
      BY <1>7, <3>2, Zenon
  <2>. QED
    BY <1>8, <1>9, <2>1, <2>2, Zenon DEF Query
<1>. QED
  BY <1>6, <1>9, Zenon

\* The invariant holds from the first step of a lookup on.
LEMMA LookupBegin == LookupInit => LookupInv
<1>. SUFFICES ASSUME LookupInit PROVE LookupInv
  OBVIOUS
<1>. USE DEF LookupInit
<1>1. Table0 \subseteq AllNodes /\ Self \in AllNodes /\ Alpha \in Nat /\ BucketSize \in Nat
  BY LookupAssumption, Zenon DEF AllNodes
<1>2. Found = {} /\ Running = {}
  BY Zenon DEF Found, Running
<1>3. << >> \in Seq(AllNodes) /\ << >> \in Seq(SUBSET AllNodes) /\ Len(<< >>) = 0
  OBVIOUS
<1>4. 0 \in 0..Alpha /\ 0 <= BucketSize /\ 0 \in 0..0 /\ 1..0 = {} /\ 0 = 0 + 0 + 0 /\ 0 \in Nat
  BY <1>1
<1>5. LookupTypeOK
  BY <1>1, <1>3, <1>4, Zenon DEF LookupTypeOK
<1>6. Listed
  BY <1>2, <1>3, <1>4, Zenon DEF Listed, Ordered
<1>7. Pending
  <2>1. IsFiniteSet(Running) /\ Cardinality(Running) = 0
    BY <1>2, FS_EmptySet, Zenon
  <2>. QED
    BY <1>3, <1>4, <2>1, Zenon DEF Pending
<1>8. AskedSound
  BY <1>3, <1>4, Zenon DEF AskedSound
<1>. QED
  BY <1>5, <1>6, <1>7, <1>8, Zenon DEF LookupInv

\* Every step of a lookup keeps the invariant.
LEMMA LookupStep == LookupInv /\ [LookupNext]_lookupVars => LookupInv'
<1>. SUFFICES ASSUME LookupInv, [LookupNext]_lookupVars PROVE LookupInv'
  OBVIOUS
<1>1. ASSUME NEW n \in left, Collect(n) PROVE LookupInv'
  BY <1>1, CollectStep, Zenon
<1>2. ASSUME NEW n \in left, PushNext(n) PROVE LookupInv'
  BY <1>2, ReplyStep, Zenon
<1>3. CASE AskNext
  BY <1>3, AskNextStep, Zenon
<1>4. CASE AskEnd
  BY <1>4, AskEndStep, Zenon
<1>5. CASE Receive \/ PushEnd
  BY <1>5, ReplyStep, Zenon
<1>6. CASE (\E n \in AllNodes : Query(n)) \/ CloseDB
  BY <1>6, QueryStep, Zenon
<1>7. CASE UNCHANGED lookupVars
  BY <1>7, Zenon DEF lookupVars, searchVars, LookupInv, LookupTypeOK, Listed, Pending,
     AskedSound, Running, Found, Ordered, Covers
<1>. QED
  BY <1>1, <1>2, <1>3, <1>4, <1>5, <1>6, <1>7, Zenon DEF LookupNext, Search

\* In every lookup, whatever nodes answer and in whatever order: the result is in
\* order and in its bounds, every query that pends is one that runs or whose reply
\* is under way, and the loop that asks leaves no entry out.
THEOREM LookupInvariant == LookupSpec => []LookupInv
  BY LookupBegin, LookupStep, PTL DEF LookupSpec, LookupSafetySpec

\* The result of a lookup is always the closest of all nodes found, nearest first
\* and no more than bucketSize, for any distances and replies.
THEOREM LookupClosest == LookupSpec => []ResultClosest
<1>1. LookupInv => ResultClosest
  BY Zenon DEF LookupInv, Listed, Ordered, Covers, ResultClosest
<1>. QED
  BY <1>1, LookupInvariant, PTL

\* A lookup stops only when it has asked every node of its result, and it leaves
\* no goroutine and no reply behind.
THEOREM LookupAsksAll == LookupSpec => []AllAsked
<1>1. LookupInv => AllAsked
  <2>. SUFFICES ASSUME LookupInv, pc = "done"
                PROVE  /\ Range(result) \subseteq asked
                       /\ \A n \in AllNodes : query[n] \in {"none", "ended"}
                       /\ replyCh = << >>
    BY Zenon DEF AllAsked
  <2>1. pendingQueries = 0 /\ \A j \in 1..Len(result) : result[j] \in asked
    BY Zenon DEF LookupInv, AskedSound
  <2>2. Range(result) \subseteq asked
    <3>1. DOMAIN result = 1..Len(result)
      BY DEF LookupInv, LookupTypeOK
    <3>. QED
      BY <2>1, <3>1, Zenon DEF Range
  <2>3. pendingQueries = Cardinality(Running) + Len(replyCh) + 0 /\ IsFiniteSet(Running)
    BY Zenon DEF LookupInv, Pending
  <2>4. Cardinality(Running) = 0 /\ Len(replyCh) = 0
    BY <2>1, <2>3, LookupNumbers
  <2>5. Running = {}
    BY <2>3, <2>4, FS_EmptySet, Zenon
  <2>6. \A n \in AllNodes : query[n] \in {"none", "ended"}
    BY <2>5, Zenon DEF LookupInv, LookupTypeOK, Running
  <2>7. replyCh \in Seq(SUBSET AllNodes)
    BY Zenon DEF LookupInv, LookupTypeOK
  <2>8. replyCh = << >>
    BY <2>4, <2>7
  <2>. QED
    BY <2>2, <2>6, <2>8, Zenon
<1>. QED
  BY <1>1, LookupInvariant, PTL

\* "replyCh  = make(chan []*Node, alpha)" has room for every reply: a goroutine
\* that asks never blocks when it sends, and no more than alpha of them run.
THEOREM ReplyNeverBlocks ==
  LookupSpec => [](/\ Cardinality(Running) <= Alpha
                   /\ \A n \in AllNodes : query[n] = "bond" => Len(replyCh) < Alpha)
<1>1. LookupInv => /\ Cardinality(Running) <= Alpha
                   /\ \A n \in AllNodes : query[n] = "bond" => Len(replyCh) < Alpha
  <2>. SUFFICES ASSUME LookupInv
                PROVE  /\ Cardinality(Running) <= Alpha
                       /\ \A n \in AllNodes : query[n] = "bond" => Len(replyCh) < Alpha
    OBVIOUS
  <2>1. PICK d \in {0, 1} : d = IF pc = "push" THEN 1 ELSE 0
    BY Zenon
  <2>2. pendingQueries = Cardinality(Running) + Len(replyCh) + d /\ IsFiniteSet(Running)
    BY <2>1, Zenon DEF LookupInv, Pending
  <2>3. ASSUME NEW n \in AllNodes, query[n] = "bond" PROVE Cardinality(Running) # 0
    <3>1. n \in Running
      BY <2>3, Zenon DEF Running
    <3>. QED
      BY <2>2, <3>1, FS_EmptySet, Zenon
  <2>4. Cardinality(Running) <= Alpha /\ (Cardinality(Running) # 0 => Len(replyCh) < Alpha)
    BY <2>2, LookupNumbers
  <2>. QED
    BY <2>3, <2>4, Zenon
<1>. QED
  BY <1>1, LookupInvariant, PTL

\* No node is asked twice in a lookup, although nodes come back in reply after
\* reply, and what was asked is never forgotten.
THEOREM AskedOnce ==
  LookupSpec => [][/\ asked \subseteq asked'
                   /\ \A n \in AllNodes : query[n] # "none" => query'[n] # "none" /\
                        (query'[n] = "findnode" => query[n] = "findnode")]_lookupVars
<1>. DEFINE A == /\ asked \subseteq asked'
                 /\ \A n \in AllNodes : query[n] # "none" => query'[n] # "none" /\
                      (query'[n] = "findnode" => query[n] = "findnode")
<1>1. ASSUME LookupInv, LookupNext PROVE A
  <2>1. /\ query \in [AllNodes -> {"none", "findnode", "failed", "bond", "ended", "lost"}]
        /\ \A n \in AllNodes : query[n] # "none" => n \in asked
    BY <1>1, Zenon DEF LookupInv, LookupTypeOK, AskedSound
  <2>2. CASE AskNext
    BY <2>1, <2>2, Zenon DEF AskNext
  <2>3. CASE \/ \E n \in left : Collect(n) \/ PushNext(n)
             \/ AskEnd \/ Receive \/ PushEnd \/ CloseDB
    <3>1. UNCHANGED <<query, asked>>
      BY <2>3, Zenon DEF Collect, PushNext, AskEnd, Receive, PushEnd, CloseDB, searchVars
    <3>. QED
      BY <3>1, Zenon
  <2>4. ASSUME NEW n \in AllNodes, Query(n) PROVE A
    <3>1. asked' = asked
      BY <2>4, Zenon DEF Query, FindnodeReturns, CountFailure, SendReply, Reply, searchVars
    <3>2. \E l \in {"failed", "bond", "ended", "lost"} : query' = [query EXCEPT ![n] = l]
      BY <2>4, Zenon DEF Query, FindnodeReturns, CountFailure, SendReply, Reply
    <3>. QED
      BY <2>1, <3>1, <3>2, Zenon
  <2>. QED
    BY <1>1, <2>2, <2>3, <2>4, Zenon DEF LookupNext, Search
<1>2. LookupInv /\ [LookupNext]_lookupVars => [A]_lookupVars
  BY <1>1, Zenon
<1>. QED
  BY <1>2, LookupInvariant, PTL DEF LookupSpec, LookupSafetySpec

-----------------------------------------------------------------------------
(* The stacks of the goroutines that refresh. *)

\* Where a call waits for its callee.
Callers == {"random", "self", "refresh"}

\* Everything but the innermost call waits.
Shaped(s) == \A i \in 2..Len(s) : s[i] \in Callers

Stacks == stack \in [Procs -> Seq(Labels)] /\ \A p \in Procs : Shaped(stack[p])

\* Only p moves, and the innermost call of p is at l then.
Moves(p, l) ==
  /\ stack'[p] # << >> /\ Head(stack'[p]) = l
  /\ \A q \in Procs \ {p} : stack'[q] = stack[q]

\* Only p moves; its innermost call is over.
Ends(p) ==
  /\ stack'[p] # << >> => Head(stack'[p]) \in Callers
  /\ \A q \in Procs \ {p} : stack'[q] = stack[q]

\* What the three ways to move do to a stack.
LEMMA StackFacts ==
  ASSUME NEW s \in Seq(Labels), s # << >>, Shaped(s), NEW l \in Labels, NEW c \in Callers
  PROVE  /\ <<l>> \o Tail(s) \in Seq(Labels) /\ Shaped(<<l>> \o Tail(s))
         /\ <<l>> \o Tail(s) # << >> /\ Head(<<l>> \o Tail(s)) = l
         /\ <<l, c>> \o Tail(s) \in Seq(Labels) /\ Shaped(<<l, c>> \o Tail(s))
         /\ <<l, c>> \o Tail(s) # << >> /\ Head(<<l, c>> \o Tail(s)) = l
         /\ Tail(s) \in Seq(Labels) /\ Shaped(Tail(s))
         /\ Tail(s) # << >> => Head(Tail(s)) \in Callers
<1>0. Tail(s) \in Seq(Labels)
  OBVIOUS
<1>1. PICK f \in Seq(Labels) : f = Tail(s)
  BY <1>0, Zenon
<1>2. Len(f) = Len(s) - 1 /\ \A i \in 1..Len(f) : f[i] = s[i + 1] /\ i + 1 \in 2..Len(s)
  BY <1>1
<1>3. \A i \in 1..Len(f) : f[i] \in Callers
  BY <1>2, Zenon DEF Shaped
<1>4. c \in Labels
  BY Zenon DEF Callers, Labels
<1>5. PICK N \in Nat : N = Len(f)
  OBVIOUS
<1>6. PICK t \in Seq(Labels) : t = <<l>> \o f
  <2>1. <<l>> \o f \in Seq(Labels)
    OBVIOUS
  <2>. QED
    BY <2>1, Zenon
<1>7. Len(t) = N + 1 /\ t[1] = l /\ \A i \in 2..(N + 1) : t[i] = f[i - 1] /\ i - 1 \in 1..N
  BY <1>5, <1>6
<1>8. Shaped(t) /\ t # << >> /\ Head(t) = l
  <2>1. Shaped(t)
    BY <1>3, <1>5, <1>7, Zenon DEF Shaped
  <2>2. t # << >> /\ Head(t) = l
    BY <1>7
  <2>. QED
    BY <2>1, <2>2, Zenon
<1>9. PICK u \in Seq(Labels) : u = <<l, c>> \o f
  <2>1. <<l, c>> \o f \in Seq(Labels)
    BY <1>4
  <2>. QED
    BY <2>1, Zenon
<1>10. /\ Len(u) = N + 2 /\ u[1] = l /\ u[2] = c
       /\ \A i \in 3..(N + 2) : u[i] = f[i - 2] /\ i - 2 \in 1..N
  BY <1>5, <1>9
<1>11. Shaped(u) /\ u # << >> /\ Head(u) = l
  <2>1. \A i \in 2..(N + 2) : i = 2 \/ i \in 3..(N + 2)
    OBVIOUS
  <2>2. Shaped(u)
    BY <1>3, <1>5, <1>10, <2>1, Zenon DEF Shaped
  <2>3. u # << >> /\ Head(u) = l
    BY <1>10
  <2>. QED
    BY <2>2, <2>3, Zenon
<1>12. Shaped(f) /\ (f # << >> => Head(f) \in Callers)
  <2>1. \A i \in 2..Len(f) : i \in 1..Len(f)
    OBVIOUS
  <2>2. f # << >> => 1 \in 1..Len(f) /\ Head(f) = f[1]
    OBVIOUS
  <2>. QED
    BY <1>3, <2>1, <2>2, Zenon DEF Shaped
<1>. QED
  BY <1>1, <1>6, <1>8, <1>9, <1>11, <1>12, Zenon

\* A goroutine goes to l, in the same call or in one that it makes.
LEMMA MovesFacts ==
  ASSUME Stacks, NEW p \in Procs, stack[p] # << >>, NEW l \in Labels, NEW c \in Callers,
         Goto(p, l) \/ Call(p, c, l)
  PROVE  Stacks' /\ Moves(p, l)
<1>1. stack \in [Procs -> Seq(Labels)] /\ Shaped(stack[p]) /\ stack[p] \in Seq(Labels)
  BY Zenon DEF Stacks
<1>2. PICK t \in Seq(Labels) : stack' = [stack EXCEPT ![p] = t] /\ Shaped(t) /\ t # << >> /\ Head(t) = l
  <2>1. CASE Goto(p, l)
    BY <1>1, <2>1, StackFacts, Zenon DEF Goto
  <2>2. CASE Call(p, c, l)
    BY <1>1, <2>2, StackFacts, ZenonT(30) DEF Call
  <2>. QED
    BY <2>1, <2>2, Zenon
<1>3. stack' \in [Procs -> Seq(Labels)] /\ stack'[p] = t /\ \A q \in Procs \ {p} : stack'[q] = stack[q]
  BY <1>1, <1>2, Zenon
<1>4. \A q \in Procs : Shaped(stack'[q])
  BY <1>2, <1>3, Zenon DEF Stacks
<1>5. Stacks'
  BY <1>3, <1>4, Zenon DEF Stacks, Shaped
<1>. QED
  BY <1>2, <1>3, <1>5, Zenon DEF Moves

\* A call returns to the one that waits for it, if there is one.
LEMMA EndsFacts ==
  ASSUME Stacks, NEW p \in Procs, stack[p] # << >>, Return(p)
  PROVE  Stacks' /\ Ends(p)
<1>1. stack \in [Procs -> Seq(Labels)] /\ Shaped(stack[p]) /\ stack[p] \in Seq(Labels)
  BY Zenon DEF Stacks
<1>2. "scan" \in Labels /\ "self" \in Callers
  BY Zenon DEF Labels, Callers
<1>3. PICK t \in Seq(Labels) : /\ stack' = [stack EXCEPT ![p] = t] /\ Shaped(t)
                               /\ t # << >> => Head(t) \in Callers
  BY <1>1, <1>2, StackFacts, Zenon DEF Return
<1>4. stack' \in [Procs -> Seq(Labels)] /\ stack'[p] = t /\ \A q \in Procs \ {p} : stack'[q] = stack[q]
  BY <1>1, <1>3, Zenon
<1>5. \A q \in Procs : Shaped(stack'[q])
  BY <1>3, <1>4, Zenon DEF Stacks
<1>6. Stacks'
  BY <1>4, <1>5, Zenon DEF Stacks, Shaped
<1>. QED
  BY <1>3, <1>4, <1>6, Zenon DEF Ends

-----------------------------------------------------------------------------
(* The invariant of refreshes. *)

\* Where a refresh is about to bond with the nursery.
Seeding == {"scan", "seeds", "next", "key", "release", "bond"}

\* A refresh that is past its bonds has left a node in the table.
Seeded ==
  \A p \in Procs :
    stack[p] # << >> /\ Nursery \cap alive # {} =>
      table # {} \/ dropped[p] \/ Head(stack[p]) \in Seeding

\* The keys that an iterator has left.
Ahead(it) == {e[2] : e \in it}

\* Without an overlap: one goroutine uses the iterator, which is there as long as
\* it is used; what is owed lies ahead of the iterator, or is where it stands and
\* is about to be read; a batch without a seed means that nothing lies ahead.
Exclusive ==
  ~overlap =>
    /\ ~panic
    /\ \A p, q \in Procs : InQuery(p) /\ InQuery(q) => p = q
    /\ \A p \in Procs : InQuery(p) => seeder # Nil
    /\ \A p \in Procs : At(p, "key") => current # NoKey
    /\ \A p \in Procs : At(p, "release") /\ batch[p] = << >> => seeder = {}
    /\ seeder # Nil =>
         \A n \in owed : n \in Ahead(seeder) \/ (n = current /\ \E p \in Procs : At(p, "key"))

RefreshInv == TypeOK /\ Stacks /\ Seeded /\ Exclusive

\* What a step does: it keeps the invariant, a refresh that ends has seeded the
\* table, and an iterator that is released owes nothing.
Safe ==
  /\ RefreshInv'
  /\ \A p \in Procs :
       stack[p] # << >> /\ stack'[p] = << >> /\ Nursery \cap alive # {} => table # {} \/ dropped[p]
  /\ ~overlap' /\ seeder # Nil /\ seeder' = Nil => owed = {}

\* Where p is not, as it is somewhere else.
LEMMA Elsewhere ==
  ASSUME NEW p \in Procs, NEW l, At(p, l), l \notin {"next", "key", "release"}
  PROVE  ~InQuery(p)
  BY Zenon DEF At, InQuery

\* Goroutines that do not move stay where they are.
LEMMA Stay ==
  ASSUME NEW q, stack'[q] = stack[q]
  PROVE  (InQuery(q)' <=> InQuery(q)) /\ \A l : At(q, l)' <=> At(q, l)
  BY Zenon DEF At, InQuery

\* A step of p that leaves the iterator alone.
LEMMA Aside ==
  ASSUME RefreshInv, TypeOK', Stacks', NEW p \in Procs, ~InQuery(p), ~InQuery(p)',
         \A q \in Procs \ {p} : /\ stack'[q] = stack[q] /\ batch'[q] = batch[q]
                                /\ dropped'[q] = dropped[q],
         UNCHANGED <<alive, seeder, current, owed, overlap, panic>>, table \subseteq table',
         Nursery \cap alive # {} =>
           /\ stack'[p] # << >> => table' # {} \/ dropped'[p] \/ Head(stack'[p]) \in Seeding
           /\ stack[p] # << >> /\ stack'[p] = << >> => table # {} \/ dropped[p]
  PROVE  Safe
<1>1. Seeded'
  BY Zenon DEF RefreshInv, Seeded
<1>2. \A q \in Procs : InQuery(q)' => q # p /\ InQuery(q)
  BY Stay, Zenon
<1>3. \A q \in Procs : \A l \in {"next", "key", "release"} : At(q, l)' <=> At(q, l)
  <2>1. ASSUME NEW l \in {"next", "key", "release"} PROVE ~At(p, l) /\ ~At(p, l)'
    BY <2>1, Zenon DEF InQuery
  <2>. QED
    BY <2>1, Stay, Zenon
<1>4. \A q \in Procs : At(q, "release")' => batch'[q] = batch[q]
  <2>1. \A q \in Procs : At(q, "release")' => InQuery(q)'
    BY Zenon DEF InQuery
  <2>. QED
    BY <1>2, <2>1, Zenon
<1>5. Exclusive'
  <2>. SUFFICES ASSUME ~overlap'
       PROVE /\ ~panic'
             /\ \A r, q \in Procs : InQuery(r)' /\ InQuery(q)' => r = q
             /\ \A q \in Procs : InQuery(q)' => seeder' # Nil
             /\ \A q \in Procs : At(q, "key")' => current' # NoKey
             /\ \A q \in Procs : At(q, "release")' /\ batch'[q] = << >> => seeder' = {}
             /\ seeder' # Nil =>
                  \A n \in owed' : n \in Ahead(seeder') \/ (n = current' /\ \E q \in Procs : At(q, "key")')
    BY Zenon DEF Exclusive, Nil
  <2>1. /\ ~panic
        /\ \A r, q \in Procs : InQuery(r) /\ InQuery(q) => r = q
        /\ \A q \in Procs : InQuery(q) => seeder # Nil
        /\ \A q \in Procs : At(q, "key") => current # NoKey
        /\ \A q \in Procs : At(q, "release") /\ batch[q] = << >> => seeder = {}
        /\ seeder # Nil =>
             \A n \in owed : n \in Ahead(seeder) \/ (n = current /\ \E q \in Procs : At(q, "key"))
    BY Zenon DEF RefreshInv, Exclusive
  <2>2. ~panic' /\ \A r, q \in Procs : InQuery(r)' /\ InQuery(q)' => r = q
    BY <1>2, <2>1, Zenon
  <2>3. \A q \in Procs : InQuery(q)' => seeder' # Nil
    BY <1>2, <2>1, Zenon
  <2>4. \A q \in Procs : At(q, "key")' => current' # NoKey
    BY <1>3, <2>1, Zenon
  <2>5. \A q \in Procs : At(q, "release")' /\ batch'[q] = << >> => seeder' = {}
    BY <1>3, <1>4, <2>1, Zenon
  <2>6. seeder' # Nil =>
          \A n \in owed' : n \in Ahead(seeder') \/ (n = current' /\ \E q \in Procs : At(q, "key")')
    BY <1>3, <2>1, Zenon
  <2>. QED
    BY <2>2, <2>3, <2>4, <2>5, <2>6, Zenon
<1>. QED
  BY <1>1, <1>5, Zenon DEF Safe, RefreshInv

\* The steps of refresh and Lookup outside querySeeds.
LEMMA CallSteps ==
  ASSUME RefreshInv, NEW p \in Procs,
         \/ Begin(p) \/ Scan(p) \/ AfterRandom(p) \/ BondAll(p) \/ AfterSelf(p)
         \/ LookupStart(p) \/ LookupNil(p) \/ \E ns \in SUBSET alive : SearchReturns(p, ns)
  PROVE  Safe
<1>. DEFINE Labels0 == {"next", "key", "release"}
<1>1. TypeOK /\ Stacks
  BY Zenon DEF RefreshInv
<1>2. ASSUME NEW l, Moves(p, l), l \notin Labels0 PROVE ~InQuery(p)'
  BY <1>2, Zenon DEF Moves, InQuery, At
<1>3. ASSUME Ends(p) PROVE ~InQuery(p)'
  BY <1>3, Zenon DEF Ends, InQuery, At, Callers
<1>4. ASSUME NEW l, At(p, l), l \notin Labels0 \cup Seeding, Nursery \cap alive # {}
      PROVE  table # {} \/ dropped[p]
  BY <1>4, Zenon DEF RefreshInv, Seeded, At
<1>5. /\ "seeds" \in Labels /\ "start" \in Labels /\ "search" \in Labels /\ "scan" \in Labels
      /\ "random" \in Callers /\ "self" \in Callers /\ "refresh" \in Callers
      /\ "seeds" \in Seeding /\ "scan" \in Seeding
      /\ {"random", "self", "start", "search", "refresh"} \cap (Labels0 \cup Seeding) = {}
      /\ {"seeds", "start", "search", "scan", "bond"} \cap Labels0 = {}
  BY Zenon DEF Labels, Callers, Seeding
<1>6. CASE Begin(p)
  <2>1. /\ stack[p] = << >> /\ stack' = [stack EXCEPT ![p] = <<"scan">>]
        /\ dropped' = [dropped EXCEPT ![p] = FALSE] /\ calls < MaxCalls /\ calls' = calls + 1
        /\ UNCHANGED <<alive, table, store, seeder, current, batch, owed, found, panic,
                       drops, expiries, overlap>>
    BY <1>6, Zenon DEF Begin, seedVars, boundVars
  <2>2. <<"scan">> \in Seq(Labels) /\ <<"scan">> # << >> /\ Shaped(<<"scan">>) /\ Head(<<"scan">>) = "scan"
    BY <1>5 DEF Shaped
  <2>3. stack' \in [Procs -> Seq(Labels)] /\ stack'[p] = <<"scan">>
        /\ \A q \in Procs \ {p} : stack'[q] = stack[q]
    BY <1>1, <2>1, <2>2, Zenon DEF Stacks
  <2>4. Stacks'
    BY <1>1, <2>2, <2>3, Zenon DEF Stacks, Shaped
  <2>5. calls' \in 0..MaxCalls
    BY <1>1, <2>1, RefreshAssumption DEF TypeOK
  <2>6. TypeOK'
    BY <1>1, <2>1, <2>3, <2>5, Zenon DEF TypeOK, Nil
  <2>7. ~InQuery(p) /\ Moves(p, "scan")
    BY <2>1, <2>2, <2>3, Zenon DEF InQuery, At, Moves
  <2>8. \A q \in Procs \ {p} : dropped'[q] = dropped[q]
    BY <1>1, <2>1, Zenon DEF TypeOK
  <2>. QED
    BY <1>2, <1>5, <2>1, <2>3, <2>4, <2>6, <2>7, <2>8, Aside, Zenon DEF Moves
<1>7. CASE Scan(p)
  <2>1. /\ At(p, "scan") /\ dropped' = [dropped EXCEPT ![p] = FALSE]
        /\ UNCHANGED <<alive, table, store, seeder, current, batch, owed, found, calls, panic,
                       drops, expiries, overlap>>
    BY <1>7, Zenon DEF Scan, seedVars, boundVars
  <2>2. ~InQuery(p) /\ stack[p] # << >>
    BY <1>5, <2>1, Elsewhere, Zenon DEF At
  <2>3. /\ Stacks' /\ \E l \in {"start", "seeds"} : Moves(p, l)
        /\ table = {} => Moves(p, "seeds")
    BY <1>1, <1>5, <1>7, <2>2, MovesFacts, Zenon DEF Scan
  <2>4. TypeOK'
    BY <1>1, <2>1, <2>3, Zenon DEF TypeOK, Stacks, Nil
  <2>5. \A q \in Procs \ {p} : dropped'[q] = dropped[q]
    BY <1>1, <2>1, Zenon DEF TypeOK
  <2>6. ~InQuery(p)'
    BY <1>2, <1>5, <2>3, Zenon
  <2>. QED
    BY <1>5, <2>1, <2>2, <2>3, <2>4, <2>5, <2>6, Aside, Zenon DEF Moves
<1>8. CASE BondAll(p)
  <2>1. /\ At(p, "bond") /\ table' = table \cup Bonded(p) /\ store' = store \cup Bonded(p)
        /\ batch' = [batch EXCEPT ![p] = << >>] /\ dropped' = [dropped EXCEPT ![p] = FALSE]
        /\ UNCHANGED <<alive, seeder, current, owed, found, calls, panic, drops, expiries, overlap>>
    BY <1>8, Zenon DEF BondAll, boundVars
  <2>2. ~InQuery(p) /\ stack[p] # << >>
    BY <1>5, <2>1, Elsewhere, Zenon DEF At
  <2>3. Stacks' /\ IF Bonded(p) # {} THEN Moves(p, "start") ELSE Ends(p)
    BY <1>1, <1>5, <1>8, <2>2, MovesFacts, EndsFacts, Zenon DEF BondAll
  <2>4. Nursery \cap alive \subseteq Bonded(p)
    BY Zenon DEF Bonded
  <2>5. Bonded(p) \subseteq Nodes
    <3>1. batch[p] \in Seq(Nodes)
      BY <1>1, Zenon DEF TypeOK
    <3>2. Range(batch[p]) \subseteq Nodes
      BY <3>1 DEF Range
    <3>. QED
      BY <3>2, RefreshAssumption, Zenon DEF Bonded
  <2>6. << >> \in Seq(Nodes)
    OBVIOUS
  <2>7. TypeOK'
    <3>1. table' \subseteq Nodes /\ store' \subseteq AllNodes
      BY <1>1, <2>1, <2>5, Zenon DEF TypeOK, AllNodes
    <3>. QED
      BY <1>1, <2>1, <2>3, <2>6, <3>1, Zenon DEF TypeOK, Stacks, Nil
  <2>8. \A q \in Procs \ {p} : /\ stack'[q] = stack[q] /\ batch'[q] = batch[q]
                               /\ dropped'[q] = dropped[q]
    BY <1>1, <2>1, <2>3, Zenon DEF TypeOK, Moves, Ends
  <2>9. ~InQuery(p)'
    BY <1>2, <1>3, <1>5, <2>3, Zenon
  <2>10. Nursery \cap alive # {} => table' # {} /\ stack'[p] # << >>
    BY <2>1, <2>3, <2>4, Zenon DEF Moves
  <2>. QED
    BY <2>1, <2>2, <2>3, <2>7, <2>8, <2>9, <2>10, Aside, Zenon
<1>9. ASSUME NEW l \in {"random", "self", "start", "search", "refresh"}, At(p, l),
             TypeOK', Stacks', Ends(p) \/ Moves(p, "seeds") \/ Moves(p, "scan") \/ Moves(p, "search"),
             UNCHANGED <<alive, seeder, current, batch, owed, overlap, panic, dropped>>,
             table \subseteq table'
      PROVE  Safe
  <2>1. ~InQuery(p)
    BY <1>5, <1>9, Elsewhere, Zenon
  <2>2. Nursery \cap alive # {} => table # {} \/ dropped[p]
    BY <1>4, <1>5, <1>9, Zenon
  <2>3. ~InQuery(p)' /\ \A q \in Procs \ {p} : stack'[q] = stack[q]
    BY <1>2, <1>3, <1>5, <1>9, Zenon DEF Moves, Ends
  <2>. QED
    BY <1>9, <2>1, <2>2, <2>3, Aside, Zenon
<1>10. CASE AfterRandom(p) \/ AfterSelf(p) \/ LookupNil(p)
  <2>1. PICK l \in {"random", "self", "refresh"} : At(p, l)
    BY <1>10, Zenon DEF AfterRandom, AfterSelf, LookupNil
  <2>2. /\ found' = [found EXCEPT ![p] = FALSE]
        /\ UNCHANGED <<alive, table, store, seeder, current, batch, owed, calls, panic,
                       drops, expiries, overlap, dropped>>
    BY <1>10, Zenon DEF AfterRandom, AfterSelf, LookupNil, seedVars, boundVars
  <2>3. stack[p] # << >>
    BY <2>1, Zenon DEF At
  <2>4. Stacks' /\ (Ends(p) \/ Moves(p, "seeds"))
    BY <1>1, <1>5, <1>10, <2>3, MovesFacts, EndsFacts, Zenon DEF AfterRandom, AfterSelf, LookupNil
  <2>5. TypeOK'
    BY <1>1, <2>2, <2>4, Zenon DEF TypeOK, Stacks, Nil
  <2>. QED
    BY <1>9, <2>1, <2>2, <2>4, <2>5, Zenon
<1>11. CASE LookupStart(p)
  <2>1. At(p, "start") /\ stack[p] # << >>
    BY <1>11, Zenon DEF LookupStart, At
  <2>2. UNCHANGED <<alive, table, store, seeder, current, batch, owed, found, calls, panic,
                    drops, expiries, overlap, dropped>>
    BY <1>11, Zenon DEF LookupStart, seedVars, boundVars
  <2>3. Stacks' /\ (Moves(p, "scan") \/ Moves(p, "search"))
    BY <1>1, <1>5, <1>11, <2>1, MovesFacts, Zenon DEF LookupStart
  <2>4. TypeOK'
    BY <1>1, <2>2, <2>3, Zenon DEF TypeOK, Stacks, Nil
  <2>. QED
    BY <1>9, <2>1, <2>2, <2>3, <2>4, Zenon
<1>12. CASE \E ns \in SUBSET alive : SearchReturns(p, ns)
  <2>1. PICK ns \in SUBSET alive : SearchReturns(p, ns)
    BY <1>12, Zenon
  <2>2. /\ At(p, "search") /\ Return(p) /\ found' = [found EXCEPT ![p] = TRUE]
        /\ table' = table \cup ns /\ store' = store \cup ns
        /\ UNCHANGED <<alive, seeder, current, batch, owed, calls, panic, drops, expiries,
                       overlap, dropped>>
    BY <2>1, Zenon DEF SearchReturns, seedVars, boundVars
  <2>3. Stacks' /\ Ends(p)
    BY <1>1, <2>2, EndsFacts, Zenon DEF At
  <2>4. table' \subseteq Nodes /\ store' \subseteq AllNodes
    BY <1>1, <2>2, Zenon DEF TypeOK, AllNodes
  <2>5. TypeOK'
    BY <1>1, <2>2, <2>3, <2>4, Zenon DEF TypeOK, Stacks, Nil
  <2>6. table \subseteq table'
    BY <2>2, Zenon
  <2>. QED
    BY <1>9, <2>2, <2>3, <2>5, <2>6, Zenon
<1>. QED
  BY <1>6, <1>7, <1>8, <1>10, <1>11, <1>12, Zenon

\* A step of querySeeds, by p: without an overlap only p uses the iterator, and
\* what is left to show is about p.
LEMMA QuerySeeds ==
  ASSUME RefreshInv, TypeOK', Stacks', NEW p \in Procs, NEW l \in {"next", "key", "release", "bond"},
         stack[p] # << >>, stack'[p] # << >>,
         Head(stack'[p]) \in Seeding,
         \A q \in Procs \ {p} : stack'[q] = stack[q] /\ batch'[q] = batch[q],
         UNCHANGED <<alive, table, dropped>>,
         ~overlap' =>
           /\ ~panic' /\ Moves(p, l) /\ \A q \in Procs \ {p} : ~InQuery(q)
           /\ l # "bond" => seeder' # Nil
           /\ l = "key" => current' # NoKey
           /\ l = "release" /\ batch'[p] = << >> => seeder' = {}
           /\ seeder' # Nil => \A n \in owed' : n \in Ahead(seeder') \/ (n = current' /\ l = "key"),
         ~overlap' /\ seeder # Nil /\ seeder' = Nil => owed = {}
  PROVE  Safe
<1>1. Seeded'
  BY Zenon DEF RefreshInv, Seeded
<1>2. Exclusive'
  <2>. SUFFICES ASSUME ~overlap'
       PROVE /\ ~panic'
             /\ \A r, q \in Procs : InQuery(r)' /\ InQuery(q)' => r = q
             /\ \A q \in Procs : InQuery(q)' => seeder' # Nil
             /\ \A q \in Procs : At(q, "key")' => current' # NoKey
             /\ \A q \in Procs : At(q, "release")' /\ batch'[q] = << >> => seeder' = {}
             /\ seeder' # Nil =>
                  \A n \in owed' : n \in Ahead(seeder') \/ (n = current' /\ \E q \in Procs : At(q, "key")')
    BY Zenon DEF Exclusive, Nil
  <2>1. /\ ~panic' /\ Moves(p, l) /\ \A q \in Procs \ {p} : ~InQuery(q)
        /\ l # "bond" => seeder' # Nil
        /\ l = "key" => current' # NoKey
        /\ l = "release" /\ batch'[p] = << >> => seeder' = {}
        /\ seeder' # Nil => \A n \in owed' : n \in Ahead(seeder') \/ (n = current' /\ l = "key")
    BY Zenon
  <2>2. \A q \in Procs : InQuery(q)' => q = p
    BY <2>1, Stay, Zenon
  <2>3. InQuery(p)' => l # "bond"
    BY <2>1, Zenon DEF InQuery, At, Moves
  <2>4. \A k : At(p, k)' <=> k = l
    BY <2>1, Zenon DEF At, Moves
  <2>5. \A q \in Procs : (At(q, "key")' => InQuery(q)') /\ (At(q, "release")' => InQuery(q)')
    BY Zenon DEF InQuery
  <2>6. \A q \in Procs : InQuery(q)' => seeder' # Nil
    BY <2>1, <2>2, <2>3, Zenon
  <2>7. \A q \in Procs : At(q, "key")' => current' # NoKey
    BY <2>1, <2>2, <2>4, <2>5, Zenon
  <2>8. \A q \in Procs : At(q, "release")' /\ batch'[q] = << >> => seeder' = {}
    BY <2>1, <2>2, <2>4, <2>5, Zenon
  <2>9. seeder' # Nil =>
          \A n \in owed' : n \in Ahead(seeder') \/ (n = current' /\ \E q \in Procs : At(q, "key")')
    BY <2>1, <2>4, Zenon
  <2>. QED
    BY <2>1, <2>2, <2>6, <2>7, <2>8, <2>9, Zenon
<1>3. \A q \in Procs : stack[q] # << >> => stack'[q] # << >>
  BY Zenon
<1>. QED
  BY <1>1, <1>2, <1>3, Zenon DEF Safe, RefreshInv

\* Where p is in querySeeds, and nothing overlaps: no other goroutine is, and the
\* iterator is as p needs it.
LEMMA Alone ==
  ASSUME RefreshInv, ~overlap, NEW p \in Procs, InQuery(p)
  PROVE  /\ \A q \in Procs \ {p} : ~InQuery(q)
         /\ seeder # Nil /\ seeder \subseteq Int \X AllKeys /\ ~panic
         /\ At(p, "key") => current # NoKey
         /\ At(p, "release") /\ batch[p] = << >> => seeder = {}
         /\ \A n \in owed : n \in Ahead(seeder) \/ (n = current /\ At(p, "key"))
<1>1. /\ ~panic
      /\ \A r, q \in Procs : InQuery(r) /\ InQuery(q) => r = q
      /\ \A q \in Procs : InQuery(q) => seeder # Nil
      /\ \A q \in Procs : At(q, "key") => current # NoKey
      /\ \A q \in Procs : At(q, "release") /\ batch[q] = << >> => seeder = {}
      /\ seeder # Nil =>
           \A n \in owed : n \in Ahead(seeder) \/ (n = current /\ \E q \in Procs : At(q, "key"))
  BY Zenon DEF RefreshInv, Exclusive
<1>2. \A q \in Procs : At(q, "key") => q = p
  <2>1. \A q \in Procs : At(q, "key") => InQuery(q)
    BY Zenon DEF InQuery
  <2>. QED
    BY <1>1, <2>1, Zenon
<1>3. seeder # Nil => seeder \subseteq Int \X AllKeys
  BY Zenon DEF RefreshInv, TypeOK
<1>. QED
  BY <1>1, <1>2, <1>3, Zenon

\* An iterator over keys is not the nil iterator.
LEMMA NotNil == \A S \in SUBSET (Int \X AllKeys) : S # Nil
<1>1. <<0, NoKey>> \notin Int \X AllKeys
  BY RefreshAssumption
<1>. QED
  BY <1>1, Zenon DEF Nil

\* The iterator gives every key that it does not pass over (badger.go dbIterator).
LEMMA IteratorGives ==
  ASSUME NEW S \in SUBSET AllKeys, NEW k \in S \ PassedOver(S)
  PROVE  k \in Ahead(NewIterator(S))
<1>. DEFINE Upto == {j \in S : Order(j) <= Order(k)}
            c == Cardinality(S)
            pl == Place(k, S)
<1>1. IsFiniteSet(S) /\ c \in Nat
  BY RefreshAssumption, FS_Subset, FS_CardinalityType
<1>2. k \in Upto /\ Upto \subseteq S
  BY RefreshAssumption
<1>3. pl \in 1..c
  <2>1. IsFiniteSet(Upto) /\ Cardinality(Upto) <= c /\ Cardinality(Upto) \in Nat
    BY <1>1, <1>2, FS_Subset, FS_CardinalityType
  <2>2. Cardinality(Upto) # 0
    BY <1>2, <2>1, FS_EmptySet
  <2>. QED
    BY <1>1, <2>1, <2>2 DEF Place
<1>4. pl > Prefetch \/ pl + Prefetch > c
  BY <1>1, <1>3, PrefetchAssumption DEF PassedOver
<1>5. \E t : t \in Turns(pl, c)
  <2>1. CASE pl + Prefetch > c
    <3>1. pl \in Turns(pl, c)
      BY <1>1, <1>3, <2>1, PrefetchAssumption DEF Turns, Given
    <3>. QED
      BY <3>1
  <2>2. CASE pl > Prefetch
    <3>1. pl - Prefetch \in Turns(pl, c)
      BY <1>1, <1>3, <2>2, PrefetchAssumption DEF Turns, Given
    <3>. QED
      BY <3>1
  <2>. QED
    BY <1>1, <1>3, <1>4, <2>1, <2>2, PrefetchAssumption
<1>6. PICK t : t \in Turns(pl, c)
  BY <1>5
<1>7. <<t, k>> \in NewIterator(S)
  BY <1>6 DEF NewIterator
<1>. QED
  BY <1>7 DEF Ahead

\* An iterator consists of turns and keys.
LEMMA IteratorType ==
  ASSUME NEW S \in SUBSET AllKeys
  PROVE  NewIterator(S) \subseteq Int \X AllKeys
  BY DEF NewIterator, Turns

\* querySeeds begins.
LEMMA BeginStep ==
  ASSUME RefreshInv, NEW p \in Procs, SeedsBegin(p)
  PROVE  Safe
<1>1. TypeOK /\ Stacks
  BY Zenon DEF RefreshInv
<1>2. /\ At(p, "seeds") /\ Goto(p, "next") /\ batch' = [batch EXCEPT ![p] = << >>]
      /\ overlap' = (overlap \/ \E q \in Procs : InQuery(q))
      /\ \/ seeder = Nil /\ NewSeeder
         \/ seeder # Nil /\ UNCHANGED <<seeder, current, owed>>
      /\ UNCHANGED <<alive, table, store, found, calls, panic, drops, expiries, dropped>>
  BY Zenon DEF SeedsBegin, boundVars
<1>3. stack[p] # << >> /\ "next" \in Labels /\ "next" \in Seeding
  BY <1>2, Zenon DEF At, Labels, Seeding
<1>4. Stacks' /\ Moves(p, "next")
  <2>1. "self" \in Callers
    BY Zenon DEF Callers
  <2>. QED
    BY <1>1, <1>2, <1>3, <2>1, MovesFacts, Zenon
<1>5. store \subseteq AllNodes /\ store \ {Self} \subseteq Nodes /\ << >> \in Seq(Nodes)
  <2>1. << >> \in Seq(Nodes)
    OBVIOUS
  <2>. QED
    BY <1>1, <2>1, Zenon DEF TypeOK, AllNodes
<1>6. ASSUME NewSeeder
      PROVE  /\ seeder' \subseteq Int \X AllKeys /\ current' = NoKey
             /\ owed' \subseteq store \ {Self} /\ owed' \subseteq Ahead(seeder')
  <2>1. PICK S \in Snapshots :
          /\ seeder' = NewIterator(S) /\ current' = NoKey
          /\ owed' = store \ ({Self} \cup PassedOver(S))
    BY <1>6, Zenon DEF NewSeeder
  <2>2. S \subseteq AllKeys /\ store \subseteq S
    BY <1>5 DEF Snapshots, AllKeys
  <2>3. owed' \subseteq store \ {Self} /\ owed' \subseteq S \ PassedOver(S)
    BY <2>1, <2>2, Zenon
  <2>. QED
    BY <2>1, <2>2, <2>3, IteratorType, IteratorGives, Zenon
<1>7. TypeOK'
  <2>1. overlap' \in BOOLEAN
    BY <1>2, Zenon
  <2>2. /\ seeder' = Nil \/ seeder' \subseteq Int \X AllKeys
        /\ current' \in AllKeys \cup {NoKey} /\ owed' \subseteq Nodes
    BY <1>1, <1>2, <1>5, <1>6, Zenon DEF TypeOK
  <2>3. batch' \in [Procs -> Seq(Nodes)] /\ stack' \in [Procs -> Seq(Labels)]
    BY <1>1, <1>2, <1>4, <1>5, Zenon DEF TypeOK, Stacks
  <2>. QED
    BY <1>1, <1>2, <2>1, <2>2, <2>3, Zenon DEF TypeOK, Nil
<1>8. \A q \in Procs \ {p} : stack'[q] = stack[q] /\ batch'[q] = batch[q]
  BY <1>1, <1>2, <1>4, Zenon DEF TypeOK, Moves
<1>9. seeder' # Nil
  BY <1>2, <1>6, NotNil, Zenon
<1>10. ASSUME ~overlap' PROVE /\ ~panic' /\ \A q \in Procs : ~InQuery(q)
                             /\ \A n \in owed' : n \in Ahead(seeder')
  <2>1. ~overlap /\ \A q \in Procs : ~InQuery(q)
    BY <1>2, <1>10, Zenon
  <2>2. ~panic /\ (seeder # Nil => \A n \in owed : n \in Ahead(seeder) \/ \E q \in Procs : At(q, "key"))
    BY <2>1, Zenon DEF RefreshInv, Exclusive
  <2>3. \A q \in Procs : ~At(q, "key")
    BY <2>1, Zenon DEF InQuery
  <2>. QED
    BY <1>2, <1>6, <2>1, <2>2, <2>3, Zenon
<1>. QED
  BY <1>2, <1>3, <1>4, <1>7, <1>8, <1>9, <1>10, QuerySeeds, Zenon DEF Moves

\* The condition of the loop of querySeeds.
LEMMA NextStep ==
  ASSUME RefreshInv, NEW p \in Procs, SeedsNext(p)
  PROVE  Safe
<1>1. TypeOK /\ Stacks
  BY Zenon DEF RefreshInv
<1>2. /\ At(p, "next")
      /\ UNCHANGED <<alive, table, store, batch, owed, found, calls, drops, expiries,
                     overlap, dropped>>
  BY Zenon DEF SeedsNext, boundVars
<1>3. /\ stack[p] # << >> /\ InQuery(p) /\ ~At(p, "key")
      /\ Head(stack[p]) \in Seeding
  BY <1>2, Zenon DEF At, InQuery, Seeding
<1>4. /\ {"key", "release"} \subseteq Labels \cap Seeding /\ "self" \in Callers
  BY Zenon DEF Labels, Seeding, Callers
<1>5. ASSUME ~overlap'
      PROVE  /\ \A q \in Procs \ {p} : ~InQuery(q)
             /\ seeder # Nil /\ ~panic /\ \A n \in owed : n \in Ahead(seeder)
  BY <1>2, <1>3, <1>5, Alone, Zenon
<1>6. CASE seeder = Nil /\ Panic /\ UNCHANGED <<stack, seeder, current>>
  <2>1. TypeOK'
    BY <1>1, <1>2, <1>6, Zenon DEF TypeOK, Nil, Panic
  <2>2. Stacks'
    BY <1>1, <1>6, Zenon DEF Stacks, Shaped
  <2>3. overlap'
    BY <1>5, <1>6, Zenon
  <2>. QED
    BY <1>2, <1>3, <1>6, <2>1, <2>2, <2>3, QuerySeeds, Zenon
<1>7. CASE seeder # Nil /\ Advance /\ Goto(p, "key") /\ UNCHANGED panic
  <2>1. PICK e \in seeder : current' = e[2] /\ seeder' = seeder \ {e}
    BY <1>7, Zenon DEF Advance
  <2>2. seeder \subseteq Int \X AllKeys /\ e[2] \in AllKeys /\ e[2] # NoKey
    <3>1. seeder \subseteq Int \X AllKeys
      BY <1>1, <1>7, Zenon DEF TypeOK
    <3>. QED
      BY <2>1, <3>1, RefreshAssumption
  <2>3. Stacks' /\ Moves(p, "key")
    BY <1>1, <1>3, <1>4, <1>7, MovesFacts, Zenon
  <2>4. seeder' \subseteq Int \X AllKeys /\ current' \in AllKeys \cup {NoKey}
    BY <2>1, <2>2, Zenon
  <2>5. TypeOK'
    BY <1>1, <1>2, <1>7, <2>3, <2>4, Zenon DEF TypeOK, Stacks, Nil
  <2>6. seeder' # Nil
    BY <2>4, NotNil, Zenon
  <2>7. ASSUME ~overlap' PROVE \A m \in owed' : m \in Ahead(seeder') \/ m = current'
    BY <1>2, <1>5, <2>1, <2>7, Zenon DEF Ahead
  <2>8. \A q \in Procs \ {p} : stack'[q] = stack[q] /\ batch'[q] = batch[q]
    BY <1>2, <2>3, Zenon DEF Moves
  <2>. QED
    BY <1>2, <1>3, <1>4, <1>5, <1>7, <2>1, <2>2, <2>3, <2>5, <2>6, <2>7, <2>8,
       QuerySeeds, ZenonT(30) DEF Moves
<1>8. CASE /\ Len(batch[p]) = SeedCount \/ seeder = {}
           /\ Goto(p, "release") /\ UNCHANGED <<seeder, current, panic>>
  <2>1. Stacks' /\ Moves(p, "release")
    BY <1>1, <1>3, <1>4, <1>8, MovesFacts, Zenon
  <2>2. TypeOK'
    BY <1>1, <1>2, <1>8, <2>1, Zenon DEF TypeOK, Stacks, Nil
  <2>3. batch[p] = << >> => Len(batch[p]) # SeedCount
    <3>1. Len(<< >>) = 0 /\ SeedCount # 0
      BY RefreshAssumption, Zenon
    <3>. QED
      BY <3>1, Zenon
  <2>4. batch'[p] = << >> => seeder' = {}
    BY <1>2, <1>8, <2>3, Zenon
  <2>5. \A q \in Procs \ {p} : stack'[q] = stack[q] /\ batch'[q] = batch[q]
    BY <1>2, <2>1, Zenon DEF Moves
  <2>. QED
    BY <1>2, <1>3, <1>4, <1>5, <1>8, <2>1, <2>2, <2>4, <2>5, QuerySeeds, ZenonT(30) DEF Moves
<1>. QED
  BY <1>6, <1>7, <1>8, Zenon DEF SeedsNext

\* The body of the loop of querySeeds.
LEMMA KeyStep ==
  ASSUME RefreshInv, NEW p \in Procs, SeedsKey(p)
  PROVE  Safe
<1>1. TypeOK /\ Stacks
  BY Zenon DEF RefreshInv
<1>2. /\ At(p, "key")
      /\ UNCHANGED <<alive, table, seeder, current, found, calls, drops, expiries, overlap, dropped>>
  BY Zenon DEF SeedsKey, boundVars
<1>3. /\ stack[p] # << >> /\ InQuery(p) /\ Head(stack[p]) \in Seeding
      /\ "next" \in Labels /\ "next" \in Seeding /\ "self" \in Callers
  BY <1>2, Zenon DEF At, InQuery, Seeding, Labels, Callers
<1>4. ASSUME ~overlap'
      PROVE  /\ \A q \in Procs \ {p} : ~InQuery(q)
             /\ seeder # Nil /\ current # NoKey /\ ~panic
             /\ \A n \in owed : n \in Ahead(seeder) \/ n = current
  BY <1>2, <1>3, <1>4, Alone, Zenon
<1>5. CASE (seeder = Nil \/ current = NoKey) /\ Panic /\ UNCHANGED <<stack, store, batch, owed>>
  <2>1. TypeOK'
    BY <1>1, <1>2, <1>5, Zenon DEF TypeOK, Nil, Panic
  <2>2. Stacks'
    BY <1>1, <1>5, Zenon DEF Stacks, Shaped
  <2>3. overlap'
    BY <1>4, <1>5, Zenon
  <2>. QED
    BY <1>2, <1>3, <1>5, <2>1, <2>2, <2>3, QuerySeeds, Zenon
<1>6. CASE /\ Goto(p, "next") /\ store' \subseteq store /\ owed' = owed \ {current}
           /\ batch' = [batch EXCEPT ![p] = IF current \in store \ {Self}
                                            THEN Append(@, current) ELSE @]
           /\ UNCHANGED panic
  <2>1. Stacks' /\ Moves(p, "next")
    BY <1>1, <1>3, <1>6, MovesFacts, Zenon
  <2>2. PICK b \in Seq(Nodes) : batch' = [batch EXCEPT ![p] = b]
    <3>1. batch[p] \in Seq(Nodes) /\ (current \in store \ {Self} => current \in Nodes)
      BY <1>1, Zenon DEF TypeOK, AllNodes
    <3>2. current \in Nodes => Append(batch[p], current) \in Seq(Nodes)
      BY <3>1
    <3>3. CASE current \in store \ {Self}
      BY <1>6, <3>1, <3>2, <3>3, Zenon
    <3>4. CASE current \notin store \ {Self}
      BY <1>6, <3>1, <3>4, Zenon
    <3>. QED
      BY <3>3, <3>4, Zenon
  <2>3. batch' \in [Procs -> Seq(Nodes)] /\ \A q \in Procs \ {p} : batch'[q] = batch[q]
    BY <1>1, <2>2, Zenon DEF TypeOK
  <2>4. TypeOK'
    <3>1. store' \subseteq AllNodes /\ owed' \subseteq Nodes
      BY <1>1, <1>6, Zenon DEF TypeOK
    <3>. QED
      BY <1>1, <1>2, <1>6, <2>1, <2>3, <3>1, Zenon DEF TypeOK, Stacks, Nil
  <2>5. ASSUME ~overlap' PROVE \A n \in owed' : n \in Ahead(seeder')
    BY <1>2, <1>4, <1>6, <2>5, Zenon
  <2>6. \A q \in Procs \ {p} : stack'[q] = stack[q]
    BY <2>1, Zenon DEF Moves
  <2>. QED
    BY <1>2, <1>3, <1>4, <1>6, <2>1, <2>3, <2>4, <2>5, <2>6, QuerySeeds, Zenon DEF Moves
<1>7. (IF current = Self THEN Delete(Self) ELSE UNCHANGED store) => store' \subseteq store
  BY Zenon DEF Delete, Snapshots
<1>. QED
  BY <1>5, <1>6, <1>7, Zenon DEF SeedsKey

\* The end of querySeeds.
LEMMA ReleaseStep ==
  ASSUME RefreshInv, NEW p \in Procs, SeedsRelease(p)
  PROVE  Safe
<1>1. TypeOK /\ Stacks
  BY Zenon DEF RefreshInv
<1>2. /\ At(p, "release")
      /\ UNCHANGED <<alive, table, store, current, batch, owed, found, calls, drops, expiries,
                     overlap, dropped>>
  BY Zenon DEF SeedsRelease, boundVars
<1>3. /\ stack[p] # << >> /\ InQuery(p) /\ ~At(p, "key") /\ Head(stack[p]) \in Seeding
      /\ "bond" \in Labels /\ "bond" \in Seeding /\ "self" \in Callers
  BY <1>2, Zenon DEF At, InQuery, Seeding, Labels, Callers
<1>4. ASSUME ~overlap'
      PROVE  /\ \A q \in Procs \ {p} : ~InQuery(q)
             /\ seeder # Nil /\ ~panic
             /\ \A n \in owed : n \in Ahead(seeder)
             /\ batch[p] = << >> => seeder = {}
  BY <1>2, <1>3, <1>4, Alone, Zenon
<1>5. CASE seeder = Nil /\ Panic /\ UNCHANGED <<stack, seeder>>
  <2>1. TypeOK'
    BY <1>1, <1>2, <1>5, Zenon DEF TypeOK, Nil, Panic
  <2>2. Stacks'
    BY <1>1, <1>5, Zenon DEF Stacks, Shaped
  <2>3. overlap'
    BY <1>4, <1>5, Zenon
  <2>. QED
    BY <1>2, <1>3, <1>5, <2>1, <2>2, <2>3, QuerySeeds, Zenon
<1>6. CASE /\ Goto(p, "bond") /\ UNCHANGED panic
           /\ UNCHANGED seeder \/ (batch[p] = << >> /\ seeder' = Nil)
  <2>1. Stacks' /\ Moves(p, "bond")
    BY <1>1, <1>3, <1>6, MovesFacts, Zenon
  <2>2. TypeOK'
    BY <1>1, <1>2, <1>6, <2>1, Zenon DEF TypeOK, Stacks, Nil
  <2>3. \A q \in Procs \ {p} : stack'[q] = stack[q] /\ batch'[q] = batch[q]
    BY <1>2, <2>1, Zenon DEF Moves
  <2>4. ASSUME ~overlap' PROVE seeder' # Nil => \A n \in owed' : n \in Ahead(seeder')
    BY <1>2, <1>4, <1>6, <2>4, Zenon
  <2>5. ~overlap' /\ seeder # Nil /\ seeder' = Nil => owed = {}
    BY <1>4, <1>6, Zenon DEF Ahead
  <2>. QED
    BY <1>2, <1>3, <1>4, <1>6, <2>1, <2>2, <2>3, <2>4, <2>5, QuerySeeds, ZenonT(30) DEF Moves
<1>. QED
  BY <1>5, <1>6, Zenon DEF SeedsRelease

\* What goes on beside: no goroutine moves, and less may be owed.
LEMMA BesideStep ==
  ASSUME RefreshInv, (\E n \in Nodes : Drop(n)) \/ (\E n \in AllNodes : Expire(n)) \/ UNCHANGED vars
  PROVE  Safe
<1>1. TypeOK /\ Stacks /\ Seeded /\ Exclusive
  BY Zenon DEF RefreshInv
<1>2. UNCHANGED <<alive, seeder, current, batch, stack, found, calls, panic, overlap>>
      /\ owed' \subseteq owed
  BY Zenon DEF Drop, Expire, vars, seedVars, boundVars
<1>3. Stacks'
  BY <1>1, <1>2, Zenon DEF Stacks, Shaped
<1>4. Exclusive'
  BY <1>1, <1>2, Zenon DEF Exclusive, InQuery, At, Nil
<1>5. ASSUME TypeOK', Seeded' PROVE Safe
  BY <1>2, <1>3, <1>4, <1>5, Zenon DEF Safe, RefreshInv
<1>6. CASE \E n \in Nodes : Drop(n)
  <2>1. PICK n \in Nodes : Drop(n)
    BY <1>6, Zenon
  <2>2. /\ drops < MaxDrops /\ drops' = drops + 1 /\ table' = table \ {n}
        /\ dropped' = [q \in Procs |-> stack[q] # << >>] /\ UNCHANGED <<store, owed, expiries>>
    BY <2>1, Zenon DEF Drop, seedVars
  <2>3. drops' \in 0..MaxDrops
    BY <1>1, <2>2, RefreshAssumption DEF TypeOK
  <2>4. TypeOK'
    BY <1>1, <1>2, <2>2, <2>3, Zenon DEF TypeOK, Nil
  <2>5. Seeded'
    BY <1>2, <2>2, Zenon DEF Seeded
  <2>. QED
    BY <1>5, <2>4, <2>5, Zenon
<1>7. CASE \E n \in AllNodes : Expire(n)
  <2>1. PICK n \in AllNodes : Expire(n)
    BY <1>7, Zenon
  <2>2. /\ expiries < MaxExpiries /\ expiries' = expiries + 1 /\ store' \subseteq store
        /\ owed' \subseteq owed /\ UNCHANGED <<table, drops, dropped>>
    BY <2>1, Zenon DEF Expire, Delete
  <2>3. expiries' \in 0..MaxExpiries
    BY <1>1, <2>2, RefreshAssumption DEF TypeOK
  <2>4. TypeOK'
    BY <1>1, <1>2, <2>2, <2>3, Zenon DEF TypeOK, Nil
  <2>5. Seeded'
    BY <1>1, <1>2, <2>2, Zenon DEF Seeded
  <2>. QED
    BY <1>5, <2>4, <2>5, Zenon
<1>8. CASE UNCHANGED vars
  <2>1. UNCHANGED <<table, store, owed, drops, expiries, dropped>>
    BY <1>8, Zenon DEF vars, seedVars, boundVars
  <2>2. TypeOK' /\ Seeded'
    BY <1>1, <1>2, <2>1, Zenon DEF TypeOK, Seeded, Nil
  <2>. QED
    BY <1>5, <2>2, Zenon
<1>. QED
  BY <1>6, <1>7, <1>8, Zenon

\* The invariant holds before the first refresh.
LEMMA RefreshBegin == Init => RefreshInv
<1>. SUFFICES ASSUME Init PROVE RefreshInv
  OBVIOUS
<1>1. << >> \in Seq(Labels) /\ << >> \in Seq(Nodes) /\ Shaped(<< >>)
  BY DEF Shaped
<1>2. 0 \in 0..MaxCalls /\ 0 \in 0..MaxDrops /\ 0 \in 0..MaxExpiries
  BY RefreshAssumption
<1>3. Stored \subseteq AllNodes
  BY RefreshAssumption, Zenon
<1>4. TypeOK
  BY <1>1, <1>2, <1>3, Zenon DEF Init, TypeOK
<1>5. Stacks
  BY <1>1, Zenon DEF Init, Stacks
<1>6. \A p \in Procs : stack[p] = << >>
  BY Zenon DEF Init
<1>7. \A p \in Procs : ~InQuery(p) /\ \A l : ~At(p, l)
  BY <1>6, Zenon DEF InQuery, At
<1>8. Seeded
  BY <1>6, Zenon DEF Seeded
<1>9. Exclusive
  BY <1>7, Zenon DEF Init, Exclusive
<1>. QED
  BY <1>4, <1>5, <1>8, <1>9, Zenon DEF RefreshInv

\* Every step of every goroutine is safe.
LEMMA RefreshStep == RefreshInv /\ [Next]_vars => Safe
<1>. SUFFICES ASSUME RefreshInv, [Next]_vars PROVE Safe
  OBVIOUS
<1>1. ASSUME NEW p \in Procs, Begin(p) \/ Run(p) PROVE Safe
  <2>1. CASE SeedsBegin(p)
    BY <2>1, BeginStep, Zenon
  <2>2. CASE SeedsNext(p)
    BY <2>2, NextStep, Zenon
  <2>3. CASE SeedsKey(p)
    BY <2>3, KeyStep, Zenon
  <2>4. CASE SeedsRelease(p)
    BY <2>4, ReleaseStep, Zenon
  <2>5. CASE \/ Begin(p) \/ Scan(p) \/ AfterRandom(p) \/ BondAll(p) \/ AfterSelf(p)
             \/ LookupStart(p) \/ LookupNil(p) \/ \E ns \in SUBSET alive : SearchReturns(p, ns)
    BY <2>5, CallSteps, Zenon
  <2>. QED
    BY <1>1, <2>1, <2>2, <2>3, <2>4, <2>5, Zenon DEF Run
<1>2. CASE (\E n \in Nodes : Drop(n)) \/ (\E n \in AllNodes : Expire(n)) \/ UNCHANGED vars
  BY <1>2, BesideStep, Zenon
<1>. QED
  BY <1>1, <1>2, Zenon DEF Next

\* However many goroutines refresh at once, with whatever table, database and
\* nodes that answer: calls nest only as refresh and Lookup call each other, a
\* refresh that is past its bonds has a table, and without an overlap one
\* goroutine at a time uses the iterator.
THEOREM RefreshInvariant == Spec => []RefreshInv
<1>1. RefreshInv /\ [Next]_vars => RefreshInv'
  BY RefreshStep, Zenon DEF Safe
<1>. QED
  BY <1>1, RefreshBegin, PTL DEF Spec, SafetySpec

\* Every refresh leaves a table that is not empty if a bootstrap node answers,
\* unless nodes fell out after its last bonds, for any number of goroutines that
\* refresh, and however deep refresh and Lookup call each other.
THEOREM RefreshSeedsTable == Spec => RefreshSeeds
<1>. DEFINE A == \A p \in Procs :
                   /\ stack[p] # << >> /\ stack'[p] = << >>
                   /\ Nursery \cap alive # {}
                   => table # {} \/ dropped[p]
<1>1. RefreshInv /\ [Next]_vars => [A]_vars
  BY RefreshStep, Zenon DEF Safe
<1>2. Spec => [][A]_vars
  BY <1>1, RefreshInvariant, PTL DEF Spec, SafetySpec
<1>. QED
  BY <1>2, Zenon DEF RefreshSeeds

\* While no two calls of querySeeds overlap, the iterator that all refreshes share
\* is never used when it is nil, and it is released only when every node of its
\* snapshot that the database still has was a seed or is one that the iterator
\* passes over, for any database and batch size and any deletions meanwhile.
THEOREM SeederIsSound == Spec => SeederSound
<1>. DEFINE A == ~overlap' =>
                   /\ ~panic'
                   /\ seeder # Nil /\ seeder' = Nil => owed = {}
<1>1. RefreshInv /\ [Next]_vars => [A]_vars
  BY RefreshStep, Zenon DEF Safe, RefreshInv, Exclusive
<1>2. RefreshInv => TypeOK
  BY Zenon DEF RefreshInv
<1>3. Spec => []TypeOK /\ [][A]_vars
  BY <1>1, <1>2, RefreshInvariant, PTL DEF Spec, SafetySpec
<1>. QED
  BY <1>3, Zenon DEF SeederSound
=============================================================================
