--------------------------- MODULE BondingProofs ---------------------------
(***************************************************************************)
(* Proofs about Bonding, for any finite set of calls of bond, any nodes,   *)
(* queries and packets, and any size of the bucket: the bucket is sound,   *)
(* no two calls ping the same node, and a node gets into the bucket only   *)
(* when it comes from the database or has answered a ping.                 *)
(***************************************************************************)
EXTENDS Bonding, FiniteSetTheorems, TLAPS

\* Steps with a large context need more time than the default.
USE SMTT(30)

-----------------------------------------------------------------------------
(* The inductive invariant, part by part. *)

\* The calls that hold a slot.
Holders == {p \in Procs : pc[p] \in Pinging}

\* The slots are in the channel or held.
Slots == slots = MaxSlots - Cardinality(Holders)

\* A call that has begun has a node, and a query that has begun has one.
Begun ==
  /\ \A p \in Procs : pc[p] # "idle" => id[p] \in Nodes
  /\ \A q \in Queries : qpc[q] # "idle" => qnode[q] \in Nodes

\* A call is in the queue once at most, while it waits for a pong, of its own node
\* or of the oldest one.
Queue ==
  /\ \A i \in 1..Len(plist) :
       /\ pc[plist[i]] \in {"pong", "evict"}
       /\ pc[plist[i]] = "pong" => pingee[plist[i]] = id[plist[i]]
  /\ \A i, j \in 1..Len(plist) : plist[i] = plist[j] => i = j

\* A call that has a result has it from a process for its node, which has ended; it
\* has no error only if the node has answered.
Answer(p) ==
  /\ pc[p] = "idle" => ~node[p] /\ ~done[p]
  /\ node[p] \/ (done[p] /\ ~err[p]) => id[p] \in ponged
  /\ pc[p] \in {"ponged", "waitping", "store", "close", "fails", "insert", "evict", "keep",
                "replace"} => id[p] \in ponged
  /\ pc[p] \in {"release", "unregister"} => done[p]
  /\ pc[p] \in Pinging \cup {"slot", "unregister"} => w[p] = p
  /\ pc[p] = "join" => w[p] \in Procs /\ pc[w[p]] # "idle" /\ id[w[p]] = id[p]

Answers == known \subseteq ponged /\ \A p \in Procs : Answer(p)

\* No element of a sequence is there twice.
Distinct(s) == \A i, j \in 1..Len(s) : s[i] = s[j] => i = j

Elements(s) == {s[i] : i \in 1..Len(s)}

\* The entries are different nodes that have answered, and fit the bucket.
Bucket ==
  Len(entries) <= BucketSize /\ Distinct(entries) /\ Elements(entries) \subseteq ponged

\* The call that holds tab.mu replaces an entry of a full bucket that its node is
\* not in.
Eviction ==
  \A p \in Procs :
    /\ pc[p] \in {"evict", "keep", "replace"} <=> mu = p
    /\ mu = p => Len(entries) = BucketSize /\ ~InBucket(id[p])

\* The types of the variables, by what they belong to.
TableTypes ==
  /\ entries \in Seq(Nodes) /\ mu \in Procs \cup {NoOne}
  /\ known \subseteq Nodes /\ fails \in [Nodes -> Nat]

BondTypes == bonding \in [Nodes -> Procs \cup {NoOne}] /\ slots \in 0..MaxSlots

CallTypes ==
  /\ pc \in [Procs -> Positions] /\ id \in [Procs -> Nodes \cup {NoNode}]
  /\ w \in [Procs -> Procs \cup {NoOne}]
  /\ pinged \in [Procs -> BOOLEAN] /\ node \in [Procs -> BOOLEAN]
  /\ err \in [Procs -> BOOLEAN] /\ done \in [Procs -> BOOLEAN]

NetTypes ==
  /\ pingee \in [Procs -> Nodes \cup {NoNode}] /\ plist \in Seq(Procs)
  /\ wire \in [Nodes -> Nat] /\ inbox \in Seq(Packets) /\ ponged \subseteq Nodes

QueryTypes ==
  /\ qpc \in [Queries -> {"idle", "failed", "write", "del", "ended"}]
  /\ qnode \in [Queries -> Nodes \cup {NoNode}] /\ qfails \in [Queries -> Nat]
  /\ events \in 0..MaxEvents

IInv ==
  /\ TableTypes /\ BondTypes /\ CallTypes /\ NetTypes /\ QueryTypes
  /\ Slots /\ Begun /\ OneBondPerNode /\ Queue /\ Answers /\ Bucket /\ Eviction

USE DEF tableVars, dbVars, bondVars, callVars, netVars, queryVars

-----------------------------------------------------------------------------
(* Sequences. *)

\* What a concatenation consists of.
LEMMA ConcatFacts ==
  ASSUME NEW S, NEW a \in Seq(S), NEW b \in Seq(S)
  PROVE  /\ a \o b \in Seq(S)
         /\ Len(a \o b) = Len(a) + Len(b)
         /\ \A k \in 1..(Len(a) + Len(b)) :
              (a \o b)[k] = IF k <= Len(a) THEN a[k] ELSE b[k - Len(a)]
  OBVIOUS

\* Without leaves out one element.
LEMMA WithoutFacts ==
  ASSUME NEW S, NEW s \in Seq(S), NEW i \in 1..Len(s)
  PROVE  /\ Without(s, i) \in Seq(S)
         /\ Len(Without(s, i)) = Len(s) - 1
         /\ \A k \in 1..(Len(s) - 1) :
              Without(s, i)[k] = IF k < i THEN s[k] ELSE s[k + 1]
<1>. DEFINE a == SubSeq(s, 1, i - 1)
            b == SubSeq(s, i + 1, Len(s))
<1>1. /\ a \in Seq(S) /\ Len(a) = i - 1
      /\ \A k \in 1..(i - 1) : a[k] = s[k]
  OBVIOUS
<1>2. /\ b \in Seq(S) /\ Len(b) = Len(s) - i
      /\ \A k \in 1..(Len(s) - i) : b[k] = s[i + k]
  OBVIOUS
<1>3. Without(s, i) = a \o b
  BY Zenon DEF Without
<1>. HIDE DEF a, b
<1>4. /\ a \o b \in Seq(S) /\ Len(a \o b) = Len(a) + Len(b)
      /\ \A k \in 1..(Len(a) + Len(b)) :
           (a \o b)[k] = IF k <= Len(a) THEN a[k] ELSE b[k - Len(a)]
  BY <1>1, <1>2, ConcatFacts, Zenon
<1>5. Len(s) \in Nat /\ Len(a) + Len(b) = Len(s) - 1
  BY <1>1, <1>2
<1>6. \A k \in 1..(Len(s) - 1) : (a \o b)[k] = IF k < i THEN s[k] ELSE s[k + 1]
  <2>. SUFFICES ASSUME NEW k \in 1..(Len(s) - 1)
                PROVE  (a \o b)[k] = IF k < i THEN s[k] ELSE s[k + 1]
    BY Zenon
  <2>1. CASE k < i
    BY <1>1, <1>4, <1>5, <2>1
  <2>2. CASE ~(k < i)
    <3>1. /\ k - Len(a) \in 1..(Len(s) - i)
          /\ i + (k - Len(a)) = k + 1
          /\ ~(k <= Len(a))
      BY <1>1, <1>5, <2>2
    <3>. QED
      BY <1>2, <1>4, <1>5, <2>2, <3>1, Zenon
  <2>. QED
    BY <2>1, <2>2, Zenon
<1>. QED
  BY <1>3, <1>4, <1>5, <1>6, Zenon

\* The entries of a sequence.
LEMMA EntryFacts ==
  ASSUME NEW S, NEW s \in Seq(S)
  PROVE  Len(s) \in Nat /\ \A i \in 1..Len(s) : s[i] \in S
  OBVIOUS

LEMMA Successor == \A n \in Nat \ {0} : n - 1 \in Nat /\ (n - 1) + 1 = n
  OBVIOUS

\* A node in front of a sequence.
LEMMA FrontFacts ==
  ASSUME NEW S, NEW s \in Seq(S), NEW n \in S
  PROVE  /\ <<n>> \o s \in Seq(S)
         /\ Len(<<n>> \o s) = Len(s) + 1
         /\ \A k \in 1..(Len(s) + 1) : (<<n>> \o s)[k] = IF k = 1 THEN n ELSE s[k - 1]
  OBVIOUS

\* The first elements of a sequence.
LEMMA PrefixFacts ==
  ASSUME NEW S, NEW s \in Seq(S), NEW n \in Nat, n <= Len(s)
  PROVE  /\ SubSeq(s, 1, n) \in Seq(S)
         /\ Len(SubSeq(s, 1, n)) = n
         /\ \A k \in 1..n : SubSeq(s, 1, n)[k] = s[k]
  OBVIOUS

\* A sequence without repetition has none without one of its elements.
LEMMA WithoutDistinct ==
  ASSUME NEW S, NEW s \in Seq(S), NEW i \in 1..Len(s), Distinct(s)
  PROVE  Distinct(Without(s, i)) /\ Elements(Without(s, i)) \subseteq Elements(s) \ {s[i]}
<1>. DEFINE r == Without(s, i)
            old(k) == IF k < i THEN k ELSE k + 1
<1>1. Len(s) \in Nat /\ Len(r) = Len(s) - 1
  BY WithoutFacts
<1>2. \A k \in 1..Len(r) : r[k] = IF k < i THEN s[k] ELSE s[k + 1]
  BY <1>1, WithoutFacts, Zenon
<1>. HIDE DEF r
<1>3. \A k \in 1..Len(r) : r[k] = s[old(k)]
  BY <1>2, Zenon
<1>4. \A k \in 1..Len(r) : old(k) \in 1..Len(s) /\ old(k) # i
  BY <1>1
<1>5. \A j, k \in 1..Len(r) : old(j) = old(k) => j = k
  BY <1>1
<1>. HIDE DEF old
<1>6. Distinct(r)
  BY <1>3, <1>4, <1>5, Zenon DEF Distinct
<1>7. Elements(r) \subseteq Elements(s) \ {s[i]}
  BY <1>3, <1>4 DEF Distinct, Elements
<1>. QED
  BY <1>6, <1>7, Zenon DEF r

\* Nor with another node in front.
LEMMA FrontDistinct ==
  ASSUME NEW S, NEW s \in Seq(S), NEW n \in S, Distinct(s), n \notin Elements(s)
  PROVE  Distinct(<<n>> \o s) /\ Elements(<<n>> \o s) \subseteq Elements(s) \cup {n}
<1>. DEFINE r == <<n>> \o s
<1>1. Len(s) \in Nat /\ Len(r) = Len(s) + 1
  BY FrontFacts
<1>2. \A k \in 1..Len(r) : r[k] = IF k = 1 THEN n ELSE s[k - 1]
  BY <1>1, FrontFacts
<1>3. \A k \in 1..Len(r) : k # 1 => k - 1 \in 1..Len(s)
  BY <1>1
<1>. HIDE DEF r
<1>4. Distinct(r)
  <2>. SUFFICES ASSUME NEW j \in 1..Len(r), NEW k \in 1..Len(r), r[j] = r[k]
                PROVE  j = k
    BY Zenon DEF Distinct
  <2>1. CASE j = 1 \/ k = 1
    BY <1>2, <1>3, <2>1 DEF Elements
  <2>2. CASE j # 1 /\ k # 1
    <3>1. s[j - 1] = s[k - 1] /\ j - 1 \in 1..Len(s) /\ k - 1 \in 1..Len(s)
      BY <1>2, <1>3, <2>2, Zenon
    <3>2. j - 1 = k - 1
      BY <3>1, Zenon DEF Distinct
    <3>. QED
      BY <3>2
  <2>. QED
    BY <2>1, <2>2, Zenon
<1>5. Elements(r) \subseteq Elements(s) \cup {n}
  BY <1>2, <1>3 DEF Elements
<1>. QED
  BY <1>4, <1>5, Zenon DEF r

-----------------------------------------------------------------------------
(* The steps of a call of bond that touch neither the bucket nor the queue. *)

\* Variables that do not change keep their types.
LEMMA TypesKept ==
  ASSUME IInv
  PROVE  /\ UNCHANGED <<tableVars, dbVars>> => TableTypes'
         /\ UNCHANGED bondVars => BondTypes'
         /\ UNCHANGED callVars => CallTypes'
         /\ UNCHANGED netVars => NetTypes'
         /\ UNCHANGED <<queryVars, events>> => QueryTypes'
<1>1. UNCHANGED <<tableVars, dbVars>> => TableTypes'
  BY Zenon DEF IInv, TableTypes
<1>2. UNCHANGED bondVars => BondTypes'
  BY Zenon DEF IInv, BondTypes
<1>3. UNCHANGED callVars => CallTypes'
  BY Zenon DEF IInv, CallTypes
<1>4. UNCHANGED netVars => NetTypes'
  BY Zenon DEF IInv, NetTypes
<1>5. UNCHANGED <<queryVars, events>> => QueryTypes'
  BY Zenon DEF IInv, QueryTypes
<1>. QED
  BY <1>1, <1>2, <1>3, <1>4, <1>5, Zenon

\* A call moves on inside or outside pingpong.
LEMMA SlotsKept ==
  ASSUME IInv, NEW p \in Procs, NEW l, Goto(p, l),
         pc[p] \in Pinging <=> l \in Pinging,
         UNCHANGED slots
  PROVE  Slots'
<1>1. pc'[p] = l /\ \A r \in Procs \ {p} : pc'[r] = pc[r]
  BY Zenon DEF IInv, CallTypes, Goto
<1>2. Holders' = Holders
  BY <1>1 DEF Holders
<1>. QED
  BY <1>2, Zenon DEF IInv, Slots

\* A call that does not wait for a pong is not in the queue.
LEMMA NotQueued ==
  ASSUME IInv, NEW p \in Procs, pc[p] \notin {"pong", "evict"}
  PROVE  \A i \in 1..Len(plist) : plist[i] \in Procs \ {p}
<1>1. plist \in Seq(Procs)
  BY Zenon DEF IInv, NetTypes
<1>. QED
  BY <1>1 DEF IInv, Queue

\* A call that is not in the queue moves on.
LEMMA QueueKept ==
  ASSUME IInv, NEW p \in Procs, NEW l, Goto(p, l),
         pc[p] \notin {"pong", "evict"},
         \A r \in Procs \ {p} : id'[r] = id[r],
         UNCHANGED <<pingee, plist>>
  PROVE  Queue'
<1>1. \A r \in Procs \ {p} : pc'[r] = pc[r]
  BY Zenon DEF IInv, CallTypes, Goto
<1>. QED
  BY <1>1, NotQueued, ZenonT(30) DEF IInv, Queue

\* A call that is not in the queue pings the node n and waits for its pong.
LEMMA QueueGrows ==
  ASSUME IInv, NEW p \in Procs, NEW n \in Nodes, NEW l \in {"pong", "evict"},
         pc[p] \notin {"pong", "evict"}, Goto(p, l), l = "pong" => n = id[p],
         Ping(p, n), UNCHANGED id
  PROVE  Queue'
<1>1. pc'[p] = l /\ \A r \in Procs \ {p} : pc'[r] = pc[r]
  BY Zenon DEF IInv, CallTypes, Goto
<1>2. pingee'[p] = n /\ \A r \in Procs \ {p} : pingee'[r] = pingee[r]
  BY Zenon DEF IInv, NetTypes, Ping
<1>3. /\ Len(plist') = Len(plist) + 1 /\ Len(plist) \in Nat
      /\ plist'[Len(plist) + 1] = p
      /\ \A i \in 1..Len(plist) : plist'[i] = plist[i]
  BY DEF IInv, NetTypes, Ping
<1>4. \A i \in 1..Len(plist) : plist[i] \in Procs \ {p}
  BY NotQueued, Zenon
<1>5. \A i \in 1..Len(plist') : i \in 1..Len(plist) \/ i = Len(plist) + 1
  BY <1>3
<1>6. \A i \in 1..Len(plist') :
        /\ pc'[plist'[i]] \in {"pong", "evict"}
        /\ pc'[plist'[i]] = "pong" => pingee'[plist'[i]] = id[plist'[i]]
  BY <1>1, <1>2, <1>3, <1>4, <1>5 DEF IInv, Queue
<1>7. \A i, j \in 1..Len(plist') : plist'[i] = plist'[j] => i = j
  BY <1>3, <1>4, <1>5 DEF IInv, Queue
<1>. QED
  BY <1>6, <1>7, Zenon DEF Queue

\* A call that neither waits for a pong nor holds tab.mu moves on: what the other
\* calls do, the slots and the bucket are not disturbed.
LEMMA QuietStep ==
  ASSUME IInv, NEW p \in Procs, NEW l \in Positions \ {"idle"},
         pc[p] \notin {"pong", "evict", "keep", "replace"},
         l \notin {"pong", "evict", "keep", "replace"},
         pc[p] \in Pinging <=> l \in Pinging,
         Goto(p, l),
         \A r \in Procs \ {p} : id'[r] = id[r],
         id'[p] \in Nodes,
         UNCHANGED <<slots, tableVars, netVars, queryVars>>
  PROVE  Slots' /\ Begun' /\ Queue' /\ Bucket' /\ Eviction'
<1>1. /\ pc' = [pc EXCEPT ![p] = l] /\ pc \in [Procs -> Positions]
      /\ pc'[p] = l /\ \A r \in Procs \ {p} : pc'[r] = pc[r]
  BY Zenon DEF IInv, CallTypes, Goto
<1>2. Slots'
  BY SlotsKept, Zenon
<1>3. Begun'
  BY <1>1, Zenon DEF IInv, Begun
<1>4. Queue'
  BY QueueKept, Zenon
<1>5. Bucket'
  BY Zenon DEF IInv, Bucket
<1>6. Eviction'
  BY <1>1 DEF IInv, Eviction, InBucket
<1>. QED
  BY <1>2, <1>3, <1>4, <1>5, <1>6, Zenon

\* A call that does not change tab.bonding moves on, inside or outside the section in
\* which it is registered.
LEMMA UnregisteredStep ==
  ASSUME IInv, NEW p \in Procs, NEW l,
         Goto(p, l),
         pc[p] \in Pinging \cup {"slot", "unregister"}
           <=> l \in Pinging \cup {"slot", "unregister"},
         \A r \in Procs \ {p} : id'[r] = id[r],
         pc[p] \in Pinging \cup {"slot", "unregister"} => id'[p] = id[p],
         UNCHANGED bonding
  PROVE  OneBondPerNode'
<1>1. pc'[p] = l /\ \A r \in Procs \ {p} : pc'[r] = pc[r]
  BY Zenon DEF IInv, CallTypes, Goto
<1>. QED
  BY <1>1 DEF IInv, OneBondPerNode

\* The steps of bond before pingpong, and those of a call that joins another.
LEMMA CallInv ==
  ASSUME IInv, NEW p \in Procs, NEW n \in Nodes, NEW b \in BOOLEAN,
         Call(p, n, b) \/ ReadNode(p) \/ ReadFails(p) \/ Register(p) \/ Join(p)
  PROVE  IInv'
<1>1. CASE Call(p, n, b)
  <2>1. PICK l \in {"lookup"} : pc[p] = "idle" /\ Goto(p, l)
    BY <1>1, Zenon DEF Call, Goto
  <2>2. CallTypes'
    BY <1>1, Zenon DEF IInv, CallTypes, Call, Goto, Positions
  <2>3. TableTypes' /\ BondTypes' /\ NetTypes' /\ QueryTypes'
    BY <1>1, TypesKept, Zenon DEF Call
  <2>4. /\ \A r \in Procs \ {p} : id'[r] = id[r]
        /\ id'[p] \in Nodes /\ (pc[p] # "idle" => id'[p] = id[p])
        /\ UNCHANGED <<slots, tableVars, netVars, queryVars, bonding>>
    BY <1>1, <2>1, Zenon DEF IInv, CallTypes, Begun, Call
  <2>5. Slots' /\ Begun' /\ Queue' /\ Bucket' /\ Eviction'
    <3>1. l \in Positions \ {"idle"} /\ (pc[p] \in Pinging <=> l \in Pinging)
      BY <2>1, Zenon DEF Positions, Pinging
    <3>2. /\ pc[p] \notin {"pong", "evict", "keep", "replace"}
          /\ l \notin {"pong", "evict", "keep", "replace"}
      BY <2>1, Zenon
    <3>. QED
      BY <2>1, <2>4, <3>1, <3>2, QuietStep, Zenon
  <2>6. OneBondPerNode'
    <3>1. /\ pc[p] \in Pinging \cup {"slot", "unregister"}
               <=> l \in Pinging \cup {"slot", "unregister"}
          /\ pc[p] \in Pinging \cup {"slot", "unregister"} => pc[p] # "idle"
      BY <2>1, Zenon DEF Pinging
    <3>. QED
      BY <2>1, <2>4, <3>1, UnregisteredStep, Zenon
  <2>7. Answers'
    BY <1>1, <2>1 DEF IInv, CallTypes, Answers, Answer, Pinging, Call, Goto
  <2>. QED
    BY <2>2, <2>3, <2>5, <2>6, <2>7, Zenon DEF IInv
<1>2. CASE ReadNode(p)
  <2>1. PICK l \in {"fails", "register"} : pc[p] = "lookup" /\ Goto(p, l)
    BY <1>2, Zenon DEF ReadNode, Goto
  <2>2. CallTypes'
    BY <1>2 DEF IInv, CallTypes, ReadNode, Goto, Positions
  <2>3. TableTypes' /\ BondTypes' /\ NetTypes' /\ QueryTypes'
    BY <1>2, TypesKept, Zenon DEF ReadNode
  <2>4. /\ \A r \in Procs \ {p} : id'[r] = id[r]
        /\ id'[p] \in Nodes /\ (pc[p] # "idle" => id'[p] = id[p])
        /\ UNCHANGED <<slots, tableVars, netVars, queryVars, bonding>>
    BY <1>2, <2>1, Zenon DEF IInv, CallTypes, Begun, ReadNode
  <2>5. Slots' /\ Begun' /\ Queue' /\ Bucket' /\ Eviction'
    <3>1. l \in Positions \ {"idle"} /\ (pc[p] \in Pinging <=> l \in Pinging)
      BY <2>1, Zenon DEF Positions, Pinging
    <3>2. /\ pc[p] \notin {"pong", "evict", "keep", "replace"}
          /\ l \notin {"pong", "evict", "keep", "replace"}
      BY <2>1, Zenon
    <3>. QED
      BY <2>1, <2>4, <3>1, <3>2, QuietStep, Zenon
  <2>6. OneBondPerNode'
    <3>1. /\ pc[p] \in Pinging \cup {"slot", "unregister"}
               <=> l \in Pinging \cup {"slot", "unregister"}
          /\ pc[p] \in Pinging \cup {"slot", "unregister"} => pc[p] # "idle"
      BY <2>1, Zenon DEF Pinging
    <3>. QED
      BY <2>1, <2>4, <3>1, UnregisteredStep, Zenon
  <2>7. Answers'
    BY <1>2, <2>1 DEF IInv, CallTypes, Answers, Answer, Pinging, ReadNode, Goto
  <2>. QED
    BY <2>2, <2>3, <2>5, <2>6, <2>7, Zenon DEF IInv
<1>3. CASE ReadFails(p)
  <2>1. PICK l \in {"register", "insert"} : pc[p] = "fails" /\ Goto(p, l)
    BY <1>3, Zenon DEF ReadFails, Goto
  <2>2. CallTypes'
    BY <1>3, Zenon DEF IInv, CallTypes, ReadFails, Goto, Positions
  <2>3. TableTypes' /\ BondTypes' /\ NetTypes' /\ QueryTypes'
    BY <1>3, TypesKept, Zenon DEF ReadFails
  <2>4. /\ \A r \in Procs \ {p} : id'[r] = id[r]
        /\ id'[p] \in Nodes /\ (pc[p] # "idle" => id'[p] = id[p])
        /\ UNCHANGED <<slots, tableVars, netVars, queryVars, bonding>>
    BY <1>3, <2>1, Zenon DEF IInv, CallTypes, Begun, ReadFails
  <2>5. Slots' /\ Begun' /\ Queue' /\ Bucket' /\ Eviction'
    <3>1. l \in Positions \ {"idle"} /\ (pc[p] \in Pinging <=> l \in Pinging)
      BY <2>1, Zenon DEF Positions, Pinging
    <3>2. /\ pc[p] \notin {"pong", "evict", "keep", "replace"}
          /\ l \notin {"pong", "evict", "keep", "replace"}
      BY <2>1, Zenon
    <3>. QED
      BY <2>1, <2>4, <3>1, <3>2, QuietStep, Zenon
  <2>6. OneBondPerNode'
    <3>1. /\ pc[p] \in Pinging \cup {"slot", "unregister"}
               <=> l \in Pinging \cup {"slot", "unregister"}
          /\ pc[p] \in Pinging \cup {"slot", "unregister"} => pc[p] # "idle"
      BY <2>1, Zenon DEF Pinging
    <3>. QED
      BY <2>1, <2>4, <3>1, UnregisteredStep, Zenon
  <2>7. Answers'
    BY <1>3, <2>1 DEF IInv, CallTypes, Answers, Answer, Pinging, ReadFails, Goto
  <2>. QED
    BY <2>2, <2>3, <2>5, <2>6, <2>7, Zenon DEF IInv
<1>4. CASE Register(p)
  <2>1. PICK l \in {"join", "slot"} : pc[p] = "register" /\ Goto(p, l)
    BY <1>4, Zenon DEF Register, Goto
  <2>2. CallTypes' /\ BondTypes'
    <3>1. id[p] \in Nodes
      BY <1>4, Zenon DEF IInv, Begun, Register
    <3>2. bonding[id[p]] \in Procs \cup {NoOne}
      BY <3>1, Zenon DEF IInv, BondTypes
    <3>3. BondTypes' /\ w' \in [Procs -> Procs \cup {NoOne}]
      <4>1. CASE UNCHANGED bonding /\ w' = [w EXCEPT ![p] = bonding[id[p]]]
        BY <1>4, <3>2, <4>1, Zenon DEF IInv, CallTypes, BondTypes, Register
      <4>2. CASE bonding' = [bonding EXCEPT ![id[p]] = p] /\ w' = [w EXCEPT ![p] = p]
        BY <1>4, <3>1, <4>2, Zenon DEF IInv, CallTypes, BondTypes, Register
      <4>. QED
        BY <1>4, <4>1, <4>2, Zenon DEF Register
    <3>4. pc' \in [Procs -> Positions]
      BY <2>1, Zenon DEF IInv, CallTypes, Goto, Positions
    <3>. QED
      BY <1>4, <3>3, <3>4, Zenon DEF IInv, CallTypes, Register
  <2>3. TableTypes' /\ NetTypes' /\ QueryTypes'
    BY <1>4, TypesKept, Zenon DEF Register
  <2>4. /\ \A r \in Procs \ {p} : id'[r] = id[r]
        /\ id'[p] \in Nodes /\ (pc[p] # "idle" => id'[p] = id[p])
        /\ UNCHANGED <<slots, tableVars, netVars, queryVars>>
    BY <1>4, <2>1, Zenon DEF IInv, CallTypes, Begun, Register
  <2>5. Slots' /\ Begun' /\ Queue' /\ Bucket' /\ Eviction'
    <3>1. l \in Positions \ {"idle"} /\ (pc[p] \in Pinging <=> l \in Pinging)
      BY <2>1, Zenon DEF Positions, Pinging
    <3>2. /\ pc[p] \notin {"pong", "evict", "keep", "replace"}
          /\ l \notin {"pong", "evict", "keep", "replace"}
      BY <2>1, Zenon
    <3>. QED
      BY <2>1, <2>4, <3>1, <3>2, QuietStep, Zenon
  <2>6. OneBondPerNode'
    <3>1. id[p] \in Nodes
      BY <1>4, Zenon DEF IInv, Begun, Register
    <3>2. CASE bonding[id[p]] # NoOne
      <4>1. UNCHANGED <<bonding, id>> /\ Goto(p, "join")
        BY <1>4, <3>2, Zenon DEF Register
      <4>. QED
        BY <1>4, <4>1, UnregisteredStep, Zenon DEF Register, Pinging
    <3>3. CASE bonding[id[p]] = NoOne
      <4>1. /\ bonding' = [bonding EXCEPT ![id[p]] = p] /\ UNCHANGED id
            /\ pc[p] = "register" /\ pc' = [pc EXCEPT ![p] = "slot"]
        BY <1>4, <3>3, Zenon DEF Register, Goto
      <4>2. pc[p] \notin Pinging \cup {"slot", "unregister"}
        BY <4>1, Zenon DEF Pinging
      <4>. QED
        BY <3>1, <3>3, <4>1, <4>2, BondingAssumption DEF IInv, CallTypes, BondTypes, OneBondPerNode
    <3>. QED
      BY <3>2, <3>3, Zenon
  <2>7. Answers'
    <3>1. /\ id[p] \in Nodes /\ bonding[id[p]] \in Procs \cup {NoOne}
          /\ UNCHANGED <<known, ponged, id, node, done, err>>
          /\ pc[p] = "register"
      BY <1>4, Zenon DEF IInv, BondTypes, Begun, Register
    <3>2. /\ pc'[p] = l /\ w' = [w EXCEPT ![p] = w'[p]]
          /\ \A r \in Procs \ {p} : pc'[r] = pc[r] /\ w'[r] = w[r]
      BY <1>4, <2>1, Zenon DEF IInv, CallTypes, Goto, Register
    <3>3. \A r \in Procs : pc[r] # "idle" => pc'[r] # "idle"
      BY <2>1, <3>2, Zenon
    <3>4. CASE l = "slot"
      <4>1. w'[p] = p
        BY <1>4, <3>2, <3>4, Zenon DEF IInv, CallTypes, Register, Goto
      <4>. QED
        BY <3>1, <3>2, <3>3, <3>4, <4>1, ZenonT(30) DEF IInv, Answers, Answer, Pinging
    <3>5. CASE l = "join"
      <4>1. bonding[id[p]] # NoOne /\ w'[p] = bonding[id[p]]
        BY <1>4, <3>2, <3>5, Zenon DEF IInv, CallTypes, Register, Goto
      <4>2. /\ w'[p] \in Procs /\ id[w'[p]] = id[p]
            /\ pc[w'[p]] \in Pinging \cup {"slot", "unregister"}
        <5>1. PICK q \in Procs : bonding[id[p]] = q
          BY <3>1, <4>1, Zenon
        <5>2. \A n0 \in Nodes :
                bonding[n0] = q => id[q] = n0 /\ pc[q] \in Pinging \cup {"slot", "unregister"}
          BY Zenon DEF IInv, OneBondPerNode
        <5>3. id[q] = id[p] /\ pc[q] \in Pinging \cup {"slot", "unregister"}
          BY <3>1, <5>1, <5>2, Zenon
        <5>. QED
          BY <4>1, <5>1, <5>3, Zenon
      <4>3. pc[w'[p]] # "idle"
        BY <4>2, Zenon DEF Pinging
      <4>4. ASSUME NEW r \in Procs \ {p} PROVE Answer(r)'
        BY <3>1, <3>2, <3>3, ZenonT(30) DEF IInv, Answers, Answer
      <4>5. Answer(p)'
        BY <3>1, <3>2, <3>3, <3>5, <4>2, <4>3, Zenon DEF IInv, Answers, Answer, Pinging
      <4>. QED
        BY <3>1, <4>4, <4>5, Zenon DEF IInv, Answers
    <3>. QED
      BY <2>1, <3>4, <3>5, Zenon
  <2>. QED
    BY <2>2, <2>3, <2>5, <2>6, <2>7, Zenon DEF IInv
<1>5. CASE Join(p)
  <2>1. PICK l \in {"insert", "returned"} : pc[p] = "join" /\ Goto(p, l)
    BY <1>5, Zenon DEF Join, Goto, TakeResult
  <2>2. CallTypes'
    BY <1>5, Zenon DEF IInv, CallTypes, Join, Goto, TakeResult, Positions, Result
  <2>3. TableTypes' /\ BondTypes' /\ NetTypes' /\ QueryTypes'
    BY <1>5, TypesKept, Zenon DEF Join
  <2>4. /\ \A r \in Procs \ {p} : id'[r] = id[r]
        /\ id'[p] \in Nodes /\ (pc[p] # "idle" => id'[p] = id[p])
        /\ UNCHANGED <<slots, tableVars, netVars, queryVars, bonding>>
    BY <1>5, <2>1, Zenon DEF IInv, CallTypes, Begun, Join
  <2>5. Slots' /\ Begun' /\ Queue' /\ Bucket' /\ Eviction'
    <3>1. l \in Positions \ {"idle"} /\ (pc[p] \in Pinging <=> l \in Pinging)
      BY <2>1, Zenon DEF Positions, Pinging
    <3>2. /\ pc[p] \notin {"pong", "evict", "keep", "replace"}
          /\ l \notin {"pong", "evict", "keep", "replace"}
      BY <2>1, Zenon
    <3>. QED
      BY <2>1, <2>4, <3>1, <3>2, QuietStep, Zenon
  <2>6. OneBondPerNode'
    <3>1. /\ pc[p] \in Pinging \cup {"slot", "unregister"}
               <=> l \in Pinging \cup {"slot", "unregister"}
          /\ pc[p] \in Pinging \cup {"slot", "unregister"} => pc[p] # "idle"
      BY <2>1, ZenonT(30) DEF Pinging
    <3>. QED
      BY <2>1, <2>4, <3>1, UnregisteredStep, Zenon
  <2>7. Answers'
    BY <1>5, <2>1
       DEF IInv, CallTypes, Answers, Answer, Pinging, Join, Goto, TakeResult, Result
  <2>. QED
    BY <2>2, <2>3, <2>5, <2>6, <2>7, Zenon DEF IInv
<1>. QED
  BY <1>1, <1>2, <1>3, <1>4, <1>5, Zenon

\* The steps of pingpong that do not touch the slots, and the way back from it.
LEMMA PingpongInv ==
  ASSUME IInv, NEW p \in Procs,
         PingOk(p) \/ PingFailed(p) \/ WaitPing(p) \/ StoreNode(p) \/
         CloseDone(p) \/ Unregister(p)
  PROVE  IInv'
<1>1. CASE PingOk(p)
  <2>1. PICK l \in {"store", "waitping"} : pc[p] = "ponged" /\ Goto(p, l)
    BY <1>1, Zenon DEF PingOk, Goto
  <2>2. CallTypes'
    BY <1>1, Zenon DEF IInv, CallTypes, PingOk, Goto, Positions
  <2>3. TableTypes' /\ BondTypes' /\ NetTypes' /\ QueryTypes'
    BY <1>1, TypesKept, Zenon DEF PingOk
  <2>4. /\ \A r \in Procs \ {p} : id'[r] = id[r]
        /\ id'[p] \in Nodes /\ (pc[p] # "idle" => id'[p] = id[p])
        /\ UNCHANGED <<slots, tableVars, netVars, queryVars, bonding>>
    BY <1>1, <2>1, Zenon DEF IInv, CallTypes, Begun, PingOk
  <2>5. Slots' /\ Begun' /\ Queue' /\ Bucket' /\ Eviction'
    <3>1. l \in Positions \ {"idle"} /\ (pc[p] \in Pinging <=> l \in Pinging)
      BY <2>1, Zenon DEF Positions, Pinging
    <3>2. /\ pc[p] \notin {"pong", "evict", "keep", "replace"}
          /\ l \notin {"pong", "evict", "keep", "replace"}
      BY <2>1, Zenon
    <3>. QED
      BY <2>1, <2>4, <3>1, <3>2, QuietStep, Zenon
  <2>6. OneBondPerNode'
    <3>1. /\ pc[p] \in Pinging \cup {"slot", "unregister"}
               <=> l \in Pinging \cup {"slot", "unregister"}
          /\ pc[p] \in Pinging \cup {"slot", "unregister"} => pc[p] # "idle"
      BY <2>1, Zenon DEF Pinging
    <3>. QED
      BY <2>1, <2>4, <3>1, UnregisteredStep, Zenon
  <2>7. Answers'
    BY <1>1, <2>1 DEF IInv, CallTypes, Answers, Answer, Pinging, PingOk, Goto
  <2>. QED
    BY <2>2, <2>3, <2>5, <2>6, <2>7, Zenon DEF IInv
<1>2. CASE PingFailed(p)
  <2>1. PICK l \in {"release"} : pc[p] = "failed" /\ Goto(p, l)
    BY <1>2, Zenon DEF PingFailed, Goto
  <2>2. CallTypes'
    BY <1>2, Zenon DEF IInv, CallTypes, PingFailed, Goto, Positions
  <2>3. TableTypes' /\ BondTypes' /\ NetTypes' /\ QueryTypes'
    BY <1>2, TypesKept, Zenon DEF PingFailed
  <2>4. /\ \A r \in Procs \ {p} : id'[r] = id[r]
        /\ id'[p] \in Nodes /\ (pc[p] # "idle" => id'[p] = id[p])
        /\ UNCHANGED <<slots, tableVars, netVars, queryVars, bonding>>
    BY <1>2, <2>1, Zenon DEF IInv, CallTypes, Begun, PingFailed
  <2>5. Slots' /\ Begun' /\ Queue' /\ Bucket' /\ Eviction'
    <3>1. l \in Positions \ {"idle"} /\ (pc[p] \in Pinging <=> l \in Pinging)
      BY <2>1, Zenon DEF Positions, Pinging
    <3>2. /\ pc[p] \notin {"pong", "evict", "keep", "replace"}
          /\ l \notin {"pong", "evict", "keep", "replace"}
      BY <2>1, Zenon
    <3>. QED
      BY <2>1, <2>4, <3>1, <3>2, QuietStep, Zenon
  <2>6. OneBondPerNode'
    <3>1. /\ pc[p] \in Pinging \cup {"slot", "unregister"}
               <=> l \in Pinging \cup {"slot", "unregister"}
          /\ pc[p] \in Pinging \cup {"slot", "unregister"} => pc[p] # "idle"
      BY <2>1, Zenon DEF Pinging
    <3>. QED
      BY <2>1, <2>4, <3>1, UnregisteredStep, Zenon
  <2>7. Answers'
    BY <1>2, <2>1 DEF IInv, CallTypes, Answers, Answer, Pinging, PingFailed, Goto
  <2>. QED
    BY <2>2, <2>3, <2>5, <2>6, <2>7, Zenon DEF IInv
<1>3. CASE WaitPing(p)
  <2>1. PICK l \in {"store"} : pc[p] = "waitping" /\ Goto(p, l)
    BY <1>3, Zenon DEF WaitPing, Goto
  <2>2. CallTypes'
    BY <1>3, Zenon DEF IInv, CallTypes, WaitPing, Goto, Positions
  <2>3. TableTypes' /\ BondTypes' /\ NetTypes' /\ QueryTypes'
    BY <1>3, TypesKept, Zenon DEF WaitPing
  <2>4. /\ \A r \in Procs \ {p} : id'[r] = id[r]
        /\ id'[p] \in Nodes /\ (pc[p] # "idle" => id'[p] = id[p])
        /\ UNCHANGED <<slots, tableVars, netVars, queryVars, bonding>>
    BY <1>3, <2>1, Zenon DEF IInv, CallTypes, Begun, WaitPing
  <2>5. Slots' /\ Begun' /\ Queue' /\ Bucket' /\ Eviction'
    <3>1. l \in Positions \ {"idle"} /\ (pc[p] \in Pinging <=> l \in Pinging)
      BY <2>1, Zenon DEF Positions, Pinging
    <3>2. /\ pc[p] \notin {"pong", "evict", "keep", "replace"}
          /\ l \notin {"pong", "evict", "keep", "replace"}
      BY <2>1, Zenon
    <3>. QED
      BY <2>1, <2>4, <3>1, <3>2, QuietStep, Zenon
  <2>6. OneBondPerNode'
    <3>1. /\ pc[p] \in Pinging \cup {"slot", "unregister"}
               <=> l \in Pinging \cup {"slot", "unregister"}
          /\ pc[p] \in Pinging \cup {"slot", "unregister"} => pc[p] # "idle"
      BY <2>1, Zenon DEF Pinging
    <3>. QED
      BY <2>1, <2>4, <3>1, UnregisteredStep, Zenon
  <2>7. Answers'
    BY <1>3, <2>1 DEF IInv, CallTypes, Answers, Answer, Pinging, WaitPing, Goto
  <2>. QED
    BY <2>2, <2>3, <2>5, <2>6, <2>7, Zenon DEF IInv
<1>4. CASE StoreNode(p)
  <2>1. PICK l \in {"close"} : pc[p] = "store" /\ Goto(p, l)
    BY <1>4, Zenon DEF StoreNode, Goto
  <2>2. CallTypes' /\ TableTypes'
    BY <1>4, Zenon DEF IInv, CallTypes, TableTypes, Begun, StoreNode, Goto, Positions
  <2>3. BondTypes' /\ NetTypes' /\ QueryTypes'
    BY <1>4, TypesKept, Zenon DEF StoreNode
  <2>4. /\ \A r \in Procs \ {p} : id'[r] = id[r]
        /\ id'[p] \in Nodes /\ (pc[p] # "idle" => id'[p] = id[p])
        /\ UNCHANGED <<slots, tableVars, netVars, queryVars, bonding>>
    BY <1>4, <2>1, Zenon DEF IInv, CallTypes, Begun, StoreNode
  <2>5. Slots' /\ Begun' /\ Queue' /\ Bucket' /\ Eviction'
    <3>1. l \in Positions \ {"idle"} /\ (pc[p] \in Pinging <=> l \in Pinging)
      BY <2>1, Zenon DEF Positions, Pinging
    <3>2. /\ pc[p] \notin {"pong", "evict", "keep", "replace"}
          /\ l \notin {"pong", "evict", "keep", "replace"}
      BY <2>1, Zenon
    <3>. QED
      BY <2>1, <2>4, <3>1, <3>2, QuietStep, Zenon
  <2>6. OneBondPerNode'
    <3>1. /\ pc[p] \in Pinging \cup {"slot", "unregister"}
               <=> l \in Pinging \cup {"slot", "unregister"}
          /\ pc[p] \in Pinging \cup {"slot", "unregister"} => pc[p] # "idle"
      BY <2>1, Zenon DEF Pinging
    <3>. QED
      BY <2>1, <2>4, <3>1, UnregisteredStep, Zenon
  <2>7. Answers'
    BY <1>4, <2>1 DEF IInv, CallTypes, Answers, Answer, Pinging, StoreNode, Goto
  <2>. QED
    BY <2>2, <2>3, <2>5, <2>6, <2>7, Zenon DEF IInv
<1>5. CASE CloseDone(p)
  <2>1. PICK l \in {"release"} : pc[p] = "close" /\ Goto(p, l)
    BY <1>5, Zenon DEF CloseDone, Goto
  <2>2. CallTypes'
    BY <1>5, Zenon DEF IInv, CallTypes, CloseDone, Goto, Positions
  <2>3. TableTypes' /\ BondTypes' /\ NetTypes' /\ QueryTypes'
    BY <1>5, TypesKept, Zenon DEF CloseDone
  <2>4. /\ \A r \in Procs \ {p} : id'[r] = id[r]
        /\ id'[p] \in Nodes /\ (pc[p] # "idle" => id'[p] = id[p])
        /\ UNCHANGED <<slots, tableVars, netVars, queryVars, bonding>>
    BY <1>5, <2>1, Zenon DEF IInv, CallTypes, Begun, CloseDone
  <2>5. Slots' /\ Begun' /\ Queue' /\ Bucket' /\ Eviction'
    <3>1. l \in Positions \ {"idle"} /\ (pc[p] \in Pinging <=> l \in Pinging)
      BY <2>1, Zenon DEF Positions, Pinging
    <3>2. /\ pc[p] \notin {"pong", "evict", "keep", "replace"}
          /\ l \notin {"pong", "evict", "keep", "replace"}
      BY <2>1, Zenon
    <3>. QED
      BY <2>1, <2>4, <3>1, <3>2, QuietStep, Zenon
  <2>6. OneBondPerNode'
    <3>1. /\ pc[p] \in Pinging \cup {"slot", "unregister"}
               <=> l \in Pinging \cup {"slot", "unregister"}
          /\ pc[p] \in Pinging \cup {"slot", "unregister"} => pc[p] # "idle"
      BY <2>1, Zenon DEF Pinging
    <3>. QED
      BY <2>1, <2>4, <3>1, UnregisteredStep, Zenon
  <2>7. Answers'
    BY <1>5, <2>1 DEF IInv, CallTypes, Answers, Answer, Pinging, CloseDone, Goto
  <2>. QED
    BY <2>2, <2>3, <2>5, <2>6, <2>7, Zenon DEF IInv
<1>6. CASE Unregister(p)
  <2>1. PICK l \in {"insert", "returned"} : pc[p] = "unregister" /\ Goto(p, l)
    BY <1>6, Zenon DEF Unregister, Goto, TakeResult
  <2>2. CallTypes' /\ BondTypes'
    BY <1>6, Zenon
       DEF IInv, CallTypes, BondTypes, Begun, Unregister, TakeResult, Result, Goto, Positions
  <2>3. TableTypes' /\ NetTypes' /\ QueryTypes'
    BY <1>6, TypesKept, Zenon DEF Unregister
  <2>4. /\ \A r \in Procs \ {p} : id'[r] = id[r]
        /\ id'[p] \in Nodes /\ (pc[p] # "idle" => id'[p] = id[p])
        /\ UNCHANGED <<slots, tableVars, netVars, queryVars>>
    BY <1>6, <2>1, Zenon DEF IInv, CallTypes, Begun, Unregister
  <2>5. Slots' /\ Begun' /\ Queue' /\ Bucket' /\ Eviction'
    <3>1. l \in Positions \ {"idle"} /\ (pc[p] \in Pinging <=> l \in Pinging)
      BY <2>1, Zenon DEF Positions, Pinging
    <3>2. /\ pc[p] \notin {"pong", "evict", "keep", "replace"}
          /\ l \notin {"pong", "evict", "keep", "replace"}
      BY <2>1, Zenon
    <3>. QED
      BY <2>1, <2>4, <3>1, <3>2, QuietStep, Zenon
  <2>6. OneBondPerNode'
    <3>1. id[p] \in Nodes /\ bonding[id[p]] = p
      BY <2>1, Zenon DEF IInv, Begun, OneBondPerNode
    <3>2. bonding' = [bonding EXCEPT ![id[p]] = NoOne] /\ UNCHANGED id
      BY <1>6, Zenon DEF Unregister
    <3>3. /\ pc'[p] = l /\ l \notin Pinging \cup {"slot", "unregister"}
          /\ \A r \in Procs \ {p} : pc'[r] = pc[r]
      BY <2>1, Zenon DEF IInv, CallTypes, Goto, Pinging
    <3>4. OneBondPerNode /\ bonding \in [Nodes -> Procs \cup {NoOne}]
      BY Zenon DEF IInv, BondTypes
    <3>5. \A n \in Nodes : bonding'[n] = IF n = id[p] THEN NoOne ELSE bonding[n]
      BY <3>1, <3>2, <3>4, Zenon
    <3>6. \A r \in Procs : r # NoOne
      BY BondingAssumption, Zenon
    <3>7. ASSUME NEW r \in Procs, NEW n \in Nodes
          PROVE  bonding'[n] = r <=>
                   id[r] = n /\ pc'[r] \in Pinging \cup {"slot", "unregister"}
      <4>1. CASE r = p
        BY <3>1, <3>3, <3>4, <3>5, <3>6, <4>1 DEF OneBondPerNode
      <4>2. CASE r # p
        BY <3>1, <3>3, <3>4, <3>5, <3>6, <4>2 DEF OneBondPerNode
      <4>. QED
        BY <4>1, <4>2, Zenon
    <3>. QED
      BY <3>2, <3>7 DEF OneBondPerNode
  <2>7. Answers'
    BY <1>6, <2>1
       DEF IInv, CallTypes, Answers, Answer, Pinging, Unregister, Goto, TakeResult, Result
  <2>. QED
    BY <2>2, <2>3, <2>5, <2>6, <2>7, Zenon DEF IInv
<1>. QED
  BY <1>1, <1>2, <1>3, <1>4, <1>5, <1>6, Zenon

-----------------------------------------------------------------------------
(* The slots. *)

\* The steps that take a slot and give it back.
LEMMA SlotInv ==
  ASSUME IInv, NEW p \in Procs, TakeSlot(p) \/ ReleaseSlot(p)
  PROVE  IInv'
<1>1. IsFiniteSet(Holders) /\ Cardinality(Holders) \in Nat
  BY BondingAssumption, FS_Subset, FS_CardinalityType, Zenon DEF Holders
<1>2. MaxSlots \in Nat /\ slots \in 0..MaxSlots /\ slots = MaxSlots - Cardinality(Holders)
  BY BondingAssumption, Zenon DEF IInv, BondTypes, Slots
<1>3. id[p] \in Nodes
  BY Zenon DEF IInv, Begun, TakeSlot, ReleaseSlot
<1>4. \A r \in Procs \ {p} : pc'[r] = pc[r]
  BY Zenon DEF IInv, CallTypes, TakeSlot, ReleaseSlot, Goto
<1>5. CASE TakeSlot(p)
  <2>1. /\ pc[p] = "slot" /\ pc'[p] = "pong" /\ pc' \in [Procs -> Positions]
        /\ Goto(p, "pong")
    BY <1>5, Zenon DEF IInv, CallTypes, TakeSlot, Goto, Positions
  <2>2. Slots' /\ slots' \in 0..MaxSlots
    <3>1. Holders' = Holders \cup {p} /\ p \notin Holders
      BY <1>4, <2>1, Zenon DEF Holders, Pinging
    <3>2. Cardinality(Holders') = Cardinality(Holders) + 1
      BY <1>1, <3>1, FS_AddElement, Zenon
    <3>3. slots' = slots - 1 /\ slots > 0
      BY <1>5, Zenon DEF TakeSlot
    <3>. QED
      BY <1>1, <1>2, <3>2, <3>3 DEF Slots
  <2>3. TableTypes' /\ BondTypes' /\ CallTypes' /\ NetTypes' /\ QueryTypes'
    <3>1. NetTypes'
      BY <1>3, <1>5 DEF IInv, NetTypes, TakeSlot, Ping
    <3>2. BondTypes' /\ CallTypes'
      BY <1>5, <2>1, <2>2, Zenon DEF IInv, BondTypes, CallTypes, TakeSlot
    <3>3. TableTypes' /\ QueryTypes'
      BY <1>5, TypesKept, Zenon DEF TakeSlot
    <3>. QED
      BY <3>1, <3>2, <3>3, Zenon
  <2>4. Begun'
    BY <1>3, <1>4, <1>5, Zenon DEF IInv, Begun, TakeSlot
  <2>5. OneBondPerNode'
    BY <1>5, <2>1, UnregisteredStep, Zenon DEF TakeSlot, Pinging
  <2>6. Queue'
    BY <1>3, <1>4, <1>5, <2>1, QueueGrows, Zenon DEF TakeSlot, Ping
  <2>7. Answers'
    <3>1. UNCHANGED <<known, ponged, id, node, done, err, w>>
      BY <1>5, Zenon DEF TakeSlot, Ping
    <3>. QED
      BY <1>4, <2>1, <3>1, ZenonT(30) DEF IInv, Answers, Answer, Pinging
  <2>8. Bucket' /\ Eviction'
    BY <1>4, <1>5, <2>1, Zenon DEF IInv, Bucket, Eviction, InBucket, TakeSlot, Ping
  <2>. QED
    BY <2>2, <2>3, <2>4, <2>5, <2>6, <2>7, <2>8, Zenon DEF IInv
<1>6. CASE ReleaseSlot(p)
  <2>1. /\ pc[p] = "release" /\ pc'[p] = "unregister" /\ pc' \in [Procs -> Positions]
        /\ Goto(p, "unregister")
    BY <1>6, Zenon DEF IInv, CallTypes, ReleaseSlot, Goto, Positions
  <2>2. Slots' /\ slots' \in 0..MaxSlots
    <3>1. Holders' = Holders \ {p} /\ p \in Holders
      BY <1>4, <2>1, Zenon DEF Holders, Pinging
    <3>2. Cardinality(Holders') = Cardinality(Holders) - 1
      BY <1>1, <3>1, FS_RemoveElement, Zenon
    <3>3. Cardinality(Holders') \in Nat
      BY <1>1, <3>1, FS_RemoveElement, FS_CardinalityType, Zenon
    <3>4. slots' = slots + 1
      BY <1>6, Zenon DEF ReleaseSlot
    <3>. QED
      BY <1>1, <1>2, <3>2, <3>3, <3>4 DEF Slots
  <2>3. TableTypes' /\ BondTypes' /\ CallTypes' /\ NetTypes' /\ QueryTypes'
    <3>1. BondTypes' /\ CallTypes'
      BY <1>6, <2>1, <2>2, Zenon DEF IInv, BondTypes, CallTypes, ReleaseSlot
    <3>2. TableTypes' /\ NetTypes' /\ QueryTypes'
      BY <1>6, TypesKept, Zenon DEF ReleaseSlot
    <3>. QED
      BY <3>1, <3>2, Zenon
  <2>4. Begun'
    BY <1>3, <1>4, <1>6, Zenon DEF IInv, Begun, ReleaseSlot
  <2>5. OneBondPerNode'
    BY <1>6, <2>1, UnregisteredStep, Zenon DEF ReleaseSlot, Pinging
  <2>6. Queue'
    BY <1>6, <2>1, QueueKept, Zenon DEF ReleaseSlot
  <2>7. Answers'
    <3>1. UNCHANGED <<known, ponged, id, node, done, err, w>>
      BY <1>6, Zenon DEF ReleaseSlot
    <3>. QED
      BY <1>4, <2>1, <3>1, ZenonT(30) DEF IInv, Answers, Answer, Pinging
  <2>8. Bucket' /\ Eviction'
    BY <1>4, <1>6, <2>1, Zenon DEF IInv, Bucket, Eviction, InBucket, ReleaseSlot
  <2>. QED
    BY <2>2, <2>3, <2>4, <2>5, <2>6, <2>7, <2>8, Zenon DEF IInv
<1>. QED
  BY <1>5, <1>6, Zenon

-----------------------------------------------------------------------------
(* The section under tab.mu. *)

\* A call in the section moves on inside it or returns: all but the bucket, the
\* queue and the lock is as before.
LEMMA LockedStep ==
  ASSUME IInv, NEW p \in Procs, NEW l \in {"evict", "returned"},
         pc[p] \in {"insert", "keep", "replace"}, Goto(p, l),
         UNCHANGED <<id, pinged, node, w, err, done, bondVars, known, ponged, queryVars>>
  PROVE  Slots' /\ Begun' /\ OneBondPerNode' /\ Answers'
<1>1. /\ pc'[p] = l /\ \A r \in Procs \ {p} : pc'[r] = pc[r]
  BY Zenon DEF IInv, CallTypes, Goto
<1>2. Slots'
  BY SlotsKept, Zenon DEF Pinging
<1>3. Begun'
  BY <1>1, Zenon DEF IInv, Begun
<1>4. OneBondPerNode'
  BY UnregisteredStep, Zenon DEF Pinging
<1>5. Answers'
  BY <1>1, ZenonT(30) DEF IInv, Answers, Answer, Pinging
<1>. QED
  BY <1>2, <1>3, <1>4, <1>5, Zenon

\* The steps under tab.mu.
LEMMA SectionInv ==
  ASSUME IInv, NEW p \in Procs,
         Insert(p) \/ PingOldest(p) \/ KeepOldest(p) \/ ReplaceOldest(p)
  PROVE  IInv'
<1>1. /\ id[p] \in Nodes /\ id[p] \in ponged /\ entries \in Seq(Nodes)
      /\ BucketSize \in Nat \ {0} /\ Len(entries) <= BucketSize /\ Len(entries) \in Nat
      /\ Distinct(entries) /\ Elements(entries) \subseteq ponged
  <2>1. pc[p] \in {"insert", "keep", "replace"}
    BY Zenon DEF Insert, PingOldest, KeepOldest, ReplaceOldest
  <2>2. id[p] \in Nodes /\ id[p] \in ponged
    BY <2>1, Zenon DEF IInv, Begun, Answers, Answer
  <2>3. entries \in Seq(Nodes) /\ Len(entries) \in Nat /\ BucketSize \in Nat \ {0}
    BY BondingAssumption DEF IInv, TableTypes
  <2>. QED
    BY <2>2, <2>3, Zenon DEF IInv, Bucket
<1>2. \A r \in Procs \ {p} : pc'[r] = pc[r]
  BY Zenon DEF IInv, CallTypes, Insert, PingOldest, KeepOldest, ReplaceOldest, Goto
<1>3. CASE Insert(p)
  <2>1. /\ pc[p] = "insert" /\ pc'[p] = "returned" /\ pc' \in [Procs -> Positions]
        /\ Goto(p, "returned") /\ mu = NoOne /\ UNCHANGED <<mu, ponged>>
    BY <1>3, Zenon DEF IInv, CallTypes, Insert, Goto, Positions
  <2>2. entries' \in Seq(Nodes) /\ Bucket'
    <3>1. CASE \E i \in 1..Len(entries) : entries[i] = id[p] /\ entries' = Bumped(i)
      <4>1. PICK i \in 1..Len(entries) : entries[i] = id[p] /\ entries' = Bumped(i)
        BY <3>1, Zenon
      <4>. DEFINE r == Without(entries, i)
      <4>2. r \in Seq(Nodes) /\ Len(r) = Len(entries) - 1
        BY <1>1, WithoutFacts, Zenon
      <4>3. Distinct(r) /\ Elements(r) \subseteq Elements(entries) \ {id[p]}
        BY <1>1, <4>1, WithoutDistinct, Zenon
      <4>4. entries' = <<id[p]>> \o r
        BY <4>1, Zenon DEF Bumped
      <4>. HIDE DEF r
      <4>5. entries' \in Seq(Nodes) /\ Len(entries') = Len(entries)
        BY <1>1, <4>2, <4>4, FrontFacts
      <4>6. Distinct(entries') /\ Elements(entries') \subseteq Elements(r) \cup {id[p]}
        BY <1>1, <4>2, <4>3, <4>4, FrontDistinct, Zenon
      <4>. QED
        BY <1>1, <2>1, <4>3, <4>5, <4>6, Zenon DEF Bucket
    <3>2. CASE ~InBucket(id[p]) /\ Len(entries) # BucketSize /\ entries' = <<id[p]>> \o entries
      <4>1. entries' \in Seq(Nodes) /\ Len(entries') = Len(entries) + 1
        <5>1. entries \in Seq(Nodes) /\ id[p] \in Nodes /\ entries' = <<id[p]>> \o entries
          BY <1>1, <3>2, Zenon
        <5>. QED
          BY <5>1, FrontFacts, ZenonT(30)
      <4>2. id[p] \notin Elements(entries)
        BY <3>2, Zenon DEF InBucket, Elements
      <4>3. Distinct(entries') /\ Elements(entries') \subseteq Elements(entries) \cup {id[p]}
        BY <1>1, <3>2, <4>2, FrontDistinct, Zenon
      <4>4. Len(entries') <= BucketSize
        <5>1. /\ BucketSize \in Nat \ {0} /\ Len(entries) \in Nat /\ Len(entries) <= BucketSize
              /\ Len(entries) # BucketSize /\ Len(entries') = Len(entries) + 1
          BY <1>1, <3>2, <4>1, Zenon
        <5>. QED
          BY <5>1
      <4>5. Elements(entries') \subseteq ponged'
        BY <1>1, <2>1, <4>3, Zenon
      <4>. QED
        BY <4>1, <4>3, <4>4, <4>5, Zenon DEF Bucket
    <3>. QED
      BY <1>3, <3>1, <3>2, Zenon DEF Insert
  <2>3. TableTypes' /\ BondTypes' /\ CallTypes' /\ NetTypes' /\ QueryTypes'
    <3>1. TableTypes' /\ CallTypes'
      BY <1>1, <1>3, <2>1, <2>2, BondingAssumption, Zenon
         DEF IInv, TableTypes, CallTypes, Insert, ResetFails
    <3>2. BondTypes' /\ NetTypes' /\ QueryTypes'
      BY <1>3, TypesKept, Zenon DEF Insert
    <3>. QED
      BY <3>1, <3>2, Zenon
  <2>4. Slots' /\ Begun' /\ OneBondPerNode' /\ Answers'
    BY <1>3, <2>1, LockedStep, Zenon DEF Insert, ResetFails
  <2>5. Queue'
    BY <1>3, <2>1, QueueKept, Zenon DEF Insert
  <2>6. Eviction'
    BY <1>2, <2>1, BondingAssumption, Zenon DEF IInv, Eviction
  <2>. QED
    BY <2>2, <2>3, <2>4, <2>5, <2>6, Zenon DEF IInv
<1>4. CASE PingOldest(p)
  <2>1. /\ pc[p] = "insert" /\ pc'[p] = "evict" /\ pc' \in [Procs -> Positions]
        /\ Goto(p, "evict") /\ mu = NoOne /\ mu' = p /\ UNCHANGED <<entries, ponged, id>>
        /\ Len(entries) = BucketSize /\ ~InBucket(id[p])
    BY <1>4, Zenon DEF IInv, CallTypes, PingOldest, Ping, Goto, Positions
  <2>2. entries[BucketSize] \in Nodes
    <3>1. BucketSize \in Nat \ {0} /\ Len(entries) = BucketSize /\ entries \in Seq(Nodes)
      BY <1>1, <2>1, Zenon
    <3>2. BucketSize \in 1..Len(entries)
      BY <3>1
    <3>. QED
      BY <3>1, <3>2
  <2>3. TableTypes' /\ BondTypes' /\ CallTypes' /\ NetTypes' /\ QueryTypes'
    <3>1. NetTypes'
      <4>1. /\ pingee' = [pingee EXCEPT ![p] = entries[BucketSize]]
            /\ plist' = Append(plist, p)
            /\ wire' = [wire EXCEPT ![entries[BucketSize]] = @ + 1]
            /\ UNCHANGED <<inbox, ponged>>
        BY <1>4, Zenon DEF PingOldest, Ping
      <4>2. NetTypes
        BY Zenon DEF IInv
      <4>3. plist' \in Seq(Procs)
        BY <4>1, <4>2 DEF NetTypes
      <4>4. wire' \in [Nodes -> Nat]
        BY <2>2, <4>1, <4>2 DEF NetTypes
      <4>5. pingee' \in [Procs -> Nodes \cup {NoNode}]
        BY <2>2, <4>1, <4>2, Zenon DEF NetTypes
      <4>. QED
        BY <4>1, <4>2, <4>3, <4>4, <4>5, Zenon DEF NetTypes
    <3>2. TableTypes' /\ CallTypes'
      BY <1>4, <2>1, Zenon DEF IInv, TableTypes, CallTypes, PingOldest
    <3>3. BondTypes' /\ QueryTypes'
      BY <1>4, TypesKept, Zenon DEF PingOldest
    <3>. QED
      BY <3>1, <3>2, <3>3, Zenon
  <2>4. Slots' /\ Begun' /\ OneBondPerNode' /\ Answers'
    BY <1>4, <2>1, LockedStep, Zenon DEF PingOldest, Ping
  <2>5. Queue'
    BY <1>2, <1>4, <2>1, <2>2, QueueGrows, Zenon DEF PingOldest, Ping
  <2>6. Bucket'
    BY <2>1, Zenon DEF IInv, Bucket
  <2>7. Eviction'
    BY <1>2, <2>1, BondingAssumption, Zenon DEF IInv, Eviction, InBucket
  <2>. QED
    BY <2>3, <2>4, <2>5, <2>6, <2>7, Zenon DEF IInv
<1>5. CASE KeepOldest(p)
  <2>1. /\ pc[p] = "keep" /\ pc'[p] = "returned" /\ pc' \in [Procs -> Positions]
        /\ Goto(p, "returned") /\ mu = p /\ mu' = NoOne /\ UNCHANGED <<entries, ponged>>
    BY <1>5, Zenon DEF IInv, CallTypes, Eviction, KeepOldest, Goto, Positions
  <2>2. TableTypes' /\ BondTypes' /\ CallTypes' /\ NetTypes' /\ QueryTypes'
    <3>1. TableTypes' /\ CallTypes'
      BY <1>1, <1>5, <2>1, BondingAssumption, Zenon
         DEF IInv, TableTypes, CallTypes, KeepOldest, ResetFails
    <3>2. BondTypes' /\ NetTypes' /\ QueryTypes'
      BY <1>5, TypesKept, Zenon DEF KeepOldest
    <3>. QED
      BY <3>1, <3>2, Zenon
  <2>3. Slots' /\ Begun' /\ OneBondPerNode' /\ Answers'
    BY <1>5, <2>1, LockedStep, Zenon DEF KeepOldest, ResetFails
  <2>4. Queue'
    BY <1>5, <2>1, QueueKept, Zenon DEF KeepOldest
  <2>5. Bucket'
    BY <2>1, Zenon DEF IInv, Bucket
  <2>6. Eviction'
    BY <1>2, <2>1, BondingAssumption, Zenon DEF IInv, Eviction
  <2>. QED
    BY <2>2, <2>3, <2>4, <2>5, <2>6, Zenon DEF IInv
<1>6. CASE ReplaceOldest(p)
  <2>1. /\ pc[p] = "replace" /\ pc'[p] = "returned" /\ pc' \in [Procs -> Positions]
        /\ Goto(p, "returned") /\ mu = p /\ mu' = NoOne /\ UNCHANGED ponged
        /\ Len(entries) = BucketSize /\ ~InBucket(id[p])
    BY <1>6, Zenon DEF IInv, CallTypes, Eviction, ReplaceOldest, Goto, Positions
  <2>2. entries' \in Seq(Nodes) /\ Bucket'
    <3>. DEFINE r == SubSeq(entries, 1, BucketSize - 1)
    <3>1. /\ r \in Seq(Nodes) /\ Len(r) = BucketSize - 1
          /\ \A k \in 1..Len(r) : r[k] = entries[k] /\ k \in 1..Len(entries)
      <4>0. BucketSize \in Nat \ {0} /\ Len(entries) = BucketSize /\ entries \in Seq(Nodes)
        BY <1>1, <2>1, Zenon
      <4>1. BucketSize - 1 \in Nat /\ BucketSize - 1 <= Len(entries)
        BY <4>0
      <4>2. \A k \in 1..(BucketSize - 1) : k \in 1..Len(entries)
        BY <4>0
      <4>3. PICK n \in Nat : n = BucketSize - 1
        BY <4>1, Zenon
      <4>4. /\ SubSeq(entries, 1, n) \in Seq(Nodes) /\ Len(SubSeq(entries, 1, n)) = n
            /\ \A k \in 1..n : SubSeq(entries, 1, n)[k] = entries[k]
        <5>1. n <= Len(entries)
          BY <4>1, <4>3, Zenon
        <5>. QED
          BY <4>0, <5>1, PrefixFacts, ZenonT(30)
      <4>. QED
        BY <4>2, <4>3, <4>4, Zenon
    <3>2. entries' = <<id[p]>> \o r
      BY <1>6, Zenon DEF ReplaceOldest
    <3>. HIDE DEF r
    <3>3. entries' \in Seq(Nodes) /\ Len(entries') = BucketSize
      <4>1. id[p] \in Nodes /\ BucketSize \in Nat \ {0}
        BY <1>1, BondingAssumption, Zenon
      <4>2. <<id[p]>> \o r \in Seq(Nodes) /\ Len(<<id[p]>> \o r) = Len(r) + 1
        <5>1. PICK n \in Nodes : n = id[p]
          BY <4>1, Zenon
        <5>2. r \in Seq(Nodes)
          BY <3>1, Zenon
        <5>3. <<n>> \o r \in Seq(Nodes) /\ Len(<<n>> \o r) = Len(r) + 1
          BY <5>2
        <5>. QED
          BY <5>1, <5>3, Zenon
      <4>3. Len(r) + 1 = BucketSize
        BY <3>1, <4>1, Successor, Zenon
      <4>. QED
        BY <3>2, <4>2, <4>3, Zenon
    <3>4. Distinct(r) /\ Elements(r) \subseteq Elements(entries)
      BY <1>1, <3>1, Zenon DEF Distinct, Elements
    <3>5. id[p] \notin Elements(entries)
      BY <2>1, Zenon DEF InBucket, Elements
    <3>6. Distinct(entries') /\ Elements(entries') \subseteq Elements(r) \cup {id[p]}
      BY <1>1, <3>1, <3>2, <3>4, <3>5, FrontDistinct, Zenon
    <3>. QED
      BY <1>1, <2>1, <3>3, <3>4, <3>6, Zenon DEF Bucket
  <2>3. TableTypes' /\ BondTypes' /\ CallTypes' /\ NetTypes' /\ QueryTypes'
    <3>1. TableTypes' /\ CallTypes'
      BY <1>1, <1>6, <2>1, <2>2, BondingAssumption, Zenon
         DEF IInv, TableTypes, CallTypes, ReplaceOldest, ResetFails
    <3>2. BondTypes' /\ NetTypes' /\ QueryTypes'
      BY <1>6, TypesKept, Zenon DEF ReplaceOldest
    <3>. QED
      BY <3>1, <3>2, Zenon
  <2>4. Slots' /\ Begun' /\ OneBondPerNode' /\ Answers'
    BY <1>6, <2>1, LockedStep, Zenon DEF ReplaceOldest, ResetFails
  <2>5. Queue'
    BY <1>6, <2>1, QueueKept, Zenon DEF ReplaceOldest
  <2>6. Eviction'
    BY <1>2, <2>1, BondingAssumption, Zenon DEF IInv, Eviction
  <2>. QED
    BY <2>2, <2>3, <2>4, <2>5, <2>6, Zenon DEF IInv
<1>. QED
  BY <1>3, <1>4, <1>5, <1>6, Zenon

-----------------------------------------------------------------------------
(* The answers to pings. *)

\* The call at i in the queue gets the result of its ping.
LEMMA AnsweredStep ==
  ASSUME IInv, NEW i \in 1..Len(plist), NEW ok \in BOOLEAN, Answered(i, ok),
         ponged \subseteq ponged',
         ok => pingee[plist[i]] \in ponged',
         UNCHANGED <<pingee, id, pinged, node, w, err, done, tableVars, dbVars, bondVars,
                     queryVars>>
  PROVE  /\ pc' \in [Procs -> Positions] /\ plist' \in Seq(Procs)
         /\ Slots' /\ Begun' /\ OneBondPerNode' /\ Queue' /\ Answers' /\ Bucket' /\ Eviction'
<1>. DEFINE p == plist[i]
            l == IF pc[p] = "pong" THEN IF ok THEN "ponged" ELSE "failed"
                                   ELSE IF ok THEN "keep" ELSE "replace"
<1>1. /\ plist \in Seq(Procs) /\ Len(plist) \in Nat /\ p \in Procs
      /\ Distinct(plist)
  <2>1. plist \in Seq(Procs)
    BY Zenon DEF IInv, NetTypes
  <2>2. Len(plist) \in Nat /\ p \in Procs
    BY <2>1, EntryFacts, Zenon
  <2>3. Distinct(plist)
    BY Zenon DEF IInv, Queue, Distinct
  <2>. QED
    BY <2>1, <2>2, <2>3, Zenon
<1>2. /\ Goto(p, l) /\ plist' = Without(plist, i)
      /\ pc[p] \in {"pong", "evict"} /\ (pc[p] = "pong" => pingee[p] = id[p])
  BY Zenon DEF IInv, Queue, Answered
<1>3. /\ l \in {"ponged", "failed", "keep", "replace"}
      /\ pc[p] = "pong" <=> l \in {"ponged", "failed"}
      /\ l = "ponged" => ok
  BY <1>2, Zenon
<1>. HIDE DEF p, l
<1>4. /\ pc' \in [Procs -> Positions]
      /\ pc'[p] = l /\ \A r \in Procs \ {p} : pc'[r] = pc[r]
  BY <1>1, <1>2, <1>3, Zenon DEF IInv, CallTypes, Goto, Positions
<1>5. plist' \in Seq(Procs)
  BY <1>1, <1>2, WithoutFacts, Zenon
<1>6. Slots'
  BY <1>1, <1>2, <1>3, SlotsKept, Zenon DEF Pinging
<1>7. Begun'
  BY <1>2, <1>4, Zenon DEF IInv, Begun
<1>8. OneBondPerNode'
  BY <1>1, <1>2, <1>3, UnregisteredStep, Zenon DEF Pinging
<1>9. Queue'
  <2>1. Distinct(plist') /\ Elements(plist') \subseteq Elements(plist) \ {p}
    BY <1>1, <1>2, WithoutDistinct, Zenon DEF p
  <2>2. \A r \in Elements(plist) :
          pc[r] \in {"pong", "evict"} /\ (pc[r] = "pong" => pingee[r] = id[r])
    <3>1. Queue
      BY Zenon DEF IInv
    <3>. SUFFICES ASSUME NEW k \in 1..Len(plist)
                  PROVE  /\ pc[plist[k]] \in {"pong", "evict"}
                         /\ pc[plist[k]] = "pong" => pingee[plist[k]] = id[plist[k]]
      BY Zenon DEF Elements
    <3>. QED
      BY <3>1, Zenon DEF Queue
  <2>3. Elements(plist) \subseteq Procs
    BY <1>1 DEF Elements
  <2>4. \A r \in Elements(plist') :
          pc'[r] \in {"pong", "evict"} /\ (pc'[r] = "pong" => pingee[r] = id[r])
    BY <1>4, <2>1, <2>2, <2>3, Zenon
  <2>. QED
    BY <2>1, <2>4, Zenon DEF Queue, Distinct, Elements
<1>10. Answers'
  <2>1. l = "ponged" => id[p] \in ponged'
    BY <1>2, <1>3, Zenon DEF p
  <2>2. l \in {"keep", "replace"} => id[p] \in ponged
    BY <1>1, <1>2, <1>3, Zenon DEF IInv, Answers, Answer
  <2>3. l \in {"ponged", "failed"} => w[p] = p
    BY <1>1, <1>3, Zenon DEF IInv, Answers, Answer, Pinging
  <2>. QED
    BY <1>2, <1>3, <1>4, <2>1, <2>2, <2>3, ZenonT(30) DEF IInv, Answers, Answer, Pinging
<1>11. Bucket'
  BY Zenon DEF IInv, Bucket
<1>12. Eviction'
  BY <1>2, <1>3, <1>4, Zenon DEF IInv, Eviction, InBucket
<1>. QED
  BY <1>4, <1>5, <1>6, <1>7, <1>8, <1>9, <1>10, <1>11, <1>12, Zenon

\* A ping times out.
LEMMA TimeoutInv ==
  ASSUME IInv, NEW p \in Procs, PingTimeout(p)
  PROVE  IInv'
<1>1. PICK i \in 1..Len(plist) : Answered(i, FALSE)
  BY Zenon DEF PingTimeout
<1>2. /\ pc' \in [Procs -> Positions] /\ plist' \in Seq(Procs)
      /\ Slots' /\ Begun' /\ OneBondPerNode' /\ Queue' /\ Answers' /\ Bucket' /\ Eviction'
  BY <1>1, AnsweredStep, Zenon DEF PingTimeout
<1>3. TableTypes' /\ BondTypes' /\ CallTypes' /\ NetTypes' /\ QueryTypes'
  <2>1. NetTypes' /\ CallTypes'
    BY <1>2, Zenon DEF IInv, NetTypes, CallTypes, PingTimeout
  <2>2. TableTypes' /\ BondTypes' /\ QueryTypes'
    BY TypesKept, Zenon DEF PingTimeout
  <2>. QED
    BY <2>1, <2>2, Zenon
<1>. QED
  BY <1>2, <1>3, Zenon DEF IInv

-----------------------------------------------------------------------------
(* The network, the queries and the expirer. *)

\* The calls of bond do not move.
LEMMA CallsKept ==
  ASSUME IInv, known' \subseteq known,
         UNCHANGED <<bondVars, callVars, pingee, plist, ponged>>
  PROVE  Slots' /\ OneBondPerNode' /\ Queue' /\ Answers'
<1>1. Slots'
  BY Zenon DEF IInv, Slots, Holders
<1>2. OneBondPerNode'
  BY ZenonT(30) DEF IInv, OneBondPerNode
<1>3. Queue'
  BY Zenon DEF IInv, Queue
<1>4. Answers'
  BY Zenon DEF IInv, Answers, Answer
<1>. QED
  BY <1>1, <1>2, <1>3, <1>4, Zenon

\* Nor does the bucket change.
LEMMA BucketKept ==
  ASSUME IInv, UNCHANGED <<tableVars, pc, id, ponged>>
  PROVE  Bucket' /\ Eviction'
BY Zenon DEF IInv, Bucket, Eviction, InBucket

\* The packets, and the read loop.
LEMMA NetworkInv ==
  ASSUME IInv, NEW n \in Nodes,
         PongArrives(n) \/ FindnodeArrives(n) \/ ReadFindnode \/ ReadPong(n)
  PROVE  IInv'
<1>1. /\ inbox \in Seq(Packets) /\ <<"pong", n>> \in Packets /\ <<"findnode", n>> \in Packets
      /\ MaxEvents \in Nat
  BY BondingAssumption, Zenon DEF IInv, NetTypes, Packets
<1>2. inbox' \in Seq(Packets)
  <2>1. CASE inbox # << >> /\ inbox' = Tail(inbox)
    BY <1>1, <2>1
  <2>2. CASE \E x \in Packets : inbox' = Append(inbox, x)
    BY <1>1, <2>2
  <2>. QED
    BY <1>1, <2>1, <2>2, Zenon DEF PongArrives, FindnodeArrives, ReadFindnode, ReadPong
<1>3. CASE PongArrives(n)
  <2>1. TableTypes' /\ BondTypes' /\ CallTypes' /\ NetTypes' /\ QueryTypes'
    <3>1. NetTypes'
      BY <1>2, <1>3 DEF IInv, NetTypes, PongArrives
    <3>2. TableTypes' /\ BondTypes' /\ CallTypes' /\ QueryTypes'
      BY <1>3, TypesKept, Zenon DEF PongArrives
    <3>. QED
      BY <3>1, <3>2, Zenon
  <2>2. Begun' /\ Slots' /\ OneBondPerNode' /\ Queue' /\ Answers' /\ Bucket' /\ Eviction'
    BY <1>3, CallsKept, BucketKept, Zenon DEF IInv, Begun, PongArrives
  <2>. QED
    BY <2>1, <2>2, Zenon DEF IInv
<1>4. CASE FindnodeArrives(n)
  <2>1. TableTypes' /\ BondTypes' /\ CallTypes' /\ NetTypes' /\ QueryTypes'
    <3>1. NetTypes' /\ QueryTypes'
      BY <1>1, <1>2, <1>4 DEF IInv, NetTypes, QueryTypes, FindnodeArrives
    <3>2. TableTypes' /\ BondTypes' /\ CallTypes'
      BY <1>4, TypesKept, Zenon DEF FindnodeArrives
    <3>. QED
      BY <3>1, <3>2, Zenon
  <2>2. Begun' /\ Slots' /\ OneBondPerNode' /\ Queue' /\ Answers' /\ Bucket' /\ Eviction'
    BY <1>4, CallsKept, BucketKept, Zenon DEF IInv, Begun, FindnodeArrives
  <2>. QED
    BY <2>1, <2>2, Zenon DEF IInv
<1>5. CASE ReadFindnode
  <2>1. TableTypes' /\ BondTypes' /\ CallTypes' /\ NetTypes' /\ QueryTypes'
    <3>1. NetTypes'
      BY <1>2, <1>5, Zenon DEF IInv, NetTypes, ReadFindnode
    <3>2. TableTypes' /\ BondTypes' /\ CallTypes' /\ QueryTypes'
      BY <1>5, TypesKept, Zenon DEF ReadFindnode
    <3>. QED
      BY <3>1, <3>2, Zenon
  <2>2. Begun' /\ Slots' /\ OneBondPerNode' /\ Queue' /\ Answers' /\ Bucket' /\ Eviction'
    BY <1>5, CallsKept, BucketKept, Zenon DEF IInv, Begun, ReadFindnode
  <2>. QED
    BY <2>1, <2>2, Zenon DEF IInv
<1>6. CASE ReadPong(n)
  <2>1. CASE UNCHANGED <<pc, plist, ponged>>
    <3>1. TableTypes' /\ BondTypes' /\ CallTypes' /\ NetTypes' /\ QueryTypes'
      <4>1. CallTypes' /\ NetTypes'
        BY <1>2, <1>6, <2>1, Zenon DEF IInv, CallTypes, NetTypes, ReadPong
      <4>2. TableTypes' /\ BondTypes' /\ QueryTypes'
        BY <1>6, TypesKept, Zenon DEF ReadPong
      <4>. QED
        BY <4>1, <4>2, Zenon
    <3>2. Begun' /\ Slots' /\ OneBondPerNode' /\ Queue' /\ Answers' /\ Bucket' /\ Eviction'
      BY <1>6, <2>1, CallsKept, BucketKept, Zenon DEF IInv, Begun, ReadPong
    <3>. QED
      BY <3>1, <3>2, Zenon DEF IInv
  <2>2. CASE \E i \in Waiting(n) : Answered(i, TRUE) /\ ponged' = ponged \cup {n}
    <3>1. PICK i \in Waiting(n) : Answered(i, TRUE) /\ ponged' = ponged \cup {n}
      BY <2>2, Zenon
    <3>2. i \in 1..Len(plist) /\ pingee[plist[i]] = n
      BY <3>1, Zenon DEF Waiting
    <3>3. /\ pc' \in [Procs -> Positions] /\ plist' \in Seq(Procs)
          /\ Slots' /\ Begun' /\ OneBondPerNode' /\ Queue' /\ Answers' /\ Bucket' /\ Eviction'
      BY <1>6, <3>1, <3>2, AnsweredStep, Zenon DEF ReadPong
    <3>4. TableTypes' /\ BondTypes' /\ CallTypes' /\ NetTypes' /\ QueryTypes'
      <4>1. CallTypes' /\ NetTypes'
        BY <1>2, <1>6, <3>1, <3>3, Zenon DEF IInv, CallTypes, NetTypes, ReadPong
      <4>2. TableTypes' /\ BondTypes' /\ QueryTypes'
        BY <1>6, TypesKept, Zenon DEF ReadPong
      <4>. QED
        BY <4>1, <4>2, Zenon
    <3>. QED
      BY <3>3, <3>4, Zenon DEF IInv
  <2>. QED
    BY <1>6, <2>1, <2>2, Zenon DEF ReadPong
<1>. QED
  BY <1>3, <1>4, <1>5, <1>6, Zenon

\* The queries that fail, and the expirer.
LEMMA QueryInv ==
  ASSUME IInv, NEW q \in Queries, NEW n \in Nodes,
         QueryFails(q, n) \/ QueryRead(q) \/ QueryWrite(q) \/ QueryDel(q)
  PROVE  IInv'
<1>1. MaxEvents \in Nat
  BY BondingAssumption, Zenon
<1>2. CASE QueryFails(q, n)
  <2>1. TableTypes' /\ BondTypes' /\ CallTypes' /\ NetTypes' /\ QueryTypes'
    <3>1. QueryTypes'
      BY <1>1, <1>2 DEF IInv, QueryTypes, QueryFails
    <3>2. TableTypes' /\ BondTypes' /\ CallTypes' /\ NetTypes'
      BY <1>2, TypesKept, Zenon DEF QueryFails
    <3>. QED
      BY <3>1, <3>2, Zenon
  <2>2. Begun'
    BY <1>2, Zenon DEF IInv, QueryTypes, Begun, QueryFails
  <2>3. Slots' /\ OneBondPerNode' /\ Queue' /\ Answers' /\ Bucket' /\ Eviction'
    BY <1>2, CallsKept, BucketKept, Zenon DEF QueryFails
  <2>. QED
    BY <2>1, <2>2, <2>3, Zenon DEF IInv
<1>3. CASE QueryRead(q)
  <2>1. qnode[q] \in Nodes
    BY <1>3, Zenon DEF IInv, Begun, QueryRead
  <2>2. TableTypes' /\ BondTypes' /\ CallTypes' /\ NetTypes' /\ QueryTypes'
    <3>1. TableTypes' /\ QueryTypes'
      BY <1>3, <2>1 DEF IInv, TableTypes, QueryTypes, QueryRead
    <3>2. BondTypes' /\ CallTypes' /\ NetTypes'
      BY <1>3, TypesKept, Zenon DEF QueryRead
    <3>. QED
      BY <3>1, <3>2, Zenon
  <2>3. Begun'
    BY <1>3, <2>1, Zenon DEF IInv, QueryTypes, Begun, QueryRead
  <2>4. Slots' /\ OneBondPerNode' /\ Queue' /\ Answers' /\ Bucket' /\ Eviction'
    BY <1>3, CallsKept, BucketKept, Zenon DEF QueryRead
  <2>. QED
    BY <2>2, <2>3, <2>4, Zenon DEF IInv
<1>4. CASE QueryWrite(q)
  <2>1. qnode[q] \in Nodes
    BY <1>4, Zenon DEF IInv, Begun, QueryWrite
  <2>2. TableTypes' /\ BondTypes' /\ CallTypes' /\ NetTypes' /\ QueryTypes'
    <3>1. TableTypes' /\ QueryTypes'
      BY <1>4, <2>1, Zenon DEF IInv, TableTypes, QueryTypes, QueryWrite
    <3>2. BondTypes' /\ CallTypes' /\ NetTypes'
      BY <1>4, TypesKept, Zenon DEF QueryWrite
    <3>. QED
      BY <3>1, <3>2, Zenon
  <2>3. Begun'
    BY <1>4, <2>1, Zenon DEF IInv, QueryTypes, Begun, QueryWrite
  <2>4. Slots' /\ OneBondPerNode' /\ Queue' /\ Answers' /\ Bucket' /\ Eviction'
    BY <1>4, CallsKept, BucketKept, Zenon DEF QueryWrite
  <2>. QED
    BY <2>2, <2>3, <2>4, Zenon DEF IInv
<1>5. CASE QueryDel(q)
  <2>1. entries' \in Seq(Nodes) /\ Bucket'
    <3>1. CASE \E i \in 1..Len(entries) : entries' = Without(entries, i)
      <4>1. PICK i \in 1..Len(entries) : entries' = Without(entries, i)
        BY <3>1, Zenon
      <4>2. /\ entries \in Seq(Nodes) /\ Len(entries) <= BucketSize /\ Len(entries) \in Nat
            /\ Distinct(entries) /\ Elements(entries) \subseteq ponged /\ BucketSize \in Nat
        BY BondingAssumption DEF IInv, TableTypes, Bucket
      <4>3. entries' \in Seq(Nodes) /\ Len(entries') = Len(entries) - 1
        BY <4>1, <4>2, WithoutFacts, Zenon
      <4>4. Distinct(entries') /\ Elements(entries') \subseteq Elements(entries)
        BY <4>1, <4>2, WithoutDistinct, Zenon
      <4>5. UNCHANGED ponged
        BY <1>5, Zenon DEF QueryDel
      <4>. QED
        BY <4>2, <4>3, <4>4, <4>5 DEF Bucket
    <3>2. CASE UNCHANGED entries
      BY <1>5, <3>2, Zenon DEF IInv, TableTypes, Bucket, QueryDel
    <3>. QED
      BY <1>5, <3>1, <3>2, Zenon DEF QueryDel
  <2>2. TableTypes' /\ BondTypes' /\ CallTypes' /\ NetTypes' /\ QueryTypes'
    <3>1. TableTypes' /\ QueryTypes'
      BY <1>5, <2>1, Zenon DEF IInv, TableTypes, QueryTypes, QueryDel
    <3>2. BondTypes' /\ CallTypes' /\ NetTypes'
      BY <1>5, TypesKept, Zenon DEF QueryDel
    <3>. QED
      BY <3>1, <3>2, Zenon
  <2>3. Begun'
    BY <1>5, Zenon DEF IInv, QueryTypes, Begun, QueryDel
  <2>4. Slots' /\ OneBondPerNode' /\ Queue' /\ Answers'
    BY <1>5, CallsKept, Zenon DEF QueryDel
  <2>5. Eviction'
    BY <1>5, BondingAssumption, Zenon DEF IInv, Eviction, QueryDel
  <2>. QED
    BY <2>1, <2>2, <2>3, <2>4, <2>5, Zenon DEF IInv
<1>. QED
  BY <1>2, <1>3, <1>4, <1>5, Zenon

\* The expirer drops a node.
LEMMA ExpireInv ==
  ASSUME IInv, NEW n \in Nodes, Expire(n)
  PROVE  IInv'
<1>1. TableTypes' /\ BondTypes' /\ CallTypes' /\ NetTypes' /\ QueryTypes'
  <2>1. TableTypes'
    BY Zenon DEF IInv, TableTypes, Expire
  <2>2. QueryTypes'
    <3>1. events \in 0..MaxEvents /\ events < MaxEvents /\ events' = events + 1
      BY Zenon DEF IInv, QueryTypes, Expire
    <3>2. events' \in 0..MaxEvents
      BY <3>1, BondingAssumption
    <3>. QED
      BY <3>2, Zenon DEF IInv, QueryTypes, Expire
  <2>3. BondTypes' /\ CallTypes' /\ NetTypes'
    BY TypesKept, Zenon DEF Expire
  <2>. QED
    BY <2>1, <2>2, <2>3, Zenon
<1>2. Begun'
  BY Zenon DEF IInv, Begun, Expire
<1>3. Slots' /\ OneBondPerNode' /\ Queue' /\ Answers' /\ Bucket' /\ Eviction'
  BY CallsKept, BucketKept, Zenon DEF Expire
<1>. QED
  BY <1>1, <1>2, <1>3, Zenon DEF IInv

-----------------------------------------------------------------------------
(* Theorems. *)

\* The invariant holds at the start.
LEMMA Initially == Init => IInv
<1>. SUFFICES ASSUME Init PROVE IInv
  OBVIOUS
<1>1. TableTypes /\ BondTypes /\ QueryTypes
  <2>1. TableTypes
    BY BondingAssumption, Zenon DEF Init, TableTypes
  <2>2. bonding = [n \in Nodes |-> NoOne] /\ slots = MaxSlots
    BY Zenon DEF Init
  <2>3. BondTypes
    BY <2>2, BondingAssumption DEF BondTypes
  <2>4. /\ qpc = [q \in Queries |-> "idle"] /\ qnode = [q \in Queries |-> NoNode]
        /\ qfails = [q \in Queries |-> 0] /\ events = 0
    BY Zenon DEF Init
  <2>5. QueryTypes
    BY <2>4, BondingAssumption DEF QueryTypes
  <2>. QED
    BY <2>1, <2>3, <2>5, Zenon
<1>2. CallTypes
  BY Zenon DEF Init, CallTypes, Positions
<1>3. NetTypes
  BY BondingAssumption DEF Init, NetTypes
<1>4. Slots
  <2>1. Holders = {}
    BY Zenon DEF Init, Holders, Pinging
  <2>2. Cardinality(Holders) = 0
    BY <2>1, FS_EmptySet, Zenon
  <2>. QED
    BY <2>2, BondingAssumption DEF Init, Slots
<1>5. Begun /\ OneBondPerNode /\ Queue
  BY BondingAssumption DEF Init, Begun, OneBondPerNode, Queue, Pinging
<1>6. Answers
  BY Zenon DEF Init, Answers, Answer, Pinging
<1>7. Bucket
  <2>1. entries = Entries0 /\ ponged = Known0
    BY Zenon DEF Init
  <2>2. Elements(entries) \subseteq ponged
    <3>1. \A i \in 1..Len(Entries0) : Entries0[i] \in Known0
      BY BondingAssumption, Zenon
    <3>. QED
      BY <2>1, <3>1, Zenon DEF Elements
  <2>3. /\ Len(Entries0) <= BucketSize
        /\ \A i, j \in 1..Len(Entries0) : Entries0[i] = Entries0[j] => i = j
    BY BondingAssumption, Zenon
  <2>. QED
    BY <2>1, <2>2, <2>3, Zenon DEF Bucket, Distinct
<1>8. Eviction
  BY BondingAssumption, Zenon DEF Init, Eviction
<1>. QED
  BY <1>1, <1>2, <1>3, <1>4, <1>5, <1>6, <1>7, <1>8, Zenon DEF IInv

\* The inductive invariant of bond, the read loop, the queries and the expirer.
THEOREM Invariance == SafetySpec => []IInv
<1>1. IInv /\ [Next]_vars => IInv'
  <2>. SUFFICES ASSUME IInv, [Next]_vars PROVE IInv'
    OBVIOUS
  <2>1. CASE \E p \in Procs, n \in Nodes, b \in BOOLEAN : Call(p, n, b)
    BY <2>1, CallInv, Zenon
  <2>2. CASE \E p \in Procs : ProcStep(p) \/ PingTimeout(p)
    <3>1. PICK p \in Procs : ProcStep(p) \/ PingTimeout(p)
      BY <2>2, Zenon
    <3>2. CASE ReadNode(p) \/ ReadFails(p) \/ Register(p) \/ Join(p)
      <4>1. id[p] \in Nodes
        BY <3>2, Zenon DEF IInv, Begun, ReadNode, ReadFails, Register, Join
      <4>. QED
        BY <3>2, <4>1, CallInv, Zenon
    <3>3. CASE PingOk(p) \/ PingFailed(p) \/ WaitPing(p) \/ StoreNode(p) \/ CloseDone(p)
               \/ Unregister(p)
      BY <3>3, PingpongInv, Zenon
    <3>4. CASE TakeSlot(p) \/ ReleaseSlot(p)
      BY <3>4, SlotInv, Zenon
    <3>5. CASE Insert(p) \/ PingOldest(p) \/ KeepOldest(p) \/ ReplaceOldest(p)
      BY <3>5, SectionInv, Zenon
    <3>6. CASE PingTimeout(p)
      BY <3>6, TimeoutInv, Zenon
    <3>. QED
      BY <3>1, <3>2, <3>3, <3>4, <3>5, <3>6, Zenon DEF ProcStep
  <2>3. CASE \E n \in Nodes : PongArrives(n) \/ FindnodeArrives(n) \/ Expire(n)
    BY <2>3, NetworkInv, ExpireInv, Zenon
  <2>4. CASE ReaderStep
    <3>1. CASE ReadFindnode
      <4>1. Head(inbox) \in Packets
        BY <3>1 DEF IInv, NetTypes, ReadFindnode
      <4>2. \E n \in Nodes : TRUE
        BY <4>1, Zenon DEF Packets
      <4>. QED
        BY <3>1, <4>2, NetworkInv, Zenon
    <3>2. CASE \E n \in Nodes : ReadPong(n)
      BY <3>2, NetworkInv, Zenon
    <3>. QED
      BY <2>4, <3>1, <3>2, Zenon DEF ReaderStep
  <2>5. CASE \E q \in Queries : QueryStep(q) \/ \E n \in Nodes : QueryFails(q, n)
    <3>1. PICK q \in Queries : QueryStep(q) \/ \E n \in Nodes : QueryFails(q, n)
      BY <2>5, Zenon
    <3>2. CASE QueryStep(q)
      <4>1. qnode[q] \in Nodes
        BY <3>2, Zenon DEF IInv, Begun, QueryStep, QueryRead, QueryWrite, QueryDel
      <4>. QED
        BY <3>2, <4>1, QueryInv, Zenon DEF QueryStep
    <3>. QED
      BY <3>1, <3>2, QueryInv, Zenon
  <2>6. CASE UNCHANGED vars
    <3>1. TableTypes' /\ BondTypes' /\ CallTypes' /\ NetTypes' /\ QueryTypes'
      BY <2>6, TypesKept, Zenon DEF vars
    <3>2. Begun' /\ Slots' /\ OneBondPerNode' /\ Queue' /\ Answers' /\ Bucket' /\ Eviction'
      BY <2>6, CallsKept, BucketKept, Zenon DEF IInv, Begun, vars
    <3>. QED
      BY <3>1, <3>2, Zenon DEF IInv
  <2>. QED
    BY <2>1, <2>2, <2>3, <2>4, <2>5, <2>6, Zenon DEF Next
<1>. QED
  BY <1>1, Initially, PTL DEF SafetySpec

\* The bucket never overflows nor holds a node twice, and no slot is made up, for any
\* size of the bucket and any number of calls that check and change it.
THEOREM BucketAlwaysSound == SafetySpec => []BucketSound
<1>1. IInv => BucketSound
  BY Zenon DEF IInv, TableTypes, BondTypes, CallTypes, NetTypes, QueryTypes, TypeOK, Bucket,
         Distinct, BucketSound
<1>. QED
  BY <1>1, Invariance, PTL

\* However many calls of bond there are for a node, at most one pings it, and
\* tab.bonding names that one.
THEOREM OneBondAlways == SafetySpec => []OneBondPerNode
<1>1. IInv => OneBondPerNode
  BY Zenon DEF IInv
<1>. QED
  BY <1>1, Invariance, PTL

\* No order of pongs, timeouts, failures and expiries brings a node into the bucket that
\* neither the database knew nor a pong came from.
THEOREM EntriesAlwaysBonded == SafetySpec => []EntriesBonded
<1>1. IInv => EntriesBonded
  BY Zenon DEF IInv, Bucket, Elements, EntriesBonded
<1>. QED
  BY <1>1, Invariance, PTL
=============================================================================
