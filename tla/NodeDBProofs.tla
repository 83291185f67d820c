---------------------------- MODULE NodeDBProofs ----------------------------
(***************************************************************************)
(* Proofs about NodeDB, for any nodes, goroutines, versions and times: a   *)
(* program works only on what its own version has written, no node is      *)
(* without the time of its last pong, unless the iterator of deleteNode    *)
(* has torn it, and no node is deleted that was seen since the threshold,  *)
(* both unless a pong and the deletion of the node have overlapped.        *)
(***************************************************************************)
EXTENDS NodeDB, FiniteSetTheorems, TLAPS

\* Steps with a large context need more time than the default.
USE SMTT(30)

\* Nothing runs while the storage is not open, and a node is deleted only while the
\* expirer says so; a goroutine that is at work has a node.
AtRest ==
  /\ program # "up" => expirer = "none" /\ \A p \in Procs : pc[p] = "idle"
  /\ IF expirer \in {"iterate", "delete"} THEN victim \in Ids ELSE victim = NoNode
  /\ expirer = "delete" => \A e \in doomed : e[2][1] = victim
  /\ \A p \in Procs : pc[p] # "idle" => id[p] \in Ids

\* What is in the storage was written by the version that is stored.
Written ==
  /\ by \subseteq {stored}
  /\ program # "down" => version \in Versions
  /\ program = "up" => stored = version

\* Between its pong and its node a bond finds the time of the pong in place and
\* recent: the expirer has no reason to delete the node.
Storing ==
  \A p \in Procs : pc[p] = "store" =>
    /\ seen[id[p]] <= MaxBond
    /\ id[p] \in Nodes \ raced => id[p] # victim /\ <<id[p], "lastpong">> \in keys

\* What is left of an iterator, D, gives the key of n before the time of its last
\* pong.
PongBehind(n, D) ==
  \A e \in D : e[2] = <<n, "lastpong">> =>
    \E d \in D : d[2] = <<n, "discover">> /\ d[1] < e[1]

\* The time of the last pong goes after the node.
PongLast ==
  \A n \in Nodes \ (raced \cup torn) :
    /\ <<n, "discover">> \in keys => <<n, "lastpong">> \in keys
    /\ expirer = "delete" /\ n = victim /\ <<n, "discover">> \in keys
         => PongBehind(n, doomed)

\* The node that is deleted has not been seen since the threshold, and neither has
\* one that a deletion has left without the time of its last pong.
VictimUnseen ==
  /\ Expiring => limit \in Expiration..(Expiration + MaxScan)
  /\ \A n \in Nodes \ raced :
       <<n, "discover">> \in keys /\ (n = victim \/ <<n, "lastpong">> \notin keys)
         => seen[n] >= Expiration /\ (Expiring => seen[n] >= limit)

IInv == TypeOK /\ AtRest /\ Written /\ Storing /\ PongLast /\ VictimUnseen

USE DEF Ids, Fields, Keys, Old, storageVars, programVars, bondVars, expireVars,
       historyVars

-----------------------------------------------------------------------------
(* The invariant is inductive. *)

\* newNodeDB, NewByVersion, close and a crash keep the invariant.
LEMMA ProgramInv ==
  ASSUME IInv,
         (\E v \in Versions : Open(v)) \/ CheckVersion \/ RemoveAll \/ Reopen \/ Down
  PROVE  IInv'
<1>1. ASSUME NEW v \in Versions, Open(v)  PROVE  IInv'
  <2>1. TypeOK' /\ AtRest' /\ Written'
    BY NodeDBAssumption, <1>1 DEF IInv, TypeOK, AtRest, Written, Open
  <2>2. Storing' /\ PongLast' /\ VictimUnseen'
    BY <1>1 DEF IInv, Storing, PongLast, VictimUnseen, Expiring, Open
  <2>. QED
    BY <2>1, <2>2 DEF IInv
<1>2. CASE CheckVersion
  <2>1. TypeOK' /\ AtRest'
    BY <1>2 DEF IInv, TypeOK, AtRest, CheckVersion
  <2>2. Written'
    BY NodeDBAssumption, <1>2 DEF IInv, TypeOK, Written, CheckVersion
  <2>3. Storing' /\ PongLast' /\ VictimUnseen'
    BY <1>2 DEF IInv, Storing, PongLast, VictimUnseen, Expiring, CheckVersion
  <2>. QED
    BY <2>1, <2>2, <2>3 DEF IInv
<1>3. CASE RemoveAll
  <2>1. TypeOK' /\ AtRest' /\ Written'
    BY NodeDBAssumption, <1>3 DEF IInv, TypeOK, AtRest, Written, RemoveAll
  <2>2. Storing' /\ PongLast' /\ VictimUnseen'
    BY <1>3 DEF IInv, AtRest, Storing, PongLast, VictimUnseen, Expiring, RemoveAll
  <2>. QED
    BY <2>1, <2>2 DEF IInv
<1>4. CASE Reopen
  <2>1. TypeOK' /\ AtRest' /\ Written'
    BY <1>4 DEF IInv, TypeOK, AtRest, Written, Reopen
  <2>2. Storing' /\ PongLast' /\ VictimUnseen'
    BY <1>4 DEF IInv, Storing, PongLast, VictimUnseen, Expiring, Reopen
  <2>. QED
    BY <2>1, <2>2 DEF IInv
<1>5. CASE Down
  <2>1. TypeOK'
    <3>1. due' \in BOOLEAN
      BY <1>5, Zenon DEF Down
    <3>. QED
      BY NodeDBAssumption, <1>5, <3>1 DEF IInv, TypeOK, Down
  <2>2. AtRest' /\ Written'
    BY <1>5 DEF IInv, AtRest, Written, Down
  <2>3. Storing' /\ PongLast' /\ VictimUnseen'
    BY NodeDBAssumption, <1>5 DEF IInv, Storing, PongLast, VictimUnseen, Expiring,
       Down
  <2>. QED
    BY <2>1, <2>2, <2>3 DEF IInv
<1>. QED
  BY <1>1, <1>2, <1>3, <1>4, <1>5

\* The writes of bond keep the invariant.
LEMMA BondInv ==
  ASSUME IInv, NEW p \in Procs,
         \/ \E n \in Callees, k \in {"new", "known", "oldest"}, l \in {"ping", "reset"} :
              Begin(p, n, k, l)
         \/ StorePing(p) \/ PingFails(p) \/ StorePong(p) \/ StoreNode(p) \/ ResetFails(p)
  PROVE  IInv'
<1>1. ASSUME NEW n \in Callees, NEW k \in {"new", "known", "oldest"},
            NEW l \in {"ping", "reset"}, Begin(p, n, k, l)
     PROVE  IInv'
  <2>1. TypeOK' /\ AtRest' /\ Written'
    BY NodeDBAssumption, <1>1 DEF IInv, TypeOK, AtRest, Written, Begin
  <2>2. Storing'
    BY <1>1 DEF IInv, TypeOK, Storing, Begin
  <2>3. PongLast' /\ VictimUnseen'
    BY <1>1 DEF IInv, PongLast, VictimUnseen, Expiring, Begin
  <2>. QED
    BY <2>1, <2>2, <2>3 DEF IInv
<1>2. CASE StorePing(p)
  <2>1. TypeOK' /\ AtRest' /\ Written'
    BY <1>2 DEF IInv, TypeOK, AtRest, Written, StorePing, Write, Goto
  <2>2. Storing'
    BY <1>2 DEF IInv, TypeOK, Storing, StorePing, Write, Goto
  <2>3. PongLast' /\ VictimUnseen'
    BY <1>2 DEF IInv, PongLast, VictimUnseen, Expiring, StorePing, Write, Goto
  <2>. QED
    BY <2>1, <2>2, <2>3 DEF IInv
<1>3. CASE PingFails(p)
  <2>1. TypeOK' /\ AtRest' /\ Written'
    BY <1>3 DEF IInv, TypeOK, AtRest, Written, PingFails, Goto
  <2>2. Storing'
    BY <1>3 DEF IInv, TypeOK, Storing, PingFails, Goto
  <2>3. PongLast' /\ VictimUnseen'
    BY <1>3 DEF IInv, PongLast, VictimUnseen, Expiring, PingFails, Goto
  <2>. QED
    BY <2>1, <2>2, <2>3 DEF IInv
<1>4. CASE StorePong(p)
  <2>1. TypeOK' /\ AtRest' /\ Written'
    BY NodeDBAssumption, <1>4 DEF IInv, TypeOK, AtRest, Written, StorePong, Write,
       Goto
  <2>2. Storing'
    BY NodeDBAssumption, <1>4 DEF IInv, TypeOK, AtRest, Storing, StorePong, Write,
       Goto
  <2>3. PongLast'
    BY <1>4, Zenon DEF IInv, TypeOK, AtRest, PongLast, StorePong, Write, Goto
  <2>4. VictimUnseen'
    BY <1>4 DEF IInv, TypeOK, AtRest, VictimUnseen, Expiring, StorePong, Write, Goto
  <2>. QED
    BY <2>1, <2>2, <2>3, <2>4 DEF IInv
<1>5. CASE StoreNode(p)
  <2>1. TypeOK' /\ AtRest' /\ Written'
    BY <1>5 DEF IInv, TypeOK, AtRest, Written, StoreNode, Write, Goto
  <2>2. Storing'
    BY <1>5 DEF IInv, TypeOK, Storing, StoreNode, Write, Goto
  <2>3. PongLast'
    BY <1>5, Zenon DEF IInv, Storing, PongLast, StoreNode, Write, Goto
  <2>4. VictimUnseen'
    BY <1>5, Zenon DEF IInv, Storing, VictimUnseen, Expiring, StoreNode, Write, Goto
  <2>. QED
    BY <2>1, <2>2, <2>3, <2>4 DEF IInv
<1>6. CASE ResetFails(p)
  <2>1. TypeOK' /\ AtRest' /\ Written'
    BY <1>6 DEF IInv, TypeOK, AtRest, Written, ResetFails, Write, Goto
  <2>2. Storing'
    BY <1>6 DEF IInv, TypeOK, Storing, ResetFails, Write, Goto
  <2>3. PongLast' /\ VictimUnseen'
    BY <1>6 DEF IInv, PongLast, VictimUnseen, Expiring, ResetFails, Write, Goto
  <2>. QED
    BY <2>1, <2>2, <2>3 DEF IInv
<1>. QED
  BY <1>1, <1>2, <1>3, <1>4, <1>5, <1>6

\* expireNodes and deleteNode keep the invariant, and so does the time.
LEMMA ExpireInv ==
  ASSUME IInv, ExpireStep \/ Tick
  PROVE  IInv'
<1>1. CASE ExpireBegin
  <2>1. TypeOK'
    <3>1. due' \in BOOLEAN
      BY <1>1, Zenon DEF ExpireBegin
    <3>. QED
      BY NodeDBAssumption, <1>1, <3>1 DEF IInv, TypeOK, ExpireBegin
  <2>2. AtRest' /\ Written'
    BY <1>1 DEF IInv, AtRest, Written, ExpireBegin
  <2>3. Storing' /\ PongLast'
    BY <1>1 DEF IInv, Storing, PongLast, ExpireBegin
  <2>4. VictimUnseen'
    BY NodeDBAssumption, <1>1 DEF IInv, AtRest, VictimUnseen, Expiring, ExpireBegin
  <2>. QED
    BY <2>1, <2>2, <2>3, <2>4 DEF IInv
<1>2. ASSUME NEW n \in Ids, Judge(n)  PROVE  IInv'
  <2>1. TypeOK' /\ AtRest' /\ Written'
    BY <1>2 DEF IInv, TypeOK, AtRest, Written, Judge, SeenAfter
  <2>2. Storing'
    BY NodeDBAssumption, <1>2 DEF IInv, TypeOK, AtRest, Storing, VictimUnseen,
       Expiring, Judge, SeenAfter
  <2>3. PongLast'
    BY <1>2, Zenon DEF IInv, PongLast, Judge, SeenAfter
  <2>4. VictimUnseen'
    BY NodeDBAssumption, <1>2 DEF IInv, TypeOK, PongLast, VictimUnseen, Expiring,
       Judge, SeenAfter
  <2>. QED
    BY <2>1, <2>2, <2>3, <2>4 DEF IInv
<1>3. CASE DeleteBegin
  <2>1. /\ doomed' = {e \in NewIterator(keys \cup {VersionKey}) : e[2][1] = victim}
        /\ torn' = IF Tears(doomed') THEN torn \cup {victim} ELSE torn
        /\ UNCHANGED <<keys, victim, raced>>
    BY <1>3, Zenon DEF DeleteBegin
  <2>2. doomed' \subseteq Int \X Keys /\ \A e \in doomed' : e[2][1] = victim
    <3>1. SUFFICES ASSUME NEW e \in doomed'
                   PROVE  e \in Int \X Keys /\ e[2][1] = victim
      OBVIOUS
    <3>2. e \in NewIterator(keys \cup {VersionKey}) /\ e[2][1] = victim
      BY <2>1, <3>1
    <3>3. e \in Int \X (keys \cup {VersionKey})
      BY <3>2 DEF NewIterator, Turns
    <3>4. victim # NoNode
      BY NodeDBAssumption, <1>3 DEF IInv, AtRest, DeleteBegin
    <3>. QED
      BY <3>2, <3>3, <3>4 DEF IInv, TypeOK, VersionKey
  <2>3. TypeOK' /\ AtRest' /\ Written'
    BY <1>3, <2>2 DEF IInv, TypeOK, AtRest, Written, DeleteBegin
  <2>4. Storing' /\ VictimUnseen'
    BY <1>3 DEF IInv, Storing, VictimUnseen, Expiring, DeleteBegin
  <2>5. PongLast'
    <3>1. SUFFICES ASSUME NEW n \in Nodes \ (raced \cup torn'), n = victim,
                          <<n, "discover">> \in keys
                   PROVE  PongBehind(n, doomed')
      <4>1. torn \subseteq torn'
        BY <2>1
      <4>. QED
        BY <2>1, <4>1, Zenon DEF IInv, PongLast
    <3>2. ~Tears(doomed')
      BY <2>1, <3>1
    <3>3. ASSUME NEW e \in doomed', e[2] = <<n, "lastpong">>
         PROVE  \E d \in doomed' : d[2] = <<n, "discover">> /\ d[1] < e[1]
      <4>1. Order(<<n, "discover">>) < Order(e[2])
        BY NodeDBAssumption, <3>3
      <4>. QED
        BY <3>1, <3>2, <3>3, <4>1, Zenon DEF Tears
    <3>. QED
      BY <3>3 DEF PongBehind
  <2>. QED
    BY <2>3, <2>4, <2>5 DEF IInv
<1>4. ASSUME NEW e \in doomed, DeleteKey(e)  PROVE  IInv'
  <2>1. TypeOK' /\ AtRest' /\ Written'
    BY <1>4 DEF IInv, TypeOK, AtRest, Written, DeleteKey
  <2>2. \A n, f : n # victim => (<<n, f>> \in keys' <=> <<n, f>> \in keys)
    <3>1. keys' = keys \ {e[2]} /\ e[2][1] = victim
      BY <1>4, Zenon DEF IInv, AtRest, DeleteKey
    <3>2. \A n, f : <<n, f>>[1] = n
      OBVIOUS
    <3>. QED
      BY <3>1, <3>2, Zenon
  <2>3. Storing'
    <3>1. UNCHANGED <<pc, id, seen, victim, raced>>
      BY <1>4, Zenon DEF DeleteKey
    <3>. QED
      BY <2>2, <3>1, Zenon DEF IInv, Storing
  <2>4. PongLast'
    <3>1. SUFFICES ASSUME NEW n \in Nodes \ (raced \cup torn), n = victim,
                          <<n, "discover">> \in keys, <<n, "discover">> # e[2]
                   PROVE  <<n, "lastpong">> # e[2] /\ PongBehind(n, doomed \ {e})
      <4>1. /\ keys' = keys \ {e[2]} /\ doomed' = doomed \ {e}
            /\ UNCHANGED <<expirer, victim, raced, torn>>
        BY <1>4, Zenon DEF DeleteKey
      <4>2. SUFFICES ASSUME NEW n \in Nodes \ (raced \cup torn), n = victim
                     PROVE  <<n, "discover">> \in keys' =>
                              <<n, "lastpong">> \in keys' /\ PongBehind(n, doomed')
        BY <2>2, <4>1, Zenon DEF IInv, PongLast
      <4>. QED
        BY <3>1, <4>1, <4>2, Zenon DEF IInv, PongLast
    <3>2. \A u \in doomed : u[2] = <<n, "lastpong">> =>
            \E d \in doomed : d[2] = <<n, "discover">> /\ d[1] < u[1]
      BY <1>4, <3>1, Zenon DEF IInv, PongLast, PongBehind, DeleteKey
    <3>3. ASSUME e[2] = <<n, "lastpong">>  PROVE  FALSE
      <4>1. PICK d \in doomed : d[1] < e[1]
        BY <3>2, <3>3, Zenon
      <4>2. e[1] <= d[1] /\ e[1] \in Int /\ d[1] \in Int
        BY <1>4 DEF IInv, TypeOK, DeleteKey, First
      <4>. QED
        BY <4>1, <4>2
    <3>. QED
      BY <3>1, <3>2, <3>3, Zenon DEF PongBehind
  <2>5. VictimUnseen'
    <3>1. keys' \subseteq keys /\ UNCHANGED <<seen, expirer, limit, victim, raced>>
      BY <1>4, Zenon DEF DeleteKey
    <3>. QED
      BY <2>2, <3>1, Zenon DEF IInv, VictimUnseen, Expiring
  <2>. QED
    BY <2>1, <2>3, <2>4, <2>5 DEF IInv
<1>5. CASE DeleteEnds
  <2>1. TypeOK' /\ AtRest' /\ Written'
    BY <1>5 DEF IInv, TypeOK, AtRest, Written, DeleteEnds
  <2>2. Storing' /\ PongLast' /\ VictimUnseen'
    BY NodeDBAssumption, <1>5 DEF IInv, Storing, PongLast, VictimUnseen, Expiring,
       DeleteEnds
  <2>. QED
    BY <2>1, <2>2 DEF IInv
<1>6. CASE ExpireEnds
  <2>1. TypeOK' /\ AtRest' /\ Written'
    BY NodeDBAssumption, <1>6 DEF IInv, TypeOK, AtRest, Written, ExpireEnds
  <2>2. Storing' /\ PongLast'
    BY <1>6 DEF IInv, Storing, PongLast, ExpireEnds
  <2>3. VictimUnseen'
    BY NodeDBAssumption, <1>6 DEF IInv, AtRest, VictimUnseen, Expiring, ExpireEnds
  <2>. QED
    BY <2>1, <2>2, <2>3 DEF IInv
<1>7. CASE Tick
  <2>1. TypeOK'
    BY NodeDBAssumption, <1>7 DEF IInv, TypeOK, Expiring, Tick
  <2>2. AtRest' /\ Written'
    BY <1>7 DEF IInv, AtRest, Written, Tick
  <2>3. Storing'
    BY NodeDBAssumption, <1>7 DEF IInv, TypeOK, AtRest, Storing, Tick
  <2>4. PongLast'
    BY <1>7, Zenon DEF IInv, PongLast, Tick
  <2>5. VictimUnseen'
    BY NodeDBAssumption, <1>7 DEF IInv, TypeOK, VictimUnseen, Expiring, Tick
  <2>. QED
    BY <2>1, <2>2, <2>3, <2>4, <2>5 DEF IInv
<1>. QED
  BY <1>1, <1>2, <1>3, <1>4, <1>5, <1>6, <1>7 DEF ExpireStep

\* The inductive invariant holds in every reachable state.
THEOREM Invariance == Spec => []IInv
<1>1. Init => IInv
  <2>. SUFFICES ASSUME Init  PROVE  IInv
    OBVIOUS
  <2>1. due \in BOOLEAN
    BY Zenon DEF Init
  <2>2. TypeOK
    BY NodeDBAssumption, <2>1 DEF Init, TypeOK
  <2>3. AtRest /\ Written /\ Storing
    BY DEF Init, AtRest, Written, Storing
  <2>4. PongLast /\ VictimUnseen
    BY NodeDBAssumption DEF Init, PongLast, VictimUnseen, Expiring
  <2>. QED
    BY <2>2, <2>3, <2>4 DEF IInv
<1>2. IInv /\ [Next]_vars => IInv'
  <2>. SUFFICES ASSUME IInv, [Next]_vars  PROVE  IInv'
    OBVIOUS
  <2>1. CASE UNCHANGED vars
    BY <2>1 DEF vars, IInv, TypeOK, AtRest, Written, Storing, PongLast, VictimUnseen,
                Expiring
  <2>2. CASE Next
    BY <2>2, ProgramInv, BondInv, ExpireInv DEF Next
  <2>. QED
    BY <2>1, <2>2
<1>. QED
  BY <1>1, <1>2, PTL DEF Spec

-----------------------------------------------------------------------------
(* What it implies. *)

\* A program works only on what programs of its own version have written, however
\* many of them crashed, and wherever (badger.go NewByVersion).
THEOREM VersionAlwaysSound == Spec => []VersionSound
<1>1. IInv => VersionSound
  BY DEF IInv, Written, VersionSound
<1>. QED
  BY <1>1, Invariance, PTL

\* Every node in the database has the time of its last pong, between any two writes
\* of any number of bonds and deletions, unless a pong and a deletion of the node
\* have overlapped or the iterator of a deletion has torn it (nodedb.go deleteNode,
\* badger.go dbIterator, table.go ping and pingpong).
THEOREM PongAlwaysKept == Spec => []PongKept
<1>1. IInv => PongKept
  BY DEF IInv, PongLast, PongKept
<1>. QED
  BY <1>1, Invariance, PTL

\* The expirer deletes no node that was seen since its threshold (nodedb.go
\* expireNodes).
THEOREM SeenAlwaysKept == Spec => SeenKept
<1>1. IInv => \A n \in Nodes \ raced :
                n = victim /\ <<n, "discover">> \in keys \ keys' => seen[n] >= limit
  <2>1. SUFFICES ASSUME IInv, NEW n \in Nodes \ raced, n = victim,
                        <<n, "discover">> \in keys
                 PROVE  seen[n] >= limit
    BY Zenon
  <2>2. Expiring
    BY NodeDBAssumption, <2>1, Zenon DEF IInv, AtRest, Expiring
  <2>. QED
    BY <2>1, <2>2, Zenon DEF IInv, VictimUnseen
<1>. QED
  BY <1>1, Invariance, PTL DEF SeenKept

\* In a storage with no more keys than the iterator reads ahead, it gives every key,
\* and in their order (badger.go dbIterator.Next).
LEMMA SmallInOrder ==
  ASSUME NEW S \in SUBSET (Keys \cup {VersionKey}), IsFiniteSet(S),
         Cardinality(S) <= Prefetch,
         NEW e \in NewIterator(S), NEW k \in S, Order(k) < Order(e[2])
  PROVE  \E g \in NewIterator(S) : g[1] < e[1] /\ g[2] = k
<1>. DEFINE Upto(j) == {i \in S : Order(i) <= Order(j)}
<1>1. \A j \in S : Order(j) \in Nat
  BY NodeDBAssumption
<1>2. ASSUME NEW j \in S  PROVE  Place(j, S) \in 1..Cardinality(S)
  <2>1. j \in Upto(j) /\ Upto(j) \subseteq S
    BY <1>1, <1>2
  <2>2. /\ IsFiniteSet(Upto(j)) /\ Cardinality(Upto(j)) <= Cardinality(S)
        /\ Cardinality(Upto(j)) \in Nat /\ Cardinality(S) \in Nat
    BY <2>1, FS_Subset, FS_CardinalityType
  <2>3. Cardinality(Upto(j)) # 0
    BY <2>1, <2>2, FS_EmptySet
  <2>. QED
    BY <2>2, <2>3 DEF Place
<1>3. ASSUME NEW j \in S  PROVE  Turns(Place(j, S), Cardinality(S)) = {Place(j, S)}
  <2>1. Cardinality(S) \in Nat
    BY FS_CardinalityType
  <2>. QED
    BY <1>2, <1>3, <2>1, PrefetchAssumption DEF Turns, Given
<1>4. e[2] \in S /\ e[1] = Place(e[2], S)
  BY <1>3 DEF NewIterator
<1>5. <<Place(k, S), k>> \in NewIterator(S)
  BY <1>3 DEF NewIterator
<1>6. Place(k, S) < Place(e[2], S)
  <2>1. Upto(k) \subseteq Upto(e[2]) /\ e[2] \in Upto(e[2]) \ Upto(k)
    BY <1>1, <1>4
  <2>2. IsFiniteSet(Upto(e[2]))
    BY FS_Subset
  <2>3. Cardinality(Upto(k)) <= Cardinality(Upto(e[2]))
        /\ Cardinality(Upto(k)) # Cardinality(Upto(e[2]))
    BY <2>1, <2>2, FS_Subset
  <2>. QED
    BY <1>2, <1>4, <2>3 DEF Place
<1>. QED
  BY <1>4, <1>5, <1>6

\* deleteNode tears a node only in a storage that has more keys than the iterator
\* reads ahead: in a smaller one every node keeps the time of its last pong until
\* its own key is gone (nodedb.go deleteNode, badger.go dbIterator).
THEOREM OnlyLargeTorn ==
  Spec => [][torn' \subseteq torn \/ Cardinality(keys \cup {VersionKey}) > Prefetch]_vars
<1>. DEFINE S == keys \cup {VersionKey}
<1>1. ASSUME IInv, [Next]_vars, ~(torn' \subseteq torn)  PROVE  DeleteBegin
  <2>1. CASE UNCHANGED vars
    BY <1>1, <2>1 DEF vars
  <2>2. CASE (\E v \in Versions : Open(v)) \/ CheckVersion \/ RemoveAll \/ Reopen \/ Down
    BY <1>1, <2>2 DEF Open, CheckVersion, RemoveAll, Reopen, Down
  <2>3. ASSUME NEW p \in Procs,
              \/ \E n \in Callees, k \in {"new", "known", "oldest"}, l \in {"ping", "reset"} :
                   Begin(p, n, k, l)
              \/ StorePing(p) \/ PingFails(p) \/ StorePong(p) \/ StoreNode(p)
              \/ ResetFails(p)
       PROVE  torn' \subseteq torn
    <3>1. UNCHANGED torn \/ torn' = torn \ {id[p]}
      BY <2>3, Zenon DEF Begin, StorePing, PingFails, StorePong, StoreNode, ResetFails
    <3>. QED
      BY <3>1
  <2>4. CASE (ExpireStep /\ ~DeleteBegin) \/ Tick
    <3>1. UNCHANGED torn
      BY <2>4, Zenon DEF ExpireStep, ExpireBegin, Judge, DeleteKey, DeleteEnds,
         ExpireEnds, Tick
    <3>. QED
      BY <1>1, <3>1
  <2>. QED
    BY <1>1, <2>1, <2>2, <2>3, <2>4, Zenon DEF Next, ExpireStep
<1>2. ASSUME IInv, DeleteBegin, ~(torn' \subseteq torn)  PROVE  Cardinality(S) > Prefetch
  <2>1. IsFiniteSet(Keys)
    <3>1. IsFiniteSet(Ids) /\ IsFiniteSet(Fields)
      <4>1. IsFiniteSet(Nodes \cup {Self})
        BY NodeDBAssumption, FS_AddElement
      <4>2. IsFiniteSet({"discover", "findfail"})
        <5>1. IsFiniteSet({"discover"})
          BY FS_Singleton, Zenon
        <5>2. IsFiniteSet({"discover"} \cup {"findfail"})
          BY <5>1, FS_AddElement
        <5>. QED
          BY <5>2
      <4>3. IsFiniteSet({"discover", "findfail"} \cup {"lastping"})
        BY <4>2, FS_AddElement
      <4>4. IsFiniteSet({"discover", "findfail", "lastping"} \cup {"lastpong"})
        BY <4>3, FS_AddElement
      <4>. QED
        BY <4>1, <4>4
    <3>. QED
      BY <3>1, FS_Product
  <2>2. S \subseteq Keys \cup {VersionKey} /\ IsFiniteSet(S)
    BY <1>2, <2>1, FS_Subset, FS_AddElement DEF IInv, TypeOK
  <2>3. Cardinality(S) \in Nat
    BY <2>2, FS_CardinalityType
  <2>4. SUFFICES ASSUME Cardinality(S) <= Prefetch  PROVE  FALSE
    BY <2>3, PrefetchAssumption
  <2>5. /\ doomed' = {e \in NewIterator(S) : e[2][1] = victim}
        /\ Tears(doomed')
    BY <1>2, Zenon DEF DeleteBegin
  <2>6. PICK e \in doomed', f \in Fields :
          /\ <<victim, f>> \in keys /\ Order(<<victim, f>>) < Order(e[2])
          /\ ~\E g \in doomed' : g[1] < e[1] /\ g[2] = <<victim, f>>
    BY <2>5, Zenon DEF Tears
  <2>7. PICK g \in NewIterator(S) : g[1] < e[1] /\ g[2] = <<victim, f>>
    BY <2>2, <2>4, <2>5, <2>6, SmallInOrder
  <2>8. g \in doomed'
    BY <2>5, <2>7
  <2>. QED
    BY <2>6, <2>7, <2>8
<1>3. IInv /\ [Next]_vars =>
        [torn' \subseteq torn \/ Cardinality(keys \cup {VersionKey}) > Prefetch]_vars
  BY <1>1, <1>2
<1>. QED
  BY <1>3, Invariance, PTL DEF Spec
=============================================================================
