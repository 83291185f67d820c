------------------------------ MODULE Bonding ------------------------------
(***************************************************************************)
(* Bonding and one bucket of the discovery table: bond, pingpong,          *)
(* pingreplace, bump and del of discover/table.go, the failure counter     *)
(* that the queries of Lookup keep in discover/nodedb.go, and the read     *)
(* loop that hands them the pongs, discover/udp.go and discover/types.go.  *)
(*                                                                         *)
(* The goroutines are the calls of bond (Procs), the findnode queries that *)
(* fail (Queries), the read loop and the database's expirer.  They share   *)
(* the bucket under tab.mu, the map bonding under tab.bondmu, the channel  *)
(* bondslots, and the database, which no lock of the table protects.  The  *)
(* nodes are those of one bucket: buckets share nothing but tab.mu.        *)
(*                                                                         *)
(* A ping is in plist until its pong is read or it times out, as           *)
(* PendingReplies shows; the timeout may come at any time.                 *)
(***************************************************************************)
EXTENDS Integers, Sequences, FiniteSets

CONSTANTS
  Nodes,         \* remote nodes, all of one bucket
  Procs,         \* calls of bond, each made once
  Queries,       \* findnode queries of Lookup that fail, each made once
  NoOne,         \* no goroutine
  NoNode,        \* no node
  BucketSize,    \* bucketSize
  MaxSlots,      \* maxBondingPingPongs
  MaxFails,      \* maxFindnodeFailures
  Entries0,      \* the bucket at the start, oldest node last
  Known0,        \* nodes in the database at the start
  Fails0,        \* their failure counters
  PromptReader,  \* a pong that is in the socket is read before its ping
                 \* times out, unless the read loop is blocked
  MaxInbox,      \* bound: packets in the socket
  MaxEvents      \* bound: findnode packets, expired nodes and failing queries

ASSUME BondingAssumption ==
  /\ NoOne \notin Procs \cup Queries
  /\ IsFiniteSet(Procs) /\ Procs \cap Queries = {}
  /\ NoNode \notin Nodes
  /\ BucketSize \in Nat \ {0}
  /\ MaxSlots \in Nat \ {0}
  /\ MaxFails \in Nat \ {0}
  /\ Entries0 \in Seq(Nodes)
  /\ Len(Entries0) <= BucketSize
  /\ \A i, j \in 1..Len(Entries0) : Entries0[i] = Entries0[j] => i = j
  /\ \A i \in 1..Len(Entries0) : Entries0[i] \in Known0
  /\ Known0 \subseteq Nodes
  /\ Fails0 \in [Nodes -> Nat]
  /\ PromptReader \in BOOLEAN
  /\ MaxInbox \in Nat /\ MaxEvents \in Nat

VARIABLES
  entries,    \* entries of the bucket, the front first
  mu,         \* the bond call that holds tab.mu across steps
  known,      \* nodes stored in the database
  fails,      \* fails[n]: the failure counter in the database
  bonding,    \* bonding[n]: the call registered in tab.bonding
  slots,      \* values in bondslots
  pc,         \* where each bond call is
  id,         \* id[p]: the node it is for
  pinged,     \* its parameter pinged
  node,       \* node[p]: its variable node is not nil
  w,          \* w[p]: the call whose bondproc it uses
  err,        \* err[p]: the field err of its own bondproc is not nil
  done,       \* done[p]: the channel done of its bondproc is closed
  pingee,     \* pingee[p]: the node it waits for a pong of
  plist,      \* the calls that wait for a pong, in the order they asked
  wire,       \* wire[n]: pings to n that n may still answer
  inbox,      \* packets in the socket, in order
  qpc,        \* where each query is
  qnode,      \* qnode[q]: the node it asks
  qfails,     \* qfails[q]: its variable fails
  events,     \* findnode packets, expiries and failing queries so far
  ponged      \* nodes that were in the database or sent a pong (history)

tableVars == <<entries, mu>>
dbVars == <<known, fails>>
bondVars == <<bonding, slots>>
callVars == <<pc, id, pinged, node, w, err, done>>
netVars == <<pingee, plist, wire, inbox, ponged>>
queryVars == <<qpc, qnode, qfails>>
vars == <<tableVars, dbVars, bondVars, callVars, netVars, queryVars, events>>

\* The positions of a bond call.
Positions ==
  {"idle", "lookup", "fails", "register", "join", "slot", "pong", "ponged",
   "failed", "waitping", "store", "close", "release", "unregister", "insert",
   "evict", "keep", "replace", "returned"}

\* Those in which the call runs pingpong, after it took a slot.
Pinging ==
  {"pong", "ponged", "failed", "waitping", "store", "close", "release"}

Packets == {"pong", "findnode"} \X Nodes

TypeOK ==
  /\ entries \in Seq(Nodes)
  /\ mu \in Procs \cup {NoOne}
  /\ known \subseteq Nodes
  /\ fails \in [Nodes -> Nat]
  /\ bonding \in [Nodes -> Procs \cup {NoOne}]
  /\ slots \in 0..MaxSlots
  /\ pc \in [Procs -> Positions]
  /\ id \in [Procs -> Nodes \cup {NoNode}]
  /\ pinged \in [Procs -> BOOLEAN]
  /\ node \in [Procs -> BOOLEAN]
  /\ w \in [Procs -> Procs \cup {NoOne}]
  /\ err \in [Procs -> BOOLEAN]
  /\ done \in [Procs -> BOOLEAN]
  /\ pingee \in [Procs -> Nodes \cup {NoNode}]
  /\ plist \in Seq(Procs)
  /\ wire \in [Nodes -> Nat]
  /\ inbox \in Seq(Packets)
  /\ qpc \in [Queries -> {"idle", "failed", "write", "del", "ended"}]
  /\ qnode \in [Queries -> Nodes \cup {NoNode}]
  /\ qfails \in [Queries -> Nat]
  /\ events \in 0..MaxEvents
  /\ ponged \subseteq Nodes

Init ==
  /\ entries = Entries0
  /\ mu = NoOne
  /\ known = Known0
  /\ fails = Fails0
  /\ bonding = [n \in Nodes |-> NoOne]
  /\ slots = MaxSlots
  /\ pc = [p \in Procs |-> "idle"]
  /\ id = [p \in Procs |-> NoNode]
  /\ pinged = [p \in Procs |-> FALSE]
  /\ node = [p \in Procs |-> FALSE]
  /\ w = [p \in Procs |-> NoOne]
  /\ err = [p \in Procs |-> FALSE]
  /\ done = [p \in Procs |-> FALSE]
  /\ pingee = [p \in Procs |-> NoNode]
  /\ plist = << >>
  /\ wire = [n \in Nodes |-> 0]
  /\ inbox = << >>
  /\ qpc = [q \in Queries |-> "idle"]
  /\ qnode = [q \in Queries |-> NoNode]
  /\ qfails = [q \in Queries |-> 0]
  /\ events = 0
  /\ ponged = Known0

Goto(p, l) == pc' = [pc EXCEPT ![p] = l]

\* append(s[:i], s[i+1:]...)
Without(s, i) == SubSeq(s, 1, i - 1) \o SubSeq(s, i + 1, Len(s))

-----------------------------------------------------------------------------
(* bond: find out whether the node has to be bonded. *)

\* bond is called, by bondall for a node from a reply or a seed, or by the
\* handler of a ping that no call of waitping was waiting for.
Call(p, n, b) ==
  /\ pc[p] = "idle"
  /\ Goto(p, "lookup")
  /\ id' = [id EXCEPT ![p] = n]
  /\ pinged' = [pinged EXCEPT ![p] = b]
  /\ UNCHANGED <<node, w, err, done, tableVars, dbVars, bondVars, netVars,
                 queryVars, events>>

\* node = tab.db.node(id)
ReadNode(p) ==
  /\ pc[p] = "lookup"
  /\ node' = [node EXCEPT ![p] = id[p] \in known]
  /\ Goto(p, IF id[p] \in known THEN "fails" ELSE "register")
  /\ UNCHANGED <<id, pinged, w, err, done, tableVars, dbVars, bondVars,
                 netVars, queryVars, events>>

\* fails = tab.db.findFails(id): a known node without failures is not pinged.
ReadFails(p) ==
  /\ pc[p] = "fails"
  /\ Goto(p, IF fails[id[p]] > 0 THEN "register" ELSE "insert")
  /\ UNCHANGED <<id, pinged, node, w, err, done, tableVars, dbVars, bondVars,
                 netVars, queryVars, events>>

\* Mutant of Register: a process that is already registered is not looked for.
RegisterUnchecked(p) ==
  /\ pc[p] = "register"
  /\ w' = [w EXCEPT ![p] = p]
  /\ bonding' = [bonding EXCEPT ![id[p]] = p]
  /\ Goto(p, "slot")
  /\ UNCHANGED <<id, pinged, node, err, done, slots, tableVars, dbVars,
                 netVars, queryVars, events>>

\* The section under bondmu: join the registered process or register one.
Register(p) ==
  /\ pc[p] = "register"
  /\ \/ /\ bonding[id[p]] # NoOne
        /\ w' = [w EXCEPT ![p] = bonding[id[p]]]
        /\ Goto(p, "join")
        /\ UNCHANGED bonding
     \/ /\ bonding[id[p]] = NoOne
        /\ w' = [w EXCEPT ![p] = p]
        /\ bonding' = [bonding EXCEPT ![id[p]] = p]
        /\ Goto(p, "slot")
  /\ UNCHANGED <<id, pinged, node, err, done, slots, tableVars, dbVars,
                 netVars, queryVars, events>>

\* Mutant of Result: the error of the process is not looked at.
ResultIgnored(p) == pc[p] \in Positions

\* The result of the process in w: its node if there is no error, else the
\* node from the database.  "Even if bonding temporarily failed, give the
\* node a chance": a node that is not nil goes into the table.
Result(p) == node[p] \/ ~err[w[p]]

TakeResult(p) ==
  /\ node' = [node EXCEPT ![p] = Result(p)]
  /\ Goto(p, IF Result(p) THEN "insert" ELSE "returned")

\* <-w.done
Join(p) ==
  /\ pc[p] = "join"
  /\ done[w[p]]
  /\ TakeResult(p)
  /\ UNCHANGED <<id, pinged, w, err, done, tableVars, dbVars, bondVars,
                 netVars, queryVars, events>>

-----------------------------------------------------------------------------
(* pingpong, and the way back from it. *)

\* Send a ping to n and wait for the pong: tab.ping up to udp.pending.
Ping(p, n) ==
  /\ pingee' = [pingee EXCEPT ![p] = n]
  /\ plist' = Append(plist, p)
  /\ wire' = [wire EXCEPT ![n] = @ + 1]
  /\ UNCHANGED <<inbox, ponged>>

\* <-tab.bondslots, then tab.ping
TakeSlot(p) ==
  /\ pc[p] = "slot"
  /\ slots > 0
  /\ slots' = slots - 1
  /\ Ping(p, id[p])
  /\ Goto(p, "pong")
  /\ UNCHANGED <<id, pinged, node, w, err, done, bonding, tableVars, dbVars,
                 queryVars, events>>

\* tab.ping returns nil: the other half of the bond is next, unless the
\* remote node has just pinged us.
PingOk(p) ==
  /\ pc[p] = "ponged"
  /\ Goto(p, IF pinged[p] THEN "store" ELSE "waitping")
  /\ UNCHANGED <<id, pinged, node, w, err, done, tableVars, dbVars, bondVars,
                 netVars, queryVars, events>>

\* Mutant of PingFailed: done stays open.
PingFailedOpen(p) ==
  /\ pc[p] = "failed"
  /\ err' = [err EXCEPT ![p] = TRUE]
  /\ Goto(p, "release")
  /\ UNCHANGED <<id, pinged, node, w, done, tableVars, dbVars, bondVars,
                 netVars, queryVars, events>>

\* tab.ping returns an error: w.err is set and done is closed.
PingFailed(p) ==
  /\ pc[p] = "failed"
  /\ err' = [err EXCEPT ![p] = TRUE]
  /\ done' = [done EXCEPT ![p] = TRUE]
  /\ Goto(p, "release")
  /\ UNCHANGED <<id, pinged, node, w, tableVars, dbVars, bondVars, netVars,
                 queryVars, events>>

\* tab.net.waitping returns; its result is ignored.
WaitPing(p) ==
  /\ pc[p] = "waitping"
  /\ Goto(p, "store")
  /\ UNCHANGED <<id, pinged, node, w, err, done, tableVars, dbVars, bondVars,
                 netVars, queryVars, events>>

\* tab.db.updateNode(w.n)
StoreNode(p) ==
  /\ pc[p] = "store"
  /\ known' = known \cup {id[p]}
  /\ Goto(p, "close")
  /\ UNCHANGED <<id, pinged, node, w, err, done, fails, tableVars,
                 bondVars, netVars, queryVars, events>>

\* close(w.done)
CloseDone(p) ==
  /\ pc[p] = "close"
  /\ done' = [done EXCEPT ![p] = TRUE]
  /\ Goto(p, "release")
  /\ UNCHANGED <<id, pinged, node, w, err, tableVars, dbVars, bondVars,
                 netVars, queryVars, events>>

\* The deferred send to bondslots, on either way out of pingpong.
ReleaseSlot(p) ==
  /\ pc[p] = "release"
  /\ slots' = slots + 1
  /\ Goto(p, "unregister")
  /\ UNCHANGED <<id, pinged, node, w, err, done, bonding, tableVars, dbVars,
                 netVars, queryVars, events>>

\* delete(tab.bonding, id) under bondmu, then the result is taken from w.
Unregister(p) ==
  /\ pc[p] = "unregister"
  /\ bonding' = [bonding EXCEPT ![id[p]] = NoOne]
  /\ TakeResult(p)
  /\ UNCHANGED <<id, pinged, w, err, done, slots, tableVars, dbVars, netVars,
                 queryVars, events>>

-----------------------------------------------------------------------------
(* The section of bond under tab.mu. *)

InBucket(n) == \E i \in 1..Len(entries) : entries[i] = n

\* bump: the entry i moves to the front.
Bumped(i) == <<entries[i]>> \o Without(entries, i)

\* The failure counter is set to 0, whether or not the node has answered.
ResetFails(p) ==
  /\ fails' = [fails EXCEPT ![id[p]] = 0]
  /\ UNCHANGED known

\* Mutant of Insert: a node that is in the bucket is added again.
InsertUnbumped(p) ==
  /\ pc[p] = "insert"
  /\ mu = NoOne
  /\ Len(entries) # BucketSize
  /\ entries' = <<id[p]>> \o entries
  /\ ResetFails(p)
  /\ Goto(p, "returned")
  /\ UNCHANGED <<mu, id, pinged, node, w, err, done, bondVars, netVars,
                 queryVars, events>>

\* The node is in the bucket, or there is room for it.
Insert(p) ==
  /\ pc[p] = "insert"
  /\ mu = NoOne
  /\ \/ \E i \in 1..Len(entries) : entries[i] = id[p] /\ entries' = Bumped(i)
     \/ /\ ~InBucket(id[p])
        /\ Len(entries) # BucketSize
        /\ entries' = <<id[p]>> \o entries
  /\ ResetFails(p)
  /\ Goto(p, "returned")
  /\ UNCHANGED <<mu, id, pinged, node, w, err, done, bondVars, netVars,
                 queryVars, events>>

\* The bucket is full: pingreplace pings the oldest node, and the call keeps
\* tab.mu until it has the result.
PingOldest(p) ==
  /\ pc[p] = "insert"
  /\ mu = NoOne
  /\ ~InBucket(id[p])
  /\ Len(entries) = BucketSize
  /\ mu' = p
  /\ Ping(p, entries[BucketSize])
  /\ Goto(p, "evict")
  /\ UNCHANGED <<entries, id, pinged, node, w, err, done, dbVars, bondVars,
                 queryVars, events>>

\* "The node responded, we don't need to replace it."
KeepOldest(p) ==
  /\ pc[p] = "keep"
  /\ mu' = NoOne
  /\ ResetFails(p)
  /\ Goto(p, "returned")
  /\ UNCHANGED <<entries, id, pinged, node, w, err, done, bondVars, netVars,
                 queryVars, events>>

\* No answer: the entries slide down over the oldest.
ReplaceOldest(p) ==
  /\ pc[p] = "replace"
  /\ entries' = <<id[p]>> \o SubSeq(entries, 1, BucketSize - 1)
  /\ mu' = NoOne
  /\ ResetFails(p)
  /\ Goto(p, "returned")
  /\ UNCHANGED <<id, pinged, node, w, err, done, bondVars, netVars,
                 queryVars, events>>

-----------------------------------------------------------------------------
(* The network, the read loop and the timeouts of pings. *)

\* The remote node n answers a ping; the ping or the pong may also be lost.
PongArrives(n) ==
  /\ wire[n] > 0
  /\ Len(inbox) < MaxInbox
  /\ wire' = [wire EXCEPT ![n] = @ - 1]
  /\ inbox' = Append(inbox, <<"pong", n>>)
  /\ UNCHANGED <<pingee, plist, ponged, tableVars, dbVars,
                 bondVars, callVars, queryVars, events>>

FindnodeArrives(n) ==
  /\ events < MaxEvents /\ events' = events + 1
  /\ Len(inbox) < MaxInbox
  /\ inbox' = Append(inbox, <<"findnode", n>>)
  /\ UNCHANGED <<pingee, plist, wire, ponged, tableVars, dbVars, bondVars,
                 callVars, queryVars>>

\* The result of its ping reaches the call at i in the queue.
Answered(i, ok) ==
  /\ plist' = Without(plist, i)
  /\ Goto(plist[i], IF pc[plist[i]] = "pong" THEN IF ok THEN "ponged" ELSE "failed"
                                             ELSE IF ok THEN "keep" ELSE "replace")

\* The calls in the queue that wait for a pong of n.
Waiting(n) == {i \in 1..Len(plist) : pingee[plist[i]] = n}

\* pong.handle: the first ping to n in the queue is answered; a pong that
\* nobody waits for is dropped.
ReadPong(n) ==
  /\ inbox # << >>
  /\ Head(inbox) = <<"pong", n>>
  /\ inbox' = Tail(inbox)
  /\ \/ /\ Waiting(n) = {}
        /\ UNCHANGED <<pc, plist, ponged>>
     \/ \E i \in Waiting(n) :
          /\ \A k \in Waiting(n) : i <= k
          /\ Answered(i, TRUE)
          /\ ponged' = ponged \cup {n}
  /\ UNCHANGED <<pingee, wire, id, pinged, node, w, err, done,
                 tableVars, dbVars, bondVars, queryVars, events>>

\* findnode.handle needs tab.mu to collect the closest nodes, unless the
\* sender is not bonded.
ReaderBlocked ==
  /\ inbox # << >>
  /\ Head(inbox)[1] = "findnode"
  /\ Head(inbox)[2] \in known
  /\ mu # NoOne

ReadFindnode ==
  /\ inbox # << >>
  /\ Head(inbox)[1] = "findnode"
  /\ ~ReaderBlocked
  /\ inbox' = Tail(inbox)
  /\ UNCHANGED <<pingee, plist, wire, ponged, tableVars, dbVars,
                 bondVars, callVars, queryVars, events>>

PongInSocket(n) == \E i \in 1..Len(inbox) : inbox[i] = <<"pong", n>>

\* The pending reply of p expires.
PingTimeout(p) ==
  /\ \E i \in 1..Len(plist) : plist[i] = p /\ Answered(i, FALSE)
  /\ PromptReader => ReaderBlocked \/ ~PongInSocket(pingee[p])
  /\ UNCHANGED <<pingee, wire, inbox, ponged, id, pinged, node, w,
                 err, done, tableVars, dbVars, bondVars, queryVars, events>>

-----------------------------------------------------------------------------
(* The failing queries of Lookup, and the expirer of the database. *)

\* A node of the table is asked and findnode returns an error.
QueryFails(q, n) ==
  /\ qpc[q] = "idle"
  /\ events < MaxEvents /\ events' = events + 1
  /\ mu = NoOne
  /\ InBucket(n)
  /\ qpc' = [qpc EXCEPT ![q] = "failed"]
  /\ qnode' = [qnode EXCEPT ![q] = n]
  /\ UNCHANGED <<qfails, tableVars, dbVars, bondVars, callVars, netVars>>

\* fails := tab.db.findFails(n.ID) + 1
QueryRead(q) ==
  /\ qpc[q] = "failed"
  /\ qfails' = [qfails EXCEPT ![q] = fails[qnode[q]] + 1]
  /\ qpc' = [qpc EXCEPT ![q] = "write"]
  /\ UNCHANGED <<qnode, tableVars, dbVars, bondVars, callVars, netVars,
                 events>>

\* tab.db.updateFindFails(n.ID, fails)
QueryWrite(q) ==
  /\ qpc[q] = "write"
  /\ fails' = [fails EXCEPT ![qnode[q]] = qfails[q]]
  /\ qpc' = [qpc EXCEPT ![q] = IF qfails[q] >= MaxFails THEN "del" ELSE "ended"]
  /\ UNCHANGED <<known, qnode, qfails, tableVars, bondVars, callVars, netVars,
                 events>>

\* tab.del(n)
QueryDel(q) ==
  /\ qpc[q] = "del"
  /\ mu = NoOne
  /\ \/ \E i \in 1..Len(entries) :
          entries[i] = qnode[q] /\ entries' = Without(entries, i)
     \/ ~InBucket(qnode[q]) /\ UNCHANGED entries
  /\ qpc' = [qpc EXCEPT ![q] = "ended"]
  /\ UNCHANGED <<mu, qnode, qfails, dbVars, bondVars, callVars, netVars,
                 events>>

\* expireNodes deletes all that the database holds on a node whose last pong
\* is a day old, which that of a call in pingpong is not.
Expire(n) ==
  /\ events < MaxEvents /\ events' = events + 1
  /\ n \in known
  /\ \A p \in Procs : id[p] = n => pc[p] \notin Pinging \ {"pong", "failed"}
  /\ known' = known \ {n}
  /\ fails' = [fails EXCEPT ![n] = 0]
  /\ UNCHANGED <<tableVars, bondVars, callVars, netVars, queryVars>>

-----------------------------------------------------------------------------
\* The steps of the goroutine that runs call p.
ProcStep(p) ==
  \/ ReadNode(p)
  \/ ReadFails(p)
  \/ Register(p)
  \/ Join(p)
  \/ TakeSlot(p)
  \/ PingOk(p)
  \/ PingFailed(p)
  \/ WaitPing(p)
  \/ StoreNode(p)
  \/ CloseDone(p)
  \/ ReleaseSlot(p)
  \/ Unregister(p)
  \/ Insert(p)
  \/ PingOldest(p)
  \/ KeepOldest(p)
  \/ ReplaceOldest(p)

ReaderStep == ReadFindnode \/ \E n \in Nodes : ReadPong(n)

QueryStep(q) == QueryRead(q) \/ QueryWrite(q) \/ QueryDel(q)

Next ==
  \/ \E p \in Procs, n \in Nodes, b \in BOOLEAN : Call(p, n, b)
  \/ \E p \in Procs : ProcStep(p) \/ PingTimeout(p)
  \/ \E n \in Nodes : PongArrives(n) \/ FindnodeArrives(n) \/ Expire(n)
  \/ ReaderStep
  \/ \E q \in Queries : QueryStep(q) \/ \E n \in Nodes : QueryFails(q, n)

\* The goroutines run and pings time out.  A bounded number of calls share
\* the lock and the slots, so nothing need be assumed of who gets them next.
Fairness ==
  /\ \A p \in Procs : WF_vars(ProcStep(p)) /\ WF_vars(PingTimeout(p))
  /\ WF_vars(ReaderStep)

SafetySpec == Init /\ [][Next]_vars
Spec == SafetySpec /\ Fairness

-----------------------------------------------------------------------------
(* Properties. *)

\* The bucket never holds more than bucketSize entries, nor the same node twice,
\* whatever bonds, evictions and evacuations do between its checks, and there are
\* never more slots than at the start; every variable keeps its type.
BucketSound ==
  /\ TypeOK
  /\ Len(entries) <= BucketSize
  /\ \A i, j \in 1..Len(entries) : entries[i] = entries[j] => i = j

\* No two calls run pingpong for the same node, and tab.bonding names the
\* one that does.
OneBondPerNode ==
  \A p \in Procs, n \in Nodes :
    bonding[n] = p <=>
      id[p] = n /\ pc[p] \in Pinging \cup {"slot", "unregister"}

\* A node in the table answered a ping at some time or comes from the
\* database, also when bonding failed and the node "is given a chance".
EntriesBonded == \A i \in 1..Len(entries) : entries[i] \in ponged

\* Every call of bond returns, also when it waits for the process of another
\* call, for a slot, or for tab.mu while an eviction waits for a pong that a
\* blocked read loop cannot read.
EveryBondReturns == \A p \in Procs : pc[p] = "lookup" ~> pc[p] = "returned"

\* The comment in pingreplace, "The node responded, we don't need to replace
\* it": an entry is not replaced when its pong has arrived in time.
ResponsiveKept ==
  [][\A p \in Procs :
       pc[p] = "evict" /\ pc'[p] = "replace" => ~PongInSocket(pingee[p])]_vars
=============================================================================
