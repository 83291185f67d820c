# A TLA+ model of xlibp2p

xlibp2p is a peer-to-peer library in Go: a Kademlia-like node discovery over
UDP (`src/discover`), a server that dials the nodes it finds, accepts
connections and runs a session with each peer (`src/*.go`), and port mappings
on a router (`src/nat`). This directory holds TLA+ specifications of these
parts, TLC configurations that check them on small instances, and TLAPS proofs
for instances of any size. `PROJECT.json` lists components, runs, mutants, the
correspondence of definitions and source lines, the disagreements between code
and comments, the hazards, and the theorems.

## The system

| Part | Source | Modules |
| --- | --- | --- |
| Pending replies: a queue of requests, one timer, one loop goroutine | `discover/udp.go` | `PendingReplies`, `ReplyContract`, `PendingRepliesProofs` |
| Bonding: ping/pong with a node, one bucket of the table, eviction, failure counter | `discover/table.go`, `discover/types.go`, `discover/nodedb.go` | `Bonding`, `BondingProofs` |
| Findnode and packets: what is encoded, sent, cut and decoded | `discover/udp.go`, `discover/types.go` | `Packets`, `Findnode` |
| Lookup: iterative search with alpha queries at a time | `discover/table.go` | `Lookup`, `TableProofs` |
| Refresh and bootstrap, seeds of the node database | `discover/table.go`, `discover/nodedb.go` | `Refresh`, `KeyIterator`, `TableProofs` |
| Node database: keys, times, versions, expirer, crashes | `discover/nodedb.go`, `storage/badger/badger.go` | `NodeDB`, `KeyIterator`, `NodeDBProofs` |
| Distances, closest nodes, random nodes | `discover/node.go`, `discover/table.go` | `TableReads`, `Algorithms` |
| Server loop and dialer: tasks, peers, static and dynamic nodes | `server.go`, `dial.go` | `ServerLoop`, `ServerLoopProofs` |
| Start and Stop | `server.go` | `Lifecycle`, `LifecycleProofs` |
| Port mappings and the discovery of a router | `nat/` | `NatMapping`, `Lifecycle`, `LifecycleProofs` |
| Handshake and message frames | `peerconn.go`, `message.go` | `Handshake`, `HandshakeProofs` |
| Peer session: reader, heartbeat, timeout, protocols | `peer.go` | `PeerSession`, `PeerSessionProofs` |
| Base 58, addresses, signatures, hashes as bytes | `common/`, `crypto/sign.go` | `Encodings`, `Algorithms` |
| Curves and hashes, storage engine, logger, example | `crypto/`, `storage/`, `log/`, `examples/` | not modelled |

The parts meet at narrow interfaces, and the modules use each other's results
there. `Bonding` and `Lookup` see a request as something that is answered or
times out, which is what `ReplyContract` says and `PendingReplies` implements.
`Lookup` assumes that a bond returns, which `Bonding` shows. `Refresh` sees
bonds and searches as steps that `Bonding` and `Lookup` show to end.
`ServerLoop` sees a session as something that closes and, later, returns, which
`PeerSession` shows, and a lookup as something that ends with a list of nodes,
if it ends.
`PeerSession` reads whole messages, which `Handshake` shows of the byte stream.
`Lifecycle` extends `NatMapping`, `Findnode` extends `Packets`, and
`Algorithms` extends `TableReads`, `Packets` and `Encodings`. `Lookup` and
`Refresh` take their nodes from `Discovery`, and `Refresh` and `NodeDB` their
iterator from `KeyIterator`.

## Modules

**PendingReplies.** A request passes `idle`, `adding` (in the select of
`pending()`), `waiting` and `done`. The loop goroutine alternates between
`resetTimeout` and one case of its select, an action each. The scans over the
queue end where they remove an element, since `el.Next()` is nil after
`list.Remove`; `Completing` and `Overdue` say which element that is. The timer
of Go is a time at which it fires and a channel that holds one tick; a stale
tick stays in the channel. Packets are a sender, a type and a number of nodes.
`errc` is its last value and a counter of sends.

**ReplyContract.** What a caller may rely on: a request is asked once and
answered once, with an answer that never changes. A step may answer any of the
requests that wait: the comment at `udp.go:98` promises a packet to all that it
matches, the code gives it to some, and the contract allows both.

**Bonding.** Calls of `bond`, failing queries, the read loop and the expirer
share one full bucket. Each access to the database, each critical section and
each wait is a step of its own. `pingreplace` keeps `tab.mu` while it waits;
the read loop takes packets from the socket in order and cannot pass a
findnode while the lock is taken. Errors of the database inside `tab.ping` are
not modelled: they look like a ping that fails.

**Packets, Findnode.** A packet is its message and the length of its JSON text,
computed from the lengths of its fields; `encodePacket` writes that length
into one byte. `Findnode` is the exchange end to end: a query, the answer in
chunks, the count of failures and the evacuation of the node. Its network loses
nothing.

**Lookup.** The goroutine that searches, its queries and the channel
`replyCh`. A step is one round of a loop: `Collect` and `PushNext` push one node
onto the result, `AskNext` looks at one entry of it; the queries go on between
any two rounds. The nodes of the table, and those of a reply, are pushed in any
order. A query is answered with any subset of what the asked node knows, also
after a timeout, as the code uses the nodes that came before it. The database
may be closed at any time; then a failing query is `lost`.

**KeyIterator.** The iterator of `badger.go`. `Next` keeps the item that
badger's own iterator stands on and moves that iterator on at once; badger, which
reads `Prefetch` items ahead (100), then uses the item again for the next key it
has not read. So after `t` calls of `Next`, `Key` gives the key at place
`t + Prefetch`, as long as there is one, and the key at place `t` after that. With
more than `Prefetch` keys the later ones come early, or twice, and some of the
first are passed over (`PassedOver`).

**Refresh.** Goroutines in `refresh` and `Lookup`, which call each other, each
with its call stack; the table and the database as sets; the shared iterator
`db.seeder` as what a `KeyIterator` over a snapshot has left to give. Which keys
the database holds beside the nodes' own is left open at each snapshot. `Next` and `Key` are steps of their own, so that two calls of
`querySeeds` can move the iterator under each other; a call on a nil iterator
is a panic. Nodes fall out of the table and expire at any time. Bonds are one
step, buckets have room; a deletion by the expirer is one too, and fails for a node
that its iterator passes over.

**NodeDB.** The keys of a node are written one by one by a bond and deleted one
by one by the expirer. The program stops or crashes between any two steps and
starts again, perhaps with another version, in which case the files are removed
and opened again in steps of their own. Times are kept as ages. `raced` holds
the nodes of which a pong came in while they were being deleted, and `torn` those
whose keys the iterator of `deleteNode` gave out of order or in part.

**TableReads, Encodings, Algorithms.** Pure functions. `TableReads` has
`logdist`, `distcmp`, `closest` and `ReadRandomNodes` with every outcome of its
shuffles; `Encodings` the conversions of bytes. `Algorithms` picks an input of
one of them step by step and compares the result with a reference definition.

**ServerLoop.** `Top` is the whole upper half of an iteration: the time is
read, `newTasks` is asked, `scheduleTasks` starts tasks. Then one case of the
select is served. Tasks, connections and sessions are goroutines with a phase.
The loops of `newTasks` are the recursive function `Dials(s, S)`, whose value
at `k` is what has been added after `k` nodes; the static nodes come in any
order, as they do from a map. Times are kept as what is left of each wait, and
`age` is how old the variable `now` is. The other goroutines step only while
the loop is in its select: all they do between two selects is to become ready
to send on a channel.

**NatMapping, Lifecycle.** `NatMapping` has the goroutines that run `Map`, each
at a position of its loop with a timer and the rest of its lease, and the
discovery: its goroutines, their channels and the time at which `Any` gives up.
`Lifecycle` adds `Start` and `Stop`, called by any goroutine at any time, step
by step, `srv.mu`, the channels, the table and the loops of the transport. A
call on something that is nil or closed already is a panic, and so is a database
that cannot be opened. `refused` says that `Start` did not get what it needs.

**Handshake.** A client that wants a node, whoever listens at the address it
has, and the bytes between them. `ReadMessage` takes one byte at a time; an id
and the length of a frame count as one byte each. The connection may break at
any byte. An end may be a stranger, a program that is not a node but that
writes frames (`IsFrame`). A hello of another type or without an id is a panic,
as in the code: the reader returns neither a message nor an error, and the
caller uses the message. `handshakeCompiled` is never true for a new connection
and is left out.

**PeerSession.** `readLoop`, `pingLoop`, `suicide` and `Run`, a protocol that
may be slow, return or fail, a connection on which writes may be buffered after
it broke, and the server that removes the peer. The second `Close` is a panic,
which ends all. Time is counted in heartbeats.

## Runs

| Run | Instance | States | Shows |
| --- | --- | --- | --- |
| `PendingReplies` | two findnode requests to one node, two packets, a timeout of 2, one refresh | 146 576 | each request gets one answer, never early, never missed; the queue is exact and implements `ReplyContract`; every request returns |
| `Bonding` | full bucket of two, three nodes, two bonds, one slot, one failing query | 256 696 | the bucket is sound, one process bonds with a node, entries have answered, every bond returns |
| `ServerLoop` | two nodes, two connections, five configurations | 180 367 | dynamic dials are bounded, no task runs twice, dials of a node are spaced, a static node is dialed again unless a dial or a lookup never ends or its dial was dropped |
| `Lookup` | six nodes, results of three, two queries at a time | 15 368 | the result is the closest of what was found, all of it was asked, nothing is left behind, the search ends |
| `Handshake` | three nodes of two versions, a stranger, two frames per session | 111 066 | ends that succeed agree, frames are read as written, nodes neither panic nor hang |
| `Refresh` | two goroutines, two refreshes, three nodes and a key of another kind in the database, an iterator that reads three ahead, one seed at a time | 412 089 | the table is seeded, the iterator is sound unless calls overlap, the recursion ends |
| `PeerSession` | limits of 2 and 3 heartbeats, a socket of two messages | 276 085 | silence is bounded, live peers are kept, sessions return |
| `NodeDB` | a remote node and the local one, nine keys and an iterator that reads five ahead, one bond at a time, two versions, three starts | 585 301 | storage and program have one version, nodes that are not torn keep their last pong, the expirer deletes unseen nodes and no others, and all that its iterator does not pass over |
| `Algorithms` | bytes 0, 1, 57, 58 and 255, tables over six hashes of two bytes, targets of every length | 21 287 | distances, closest nodes, random nodes, packets and conversions agree with their reference definitions |
| `Lifecycle` | two mappings, one gateway, a lease of 4, one starter and one stopper | 164 229 | mappings are kept alive, then released; a discovery ends; proper use does not panic |

Every property of these runs has a mutant in `PROJECT.json`: a plausible bug in
one mapped definition under which TLC finds the property violated.

Two runs find a statement of the code's comments violated; `PROJECT.json`
quotes each.

- `BondingEviction`: a node is replaced although its pong arrived, because the
  read loop is blocked by the lock that the eviction holds. The instance
  assumes a prompt read loop (`PromptReader`), so that this is the only cause.
- `Evacuation`: the one byte of length in a packet makes `encodePacket` refuse
  a findnode whose target has a text of more than 220 characters, where a random
  id has about 229, and a neighbors packet with more than one node. A bonded node
  is therefore not asked, or cannot answer, and is evacuated after five queries.
  The instance has a target of each kind. In the trace that TLC prints the node
  is bonded all the time; in general, since a bond resets the counter, a node that
  is evacuated and bonded was so when each query failed and, but for the first,
  when it was asked.

Deadlock is not checked: bounded requests, packets, edits and time come to an
end, a closed transport stops for good, and a panic stops everything.

### Bounds

Every counter that bounds an instance (`MaxTime`, `MaxPackets`, `MaxRefreshes`,
`MaxInbox`, `MaxEvents`, `MaxSends`, `MaxWrites`, `MaxDrops`, `MaxExpiries`,
`MaxCalls`, `MaxStarts`, `edits` of a configuration) is named as a bound. For
the properties that are proved the bounds do not matter. For the others:

- Two requests are enough for the queue, since its scans stop after one removal
  and the timer watches one head.
- A bucket of two has an oldest entry and a front, and the third node forces
  the eviction. One slot makes bonds wait for each other.
- The configurations of `ServerLoop` have fewer dynamic dials than nodes, or
  enough for random nodes, or fewer slots than tasks, or a single slot, which the
  dial of a static node finds busy, or a static node that calls while it is dialed.
- In `Lookup` the closest nodes are found only through others, so that the
  result has to change twice.
- In `Refresh` one seed at a time makes a pass over the database take several
  calls, and one drop, when the table has one node, is enough for refresh and
  `Lookup` to recurse; two drops were too many for TLC to finish.
- In `NodeDB` and `Refresh` the iterator reads fewer keys ahead than there may be,
  so that keys come early, twice and not at all, and in a smaller storage in order.
- `AliveMax` is larger than `AliveLoop`, as in the code, so that suicide sleeps
  more than once.
- Three starts of `NodeDB` allow a crash in the middle of the change to another
  version and another one after it.
- A lease of 4 leaves room for one interval and two calls of the router, as the
  20 and 15 minutes of the code do.

### Fairness

Every goroutine that can run does (weak fairness of the goroutine as a whole),
timers fire and time passes. Nothing is assumed of which ready case a select
takes, nor that remote nodes answer. This is weaker than what Go's scheduler
gives, and suffices because traffic is bounded in the instances; with traffic
that never ends, the randomness of select and the fairness of `sync.Mutex`
would have to be assumed in addition.

- `ServerLoop` assumes that the loop, time and goroutines that sleep go on, and
  nothing of a dial, a handshake, which has no deadline (`peerconn.go:35`), or a
  lookup: `StaticRedialed` names one that never ends as an exception. Then no
  `waitExpireTask` is made (`dial.go:205`), and the loop may sleep for good.
- `Refresh` assumes that bonds and searches return, and that no panic occurs. A
  search returns unless a query was lost (`LookupReturns`).
- `NodeDB` assumes that the expirer, time and a bond that is about to store its
  node go on, and nothing of the other steps.
- `Lifecycle` assumes that all goroutines go on until a panic ends the program.

## Proofs

The theorems hold for every value of the constants, from the named assumptions
in the modules. Each proof has an inductive invariant (`IInv`; `LookupInv` and
`RefreshInv` in `TableProofs`), which TLC has checked on the instance of the
run, one lemma per action or group of actions, and a last step that puts them
together.

**PendingRepliesProofs**: `OneResult`, `QueueExact`, `WakeupArmed`,
`NoEarlyTimeout`, that a clock warp is never reported, and that the queue
implements `ReplyContract`, for any requests and traffic. `IInv` adds: a
request not yet queued has no result; deadlines in the queue are at most one
timeout away (`DeadlinesNear`, which makes the clock-warp branch unreachable);
`nextTimeout`, if it is queued, is the head (`NextTimeoutIsHead`), so that
skipping the reset is right; the timer is armed for that head also between two
selects (`HeadArmed`); a tick is not from the future (`TickPast`). The
refinement maps a request to its last result, or to whether it was asked; every
step is shown to be a step of the contract or a stutter.

**BondingProofs**: `BucketSound`, `OneBondPerNode` and
`EntriesBonded`, for any finite set of calls and any size of the bucket. `IInv`
adds where a call may be in the queue of pings (`Queue`), from whom it has its
result (`Answers`: a call that joined another one has the same node), that
slots are in the channel or held (`Slots`), and that while a call holds
`tab.mu` the bucket is full and without its node (`Eviction`), which is why the
replacement makes no duplicate although others write the bucket meanwhile.

**TableProofs**, of `Lookup`: `ResultClosest` and `AllAsked`, that a query never
blocks when it sends its reply and no more than alpha run (`ReplyNeverBlocks`),
and that no node is asked twice (`AskedOnce`), for any nodes, distances, table,
replies, alpha and size of the result. `PushFacts` is the lemma about `push`: it
keeps the order and the bound, and whatever it drops or does not take is at least
as far away as everything in a full list. From there on `Listed` says that what
was found is in the result or covered by it in this sense. `Pending` counts:
`pendingQueries` is the number of queries that run, plus the replies in the
channel, plus the one that is being pushed, so that zero means that nothing is
left, and a query that runs leaves room in the channel for its reply.
`AskedSound` says that the entries before the index of the loop were asked; since
the index goes back to zero before a reply is pushed, an entry that moves is
looked at again.

**TableProofs**, of `Refresh`: `RefreshSeeds` and `SeederSound`, for any number
of goroutines, nodes and refreshes and any database and batch size. `RefreshInv`
adds that all but the innermost call of a goroutine wait for one (`Stacks`), so
that a return never leads into `querySeeds`; that a refresh whose innermost call
is past its bonds has left a table that is not empty, or lost nodes since
(`Seeded`); and, while no calls of `querySeeds` have overlapped, that one
goroutine uses the iterator, which exists while it does, that what is owed lies
ahead of the iterator or is where it stands before its key is read, and that a
batch without a seed is at the end (`Exclusive`, which needs a batch size above
zero). `IteratorGives` is the lemma about the iterator: it gives every key of its
snapshot that is not in `PassedOver`, for any keys and any `Prefetch`.

**NodeDBProofs**: `VersionSound`, `PongKept` and `SeenKept`, for any nodes,
goroutines, versions and times. `IInv` adds that all that is stored was written
by the stored version, at every point of a change of version (`Written`), that
a bond between its two writes finds its pong recent (`Storing`), that the time
of the last pong goes after the node (`PongLast`, from the order of the keys, for
a node that is not torn),
and that the node being deleted was unseen when it was judged and still is,
unless a pong raced the deletion (`VictimUnseen`). `OnlyLargeTorn` shows that a
deletion tears a node only in a storage with more keys than the iterator reads
ahead: up to there the iterator gives the keys in their order.

**LifecycleProofs**: `KeptAlive` and `UseSound`, for any callers, mappings and
gateways. `Renewed` relates the timer of `Map` to what is left of the lease at
each position of the loop; it needs the interval and two calls of the router to
be shorter than the lease (`NatAssumption`), which the constants of the code
allow for calls of up to two and a half minutes. `StartOnce` and `StopOnce` say
that one `Start` at most gets past the lock, and what a `Stop` that is called
as it should be finds. A `Stop` after the error of a `Start` is no misuse, but it may
panic: `UseSound` speaks of programs whose `Start` was refused nothing.

**PeerSessionProofs**: `SilenceBounded` and `AliveKept`, for any intervals and
traffic. `KillerInTime` bounds the silence by what is left of the sleep of
`suicide`; `PongsRead` relates the silence to the pongs that are unread in the
socket.

**HandshakeProofs**: `Agreement`, `FramesKept` and `NodesNeverPanic`, for any
nodes, versions, strangers that write frames, and numbers of frames. The core
is `Stream`: of the frames that one end has sent, a prefix was read as it was
written, and the bytes in the buffer of `ReadMessage` followed by those on
their way are the rest of the frames, cut at offsets that add up their
lengths; when the connection is gone the last bytes may be missing. A step
takes or adds one frame or moves a byte, and the lemmas say how the offsets
change. On top of it `ClientSide`, `ServerSide`, `Accepted` and `ClientLast`
say what each end has written and read in each phase, so that an end that
succeeds has read the hello of the other, and a frame of a session is never
read as a hello.

**ServerLoopProofs**: `DynDialsBounded`, `NoDoubleTask` and `DialsSpaced`, for
any finite set of nodes, any connections, configurations, results of lookups
and intervals. `IInv` adds:

- a dial task that runs or waits has its mark in `ds.dialing`, and a lookup has
  `ds.lookupRunning` (`Marked`); a mark without a task is possible, since
  `scheduleTasks` drops tasks when all slots are busy;
- an entry of `srv.peers` is a session of that node (`Sessions`);
- a dialed connection that the loop has not taken yet belongs to a task that
  waits for it, one per node (`Offers`), so that a node becomes a dynamic peer
  only while it is counted as a dynamic dial;
- while a node is dialed, the time since the dial began is at least the age of
  the variable `now`; afterwards that time and what is left in the history add
  up to `HistExpiration` (`Ages`). `taskDone` adds the interval to a `now` that
  was read before the select, and `Ages` is what makes that early time
  harmless.

The loops of `newTasks` are recursive functions: a lemma shows that the
function exists and satisfies its equation, and what the loops add (distinct
nodes that may be dialed, no more than were needed) is shown for each length by
a smallest counterexample (`MinNat`), since the induction theorems of the
library cannot be used here.

### Only model-checked

- Liveness, which is beyond the prover: `EveryRequestReturns`,
  `EveryBondReturns`, `StaticRedialed`, `LookupReturns`, `HandshakeEnds`,
  `RefreshReturns`, `SessionReturns`, `UnseenDropped`, `DiscoveryEnds`,
  `StopReleases`.
- The five properties of `Algorithms`: they are about what recursive
  definitions compute from their inputs, and use `Bitwise`.

Every other property of a passing run is a theorem.

## Behaviours that no run reports

The models, or the reading of the code for them, show the following, which no
property rules out.

- A packet is dispatched to the matching requests up to the first that it
  completes, not "to all the callback functions for that node" (comment at
  `discover/udp.go:98`), since the scan stops at the element it removes. The
  scan for timeouts stops in the same way (`udp.go:317`, where the comment says
  "Notify and remove callbacks whose deadline is in the past"), and the timer fires
  again. Two findnode requests to one node wait, and a packet completes the first:
  the second does not get it, and ends with the next packet or its timeout.
- The iterator of the storage gives the key it will come to 100 keys later
  (`badger.go:316`, `Next` moves on before `Key` is read), so with more than 100 keys,
  about 25 nodes, `querySeeds` does not return some stored nodes at all, and
  `deleteNode`, which "deletes all information/keys associated with a node"
  (`nodedb.go:93`), leaves keys of some nodes, or deletes the time of the last pong
  before the node. `PongKept`, `UnseenDropped` and `SeederSound` name these nodes as
  exceptions (`torn`, `Spared`, `PassedOver`).
- Two sessions with one node. Node `n` calls, the loop takes the connection
  `c1` from `srv.addpeer` and `srv.peers[n]` is the session of `c1`. A dial of
  `n` that was in progress also succeeds, the loop takes `c2`, and
  `srv.peers[n]` is the session of `c2`, while that of `c1` goes on. When
  `c1` ends, `srv.delpeer` deletes the entry of `n`, and `c2` goes on without
  one: `server.go:213` against "server manages all peer connections"
  (`server.go:34`). `n` can then be dialed again.
- Tasks created while every slot is busy are dropped, and their nodes stay in
  `ds.dialing` for good (`server.go:180`). With one slot TLC finds a static node
  that is never dialed again; `StaticRedialed` names it as an exception (`Dropped`).
- A dial whose handshake never ends keeps its slot, and the loop may sleep although
  the history entry of a static node has expired.
- A query that cannot store its failure is lost, and its search waits for ever.
- Two calls of `querySeeds` at once may use the iterator that one has released.
- A bond's reset of the failure counter is lost if it falls between the read
  and the write of a failing query (`discover/table.go:213`), against "the
  number of findnode failures since bonding" (`discover/nodedb.go:135`).
- `Close` of a session that has closed itself panics. `RemovePeer` can do that
  for as long as the session is still in `srv.peers` (`server.go:206`).
- A `Start` that fails leaves `running` set, and a `Stop` after it panics if there is
  no table. A database that cannot be opened panics in `Start`, also where
  `newTable` means to go on with another one (`table.go:65`). `Start` without discovery panics
  (the UDP connection is nil), and so does `Stop` before `Start` or a second
  `Stop`. `Stop` ends neither the server loop nor the accept loop, against its
  comment at `server.go:96`. `UseSound` excludes these uses by name.
- `ReadRandomNodes` returns one more than the size of the buffer when it is
  filled. `newTasks` looks at no more than half of what it needs, so the extra
  one is not read.
- `ForIndexStar` of the storage yields nothing for a start above zero.
- `AddMapping` over UPnP deletes a mapping before it adds it, and returns no
  error when the internal address is not found.
- `findnode.handle` looks for the nodes closest to the sender, not to the
  target of the query. A bond swaps the TCP and the UDP port of its node, and
  `ParseNode` loses the UDP port.
- The expirer does not see the keys of a node that has no entry of its own.
- `Hash.SetBytes` panics on more than 32 bytes; `PubKeyEncode` drops leading
  zeros; small addresses whose base 58 text has 25 characters become zero
  through JSON.

## Assumptions and what is not modelled

- A transaction of the storage is one step and survives a crash. That
  `os.RemoveAll` is one step too is an assumption of the model: a crash in the
  middle of it leaves whatever badger makes of the files that are left. The storage
  closes without an error. A bond stores its node well before its pong is a day
  old (`MaxBond`).
- `Start` and `Stop` take less than a unit of time. There is a NAT mapper, and
  the local address is not a loopback address. `AddPeer` and `RemovePeer`
  before `Start` are left out.
- A stranger writes frames. The set of nodes of `ServerLoop` is finite.
- The checks of expiration and version at the top of the packet handlers only
  drop a packet, which looks like a loss.
- Curves, hashes and key formats, the storage engine, sockets and routers are
  external. Parsing and formatting of node URLs is text. Logging and the
  example program change no state of the library. `Table.add` is never called.
- The data race on `srv.peers`, which `Peers` reads without a lock, is not
  modelled.
