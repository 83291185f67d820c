------------------------------- MODULE NodeDB -------------------------------
(***************************************************************************)
(* The node database of discover/nodedb.go over the storage of             *)
(* storage/badger/badger.go: its keys, the bonds that write them one by    *)
(* one, the expirer that deletes them one by one, and the program that     *)
(* stops or crashes at any time and starts again, perhaps with another     *)
(* version of the database.                                                *)
(*                                                                         *)
(* A transaction of the storage is one step and survives a crash.  A time  *)
(* is kept as its age.  os.RemoveAll is one step, too: nothing is assumed  *)
(* here of a directory that is left half removed.  The iterator that       *)
(* querySeeds keeps is in Refresh, the values of the failure counters are  *)
(* in Bonding.                                                             *)
(***************************************************************************)
EXTENDS KeyIterator

CONSTANTS
  Nodes,       \* remote nodes
  Self,        \* the local node, which may get into its own database
  NoNode,      \* no node, the id in the key "version"
  Procs,       \* goroutines that call bond
  Callees,     \* nodes that they bond with
  Stored0,     \* nodes that an earlier run of the program has left
  Versions,    \* versions of the database that the program may have
  NoVersion,   \* the storage has no version
  Expiration,  \* nodeDBNodeExpiration
  MaxBond,     \* how long a bond may take after its pong
  MaxScan,     \* bound: how long one run of expireNodes takes
  MaxStarts    \* bound: starts of the program

Ids == Nodes \cup {Self}
Fields == {"discover", "findfail", "lastping", "lastpong"}
Keys == Ids \X Fields
VersionKey == <<NoNode, "version">>

ASSUME NodeDBAssumption ==
  /\ IsFiniteSet(Nodes) /\ Self \notin Nodes /\ NoNode \notin Ids
  /\ \A k \in Keys \cup {VersionKey} : Order(k) \in Nat
  /\ \A j, k \in Keys \cup {VersionKey} : Order(j) = Order(k) => j = k
  /\ \A n \in Ids, f \in Fields \ {"discover"} :
       Order(<<n, "discover">>) < Order(<<n, f>>)
  /\ Callees \subseteq Ids /\ Stored0 \subseteq Ids
  /\ NoVersion \notin Versions
  /\ Expiration \in Nat \ {0} /\ MaxBond \in 0..(Expiration - 1)
  /\ MaxScan \in Nat /\ MaxStarts \in Nat

VARIABLES
  keys,     \* the keys in the storage: pairs of a node and a field
  stored,   \* the value of the key "version"
  program,  \* what the program does
  version,  \* its version of the database
  starts,   \* starts so far
  pc,       \* where each bond is
  id,       \* id[p]: the node it is for
  kind,     \* kind[p]: the node was not in the database, was there with
            \* failures, or is the oldest of a bucket, pinged by pingreplace
  seen,     \* seen[n]: the age of the last pong of n that was stored
  expirer,  \* what the expirer does
  due,      \* there is a tick in the channel of its cleanup cycle
  limit,    \* the age of its threshold
  scan,     \* nodes that are left of its traversal
  victim,   \* the node that it deletes
  doomed,   \* keys of that node that are left of the iterator, with their turns
  by,       \* history: versions that wrote what is in the storage
  raced,    \* history: nodes with a pong stored while they were deleted
  torn      \* history: nodes that deleteNode has torn, see Tears

storageVars == <<keys, stored, by>>
programVars == <<program, version, starts>>
bondVars == <<pc, id, kind>>
expireVars == <<expirer, due, limit, scan, victim, doomed>>
historyVars == <<raced, torn>>
vars == <<storageVars, programVars, bondVars, seen, expireVars, historyVars>>

\* An age that is beyond every threshold.
Old == Expiration + MaxScan + 1

TypeOK ==
  /\ keys \subseteq Keys
  /\ stored \in Versions \cup {NoVersion}
  /\ program \in {"down", "open", "mismatch", "removed", "up"}
  /\ version \in Versions \cup {NoVersion}
  /\ starts \in 0..MaxStarts
  /\ pc \in [Procs -> {"idle", "ping", "pong", "store", "reset"}]
  /\ id \in [Procs -> Ids \cup {NoNode}]
  /\ seen \in [Ids -> 0..Old]
  /\ kind \in [Procs -> {"new", "known", "oldest"}]
  /\ expirer \in {"none", "tick", "scan", "iterate", "delete"}
  /\ due \in BOOLEAN
  /\ limit \in 0..Old
  /\ scan \subseteq Ids
  /\ victim \in Ids \cup {NoNode}
  /\ doomed \subseteq Int \X Keys
  /\ by \subseteq Versions
  /\ raced \subseteq Ids /\ torn \subseteq Ids

Init ==
  /\ keys = Stored0 \X Fields
  /\ stored \in Versions /\ by = {stored}
  /\ program = "down" /\ version = NoVersion /\ starts = 0
  /\ pc = [p \in Procs |-> "idle"]
  /\ id = [p \in Procs |-> NoNode]
  /\ kind = [p \in Procs |-> "new"]
  /\ seen = [n \in Ids |-> IF n \in Stored0 THEN 0 ELSE Old]
  /\ expirer = "none" /\ due = FALSE /\ limit = 0
  /\ scan = {} /\ victim = NoNode /\ doomed = {}
  /\ raced = {} /\ torn = {}

-----------------------------------------------------------------------------
(* NewByVersion, and the end of the program. *)

\* badger.Open
Open(v) ==
  /\ program = "down" /\ starts < MaxStarts
  /\ starts' = starts + 1
  /\ program' = "open" /\ version' = v
  /\ UNCHANGED <<storageVars, bondVars, seen, expireVars, historyVars>>

\* Mutant of CheckVersion: a storage of another version is taken over.
CheckVersionInPlace ==
  /\ program = "open"
  /\ stored' = version
  /\ program' = "up"
  /\ UNCHANGED <<keys, by, version, starts, bondVars, seen, expireVars, historyVars>>

\* The version is written when there is none; with another one the storage
\* is closed to be removed.
CheckVersion ==
  /\ program = "open"
  /\ \/ /\ stored \in {NoVersion, version}
        /\ stored' = version
        /\ program' = "up"
     \/ /\ stored \notin {NoVersion, version}
        /\ program' = "mismatch"
        /\ UNCHANGED stored
  /\ UNCHANGED <<keys, by, version, starts, bondVars, seen, expireVars, historyVars>>

\* os.RemoveAll, and the recursive call opens a new storage.
RemoveAll ==
  /\ program = "mismatch"
  /\ keys' = {} /\ stored' = NoVersion /\ by' = {}
  /\ seen' = [n \in Ids |-> Old] /\ raced' = {} /\ torn' = {}
  /\ program' = "removed"
  /\ UNCHANGED <<version, starts, bondVars, expireVars>>

Reopen ==
  /\ program = "removed"
  /\ program' = "open"
  /\ UNCHANGED <<storageVars, version, starts, bondVars, seen, expireVars, historyVars>>

\* close, or a crash: the storage stays, everything else is lost.
Down ==
  /\ program # "down"
  /\ program' = "down" /\ version' = NoVersion
  /\ pc' = [p \in Procs |-> "idle"]
  /\ id' = [p \in Procs |-> NoNode]
  /\ kind' = [p \in Procs |-> "new"]
  /\ expirer' = "none" /\ due' = FALSE /\ limit' = 0
  /\ scan' = {} /\ victim' = NoNode /\ doomed' = {}
  /\ UNCHANGED <<storageVars, starts, seen, historyVars>>

-----------------------------------------------------------------------------
(* The writes of bond. *)

\* Goroutine p goes on at l; an idle one has no node.
Goto(p, l) ==
  /\ pc' = [pc EXCEPT ![p] = l]
  /\ id' = [id EXCEPT ![p] = IF l = "idle" THEN NoNode ELSE @]
  /\ kind' = [kind EXCEPT ![p] = IF l = "idle" THEN "new" ELSE @]

\* SetData, by a goroutine that goes on at l.
Write(p, f, l) ==
  /\ program = "up"
  /\ keys' = keys \cup {<<id[p], f>>}
  /\ by' = by \cup {version}
  /\ Goto(p, l)
  /\ UNCHANGED <<stored, programVars>>

\* A bond or an eviction begins.  bond looks for the node in the database; a
\* node that is there and has no failures is not pinged, and only a key can
\* hold failures.
Begin(p, n, k, l) ==
  /\ program = "up" /\ pc[p] = "idle"
  /\ \/ k = "oldest" /\ l = "ping"
     \/ k = "new" /\ l = "ping" /\ <<n, "discover">> \notin keys
     \/ /\ k = "known" /\ <<n, "discover">> \in keys
        /\ l = "reset" \/ (l = "ping" /\ <<n, "findfail">> \in keys)
  /\ pc' = [pc EXCEPT ![p] = l]
  /\ id' = [id EXCEPT ![p] = n]
  /\ kind' = [kind EXCEPT ![p] = k]
  /\ UNCHANGED <<storageVars, programVars, seen, expireVars, historyVars>>

\* updateLastPing
StorePing(p) ==
  /\ pc[p] = "ping"
  /\ Write(p, "lastping", "pong")
  /\ UNCHANGED <<seen, expireVars, historyVars>>

\* No pong: a node that was in the database is given a chance.
PingFails(p) ==
  /\ pc[p] = "pong"
  /\ Goto(p, IF kind[p] = "known" THEN "reset" ELSE "idle")
  /\ UNCHANGED <<storageVars, programVars, seen, expireVars, historyVars>>

\* A pong: updateLastPong and ensureExpire.
StorePong(p) ==
  /\ pc[p] = "pong"
  /\ Write(p, "lastpong", IF kind[p] = "oldest" THEN "idle" ELSE "store")
  /\ seen' = [seen EXCEPT ![id[p]] = 0]
  /\ expirer' = IF expirer = "none" THEN "tick" ELSE expirer
  /\ raced' = IF id[p] = victim THEN raced \cup {id[p]} ELSE raced \ {id[p]}
  /\ torn' = torn \ {id[p]}
  /\ UNCHANGED <<due, limit, scan, victim, doomed>>

\* updateNode
StoreNode(p) ==
  /\ pc[p] = "store"
  /\ Write(p, "discover", "reset")
  /\ UNCHANGED <<seen, expireVars, historyVars>>

\* updateFindFails(id, 0)
ResetFails(p) ==
  /\ pc[p] = "reset"
  /\ Write(p, "findfail", "idle")
  /\ UNCHANGED <<seen, expireVars, historyVars>>

-----------------------------------------------------------------------------
(* expireNodes. *)

\* A tick of the cleanup cycle: a traversal of the database as it is now.
ExpireBegin ==
  /\ expirer = "tick" /\ due
  /\ due' = FALSE
  /\ expirer' = "scan"
  /\ limit' = Expiration
  /\ scan' = {n \in Ids : <<n, "discover">> \in keys}
  /\ UNCHANGED <<storageVars, programVars, bondVars, seen, victim, doomed,
                 historyVars>>

\* Mutant of SeenAfter: any pong is good enough.
SeenEver(n) == <<n, "lastpong">> \in keys

\* Mutant of SeenAfter: the threshold is an instant too late.
SeenSooner(n) == <<n, "lastpong">> \in keys /\ seen[n] < limit - 1

\* lastPong, the zero time when there is no key, is after the threshold.
SeenAfter(n) == <<n, "lastpong">> \in keys /\ seen[n] < limit

\* The callback for one node: it stays if it is remote and was seen.
Judge(n) ==
  /\ expirer = "scan"
  /\ n \in scan /\ \A m \in scan : Order(<<n, "discover">>) <= Order(<<m, "discover">>)
  /\ scan' = scan \ {n}
  /\ \/ /\ n # Self /\ SeenAfter(n)
        /\ UNCHANGED <<expirer, victim>>
     \/ /\ n = Self \/ ~SeenAfter(n)
        /\ expirer' = "iterate" /\ victim' = n
  /\ UNCHANGED <<storageVars, programVars, bondVars, seen, due, limit, doomed,
                 historyVars>>

\* The iterator d gives a key of the victim before one that comes earlier in the
\* storage, or without it.
Tears(d) ==
  \E e \in d, f \in Fields :
    /\ <<victim, f>> \in keys /\ Order(<<victim, f>>) < Order(e[2])
    /\ ~\E g \in d : g[1] < e[1] /\ g[2] = <<victim, f>>

\* deleteNode: an iterator over the database as it is now, and DelData of one key
\* of the node after the other, as the iterator gives them.
DeleteBegin ==
  /\ expirer = "iterate"
  /\ expirer' = "delete"
  /\ \E all \in {keys \cup {VersionKey}} :
       \E d \in {{e \in NewIterator(all) : e[2][1] = victim}} :
         /\ doomed' = d
         /\ torn' = IF Tears(d) THEN torn \cup {victim} ELSE torn
  /\ UNCHANGED <<storageVars, programVars, bondVars, seen, due, limit, scan, victim,
                 raced>>

\* Mutant of DeleteKey: the iterator goes from the last key to the first.
DeleteKeyReversed(e) ==
  /\ expirer = "delete"
  /\ e \in doomed /\ \A d \in doomed : e[1] >= d[1]
  /\ keys' = keys \ {e[2]}
  /\ doomed' = doomed \ {e}
  /\ UNCHANGED <<stored, by, programVars, bondVars, seen, expirer, due, limit,
                 scan, victim, historyVars>>

DeleteKey(e) ==
  /\ expirer = "delete" /\ First(e, doomed)
  /\ keys' = keys \ {e[2]}
  /\ doomed' = doomed \ {e}
  /\ UNCHANGED <<stored, by, programVars, bondVars, seen, expirer, due, limit,
                 scan, victim, historyVars>>

DeleteEnds ==
  /\ expirer = "delete" /\ doomed = {}
  /\ expirer' = "scan" /\ victim' = NoNode
  /\ UNCHANGED <<storageVars, programVars, bondVars, seen, due, limit, scan, doomed,
                 historyVars>>

ExpireEnds ==
  /\ expirer = "scan" /\ scan = {}
  /\ expirer' = "tick"
  /\ limit' = 0
  /\ UNCHANGED <<storageVars, programVars, bondVars, seen, due, scan, victim, doomed,
                 historyVars>>

Expiring == expirer \in {"scan", "iterate", "delete"}

\* An hour passes, nodeDBCleanupCycle.  A bond stores the node well before its pong
\* is old.
Tick ==
  /\ \A p \in Procs : pc[p] = "store" => seen[id[p]] < MaxBond
  /\ Expiring => limit < Expiration + MaxScan
  /\ seen' = [n \in Ids |-> IF seen[n] < Old THEN seen[n] + 1 ELSE Old]
  /\ due' = (expirer # "none")
  /\ limit' = IF Expiring THEN limit + 1 ELSE limit
  /\ UNCHANGED <<storageVars, programVars, bondVars, expirer, scan, victim, doomed,
                 historyVars>>

ExpireStep ==
  \/ ExpireBegin \/ DeleteBegin \/ DeleteEnds \/ ExpireEnds
  \/ \E n \in Ids : Judge(n)
  \/ \E e \in doomed : DeleteKey(e)

Next ==
  \/ \E v \in Versions : Open(v)
  \/ CheckVersion \/ RemoveAll \/ Reopen \/ Down
  \/ \E p \in Procs :
       \/ \E n \in Callees, k \in {"new", "known", "oldest"}, l \in {"ping", "reset"} :
            Begin(p, n, k, l)
       \/ StorePing(p) \/ PingFails(p) \/ StorePong(p)
       \/ StoreNode(p) \/ ResetFails(p)
  \/ ExpireStep
  \/ Tick

\* Time passes; the expirer, once started, and the bonds run.
Fairness ==
  /\ WF_vars(ExpireStep) /\ WF_vars(Tick)
  /\ \A p \in Procs : WF_vars(StoreNode(p))

Spec == Init /\ [][Next]_vars /\ Fairness

-----------------------------------------------------------------------------
(* Properties. *)

\* A program works only on what programs of its own version have written,
\* wherever an earlier one crashed while it removed or opened the storage.
VersionSound == program = "up" => stored = version /\ by \subseteq {version}

\* A remote node in the database has the time of its last pong there, at every
\* point where bond or deleteNode may stop between two keys, unless a pong came
\* in while deleteNode was at work on the node, or its iterator, over more than
\* Prefetch keys, passed over some keys of the node or gave them in another order.
\* Every variable keeps its type.
PongKept ==
  /\ TypeOK
  /\ \A n \in Nodes \ (raced \cup torn) :
       <<n, "discover">> \in keys => <<n, "lastpong">> \in keys

\* The comment on expireNodes: it deletes nodes that "have not been seen (i.e.
\* received a pong from) for some alloted time", and no other remote node,
\* unless a pong of it came in while it was being deleted, at this or at an
\* earlier time.  A node that deleteNode has torn, and that has no time of its last
\* pong any more, was not seen either.
SeenKept ==
  [][\A n \in Nodes \ raced :
       n = victim /\ <<n, "discover">> \in keys \ keys' => seen[n] >= limit]_vars

\* deleteNode works on n, and its iterator does not give the key of the node.
Spared(n) ==
  expirer = "delete" /\ victim = n /\ \A e \in doomed : e[2] # <<n, "discover">>

\* A node that sends no more pongs leaves the database as long as the program
\* runs and has an expirer, unless its key is among those that the iterator of
\* deleteNode passes over.
UnseenDropped ==
  \A n \in Ids :
    <<n, "discover">> \in keys /\ expirer # "none" ~>
      \/ <<n, "discover">> \notin keys \/ expirer = "none" \/ seen[n] = 0
      \/ Spared(n)
=============================================================================
