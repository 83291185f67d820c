------------------------------ MODULE Refresh ------------------------------
(***************************************************************************)
(* How the table is filled: refresh, Bootstrap and the empty-table case of *)
(* Lookup of discover/table.go, which call each other, and querySeeds,     *)
(* deleteNode and expireNodes of discover/nodedb.go.                       *)
(*                                                                         *)
(* Refreshes run concurrently: Bootstrap, lookups and the timer of the UDP *)
(* loop start them.  All share the iterator db.seeder, which no lock       *)
(* protects; a call on it while it is nil panics.  A bond is what Bonding  *)
(* shows it to be: it returns the node if it answers or is in the          *)
(* database, and puts it into the table, whose buckets have room here.     *)
(* A search of a table that is not empty finds nodes (module Lookup).      *)
(***************************************************************************)
EXTENDS Discovery, KeyIterator, Sequences, Functions

CONSTANTS
  Procs,        \* goroutines that call refresh
  NoKey,        \* no key
  OtherKeys,    \* keys that are not a node's own: times, counters, the version
  Nursery,      \* bootstrap nodes, once Bootstrap has set them
  Stored,       \* nodes that an earlier run has left in the database
  SeedCount,    \* how many seeds refresh asks for
  MaxDrops,     \* bound: nodes that fall out of the table
  MaxExpiries,  \* bound: nodes that the expirer deletes
  MaxCalls      \* bound: refreshes begun

\* A node has the name of its own key.
AllKeys == AllNodes \cup OtherKeys

ASSUME RefreshAssumption ==
  /\ IsFiniteSet(AllKeys) /\ NoKey \notin AllKeys /\ OtherKeys \cap AllNodes = {}
  /\ \A k \in AllKeys : Order(k) \in Nat
  /\ \A j, k \in AllKeys : Order(j) = Order(k) => j = k
  /\ Nursery \subseteq Nodes /\ Stored \subseteq AllNodes
  /\ SeedCount \in Nat \ {0}
  /\ MaxDrops \in Nat /\ MaxExpiries \in Nat /\ MaxCalls \in Nat

VARIABLES
  alive,     \* nodes that answer
  table,     \* nodes in the buckets
  store,     \* nodes in the database
  seeder,    \* db.seeder: Nil, or what is left of the iterator
  current,   \* it.current, the key that the iterator stands on
  stack,     \* stack[p]: where p stands in refresh and Lookup, innermost first
  found,     \* found[p]: the Lookup that p called has returned nodes
  batch,     \* batch[p]: nodes of querySeeds
  calls,     \* refreshes begun
  panic,     \* a method of the nil iterator was called
  drops,     \* nodes that fell out of the table
  expiries,  \* nodes that the expirer deleted
  overlap,   \* history: two goroutines were in querySeeds at once
  owed,      \* history: nodes of the iterator's snapshot, still in the
             \* database and not passed over, that were not returned as seeds
  dropped    \* dropped[p]: history: drops since p saw or made the table full

seedVars == <<seeder, current, batch, owed>>
boundVars == <<drops, expiries>>
vars == <<alive, table, store, seedVars, stack, found, calls, panic,
          boundVars, overlap, dropped>>

Nil == {<<0, NoKey>>}

Labels == {"scan", "random", "seeds", "next", "key", "release", "bond", "self",
           "start", "search", "refresh"}

TypeOK ==
  /\ alive \subseteq Nodes
  /\ table \subseteq Nodes
  /\ store \subseteq AllNodes
  /\ seeder = Nil \/ seeder \subseteq Int \X AllKeys
  /\ current \in AllKeys \cup {NoKey}
  /\ stack \in [Procs -> Seq(Labels)]
  /\ found \in [Procs -> BOOLEAN]
  /\ batch \in [Procs -> Seq(Nodes)]
  /\ calls \in 0..MaxCalls
  /\ panic \in BOOLEAN /\ overlap \in BOOLEAN
  /\ drops \in 0..MaxDrops
  /\ expiries \in 0..MaxExpiries
  /\ owed \subseteq Nodes
  /\ dropped \in [Procs -> BOOLEAN]

Init ==
  /\ alive \in SUBSET Nodes
  /\ table = {}
  /\ store = Stored
  /\ seeder = Nil
  /\ current = NoKey
  /\ stack = [p \in Procs |-> << >>]
  /\ found = [p \in Procs |-> FALSE]
  /\ batch = [p \in Procs |-> << >>]
  /\ calls = 0
  /\ panic = FALSE
  /\ drops = 0
  /\ expiries = 0
  /\ overlap = FALSE
  /\ owed = {}
  /\ dropped = [p \in Procs |-> FALSE]

At(p, label) == stack[p] # << >> /\ Head(stack[p]) = label

Goto(p, label) == stack' = [stack EXCEPT ![p] = <<label>> \o Tail(@)]

\* A call: p goes on at label when the callee, which begins at callee, returns.
Call(p, label, callee) ==
  stack' = [stack EXCEPT ![p] = <<callee, label>> \o Tail(@)]

Return(p) == stack' = [stack EXCEPT ![p] = Tail(@)]

-----------------------------------------------------------------------------
(* refresh. *)

\* Bootstrap, Lookup of a table that is empty, or the timer of the UDP loop.
Begin(p) ==
  /\ stack[p] = << >>
  /\ calls < MaxCalls
  /\ calls' = calls + 1
  /\ stack' = [stack EXCEPT ![p] = <<"scan">>]
  /\ dropped' = [dropped EXCEPT ![p] = FALSE]
  /\ UNCHANGED <<alive, table, store, seedVars, found, panic, boundVars,
                 overlap>>

\* A table that is not empty is searched for a random target.
Scan(p) ==
  /\ At(p, "scan")
  /\ IF table # {} THEN Call(p, "random", "start") ELSE Goto(p, "seeds")
  /\ dropped' = [dropped EXCEPT ![p] = FALSE]
  /\ UNCHANGED <<alive, table, store, seedVars, found, calls, panic, boundVars,
                 overlap>>

\* "Lookup failed, seed after all"
AfterRandom(p) ==
  /\ At(p, "random")
  /\ IF found[p] THEN Return(p) ELSE Goto(p, "seeds")
  /\ found' = [found EXCEPT ![p] = FALSE]
  /\ UNCHANGED <<alive, table, store, seedVars, calls, panic, boundVars,
                 overlap, dropped>>

\* Mutant of Bonded: only the seeds are bonded with.
BondedSeeds(p) == {n \in Range(batch[p]) : n \in store \cup alive}

\* What bondall returns: nodes that answer, or are in the database.
Bonded(p) == {n \in Nursery \cup Range(batch[p]) : n \in store \cup alive}

\* The nursery and the seeds are bonded with; if that gives a node, the local
\* one is searched for.
BondAll(p) ==
  /\ At(p, "bond")
  /\ table' = table \cup Bonded(p)
  /\ store' = store \cup Bonded(p)
  /\ IF Bonded(p) # {} THEN Call(p, "self", "start") ELSE Return(p)
  /\ batch' = [batch EXCEPT ![p] = << >>]
  /\ dropped' = [dropped EXCEPT ![p] = FALSE]
  /\ UNCHANGED <<alive, seeder, current, owed, found, calls, panic,
                 boundVars, overlap>>

AfterSelf(p) ==
  /\ At(p, "self")
  /\ Return(p)
  /\ found' = [found EXCEPT ![p] = FALSE]
  /\ UNCHANGED <<alive, table, store, seedVars, calls, panic, boundVars,
                 overlap, dropped>>

-----------------------------------------------------------------------------
(* Lookup. *)

\* Mutant of LookupStart: it waits for a table that is not empty.
LookupStartWaits(p) ==
  /\ At(p, "start")
  /\ table # {}
  /\ Goto(p, "search")
  /\ UNCHANGED <<alive, table, store, seedVars, found, calls, panic, boundVars,
                 overlap, dropped>>

\* closest; a table that has become empty is refreshed.
LookupStart(p) ==
  /\ At(p, "start")
  /\ IF table = {} THEN Call(p, "refresh", "scan") ELSE Goto(p, "search")
  /\ UNCHANGED <<alive, table, store, seedVars, found, calls, panic, boundVars,
                 overlap, dropped>>

\* The search ends; nodes it has found and bonded with are in the table.
SearchReturns(p, ns) ==
  /\ At(p, "search")
  /\ Return(p)
  /\ found' = [found EXCEPT ![p] = TRUE]
  /\ table' = table \cup ns
  /\ store' = store \cup ns
  /\ UNCHANGED <<alive, seedVars, calls, panic, boundVars, overlap, dropped>>

\* return nil, after refresh
LookupNil(p) ==
  /\ At(p, "refresh")
  /\ Return(p)
  /\ found' = [found EXCEPT ![p] = FALSE]
  /\ UNCHANGED <<alive, table, store, seedVars, calls, panic, boundVars,
                 overlap, dropped>>

-----------------------------------------------------------------------------
(* querySeeds. *)

\* The keys in the database; which of the other keys are there is left open.
Snapshots == {store \cup X : X \in SUBSET OtherKeys}

\* deleteNode, with an iterator of its own.
Delete(n) ==
  \E S \in Snapshots : store' = IF n \in PassedOver(S) THEN store ELSE store \ {n}

InQuery(p) == \E l \in {"next", "key", "release"} : At(p, l)

\* A new iterator is over the keys that the database has now.
NewSeeder ==
  \E S \in Snapshots :
    /\ seeder' = NewIterator(S) /\ current' = NoKey
    /\ owed' = store \ ({Self} \cup PassedOver(S))

\* An iterator is created if there is none.
SeedsBegin(p) ==
  /\ At(p, "seeds")
  /\ Goto(p, "next")
  /\ batch' = [batch EXCEPT ![p] = << >>]
  /\ IF seeder = Nil
     THEN NewSeeder
     ELSE UNCHANGED <<seeder, current, owed>>
  /\ overlap' = (overlap \/ \E q \in Procs : InQuery(q))
  /\ UNCHANGED <<alive, table, store, found, calls, panic, boundVars, dropped>>

Panic == panic' = TRUE

\* Next of the iterator.
Advance ==
  \E e \in seeder :
    /\ First(e, seeder)
    /\ current' = e[2]
    /\ seeder' = seeder \ {e}

\* The condition of the loop, with db.seeder.Next().
SeedsNext(p) ==
  /\ At(p, "next")
  /\ \/ /\ Len(batch[p]) < SeedCount /\ seeder = Nil
        /\ Panic
        /\ UNCHANGED <<stack, seeder, current>>
     \/ /\ Len(batch[p]) < SeedCount /\ seeder # Nil
        /\ Advance
        /\ Goto(p, "key")
        /\ UNCHANGED panic
     \/ /\ Len(batch[p]) = SeedCount \/ seeder = {}
        /\ Goto(p, "release")
        /\ UNCHANGED <<seeder, current, panic>>
  /\ UNCHANGED <<alive, table, store, batch, owed, found, calls, boundVars,
                 overlap, dropped>>

\* The body of the loop, with db.seeder.Key(): a key that is not a node's is
\* skipped, the local node is deleted from the database, another node is a seed
\* if it is still there.
SeedsKey(p) ==
  /\ At(p, "key")
  /\ \/ /\ seeder = Nil \/ current = NoKey
        /\ Panic
        /\ UNCHANGED <<stack, store, batch, owed>>
     \/ /\ seeder # Nil /\ current # NoKey
        /\ Goto(p, "next")
        /\ IF current = Self THEN Delete(Self) ELSE UNCHANGED store
        /\ batch' = [batch EXCEPT ![p] = IF current \in store \ {Self}
                                         THEN Append(@, current) ELSE @]
        /\ owed' = owed \ {current}
        /\ UNCHANGED panic
  /\ UNCHANGED <<alive, table, seeder, current, found, calls, boundVars,
                 overlap, dropped>>

\* Mutant of SeedsRelease: the iterator is released after every batch.
SeedsReleaseAlways(p) ==
  /\ At(p, "release")
  /\ IF seeder = Nil
     THEN Panic /\ UNCHANGED <<stack, seeder>>
     ELSE seeder' = Nil /\ Goto(p, "bond") /\ UNCHANGED panic
  /\ UNCHANGED <<alive, table, store, current, batch, owed, found, calls,
                 boundVars, overlap, dropped>>

\* The iterator is released when it gave no seed at all.
SeedsRelease(p) ==
  /\ At(p, "release")
  /\ \/ /\ batch[p] # << >>
        /\ Goto(p, "bond")
        /\ UNCHANGED <<seeder, panic>>
     \/ /\ batch[p] = << >> /\ seeder = Nil
        /\ Panic
        /\ UNCHANGED <<stack, seeder>>
     \/ /\ batch[p] = << >> /\ seeder # Nil
        /\ seeder' = Nil
        /\ Goto(p, "bond")
        /\ UNCHANGED panic
  /\ UNCHANGED <<alive, table, store, current, batch, owed, found, calls,
                 boundVars, overlap, dropped>>

-----------------------------------------------------------------------------
(* What goes on beside. *)

\* del, after too many failed queries.
Drop(n) ==
  /\ n \in table
  /\ drops < MaxDrops
  /\ drops' = drops + 1
  /\ table' = table \ {n}
  /\ dropped' = [p \in Procs |-> stack[p] # << >>]
  /\ UNCHANGED <<alive, store, seedVars, stack, found, calls, panic, expiries,
                 overlap>>

\* expireNodes deletes a node that was not heard of for long, or the local one.
Expire(n) ==
  /\ n \in store
  /\ expiries < MaxExpiries
  /\ expiries' = expiries + 1
  /\ Delete(n)
  /\ owed' = owed \cap store'
  /\ UNCHANGED <<alive, table, seeder, current, batch, stack, found, calls,
                 panic, drops, overlap, dropped>>

-----------------------------------------------------------------------------
Run(p) ==
  \/ Scan(p) \/ AfterRandom(p) \/ BondAll(p) \/ AfterSelf(p)
  \/ LookupStart(p) \/ LookupNil(p)
  \/ \E ns \in SUBSET alive : SearchReturns(p, ns)
  \/ SeedsBegin(p) \/ SeedsNext(p) \/ SeedsKey(p) \/ SeedsRelease(p)

Next ==
  /\ ~panic
  /\ \/ \E p \in Procs : Begin(p) \/ Run(p)
     \/ \E n \in Nodes : Drop(n)
     \/ \E n \in AllNodes : Expire(n)

\* The goroutines run, and bonds and searches return (EveryBondReturns of
\* Bonding, LookupReturns of Lookup: here no query of a search is lost).
Fairness == \A p \in Procs : WF_vars(~panic /\ Run(p))

SafetySpec == Init /\ [][Next]_vars
Spec == SafetySpec /\ Fairness

-----------------------------------------------------------------------------
(* Properties. *)

\* "seeds the table if it is empty": a refresh leaves a table that is not
\* empty when a bootstrap node answers, wherever the table became empty while
\* it ran and however it recursed, unless nodes fell out after its last bonds.
RefreshSeeds ==
  [][\A p \in Procs :
       /\ stack[p] # << >> /\ stack'[p] = << >>
       /\ Nursery \cap alive # {}
       => table # {} \/ dropped[p]]_vars

\* As long as no two calls of querySeeds overlap, the shared iterator is never
\* used while it is nil, and it is released only when every node of its
\* snapshot that is still in the database was a seed, although a batch may end
\* anywhere and nodes are deleted meanwhile; but for the nodes that the iterator
\* passes over, in a database with more than Prefetch keys.  Every variable keeps
\* its type.
SeederSound ==
  /\ []TypeOK
  /\ [][~overlap' =>
          /\ ~panic'
          /\ seeder # Nil /\ seeder' = Nil => owed = {}]_vars

\* refresh and Lookup, which call each other on an empty table, return.
RefreshReturns == \A p \in Procs : stack[p] # << >> ~> stack[p] = << >> \/ panic
=============================================================================
