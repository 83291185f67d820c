------------------------------- MODULE Lookup -------------------------------
(***************************************************************************)
(* The iterative search of the discovery table: Lookup, bondall, closest   *)
(* and nodesByDistance.push of discover/table.go.                          *)
(*                                                                         *)
(* One goroutine keeps the result and asks its closest nodes, at most      *)
(* Alpha at a time; each question runs in a goroutine of its own, which    *)
(* sends what it found and bonded with on replyCh.  The database may be    *)
(* closed at any time, by Table.Close.                                     *)
(*                                                                         *)
(* A step is one round of a loop: an entry of the result is looked at, a   *)
(* node is pushed.  A reply is a set, for its nodes come in the order in   *)
(* which the bonds return, and a node that is in it twice is seen once.    *)
(***************************************************************************)
EXTENDS Discovery, Integers, Sequences, FiniteSetsExt

CONSTANTS
  Dist,        \* Dist[n]: distance of n to the target
  Knows,       \* Knows[n]: the nodes that n may answer with
  Table0,      \* nodes in the table when the lookup starts
  BucketSize,  \* bucketSize
  Alpha        \* alpha

ASSUME LookupAssumption ==
  /\ Dist \in [AllNodes -> Nat]
  /\ Knows \in [AllNodes -> SUBSET AllNodes]
  /\ Table0 \subseteq Nodes /\ Table0 # {}
  /\ BucketSize \in Nat \ {0} /\ Alpha \in Nat \ {0}

VARIABLES
  pc,              \* "collect", "ask", "wait", "push" or "done"
  result,          \* result.entries
  index,           \* i of the loop that asks
  left,            \* nodes that the loops of closest and of a reply have left
  asked,           \* asked
  seen,            \* seen
  pendingQueries,  \* pendingQueries
  query,           \* query[n]: the goroutine that asks n
  replyCh,         \* the replies in the channel replyCh
  db               \* the database is open

searchVars == <<pc, result, index, left, asked, seen, pendingQueries>>
lookupVars == <<searchVars, query, replyCh, db>>

LookupTypeOK ==
  /\ pc \in {"collect", "ask", "wait", "push", "done"}
  /\ result \in Seq(AllNodes)
  /\ index \in Nat
  /\ left \subseteq AllNodes
  /\ asked \subseteq AllNodes
  /\ seen \subseteq AllNodes
  /\ pendingQueries \in 0..Alpha
  /\ query \in [AllNodes -> {"none", "findnode", "failed", "bond", "ended", "lost"}]
  /\ replyCh \in Seq(SUBSET AllNodes)
  /\ db \in BOOLEAN

LookupInit ==
  /\ pc = "collect"
  /\ result = << >>
  /\ index = 0
  /\ left = Table0
  /\ asked = {Self}
  /\ seen = {}
  /\ pendingQueries = 0
  /\ query = [n \in AllNodes |-> "none"]
  /\ replyCh = << >>
  /\ db = TRUE

\* sort.Search of push: the first entry of s that is farther away than n.
Farther(s, n) == Min({j \in 1..Len(s) : Dist[s[j]] > Dist[n]} \cup {Len(s) + 1})

\* n is put there, the entries from there on slide down, size of all are kept.
Slide(s, n, size) ==
  LET ix == Farther(s, n)
  IN  [j \in 1..size |-> IF j < ix THEN s[j] ELSE IF j = ix THEN n ELSE s[j - 1]]

\* Mutant of Push: a full list stays as it is.
PushUnlessFull(s, n) ==
  IF Len(s) = BucketSize THEN s ELSE Slide(s, n, Len(s) + 1)

\* push: the list grows unless it is full.
Push(s, n) == Slide(s, n, IF Len(s) < BucketSize THEN Len(s) + 1 ELSE Len(s))

\* A round of tab.closest, with an entry n of the table.
Collect(n) ==
  /\ pc = "collect"
  /\ n \in left
  /\ left' = left \ {n}
  /\ result' = Push(result, n)
  /\ pc' = IF left' = {} THEN "ask" ELSE "collect"
  /\ UNCHANGED <<index, asked, seen, pendingQueries, query, replyCh, db>>

\* The loop asks as long as there are entries and less than alpha queries pend.
Asking == index < Len(result) /\ pendingQueries < Alpha

\* A round of the loop: an entry that was not asked yet is asked.
AskNext ==
  /\ pc = "ask"
  /\ Asking
  /\ index' = index + 1
  /\ LET n == result[index + 1]
     IN  \/ /\ n \notin asked
            /\ asked' = asked \cup {n}
            /\ pendingQueries' = pendingQueries + 1
            /\ query' = [query EXCEPT ![n] = "findnode"]
         \/ /\ n \in asked
            /\ UNCHANGED <<asked, pendingQueries, query>>
  /\ UNCHANGED <<pc, result, left, seen, replyCh, db>>

\* Mutant of AskEnd: the next loop goes on where this one ends.
AskEndThere ==
  /\ pc = "ask"
  /\ ~Asking
  /\ pc' = IF pendingQueries = 0 THEN "done" ELSE "wait"
  /\ UNCHANGED <<index, result, left, asked, seen, pendingQueries, query, replyCh, db>>

\* The end of the loop, and the test that ends the search.
AskEnd ==
  /\ pc = "ask"
  /\ ~Asking
  /\ index' = 0
  /\ pc' = IF pendingQueries = 0 THEN "done" ELSE "wait"
  /\ UNCHANGED <<result, left, asked, seen, pendingQueries, query, replyCh, db>>

\* A reply is taken from replyCh.
Receive ==
  /\ pc = "wait"
  /\ replyCh # << >>
  /\ left' = Head(replyCh)
  /\ replyCh' = Tail(replyCh)
  /\ pc' = "push"
  /\ UNCHANGED <<result, index, asked, seen, pendingQueries, query, db>>

\* A round of the loop over the reply: a node that is new is pushed.
PushNext(n) ==
  /\ pc = "push"
  /\ n \in left
  /\ left' = left \ {n}
  /\ \/ /\ n \notin seen
        /\ seen' = seen \cup {n}
        /\ result' = Push(result, n)
     \/ /\ n \in seen
        /\ UNCHANGED <<seen, result>>
  /\ UNCHANGED <<pc, index, asked, pendingQueries, query, replyCh, db>>

\* Mutant of PushEnd: the query stays pending.
PushEndPending ==
  /\ pc = "push"
  /\ left = {}
  /\ pc' = "ask"
  /\ UNCHANGED <<result, index, left, asked, seen, pendingQueries, query, replyCh, db>>

PushEnd ==
  /\ pc = "push"
  /\ left = {}
  /\ pendingQueries' = pendingQueries - 1
  /\ pc' = "ask"
  /\ UNCHANGED <<result, index, left, asked, seen, query, replyCh, db>>

-----------------------------------------------------------------------------
(* The goroutine that asks n. *)

\* findnode returns, with an error or without.
FindnodeReturns(n, ok) ==
  /\ query[n] = "findnode"
  /\ query' = [query EXCEPT ![n] = IF ok THEN "bond" ELSE "failed"]
  /\ UNCHANGED <<searchVars, replyCh, db>>

\* The failure is counted.  If the database cannot store it, the goroutine
\* returns and sends nothing.
CountFailure(n) ==
  /\ query[n] = "failed"
  /\ query' = [query EXCEPT ![n] = IF db THEN "bond" ELSE "lost"]
  /\ UNCHANGED <<searchVars, replyCh, db>>

\* bondall has bonded with the nodes of S, and the reply is sent: nodes that
\* came before a timeout are used too.
Reply(n, S) ==
  /\ query[n] = "bond"
  /\ Len(replyCh) < Alpha
  /\ replyCh' = Append(replyCh, S)
  /\ query' = [query EXCEPT ![n] = "ended"]
  /\ UNCHANGED <<searchVars, db>>

CloseDB ==
  /\ db
  /\ db' = FALSE
  /\ UNCHANGED <<searchVars, query, replyCh>>

-----------------------------------------------------------------------------
SendReply(n) == \E S \in SUBSET Knows[n] : Reply(n, S)

Search ==
  \/ \E n \in left : Collect(n) \/ PushNext(n)
  \/ AskNext \/ AskEnd \/ Receive \/ PushEnd

Query(n) ==
  \/ FindnodeReturns(n, TRUE)
  \/ FindnodeReturns(n, FALSE)
  \/ CountFailure(n)
  \/ SendReply(n)

LookupNext ==
  \/ Search
  \/ \E n \in AllNodes : Query(n)
  \/ CloseDB

\* Goroutines run, findnode returns (EveryRequestReturns of PendingReplies)
\* and so does bond (EveryBondReturns of Bonding).
LookupFairness ==
  /\ WF_lookupVars(Search)
  /\ \A n \in AllNodes : WF_lookupVars(Query(n))

LookupSafetySpec == LookupInit /\ [][LookupNext]_lookupVars
LookupSpec == LookupSafetySpec /\ LookupFairness

-----------------------------------------------------------------------------
(* Properties. *)

\* The nodes found so far: of the table, and of the replies.
Found == (IF pc = "collect" THEN Table0 \ left ELSE Table0) \cup seen

\* The result holds the closest of all nodes found, nearest first and no more
\* than fit, also when a node of the table is found again and is in the result
\* twice; every variable keeps its type.
ResultClosest ==
  /\ LookupTypeOK
  /\ Len(result) <= BucketSize
  /\ \A i, j \in 1..Len(result) : i < j => Dist[result[i]] <= Dist[result[j]]
  /\ \A n \in Found :
       \/ n \in Range(result)
       \/ /\ Len(result) = BucketSize
          /\ \A i \in 1..Len(result) : Dist[result[i]] <= Dist[n]

\* "we have asked all closest nodes, stop the search": when the search stops,
\* every node in the result has been asked, however the replies came in, and
\* every question has been answered: no goroutine and no reply is left behind.
AllAsked ==
  pc = "done" =>
    /\ Range(result) \subseteq asked
    /\ \A n \in AllNodes : query[n] \in {"none", "ended"}
    /\ replyCh = << >>

\* The search ends, unless a query that failed found the database closed.
LookupReturns ==
  pc = "collect" ~> pc = "done" \/ \E n \in AllNodes : query[n] = "lost"
=============================================================================
