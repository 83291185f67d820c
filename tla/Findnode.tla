------------------------------ MODULE Findnode ------------------------------
(***************************************************************************)
(* The findnode exchange end to end: a lookup asks a node of the table     *)
(* (udp.findnode), the node answers with the closest entries of its own    *)
(* table (findnode.handle), and a query that fails is counted, until the   *)
(* node is evacuated (Table.Lookup).  The packets are those of Packets.    *)
(*                                                                         *)
(* The network loses nothing and answers before respTimeout: a query times *)
(* out only when everything that was sent has arrived.                     *)
(***************************************************************************)
EXTENDS Packets

CONSTANTS
  Targets,              \* lengths of the texts of the targets of lookups
  Table,                \* the entries that the other node finds, closest first
  bucketSize,
  maxNeighbors,
  maxFindnodeFailures

VARIABLES
  entry,      \* the other node is in our table
  fails,      \* its counter of failures in our database
  query,      \* a query waits for neighbors
  nreceived,  \* nreceived of that query
  bonded,     \* the other node has us in its database
  net         \* packets under way

vars == <<entry, fails, query, nreceived, bonded, net>>

Init ==
  /\ entry = TRUE /\ fails = 0
  /\ query = FALSE /\ nreceived = 0
  /\ bonded = TRUE
  /\ net = << >>

\* udp.findnode: the request is added, and sent when its packet can be encoded.
Ask(target) ==
  /\ ~query /\ entry
  /\ query' = TRUE /\ nreceived' = 0
  /\ LET p == encodePacket("findnode", "us", [msg |-> << >>, len |-> findnodeLen(target)])
     IN  net' = IF p.sent THEN Append(net, p) ELSE net
  /\ UNCHANGED <<entry, fails, bonded>>

\* findnode.handle: nothing without a bond, else the chunks that can be encoded.
Answer ==
  LET chunks  == Chunks(Table, maxNeighbors)
      packets == [i \in DOMAIN chunks |->
                    encodePacket("neighbors", "them",
                                 [msg |-> chunks[i], len |-> neighborsLen(chunks[i])])]
  IN  IF bonded THEN SelectSeq(packets, LAMBDA p : p.sent) ELSE << >>

HandleFindnode ==
  /\ net # << >> /\ decodePacket(Head(net)).type = "findnode"
  /\ net' = Tail(net) \o Answer
  /\ UNCHANGED <<entry, fails, query, nreceived, bonded>>

\* neighbors.handle and the callback of findnode; the query is complete with
\* bucketSize nodes.
HandleNeighbors ==
  /\ net # << >> /\ decodePacket(Head(net)).type = "neighbors"
  /\ net' = Tail(net)
  /\ nreceived' = IF query THEN nreceived + Len(decodePacket(Head(net)).msg) ELSE nreceived
  /\ query' = (query /\ nreceived' < bucketSize)
  /\ UNCHANGED <<entry, fails, bonded>>

\* The query times out; the failure is counted and may evacuate the node.
TimeOut ==
  /\ query /\ net = << >>
  /\ query' = FALSE
  /\ fails' = fails + 1
  /\ entry' = (fails + 1 < maxFindnodeFailures)
  /\ UNCHANGED <<nreceived, bonded, net>>

\* bond succeeds between the two: both store each other, the counter is reset.
Bond ==
  /\ ~bonded \/ fails > 0
  /\ entry' = TRUE /\ fails' = 0 /\ bonded' = TRUE
  /\ UNCHANGED <<query, nreceived, net>>

\* The database of the other node expires our entry.
Expire ==
  /\ bonded
  /\ bonded' = FALSE
  /\ UNCHANGED <<entry, fails, query, nreceived, net>>

Next ==
  \/ \E t \in Targets : Ask(t)
  \/ HandleFindnode \/ HandleNeighbors \/ TimeOut
  \/ Bond \/ Expire

Spec == Init /\ [][Next]_vars

\* A node is out of the table only when it has lost its bond with us: the failures
\* are counted "to detect and evacuate non-bonded entries" (table.go Lookup).  A
\* bond resets the counter, so a node that is bonded and out of the table was
\* bonded when each of the queries failed and, but for the first, when it was asked.
EvacuatedNonBonded == ~entry => ~bonded
=============================================================================
