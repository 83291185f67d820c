----------------------------- MODULE Algorithms -----------------------------
(***************************************************************************)
(* The algorithms of TableReads, Packets and Encodings against reference   *)
(* definitions: a step picks an input of one of them.                      *)
(***************************************************************************)
EXTENDS TableReads, Packets, Encodings

CONSTANTS
  Bytes,         \* bytes of hashes and of the fields of signatures
  DataBytes,     \* bytes of addresses
  TableHashes,   \* hashes of the nodes in tables
  MaxEntries,    \* bound: entries of a bucket, for ReadRandomNodes
  MaxDyn,        \* bound: maxDynDials
  TextLens,      \* lengths of the texts of addresses
  IdTextLens,    \* lengths of the texts of node ids
  MaxNodes,      \* bound: nodes of an answer
  FieldLens      \* lengths of the fields of a signature

ASSUME AlgorithmsAssumption ==
  /\ Bytes \subseteq 0..255 /\ DataBytes \subseteq 0..127
  /\ TableHashes \subseteq Bytes \X Bytes
  /\ TextLens \subseteq IPLens /\ IdTextLens \subseteq IdLens
  /\ FieldLens \subseteq 0..32  \* a coordinate of the curve has 32 bytes

VARIABLE in
vars == <<in>>

Hashes == Bytes \X Bytes
Endpoints == [ip : TextLens, udp : {1, 5}, tcp : {1, 5}]
AnswerNodes == [ip : TextLens, udp : {5}, tcp : {5}, id : IdTextLens]

Init == in = [kind |-> "none"]

PickHashes ==
  \E t, a, b \in Hashes : in' = [kind |-> "hashes", t |-> t, a |-> a, b |-> b]
PickTable ==
  \E S \in SUBSET TableHashes, t \in TableHashes, k \in 1..3 :
    in' = [kind |-> "table", entries |-> S, t |-> t, k |-> k]
PickBuckets ==
  \E lens \in [1..4 -> 0..MaxEntries], maxDyn \in 0..MaxDyn :
    in' = [kind |-> "buckets", lens |-> lens, maxDyn |-> maxDyn]
PickPing ==
  \E from, to \in Endpoints : in' = [kind |-> "ping", from |-> from, to |-> to]
PickFindnode == \E t \in IdLens : in' = [kind |-> "findnode", target |-> t]
PickAnswer ==
  \E ns \in BoundedSeq(AnswerNodes, MaxNodes), max \in 1..(MaxNodes + 1) :
    in' = [kind |-> "answer", nodes |-> ns, max |-> max]
PickBytes ==
  \E data \in BoundedSeq(DataBytes, AddrLen) : in' = [kind |-> "bytes", data |-> data]
PickFields ==
  \E lens \in [1..4 -> FieldLens], b \in Bytes \ {0} :
    in' = [kind |-> "fields",
           fields |-> [f \in 1..4 |-> [i \in 1..lens[f] |-> IF i = 1 THEN b ELSE f]]]

Next ==
  /\ in.kind = "none"
  /\ PickHashes \/ PickTable \/ PickBuckets \/ PickPing \/ PickFindnode \/ PickAnswer
       \/ PickBytes \/ PickFields

Spec == Init /\ [][Next]_vars

-----------------------------------------------------------------------------
(* References. *)

\* The exclusive or of two hashes as a number, and its bits.
Xored(a, b) == FromDigits(a, 256) ^^ FromDigits(b, 256)
Bits(n) == Cardinality({k \in 0..15 : 2^k <= n})

\* The buckets of the table of a node with hash 0.
BucketsOf(S) == [d \in 1..17 |-> SetToSeq({h \in S : logdist(h, <<0, 0>>) = d - 1})]

\* Entries of bucket b for ReadRandomNodes, which are all different.
Entries(lens) == [b \in DOMAIN lens |-> [i \in 1..lens[b] |-> <<b, i>>]]

\* A packet is sent, read and decoded.
Transfer(ptype, msg, len) ==
  LET p == encodePacket(ptype, "id", [msg |-> msg, len |-> len])
  IN  IF p.sent THEN decodePacket(ReadFromUDP(p)) ELSE NoPacket

\* What a packet is when it arrives whole.
Whole(ptype, msg) == [ok |-> TRUE, type |-> ptype, id |-> "id", msg |-> msg]

-----------------------------------------------------------------------------
(* Properties. *)

\* logdist counts the bits of the distance and distcmp orders by the distance
\* as a number (node.go), so a node of a lower bucket is closer to the owner of
\* the table than one of a higher bucket.
DistancesAgree ==
  in.kind = "hashes" =>
    LET da == Xored(in.a, in.t)
        db == Xored(in.b, in.t)
        c  == distcmp(in.t, in.a, in.b)
    IN  /\ logdist(in.t, in.a) = Bits(da)
        /\ (c > 0) = (da > db) /\ (c < 0) = (da < db)
        /\ logdist(in.t, in.a) < logdist(in.t, in.b) => c < 0

\* closest gives the k entries of the whole table that are closest to the target,
\* closest first, although it pushes them bucket by bucket (table.go closest).
ClosestExact ==
  in.kind = "table" =>
    LET c == closest(BucketsOf(in.entries), in.t, in.k)
    IN  /\ Len(c) = Min({in.k, Cardinality(in.entries)})
        /\ \A i \in 1..Len(c) :
             Cardinality({h \in in.entries : Xored(h, in.t) < Xored(c[i], in.t)}) = i - 1

\* ReadRandomNodes writes no node twice and as many as there are or fit; it may
\* return one more than it wrote, yet newTasks, which reads half of its free
\* dynamic dials from a buffer of half of maxDynDials, reads only nodes that were
\* written (table.go ReadRandomNodes, dial.go newTasks).
RandomNodesDistinct ==
  in.kind = "buckets" =>
    LET size  == in.maxDyn \div 2
        total == FoldLeft(LAMBDA n, l : n + l, 0, in.lens)
    IN  \A r \in ReadRandomNodes(Entries(in.lens), size) :
          /\ Cardinality(ToSet(r.buf)) = Len(r.buf)
          /\ Len(r.buf) = Min({size, total})
          /\ r.n \in {Len(r.buf), Len(r.buf) + 1}
          /\ \A need \in 0..in.maxDyn : Min({need \div 2, r.n}) <= Len(r.buf)

\* A packet that is sent arrives whole or not at all.  Every ping and pong is sent.
\* A findnode is refused when the text of its target is longer than 220, as that
\* of a random id is, and so is an answer that is too long (udp.go encodePacket,
\* decodePacket).
PacketsWhole ==
  /\ in.kind = "ping" =>
       /\ Transfer("ping", in, pingLen(in.from, in.to)) = Whole("ping", in)
       /\ Transfer("pong", in, pongLen(in.to)) = Whole("pong", in)
  /\ in.kind = "findnode" =>
       Transfer("findnode", in, findnodeLen(in.target)) =
         IF in.target > 220 THEN NoPacket ELSE Whole("findnode", in)
  /\ in.kind = "answer" =>
       LET chunks == Chunks(in.nodes, in.max)
       IN  /\ FlattenSeq(chunks) = in.nodes
           /\ \A c \in ToSet(chunks) :
                /\ Len(c) \in 1..in.max
                /\ Transfer("neighbors", c, neighborsLen(c))
                     \in {Whole("neighbors", c), NoPacket}

\* Base 58 loses nothing, leading zeros included, and no other text decodes to the
\* same bytes.  So an address survives its JSON; only one below 58^3 may have a
\* text that UnmarshalJSON takes for too short, and becomes zero (base58.go,
\* types.go).  The fields of a signature are read as they were written, empty ones
\* included (sign.go, byte.go).
EncodingsKept ==
  /\ in.kind = "bytes" =>
       /\ B58Decode(B58Encode(in.data)) = in.data
       /\ ToSet(in.data) \subseteq 0..57 => B58Encode(B58Decode(in.data)) = in.data
       /\ Len(in.data) = AddrLen =>
            \/ AddressJSON(in.data) = in.data
            \/ FromDigits(in.data, 256) < 58^3 /\ AddressJSON(in.data) = Zeros(AddrLen)
  /\ in.kind = "fields" => SignatureFields(SignatureBytes(in.fields)) = in.fields
=============================================================================
