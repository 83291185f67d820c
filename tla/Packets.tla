------------------------------ MODULE Packets ------------------------------
(***************************************************************************)
(* The packets of discover/udp.go and discover/types.go: how long their    *)
(* JSON text is, which of them encodePacket sends, and what decodePacket   *)
(* makes of the bytes that arrive.                                         *)
(*                                                                         *)
(* An address or a port is given by the length of its text, a node id by   *)
(* the length of the list of numbers that encoding/json writes for an      *)
(* array of bytes.  A payload is its message and the length of its text.   *)
(***************************************************************************)
EXTENDS Integers, SequencesExt

nodeIdLen == 64
headLen == nodeIdLen + 2  \* type, id and length
bufLen == 1280            \* buf of readLoop

\* Lengths of the texts of an address, a port, a node id, a time and Version.
IPLens == 0..39
PortLens == 1..5
IdLens == (2 * nodeIdLen + 1)..(4 * nodeIdLen + 1)
timeLen == 10
versionLen == 1

rpcEndpoint == [ip : IPLens, udp : PortLens, tcp : PortLens]
rpcNode == [ip : IPLens, udp : PortLens, tcp : PortLens, id : IdLens]

-----------------------------------------------------------------------------
(* The lengths of the texts: braces, names, quotes and commas, and the     *)
(* values.                                                                 *)

endpointLen(e) == 23 + e.ip + e.udp + e.tcp
nodeLen(n) == 29 + n.ip + n.udp + n.tcp + n.id

pingLen(from, to) == 40 + versionLen + endpointLen(from) + endpointLen(to) + timeLen
pongLen(to) == 21 + endpointLen(to) + timeLen
findnodeLen(target) == 25 + target + timeLen
neighborsLen(ns) ==
  25 + Len(ns) + FoldLeft(LAMBDA sum, n : sum + nodeLen(n), 0, ns) + timeLen

-----------------------------------------------------------------------------
(* encodePacket and decodePacket. *)

PacketTypes == {"ping", "pong", "findnode", "neighbors"}

\* Mutant of Fits: the test is for two bytes of length.
FitsTwoBytes(len) == len \div 65536 = 0

\* The test of encodePacket.
Fits(len) == len \div 256 = 0

NoPacket == [sent |-> FALSE]

\* The bytes of a packet: its header, its payload and how many bytes arrive.
encodePacket(ptype, id, payload) ==
  IF Fits(payload.len)
  THEN [sent |-> TRUE, type |-> ptype, id |-> id, dataLen |-> payload.len % 256,
        data |-> payload, size |-> headLen + payload.len]
  ELSE NoPacket

\* ReadFromUDP cuts a packet that does not fit the buffer.
ReadFromUDP(p) == [p EXCEPT !.size = IF @ > bufLen THEN bufLen ELSE @]

Bad == [ok |-> FALSE]

\* The header and then dataLen bytes are read.  The rest of a payload that is
\* not all there is zero, and a text that is cut or padded does not decode.
decodePacket(p) ==
  IF /\ p.size >= headLen
     /\ p.dataLen > 0 => p.size > headLen
     /\ p.type \in PacketTypes
     /\ p.dataLen = p.data.len /\ p.size - headLen >= p.dataLen
  THEN [ok |-> TRUE, type |-> p.type, id |-> p.id, msg |-> p.data.msg]
  ELSE Bad

-----------------------------------------------------------------------------
(* The packets of findnode.handle. *)

\* The nodes of each packet: at most maxNeighbors, the last one has the rest.
Chunks(ns, maxNeighbors) ==
  FoldLeft(LAMBDA c, i :
             LET nodes == Append(c.nodes, ns[i])
             IN  IF Len(nodes) = maxNeighbors \/ i = Len(ns)
                 THEN [sent |-> Append(c.sent, nodes), nodes |-> << >>]
                 ELSE [c EXCEPT !.nodes = nodes],
           [sent |-> << >>, nodes |-> << >>],
           [i \in 1..Len(ns) |-> i]).sent
=============================================================================
