----------------------------- MODULE Handshake -----------------------------
(***************************************************************************)
(* The handshake of two nodes over a connection, peerconn.go, and the      *)
(* frames it and the session after it are made of, message.go.             *)
(*                                                                         *)
(* The client dials an address at which it expects the node Target; the    *)
(* server is whoever listens there.  Either end may be a program that is   *)
(* not a node of this library (Stranger).  Bytes arrive in order and one   *)
(* at a time; a connection that breaks loses the last of them.  An id, and *)
(* the length of a frame, count as one byte.                               *)
(***************************************************************************)
EXTENDS Integers, Sequences

CONSTANTS
  Nodes,          \* ids of nodes
  Stranger,       \* a program that is not a node
  NoId,           \* the id made of zeros
  Version,        \* Version[n]: the version that n runs
  StrangeFrames,  \* what a stranger may write
  MaxWrites       \* bound: frames that an end writes, the hello apart

headerLen == 3

Bytes == Nodes \cup {NoId} \cup Nat

\* A frame: version, type, length of the data, and data made of ids.
IsFrame(f) ==
  /\ f \in Seq(Bytes)
  /\ Len(f) >= headerLen
  /\ f[1] \in Nat /\ f[2] \in Nat /\ f[3] = Len(f) - headerLen
  /\ \A i \in (headerLen + 1)..Len(f) : f[i] \in Nodes \cup {NoId}

\* A stranger writes frames, of any type and with any number of ids.
ASSUME HandshakeAssumption ==
  /\ Stranger \notin Nodes /\ NoId \notin Nodes
  /\ Version \in [Nodes -> Nat]
  /\ \A f \in StrangeFrames : IsFrame(f)
  /\ MaxWrites \in Nat

VARIABLES
  self,    \* self[e]: who is at the end e
  id,      \* id[e]: c.id, who the end believes is at the other one
  phase,   \* phase[e]: where serve, or the session after it, stands
  wire,    \* wire[e]: bytes on their way to e
  buf,     \* buf[e]: mBuffer of the ReadMessage that runs at e
  up,      \* the connection works
  shut,    \* shut[e]: e has closed the connection
  writes,  \* writes[e]: frames written, the hello apart
  sent,    \* history: frames that e has written
  got      \* history: frames that e has read

vars == <<self, id, phase, wire, buf, up, shut, writes, sent, got>>

Ends == {"client", "server"}
Other(e) == IF e = "client" THEN "server" ELSE "client"

typeHelloRequest == 0
typeReHelloRequest == 1
typePingMsg == 2

\* writeMessage, and the two marshal: version, type, length of the data, data.
Marshal(version, type, data) == <<version, type, Len(data)>> \o data

\* helloRequestMsg and helloReRequestMsg, from n to the node named to.
HelloRequest(n, to) == Marshal(Version[n], typeHelloRequest, <<n, to>>)
HelloReRequest(n, to) == Marshal(Version[n], typeReHelloRequest, <<n, to>>)

\* A heartbeat, with some data.
Heartbeat(n) == Marshal(Version[n], typePingMsg, <<n>>)

FrameVersion(f) == f[1]
FrameType(f) == f[2]
FrameData(f) == SubSeq(f, headerLen + 1, Len(f))

\* unmarshal, of data that holds at least one id; a second one that is
\* missing stays zero.
HelloId(f) == FrameData(f)[1]
HelloReceiveId(f) == IF Len(FrameData(f)) > 1 THEN FrameData(f)[2] ELSE NoId

\* Mutant of Complete: the data is read up to a length that leaves out the
\* type.
CompleteShort(b) == Len(b) >= headerLen /\ Len(b) >= headerLen - 1 + b[3]

\* Both loops of ReadMessage have ended.
Complete(b) == Len(b) >= headerLen /\ Len(b) >= headerLen + b[3]

Handshaking == {"hello", "reply", "request"}

TypeOK ==
  /\ self \in [Ends -> Nodes \cup {Stranger}]
  /\ id \in [Ends -> Nodes \cup {NoId}]
  /\ phase \in [Ends -> Handshaking \cup
                  {"addpeer", "session", "ended", "failed", "panic", "strange"}]
  /\ wire \in [Ends -> Seq(Bytes)]
  /\ buf \in [Ends -> Seq(Bytes)]
  /\ up \in BOOLEAN
  /\ shut \in [Ends -> BOOLEAN]
  /\ writes \in [Ends -> 0..MaxWrites]
  /\ sent \in [Ends -> Seq(Seq(Bytes))]
  /\ got \in [Ends -> Seq(Seq(Bytes))]

\* A dialer, the node it wants, and who listens at the address it has.
Init ==
  /\ self \in [Ends -> Nodes \cup {Stranger}]
  /\ \E e \in Ends : self[e] \in Nodes
  /\ id \in [Ends -> Nodes \cup {NoId}]
  /\ id["server"] = NoId
  /\ id["client"] = NoId <=> self["client"] = Stranger
  /\ phase = [e \in Ends |-> IF self[e] = Stranger THEN "strange"
                             ELSE IF e = "client" THEN "hello" ELSE "request"]
  /\ wire = [e \in Ends |-> << >>]
  /\ buf = [e \in Ends |-> << >>]
  /\ up = TRUE
  /\ shut = [e \in Ends |-> FALSE]
  /\ writes = [e \in Ends |-> 0]
  /\ sent = [e \in Ends |-> << >>]
  /\ got = [e \in Ends |-> << >>]

-----------------------------------------------------------------------------
(* The connection. *)

\* rw.Write(f) by e returns no error.  What is written to a connection that
\* is gone may be buffered, and is lost.
Writes(e, f) ==
  /\ sent' = [sent EXCEPT ![e] = Append(@, f)]
  /\ wire' = IF up /\ ~shut[Other(e)]
             THEN [wire EXCEPT ![Other(e)] = @ \o f] ELSE wire

\* rw.Write by e returns an error.
WriteFails(e) ==
  /\ ~up \/ shut[Other(e)]
  /\ UNCHANGED <<sent, wire>>

\* Mutant of Fail: serve returns and leaves the connection open.
FailOpen(e) ==
  /\ phase' = [phase EXCEPT ![e] = "failed"]
  /\ UNCHANGED shut

\* serve returns: the connection is closed.
Fail(e) ==
  /\ phase' = [phase EXCEPT ![e] = "failed"]
  /\ shut' = [shut EXCEPT ![e] = TRUE]

\* The process ends, and the system closes its connections.
Panic(e) ==
  /\ phase' = [phase EXCEPT ![e] = "panic"]
  /\ shut' = [shut EXCEPT ![e] = TRUE]

Reading(e) == phase[e] \in {"reply", "request", "session"}

\* reader.Read of a byte, in ReadMessage.
ReadByte(e) ==
  /\ Reading(e) /\ ~Complete(buf[e])
  /\ wire[e] # << >>
  /\ buf' = [buf EXCEPT ![e] = Append(@, Head(wire[e]))]
  /\ wire' = [wire EXCEPT ![e] = Tail(@)]
  /\ UNCHANGED <<self, id, phase, up, shut, writes, sent, got>>

\* The other end has closed the connection, or it broke: serve, or readLoop,
\* returns.
ReadFails(e) ==
  /\ Reading(e) /\ ~Complete(buf[e])
  /\ wire[e] = << >>
  /\ ~up \/ shut[Other(e)]
  /\ IF phase[e] = "session"
     THEN phase' = [phase EXCEPT ![e] = "ended"] /\ UNCHANGED shut
     ELSE Fail(e)
  /\ UNCHANGED <<self, id, wire, buf, up, writes, sent, got>>

\* ReadMessage returns the frame that is in the buffer.
TakeFrame(e) ==
  /\ Complete(buf[e])
  /\ buf' = [buf EXCEPT ![e] = << >>]
  /\ got' = [got EXCEPT ![e] = Append(@, buf[e])]

-----------------------------------------------------------------------------
(* clientHandshake, serverHandshake and serve. *)

\* The request is sent to the node that the client wants.
ClientHello ==
  /\ phase["client"] = "hello"
  /\ \/ /\ Writes("client", HelloRequest(self["client"], id["client"]))
        /\ phase' = [phase EXCEPT !["client"] = "reply"]
        /\ UNCHANGED shut
     \/ WriteFails("client") /\ Fail("client")
  /\ UNCHANGED <<self, id, buf, up, writes, got>>

\* readHello(Re)RequestMsg returns neither a message nor an error when the
\* type is another one, and its callers use the message; unmarshal slices an
\* id off data that is too short.
NoHello(f, type) == FrameType(f) # type \/ FrameData(f) = << >>

\* The checks of both handshakes: version and own name.
Accepts(e, f) ==
  /\ FrameVersion(f) = Version[self[e]]
  /\ HelloReceiveId(f) = self[e]

ClientReply ==
  /\ phase["client"] = "reply"
  /\ TakeFrame("client")
  /\ LET f == buf["client"]
     IN  \/ NoHello(f, typeReHelloRequest) /\ Panic("client")
         \/ /\ ~NoHello(f, typeReHelloRequest)
            /\ IF Accepts("client", f)
               THEN /\ phase' = [phase EXCEPT !["client"] = "addpeer"]
                    /\ UNCHANGED shut
               ELSE Fail("client")
  /\ UNCHANGED <<self, id, wire, up, writes, sent>>

\* Mutant of ServerRequest: the reply is sent before the checks.
ServerRequestEager ==
  /\ phase["server"] = "request"
  /\ TakeFrame("server")
  /\ LET f == buf["server"]
     IN  /\ ~NoHello(f, typeHelloRequest)
         /\ Writes("server", HelloReRequest(self["server"], HelloId(f)))
         /\ IF Accepts("server", f)
            THEN /\ id' = [id EXCEPT !["server"] = HelloId(f)]
                 /\ phase' = [phase EXCEPT !["server"] = "addpeer"]
                 /\ UNCHANGED shut
            ELSE Fail("server") /\ UNCHANGED id
  /\ UNCHANGED <<self, up, writes>>

\* The server takes the name of the client from the request, and replies.
ServerRequest ==
  /\ phase["server"] = "request"
  /\ TakeFrame("server")
  /\ LET f == buf["server"]
     IN  \/ /\ NoHello(f, typeHelloRequest)
            /\ Panic("server")
            /\ UNCHANGED <<id, wire, sent>>
         \/ /\ ~NoHello(f, typeHelloRequest)
            /\ ~Accepts("server", f)
            /\ Fail("server")
            /\ UNCHANGED <<id, wire, sent>>
         \/ /\ ~NoHello(f, typeHelloRequest)
            /\ Accepts("server", f)
            /\ id' = [id EXCEPT !["server"] = HelloId(f)]
            /\ \/ /\ Writes("server", HelloReRequest(self["server"], HelloId(f)))
                  /\ phase' = [phase EXCEPT !["server"] = "addpeer"]
                  /\ UNCHANGED shut
               \/ WriteFails("server") /\ Fail("server")
  /\ UNCHANGED <<self, up, writes>>

\* c.server.addpeer <- c: the server loop takes it and starts the session.
AddPeer(e) ==
  /\ phase[e] = "addpeer"
  /\ phase' = [phase EXCEPT ![e] = "session"]
  /\ UNCHANGED <<self, id, wire, buf, up, shut, writes, sent, got>>

-----------------------------------------------------------------------------
(* The session, the stranger and the network. *)

\* Mutant of SessionWrites: heartbeats start with the connection.
SessionWritesEarly(e) ==
  /\ phase[e] \in {"request", "session"}
  /\ writes[e] < MaxWrites
  /\ writes' = [writes EXCEPT ![e] = @ + 1]
  /\ Writes(e, Heartbeat(self[e])) \/ WriteFails(e)
  /\ UNCHANGED <<self, id, phase, buf, up, shut, got>>

\* writeMessage by one of the goroutines of the session.
SessionWrites(e) ==
  /\ phase[e] = "session"
  /\ writes[e] < MaxWrites
  /\ writes' = [writes EXCEPT ![e] = @ + 1]
  /\ Writes(e, Heartbeat(self[e])) \/ WriteFails(e)
  /\ UNCHANGED <<self, id, phase, buf, up, shut, got>>

\* readLoop handles a frame and reads on.
SessionReads(e) ==
  /\ phase[e] = "session"
  /\ TakeFrame(e)
  /\ UNCHANGED <<self, id, phase, wire, up, shut, writes, sent>>

StrangerWrites(e, f) ==
  /\ phase[e] = "strange" /\ ~shut[e]
  /\ writes[e] < MaxWrites
  /\ writes' = [writes EXCEPT ![e] = @ + 1]
  /\ Writes(e, f)
  /\ UNCHANGED <<self, id, phase, buf, up, shut, got>>

StrangerCloses(e) ==
  /\ phase[e] = "strange" /\ ~shut[e]
  /\ shut' = [shut EXCEPT ![e] = TRUE]
  /\ UNCHANGED <<self, id, phase, wire, buf, up, writes, sent, got>>

\* The connection breaks; k[e] of the bytes on their way to e still arrive.
Break(k) ==
  /\ up
  /\ up' = FALSE
  /\ wire' = [e \in Ends |-> SubSeq(wire[e], 1, k[e])]
  /\ UNCHANGED <<self, id, phase, buf, shut, writes, sent, got>>

-----------------------------------------------------------------------------
Client == ClientHello \/ ClientReply
Server == ServerRequest

Read(e) == ReadByte(e) \/ ReadFails(e)

Next ==
  \/ Client
  \/ Server
  \/ \E e \in Ends : \/ Read(e)
                     \/ AddPeer(e)
                     \/ SessionWrites(e)
                     \/ SessionReads(e)
                     \/ \E f \in StrangeFrames : StrangerWrites(e, f)
                     \/ StrangerCloses(e)
  \/ \E i \in 0..Len(wire["client"]), j \in 0..Len(wire["server"]) :
       Break([e \in Ends |-> IF e = "client" THEN i ELSE j])

\* The goroutines run and written bytes arrive.  Nothing is assumed of the
\* stranger or of the connection.
Fairness ==
  /\ WF_vars(Client)
  /\ WF_vars(Server)
  /\ \A e \in Ends : WF_vars(Read(e)) /\ WF_vars(AddPeer(e)) /\ WF_vars(SessionReads(e))

SafetySpec == Init /\ [][Next]_vars
Spec == SafetySpec /\ Fairness

-----------------------------------------------------------------------------
(* Properties. *)

IsNode(e) == self[e] # Stranger
Done(e) == phase[e] \in {"addpeer", "session", "ended"}

\* An end whose handshake succeeded with a node knows who that is, although
\* only the server compares the name that the client wants with its own, and
\* the client never looks at the name in the reply.  A client that goes on is
\* not alone: the server has accepted it.
Agreement ==
  /\ \A e \in Ends :
       Done(e) /\ IsNode(Other(e)) =>
         /\ id[e] = self[Other(e)]
         /\ Version[self[e]] = Version[self[Other(e)]]
  /\ Done("client") /\ IsNode("server") => Done("server")

\* Frames are read as they were written, in order and none merged, split or
\* swallowed between the handshake and the session that follows it, wherever
\* the connection breaks; every variable keeps its type.
FramesKept ==
  /\ TypeOK
  /\ \A e \in Ends :
       /\ Len(got[e]) <= Len(sent[Other(e)])
       /\ \A i \in 1..Len(got[e]) : got[e][i] = sent[Other(e)][i]

\* The message that is missing when a type is wrong is never used between two
\* nodes, of whatever versions.
NodesNeverPanic == \A e \in Ends : phase[e] = "panic" => ~IsNode(Other(e))

\* Between two nodes no handshake hangs, although no deadline is set: one that
\* is refused or breaks ends at both ends.
HandshakeEnds ==
  \A e \in Ends :
    phase[e] \in Handshaking ~> phase[e] \notin Handshaking \/ ~IsNode(Other(e))
=============================================================================
