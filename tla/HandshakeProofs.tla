-------------------------- MODULE HandshakeProofs --------------------------
(***************************************************************************)
(* Proofs about Handshake: frames are read as they were written, and two   *)
(* nodes that both finish a handshake agree on who they are.               *)
(*                                                                         *)
(* The frames of one direction are described by Stream, about plain        *)
(* sequences: S the frames written, G the frames read, b the buffer of     *)
(* ReadMessage, w the bytes on their way, open whether what is written     *)
(* still arrives.  The bytes b \o w are cut at off[k], the end of frame k; *)
(* when the connection is gone the last of them may be missing.            *)
(***************************************************************************)
EXTENDS Handshake, SequenceTheorems, TLAPS

\* Steps with a large context need more time than the default.
USE SMTT(30)

\* off[k] is where frame k ends, counted from the end of frame m.
Offsets(m, off) ==
  /\ off \in [Nat -> Nat]
  /\ off[m] = 0
  /\ \A j, k \in Nat : j <= k => off[j] <= off[k]

\* The frames of S from m to n are as long as off says.
Lengths(S, n, m, off) ==
  \A k \in Nat : m <= k /\ k < n => Len(S[k + 1]) = off[k + 1] - off[k]

\* The first z bytes of q are those of the frames of S from m to n.
Agrees(S, n, m, q, z, off) ==
  \A k, i \in Nat :
    /\ m <= k /\ k < n /\ 1 <= i
    /\ off[k] + i <= off[k + 1] /\ off[k] + i <= z
    => q[off[k] + i] = S[k + 1][i]

\* s and t have the same first n elements; t has the first n of u behind its
\* first m.
SameUpTo(s, t, n) == \A i \in Nat : 1 <= i /\ i <= n => s[i] = t[i]
Behind(t, m, u, n) == \A i \in Nat : 1 <= i /\ i <= n => t[m + i] = u[i]

\* cut continues off, after n, with a frame of length l.
Continues(cut, off, n, l) ==
  /\ \A k \in Nat : k <= n => cut[k] = off[k]
  /\ cut[n + 1] = off[n] + l

\* cut is off without the l bytes of frame m + 1.
DropsFirst(cut, off, m, l) ==
  \A k \in Nat : m + 1 <= k => off[k] >= l /\ cut[k] = off[k] - l

\* q is what is left of the frames of S after the first m.
Carries(S, m, q, open) ==
  \E off : /\ Offsets(m, off)
           /\ Lengths(S, Len(S), m, off)
           /\ Agrees(S, Len(S), m, q, Len(q), off)
           /\ Len(q) <= off[Len(S)]
           /\ open => Len(q) = off[Len(S)]

Stream(S, G, b, w, open) ==
  /\ \A k \in 1..Len(S) : IsFrame(S[k])
  /\ Len(G) <= Len(S)
  /\ \A i \in 1..Len(G) : G[i] = S[i]
  /\ Len(b) > headerLen => Len(b) <= headerLen + b[3]
  /\ Carries(S, Len(G), b \o w, open)

\* The frames on their way to e.
Direction(e) == Stream(sent[Other(e)], got[e], buf[e], wire[e], up /\ ~shut[e])

Streams == \A e \in Ends : Direction(e)

Roles == \A e \in Ends : phase[e] = "strange" <=> ~IsNode(e)

\* What a client that is a node has written first, and reads first.
ClientSide ==
  IsNode("client") =>
    /\ phase["client"] = "hello" => sent["client"] = << >>
    /\ phase["client"] \in {"hello", "reply"} => got["client"] = << >>
    /\ phase["client"] = "reply" \/ Done("client") => Len(sent["client"]) > 0
    /\ Len(sent["client"]) > 0 =>
         sent["client"][1] = HelloRequest(self["client"], id["client"])

\* A server that is a node writes only once it has accepted the client.
ServerSide ==
  IsNode("server") =>
    /\ phase["server"] = "request" => sent["server"] = << >> /\ got["server"] = << >>
    /\ Done("server") => Len(sent["server"]) > 0
    /\ Len(sent["server"]) > 0 =>
         /\ Done("server")
         /\ sent["server"][1] = HelloReRequest(self["server"], id["server"])

\* A server that has accepted a node knows it, and is the one it wanted.
Accepted ==
  Done("server") /\ IsNode("client") =>
    /\ id["server"] = self["client"]
    /\ id["client"] = self["server"]
    /\ Version[self["server"]] = Version[self["client"]]

\* A client goes on only after the server.
ClientLast == Done("client") /\ IsNode("server") => Done("server")

IInv ==
  /\ TypeOK /\ Streams
  /\ Roles /\ ClientSide /\ ServerSide /\ Accepted /\ ClientLast
  /\ NodesNeverPanic

-----------------------------------------------------------------------------
(* Lemmas about sequences and offsets. *)

\* Facts about sequences, with lengths as named numbers.
LEMMA AppendFacts ==
  ASSUME NEW X, NEW s \in Seq(X), NEW x \in X, NEW n \in Nat, n = Len(s)
  PROVE  /\ Append(s, x) \in Seq(X)
         /\ Len(Append(s, x)) = n + 1
         /\ Append(s, x)[n + 1] = x
         /\ SameUpTo(Append(s, x), s, n)
  BY DEF SameUpTo

\* What a concatenation holds, and where.
LEMMA ConcatFacts ==
  ASSUME NEW X, NEW s \in Seq(X), NEW t \in Seq(X), NEW m \in Nat, NEW n \in Nat,
         m = Len(s), n = Len(t)
  PROVE  /\ s \o t \in Seq(X)
         /\ Len(s \o t) = m + n
         /\ SameUpTo(s \o t, s, m)
         /\ Behind(s \o t, m, t, n)
  BY DEF SameUpTo, Behind

\* What the beginning of a sequence holds.
LEMMA SubSeqFacts ==
  ASSUME NEW X, NEW s \in Seq(X), NEW n \in Nat, n <= Len(s)
  PROVE  /\ SubSeq(s, 1, n) \in Seq(X)
         /\ Len(SubSeq(s, 1, n)) = n
         /\ SameUpTo(SubSeq(s, 1, n), s, n)
  BY DEF SameUpTo

\* Two sequences of one length that hold the same are the same.
LEMMA SameSeq ==
  ASSUME NEW X, NEW s \in Seq(X), NEW t \in Seq(X), NEW n \in Nat,
         n = Len(s), n = Len(t),
         SameUpTo(s, t, n)
  PROVE  s = t
<1>1. Len(s) = Len(t)
  OBVIOUS
<1>2. \A i \in 1..Len(s) : s[i] = t[i]
  BY DEF SameUpTo
<1>. QED
  BY <1>1, <1>2, SeqEqual

\* Concatenation is associative.
LEMMA ConcatAssoc ==
  ASSUME NEW s \in Seq(Bytes), NEW t \in Seq(Bytes), NEW u \in Seq(Bytes)
  PROVE  s \o (t \o u) = (s \o t) \o u
  BY SMTT(30)

\* A byte that moves from the front of t to the end of s.
LEMMA ConcatByte ==
  ASSUME NEW X, NEW s \in Seq(X), NEW t \in Seq(X), t # << >>
  PROVE  Append(s, Head(t)) \o Tail(t) = s \o t
  OBVIOUS

\* What is left of a stream that was cut off still agrees with the frames.
LEMMA AgreesBroken ==
  ASSUME NEW S, NEW m \in Nat, NEW n \in Nat, m <= n,
         NEW q, NEW r, NEW off \in [Nat -> Nat], NEW z \in Nat, NEW y \in Nat,
         y <= z, SameUpTo(r, q, y),
         Agrees(S, n, m, q, z, off)
  PROVE  Agrees(S, n, m, r, y, off)
<1>. SUFFICES ASSUME NEW k \in Nat, NEW i \in Nat, m <= k, k < n, 1 <= i,
                     off[k] + i <= off[k + 1], off[k] + i <= y
              PROVE  r[off[k] + i] = S[k + 1][i]
  BY DEF Agrees
<1>1. PICK j \in Nat : j = off[k]
  OBVIOUS
<1>2. j + i \in Nat /\ 1 <= j + i /\ j + i <= y /\ j + i <= z
  BY <1>1
<1>3. r[j + i] = q[j + i]
  BY <1>2 DEF SameUpTo
<1> QED
  BY <1>1, <1>2, <1>3 DEF Agrees
LEMMA Extended ==
  ASSUME NEW m \in Nat, NEW n \in Nat, m <= n, NEW l \in Nat,
         NEW off \in [Nat -> Nat], Offsets(m, off)
  PROVE  \E cut \in [Nat -> Nat] : Offsets(m, cut) /\ Continues(cut, off, n, l)
<1>. DEFINE cut == [k \in Nat |-> IF k <= n THEN off[k] ELSE off[n] + l]
<1>1. cut \in [Nat -> Nat]
  OBVIOUS
<1>2. Continues(cut, off, n, l)
  BY DEF Continues
<1>3. cut[m] = 0
  BY DEF Offsets
<1>4. ASSUME NEW j \in Nat, NEW k \in Nat, j <= k
      PROVE  cut[j] <= cut[k]
  BY <1>4 DEF Offsets
<1>. HIDE DEF cut
<1>5. Offsets(m, cut)
  BY <1>1, <1>3, <1>4 DEF Offsets
<1>. QED
  BY <1>1, <1>2, <1>5

\* The offsets fit the lengths of the frames when one more frame is written.
LEMMA LengthsExtended ==
  ASSUME NEW S, NEW T, NEW m \in Nat, NEW n \in Nat, m <= n, NEW f, NEW l \in Nat,
         NEW off \in [Nat -> Nat], NEW cut \in [Nat -> Nat],
         Continues(cut, off, n, l),
         T[n + 1] = f, SameUpTo(T, S, n)
  PROVE  Len(f) = l /\ Lengths(S, n, m, off) => Lengths(T, n + 1, m, cut)
<1>. USE DEF Continues, SameUpTo
<1>0. SUFFICES ASSUME Len(f) = l, Lengths(S, n, m, off),
               NEW k \in Nat, m <= k, k < n + 1
        PROVE Len(T[k + 1]) = cut[k + 1] - cut[k]
  BY DEF Lengths
<1>1. CASE k = n
  <2>1. T[k + 1] = f
    BY <1>1
  <2>2. l = cut[k + 1] - cut[k]
    BY <1>1
  <2>. QED
    BY <2>1, <2>2, <1>0
<1>2. CASE k < n
  <2>1. T[k + 1] = S[k + 1]
    BY <1>2
  <2>2. cut[k + 1] = off[k + 1] /\ cut[k] = off[k]
    BY <1>2
  <2>3. Len(S[k + 1]) = off[k + 1] - off[k]
    BY <1>0, <1>2 DEF Lengths
  <2>. QED
    BY <2>1, <2>2, <2>3
<1>. QED
  BY <1>0, <1>1, <1>2

\* The stream agrees with the frames when the bytes of one more arrive behind it.
LEMMA AgreesWritten ==
  ASSUME NEW S, NEW T, NEW m \in Nat, NEW n \in Nat, m <= n, NEW f, NEW l \in Nat,
         NEW q, NEW r, NEW z \in Nat,
         NEW off \in [Nat -> Nat], NEW cut \in [Nat -> Nat],
         Continues(cut, off, n, l),
         Offsets(m, off),
         off[n] = z,
         T[n + 1] = f, SameUpTo(T, S, n),
         SameUpTo(r, q, z),
         Behind(r, z, f, l),
         Agrees(S, n, m, q, z, off)
  PROVE  Agrees(T, n + 1, m, r, z + l, cut)
<1>. USE DEF Continues, SameUpTo, Behind, Offsets
<1>. SUFFICES ASSUME NEW k \in Nat, NEW i \in Nat, m <= k, k < n + 1, 1 <= i,
                      cut[k] + i <= cut[k + 1], cut[k] + i <= z + l
        PROVE r[cut[k] + i] = T[k + 1][i]
  BY DEF Agrees
<1>1. CASE k = n
  <2>1. cut[k] = z /\ i <= l
    BY <1>1
  <2>2. r[z + i] = f[i]
    BY <2>1, Zenon
  <2>3. T[k + 1] = f
    BY <1>1, Zenon
  <2>. QED
    BY <2>1, <2>2, <2>3, Zenon
<1>2. CASE k < n
  <2>1. PICK j \in Nat : j = off[k] /\ j = cut[k]
    BY <1>2
  <2>2. off[k + 1] <= z /\ off[k + 1] = cut[k + 1]
    BY <1>2
  <2>3. 1 <= j + i /\ j + i <= z /\ j + i \in Nat
    BY <2>1, <2>2
  <2>4. r[j + i] = q[j + i]
    BY <2>3
  <2>5. off[k] + i <= off[k + 1] /\ off[k] + i <= z
    BY <2>1, <2>2, <2>3
  <2>6. q[off[k] + i] = S[k + 1][i]
    BY <1>2, <2>5, Zenon DEF Agrees
  <2>7. PICK p \in Nat : p = k + 1 /\ 1 <= p /\ p <= n
    BY <1>2
  <2>8. T[p] = S[p]
    BY <2>7, Zenon
  <2>. QED
    BY <2>1, <2>4, <2>6, <2>7, <2>8, Zenon
<1>. QED
  BY <1>1, <1>2

\* The stream agrees with the frames when the bytes of one more do not arrive.
LEMMA AgreesLost ==
  ASSUME NEW S, NEW T, NEW m \in Nat, NEW n \in Nat, m <= n,
         NEW q, NEW z \in Nat,
         NEW off \in [Nat -> Nat], NEW cut \in [Nat -> Nat],
         NEW l \in Nat, Continues(cut, off, n, l),
         z <= off[n],
         SameUpTo(T, S, n),
         Agrees(S, n, m, q, z, off)
  PROVE  Agrees(T, n + 1, m, q, z, cut)
<1>. USE DEF Continues, SameUpTo
<1>. SUFFICES ASSUME NEW k \in Nat, NEW i \in Nat, m <= k, k < n + 1, 1 <= i,
                      cut[k] + i <= cut[k + 1], cut[k] + i <= z
        PROVE q[cut[k] + i] = T[k + 1][i]
  BY DEF Agrees
<1>1. k < n
  OBVIOUS
<1>2. T[k + 1] = S[k + 1] /\ cut[k] = off[k] /\ cut[k + 1] = off[k + 1]
  BY <1>1
<1>. QED
  BY <1>1, <1>2, Zenon DEF Agrees

\* Offsets that count from the end of the first frame, which was read.
LEMMA Shifted ==
  ASSUME NEW m \in Nat, NEW l \in Nat,
         NEW off \in [Nat -> Nat], Offsets(m, off), off[m + 1] = l
  PROVE  \E cut \in [Nat -> Nat] : Offsets(m + 1, cut) /\ DropsFirst(cut, off, m, l)
<1>. DEFINE cut == [k \in Nat |-> IF off[k] >= l THEN off[k] - l ELSE 0]
<1>1. cut \in [Nat -> Nat]
  OBVIOUS
<1>2. ASSUME NEW k \in Nat, m + 1 <= k
      PROVE  off[k] >= l /\ cut[k] = off[k] - l
  <2>1. off[k] >= l
    BY <1>2 DEF Offsets
  <2>. QED
    BY <2>1
<1>3. cut[m + 1] = 0
  BY <1>2
<1>4. ASSUME NEW j \in Nat, NEW k \in Nat, j <= k
      PROVE  cut[j] <= cut[k]
  <2>1. off[j] <= off[k]
    BY <1>4 DEF Offsets
  <2>. QED
    BY <2>1
<1>. HIDE DEF cut
<1>5. Offsets(m + 1, cut) /\ DropsFirst(cut, off, m, l)
  BY <1>1, <1>2, <1>3, <1>4 DEF Offsets, DropsFirst
<1>. QED
  BY <1>1, <1>5

\* What is behind the first frame agrees with the other frames.
LEMMA AgreesShifted ==
  ASSUME NEW S, NEW m \in Nat, NEW n \in Nat, NEW l \in Nat,
         NEW q, NEW w, NEW z \in Nat,
         NEW off \in [Nat -> Nat], NEW cut \in [Nat -> Nat],
         DropsFirst(cut, off, m, l),
         Behind(q, l, w, z),
         Agrees(S, n, m, q, l + z, off)
  PROVE  Agrees(S, n, m + 1, w, z, cut)
<1>. USE DEF DropsFirst, Behind
<1>. SUFFICES ASSUME NEW k \in Nat, NEW i \in Nat, m + 1 <= k, k < n, 1 <= i,
                      cut[k] + i <= cut[k + 1], cut[k] + i <= z
        PROVE w[cut[k] + i] = S[k + 1][i]
  BY DEF Agrees
<1>1. PICK j \in Nat : j = cut[k]
  OBVIOUS
<1>2. off[k] = l + j /\ off[k + 1] = cut[k + 1] + l
  BY <1>1
<1>3. q[l + (j + i)] = w[j + i]
  BY <1>1
<1>4. off[k] + i <= off[k + 1] /\ off[k] + i <= l + z /\ m <= k
  BY <1>1, <1>2
<1>5. q[off[k] + i] = S[k + 1][i]
  BY <1>4, Zenon DEF Agrees
<1>6. off[k] + i = l + (j + i)
  BY <1>1, <1>2
<1>. QED
  BY <1>1, <1>3, <1>5, <1>6, Zenon

\* The offsets fit the lengths of the frames that are left to read.
LEMMA LengthsShifted ==
  ASSUME NEW S, NEW m \in Nat, NEW n \in Nat, NEW l \in Nat,
         NEW off \in [Nat -> Nat], NEW cut \in [Nat -> Nat],
         DropsFirst(cut, off, m, l)
  PROVE  Lengths(S, n, m, off) => Lengths(S, n, m + 1, cut)
<1>. USE DEF DropsFirst
<1>0. SUFFICES ASSUME Lengths(S, n, m, off),
               NEW k \in Nat, m + 1 <= k, k < n
        PROVE Len(S[k + 1]) = cut[k + 1] - cut[k]
  BY DEF Lengths
<1>1. off[k + 1] - off[k] = cut[k + 1] - cut[k]
  <2>1. cut[k + 1] = off[k + 1] - l
    BY <1>0
  <2>2. cut[k] = off[k] - l
    BY <1>0
  <2>. QED
    BY <2>1, <2>2
<1>2. Len(S[k + 1]) = off[k + 1] - off[k]
  BY <1>0 DEF Lengths
<1>. QED
  BY <1>1, <1>2
-----------------------------------------------------------------------------
(* Lemmas about one direction. *)

\* Stream, with the bytes that are left and the lengths as named values.
Named(S, n, G, m, b, q, z, open) ==
  /\ \A k \in Nat : 1 <= k /\ k <= n => IsFrame(S[k])
  /\ m <= n
  /\ SameUpTo(G, S, m)
  /\ Len(b) > headerLen => Len(b) <= headerLen + b[3]
  /\ \E off \in [Nat -> Nat] :
       /\ Offsets(m, off)
       /\ Lengths(S, n, m, off)
       /\ Agrees(S, n, m, q, z, off)
       /\ z <= off[n]
       /\ open => z = off[n]

\* Stream, with names for the lengths that it speaks of.
LEMMA StreamNamed ==
  ASSUME NEW S \in Seq(Seq(Bytes)), NEW G \in Seq(Seq(Bytes)),
         NEW q \in Seq(Bytes), NEW b, NEW w, NEW o,
         q = b \o w,
         NEW m \in Nat, NEW n \in Nat, NEW z \in Nat,
         m = Len(G), n = Len(S), z = Len(q)
  PROVE  Stream(S, G, b, w, o) <=> Named(S, n, G, m, b, q, z, o)
<1>1. (\A k \in 1..Len(S) : IsFrame(S[k]))
        <=> \A k \in Nat : 1 <= k /\ k <= n => IsFrame(S[k])
  OBVIOUS
<1>2. (\A i \in 1..Len(G) : G[i] = S[i])
        <=> \A i \in Nat : 1 <= i /\ i <= m => G[i] = S[i]
  OBVIOUS
<1>3. Carries(S, Len(G), b \o w, o) <=>
        \E off \in [Nat -> Nat] : /\ Offsets(m, off)
                                  /\ Lengths(S, n, m, off)
                                  /\ Agrees(S, n, m, q, z, off)
                                  /\ z <= off[n]
                                  /\ o => z = off[n]
  BY Zenon DEF Carries, Offsets
<1>. QED
  BY <1>1, <1>2, <1>3, Zenon DEF Stream, Named, SameUpTo

\* Nothing written, nothing read.
LEMMA StreamEmpty == Stream(<< >>, << >>, << >>, << >>, TRUE)
<1>. DEFINE off == [k \in Nat |-> 0]
<1>1. off \in [Nat -> Nat] /\ Offsets(0, off) /\ off[0] = 0
  BY DEF Offsets
<1>. HIDE DEF off
<1>2. Lengths(<< >>, 0, 0, off) /\ Agrees(<< >>, 0, 0, << >>, 0, off)
  BY DEF Lengths, Agrees
<1>3. /\ Len(<< >>) = 0 /\ ~(0 > headerLen) /\ 0 <= 0
      /\ \A k \in Nat : ~(1 <= k /\ k <= 0)
  BY DEF headerLen
<1>4. Named(<< >>, 0, << >>, 0, << >>, << >>, 0, TRUE)
  BY <1>1, <1>2, <1>3, Zenon DEF Named, SameUpTo
<1>5. /\ << >> \in Seq(Seq(Bytes)) /\ << >> \in Seq(Bytes) /\ 0 \in Nat
      /\ << >> = << >> \o << >>
  OBVIOUS
<1>. QED
  BY <1>3, <1>4, <1>5, StreamNamed, ZenonT(30)

\* What holds while writes arrive holds when they no longer do.
LEMMA StreamCloses ==
  ASSUME NEW S, NEW G, NEW b, NEW w, NEW o, NEW p,
         Stream(S, G, b, w, o), p => o
  PROVE  Stream(S, G, b, w, p)
  BY DEF Stream, Carries

\* A buffer that holds a header holds the one of the next frame.
LEMMA HeaderRead ==
  ASSUME NEW S \in Seq(Seq(Bytes)), NEW G \in Seq(Seq(Bytes)),
         NEW b \in Seq(Bytes), NEW w \in Seq(Bytes), NEW o,
         Len(b) >= 3
  PROVE  Stream(S, G, b, w, o) =>
           /\ Len(G) < Len(S)
           /\ b[3] \in Nat
           /\ b[3] = Len(S[Len(G) + 1]) - 3
<1>1. PICK m \in Nat, n \in Nat, l \in Nat, y \in Nat, z \in Nat :
        m = Len(G) /\ n = Len(S) /\ l = Len(b) /\ y = Len(w) /\ z = l + y
  OBVIOUS
<1>2. PICK q \in Seq(Bytes) :
        /\ q = b \o w /\ z = Len(q)
        /\ SameUpTo(q, b, l)
  <2>1. /\ b \o w \in Seq(Bytes) /\ Len(b \o w) = l + y
        /\ SameUpTo(b \o w, b, l)
    BY <1>1, ConcatFacts
  <2>. QED
    BY <1>1, <2>1, Zenon
<1>3. 3 <= l /\ 3 <= z /\ 1 <= 3 /\ 3 \in Nat
  BY <1>1
<1>4. ASSUME Stream(S, G, b, w, o)
      PROVE  /\ m < n
             /\ b[3] \in Nat
             /\ b[3] = Len(S[m + 1]) - 3
  <2>0. q[3] = b[3]
    BY <1>2, <1>3, Zenon DEF SameUpTo
  <2>1. Named(S, n, G, m, b, q, z, o)
    BY <1>1, <1>2, <1>4, StreamNamed, Zenon
  <2>2. PICK off \in [Nat -> Nat] :
          /\ Offsets(m, off)
          /\ Lengths(S, n, m, off)
          /\ Agrees(S, n, m, q, z, off)
          /\ z <= off[n]
    BY <2>1, Zenon DEF Named
  <2>3. off[m] = 0
    BY <2>2, Zenon DEF Offsets
  <2>4. z <= off[n]
    BY <2>2, Zenon
  <2>5. m <= n
    BY <2>1, Zenon DEF Named
  <2>6. m < n
    BY <1>3, <2>3, <2>4, <2>5
  <2>7. PICK k \in Nat : k = m + 1 /\ 1 <= k /\ k <= n
    BY <2>6
  <2>8. IsFrame(S[k])
    BY <2>1, <2>7, Zenon DEF Named
  <2>9. m <= m
    OBVIOUS
  <2>10. Len(S[k]) = off[k] - off[m]
    BY <2>2, <2>6, <2>7, <2>9, Zenon DEF Lengths
  <2>11. Len(S[k]) >= 3 /\ S[k][3] = Len(S[k]) - 3
    BY <2>8 DEF IsFrame, headerLen
  <2>12. off[m] + 3 <= off[k] /\ off[m] + 3 <= z /\ off[m] + 3 = 3 /\ 1 <= 3
    BY <1>3, <2>3, <2>10, <2>11
  <2>13. q[off[m] + 3] = S[k][3]
    BY <2>2, <2>6, <2>7, <2>9, <2>12, Zenon DEF Agrees
  <2>14. b[3] = Len(S[k]) - 3
    BY <2>0, <2>11, <2>12, <2>13, Zenon
  <2>15. PICK x \in Nat : off[k] = x + 3
    <3>1. PICK j \in Nat : j = off[k] /\ 3 <= j
      BY <2>12, Zenon
    <3>2. 3 <= j
      BY <3>1, Zenon
    <3>3. j - 3 \in Nat /\ j = (j - 3) + 3
      BY <3>2
    <3>. QED
      BY <3>1, <3>3, Zenon
  <2>16. Len(S[k]) = x + 3
    BY <2>3, <2>10, <2>15
  <2>. QED
    BY <2>6, <2>7, <2>14, <2>16
<1>. QED
  BY <1>1, <1>4, Zenon

\* ReadMessage moves a byte into its buffer.
LEMMA StreamByte ==
  ASSUME NEW S \in Seq(Seq(Bytes)), NEW G \in Seq(Seq(Bytes)),
         NEW b \in Seq(Bytes), NEW w \in Seq(Bytes), NEW o,
         w # << >>, ~Complete(b)
  PROVE  Stream(S, G, b, w, o) =>
           Stream(S, G, Append(b, Head(w)), Tail(w), o)
<1>. DEFINE c == Append(b, Head(w))
<1>1. c \o Tail(w) = b \o w
  BY ConcatByte, Zenon
<1>2. ASSUME Stream(S, G, b, w, o), Len(c) > headerLen
      PROVE  Len(c) <= headerLen + c[3]
  <2>1. Len(c) = Len(b) + 1 /\ Len(b) >= 3 /\ c[3] = b[3]
    BY <1>2 DEF headerLen
  <2>2. b[3] \in Nat
    BY <1>2, <2>1, HeaderRead, Zenon
  <2>. QED
    BY <2>1, <2>2 DEF Complete, headerLen
<1>. QED
  BY <1>1, <1>2, Zenon DEF Stream

\* ReadMessage returns the next frame of those written, and the rest of the
\* bytes are the frames after it.
LEMMA StreamTaken ==
  ASSUME NEW S \in Seq(Seq(Bytes)), NEW G \in Seq(Seq(Bytes)),
         NEW b \in Seq(Bytes), NEW w \in Seq(Bytes), NEW o
  PROVE  Complete(b) /\ Stream(S, G, b, w, o) =>
           /\ Len(G) < Len(S)
           /\ b = S[Len(G) + 1]
           /\ IsFrame(b)
           /\ Stream(S, Append(G, b), << >>, w, o)
<1>1. PICK m \in Nat, n \in Nat, l \in Nat, y \in Nat, z \in Nat :
        m = Len(G) /\ n = Len(S) /\ l = Len(b) /\ y = Len(w) /\ z = l + y
  OBVIOUS
<1>2. PICK q \in Seq(Bytes) :
        /\ q = b \o w /\ z = Len(q)
        /\ SameUpTo(q, b, l)
        /\ Behind(q, l, w, y)
  <2>1. /\ b \o w \in Seq(Bytes) /\ Len(b \o w) = l + y
        /\ SameUpTo(b \o w, b, l)
        /\ Behind(b \o w, l, w, y)
    BY <1>1, ConcatFacts
  <2>. QED
    BY <1>1, <2>1, Zenon
<1>3. /\ Append(G, b) \in Seq(Seq(Bytes)) /\ Len(Append(G, b)) = m + 1
      /\ Append(G, b)[m + 1] = b
      /\ SameUpTo(Append(G, b), G, m)
  <2>1. m = Len(G)
    BY <1>1, Zenon
  <2>. QED
    BY <2>1, AppendFacts
<1>4. ASSUME Complete(b), Stream(S, G, b, w, o)
      PROVE  /\ m < n
             /\ b = S[m + 1]
             /\ IsFrame(b)
             /\ Stream(S, Append(G, b), << >>, w, o)
  <2>0. Len(b) >= 3 /\ l >= 3 + b[3]
    BY <1>1, <1>4 DEF Complete, headerLen
  <2>1. m < n /\ b[3] \in Nat /\ b[3] = Len(S[m + 1]) - 3
    BY <1>1, <1>4, <2>0, HeaderRead, Zenon
  <2>2. PICK p \in Nat : p = m + 1 /\ 1 <= p /\ p <= n /\ m <= m /\ m < n
    BY <2>1
  <2>3. S[p] \in Seq(Bytes) /\ Len(S[p]) \in Nat
    BY <1>1, <2>2
  <2>4. l = Len(S[p])
    <3>1. l > 3 => l <= 3 + b[3]
      BY <1>1, <1>4 DEF Stream, headerLen
    <3>2. l = 3 + b[3]
      BY <1>1, <2>0, <2>1, <3>1
    <3>. QED
      BY <2>1, <2>2, <2>3, <3>2
  <2>5. Named(S, n, G, m, b, q, z, o)
    BY <1>1, <1>2, <1>4, StreamNamed, Zenon
  <2>6. PICK off \in [Nat -> Nat] :
          /\ Offsets(m, off)
          /\ Lengths(S, n, m, off)
          /\ Agrees(S, n, m, q, z, off)
          /\ z <= off[n]
          /\ o => z = off[n]
    BY <2>5, Zenon DEF Named
  <2>7. off[m] = 0
    BY <2>6, Zenon DEF Offsets
  <2>8. off[p] = l
    <3>1. Len(S[p]) = off[p] - off[m]
      BY <2>2, <2>6, Zenon DEF Lengths
    <3>2. l = off[p] - 0
      BY <2>4, <2>7, <3>1, Zenon
    <3>. QED
      BY <2>2, <3>2
  <2>9. ASSUME NEW i \in Nat, 1 <= i, i <= l
        PROVE  b[i] = S[p][i]
    <3>1. q[i] = b[i]
      BY <1>2, <2>9, Zenon DEF SameUpTo
    <3>2. off[m] + i = i /\ i <= z
      BY <1>1, <2>7, <2>9
    <3>3. off[m] + i <= off[m + 1] /\ off[m] + i <= z
      BY <2>2, <2>8, <2>9, <3>2, Zenon
    <3>4. q[off[m] + i] = S[m + 1][i]
      BY <2>2, <2>6, <2>9, <3>3, Zenon DEF Agrees
    <3>. QED
      BY <2>2, <3>1, <3>2, <3>4, Zenon
  <2>10. b = S[p]
    <3>1. SameUpTo(b, S[p], l)
      BY <2>9, Zenon DEF SameUpTo
    <3>. QED
      BY <1>1, <2>3, <2>4, <3>1, SameSeq, Zenon
  <2>11. IsFrame(b)
    BY <2>2, <2>5, <2>10, Zenon DEF Named
  <2>12. PICK cut \in [Nat -> Nat] : Offsets(m + 1, cut) /\ DropsFirst(cut, off, m, l)
    <3>1. off[m + 1] = l /\ Offsets(m, off)
      BY <2>2, <2>6, <2>8, Zenon
    <3>. QED
      BY <3>1, Shifted, Zenon
  <2>14. Lengths(S, n, m + 1, cut)
    BY <2>6, <2>12, LengthsShifted, Zenon
  <2>15. Agrees(S, n, m + 1, w, y, cut)
    <3>1. Agrees(S, n, m, q, l + y, off)
      BY <1>1, <2>6, Zenon
    <3>. QED
      BY <1>2, <2>12, <3>1, AgreesShifted, Zenon
  <2>16. y <= cut[n] /\ (o => y = cut[n])
    <3>1. cut[n] = off[n] - l
      BY <2>2, <2>12, Zenon DEF DropsFirst
    <3>0. z = l + y
      BY <1>1, Zenon
    <3>2. PICK d \in Nat : d = off[n]
      BY Zenon
    <3>3. z <= d => y <= d - l
      BY ONLY <3>0, d \in Nat, l \in Nat, y \in Nat
    <3>4. z = d => y = d - l
      BY ONLY <3>0, d \in Nat, l \in Nat, y \in Nat
    <3>. QED
      BY <2>6, <3>1, <3>2, <3>3, <3>4, Zenon
  <2>17. /\ Append(G, b) \in Seq(Seq(Bytes)) /\ Len(Append(G, b)) = p
         /\ Append(G, b)[p] = b
         /\ SameUpTo(Append(G, b), G, m)
    BY <1>3, <2>2, Zenon
  <2>18. ASSUME NEW i \in Nat, 1 <= i, i <= p
         PROVE  Append(G, b)[i] = S[i]
    <3>1. CASE i = p
      BY <2>10, <2>17, <3>1, Zenon
    <3>2. CASE i # p
      <4>1. i <= m
        BY <2>2, <2>18, <3>2
      <4>2. Append(G, b)[i] = G[i]
        BY <2>17, <2>18, <4>1, Zenon DEF SameUpTo
      <4>3. G[i] = S[i]
        BY <2>5, <2>18, <4>1, Zenon DEF Named, SameUpTo
      <4>. QED
        BY <4>2, <4>3
    <3>. QED
      BY <3>1, <3>2, Zenon
  <2>19. ~(Len(<< >>) > headerLen)
    BY DEF headerLen
  <2>20. \A k \in Nat : 1 <= k /\ k <= n => IsFrame(S[k])
    BY <2>5, Zenon DEF Named
  <2>21. Named(S, n, Append(G, b), p, << >>, w, y, o)
    BY <2>2, <2>12, <2>14, <2>15, <2>16, <2>18, <2>19, <2>20, Zenon DEF Named, SameUpTo
  <2>22. << >> \o w = w
    OBVIOUS
  <2>23. Stream(S, Append(G, b), << >>, w, o)
    BY <1>1, <2>17, <2>21, <2>22, StreamNamed, Zenon
  <2>. QED
    BY <2>2, <2>10, <2>11, <2>23, Zenon
<1>. QED
  BY <1>1, <1>4, Zenon

\* A frame is written, and arrives behind the others.
LEMMA StreamWritten ==
  ASSUME NEW S \in Seq(Seq(Bytes)), NEW G \in Seq(Seq(Bytes)),
         NEW b \in Seq(Bytes), NEW w \in Seq(Bytes), NEW f,
         IsFrame(f)
  PROVE  Stream(S, G, b, w, TRUE) =>
           Stream(Append(S, f), G, b, w \o f, TRUE)
<1>0. f \in Seq(Bytes)
  BY DEF IsFrame
<1>1. PICK m \in Nat, n \in Nat, l \in Nat : m = Len(G) /\ n = Len(S) /\ l = Len(f)
  BY <1>0
<1>2. PICK q \in Seq(Bytes), z \in Nat : q = b \o w /\ z = Len(q)
  <2>1. b \o w \in Seq(Bytes) /\ Len(b \o w) \in Nat
    OBVIOUS
  <2>. QED
    BY <2>1, Zenon
<1>3. PICK T \in Seq(Seq(Bytes)) :
        T = Append(S, f) /\ Len(T) = n + 1 /\ T[n + 1] = f /\ SameUpTo(T, S, n)
  <2>1. /\ Append(S, f) \in Seq(Seq(Bytes)) /\ Len(Append(S, f)) = n + 1
        /\ Append(S, f)[n + 1] = f /\ SameUpTo(Append(S, f), S, n)
    <3>1. n = Len(S)
      BY <1>1, Zenon
    <3>. QED
      BY <1>0, <3>1, AppendFacts
  <2>. QED
    BY <2>1, Zenon
<1>4. PICK r \in Seq(Bytes) :
        r = b \o (w \o f) /\ Len(r) = z + l /\ SameUpTo(r, q, z) /\ Behind(r, z, f, l)
  <2>1. b \o (w \o f) = q \o f
    <3>1. b \o (w \o f) = (b \o w) \o f
      BY <1>0, ConcatAssoc, ZenonT(30)
    <3>. QED
      BY <1>2, <3>1, Zenon
  <2>2. /\ q \o f \in Seq(Bytes) /\ Len(q \o f) = z + l
        /\ SameUpTo(q \o f, q, z) /\ Behind(q \o f, z, f, l)
    <3>1. z = Len(q) /\ l = Len(f)
      BY <1>1, <1>2, Zenon
    <3>. QED
      BY <1>0, <3>1, ConcatFacts
  <2>. QED
    BY <2>1, <2>2, Zenon
<1>5. ASSUME Stream(S, G, b, w, TRUE)
      PROVE  Named(T, n + 1, G, m, b, r, z + l, TRUE)
  <2>1. Named(S, n, G, m, b, q, z, TRUE)
    BY <1>1, <1>2, <1>5, StreamNamed, Zenon
  <2>2. PICK off \in [Nat -> Nat] :
          /\ Offsets(m, off)
          /\ Lengths(S, n, m, off)
          /\ Agrees(S, n, m, q, z, off)
          /\ z <= off[n]
          /\ TRUE => z = off[n]
    BY <2>1, Zenon DEF Named
  <2>3. m <= n
    BY <2>1, Zenon DEF Named
  <2>4. PICK cut \in [Nat -> Nat] : Offsets(m, cut) /\ Continues(cut, off, n, l)
    BY <2>2, <2>3, Extended, Zenon
  <2>5. Lengths(T, n + 1, m, cut)
    BY <1>1, <1>3, <2>2, <2>3, <2>4, LengthsExtended, Zenon
  <2>6. Agrees(T, n + 1, m, r, z + l, cut)
    BY <1>3, <1>4, <2>2, <2>3, <2>4, AgreesWritten, Zenon
  <2>7. z + l = cut[n + 1] /\ z + l <= z + l
    <3>1. cut[n + 1] = off[n] + l /\ z = off[n]
      BY <2>2, <2>4, Zenon DEF Continues
    <3>. QED
      BY <3>1
  <2>8. ASSUME NEW k \in Nat, 1 <= k, k <= n + 1
        PROVE  IsFrame(T[k])
    <3>1. CASE k = n + 1
      BY <1>3, <3>1, Zenon
    <3>2. CASE k # n + 1
      <4>1. k <= n
        BY <2>8, <3>2
      <4>2. T[k] = S[k]
        BY <1>3, <2>8, <4>1, Zenon DEF SameUpTo
      <4>. QED
        BY <2>1, <2>8, <4>1, <4>2, Zenon DEF Named
    <3>. QED
      BY <3>1, <3>2
  <2>9. SameUpTo(G, T, m)
    <3>. SUFFICES ASSUME NEW i \in Nat, 1 <= i, i <= m
                  PROVE  G[i] = T[i]
      BY Zenon DEF SameUpTo
    <3>1. i <= n
      BY <2>3
    <3>. QED
      BY <1>3, <2>1, <3>1, Zenon DEF Named, SameUpTo
  <2>10. m <= n + 1
    BY <2>3
  <2>11. Len(b) > headerLen => Len(b) <= headerLen + b[3]
    BY <2>1, Zenon DEF Named
  <2>. QED
    BY <2>4, <2>5, <2>6, <2>7, <2>8, <2>9, <2>10, <2>11, Zenon DEF Named
<1>6. n + 1 \in Nat /\ z + l \in Nat
  OBVIOUS
<1>. QED
  BY <1>0, <1>1, <1>2, <1>3, <1>4, <1>5, <1>6, StreamNamed, Zenon

\* A frame is written, and is lost with the connection.
LEMMA StreamLost ==
  ASSUME NEW S \in Seq(Seq(Bytes)), NEW G \in Seq(Seq(Bytes)),
         NEW b \in Seq(Bytes), NEW w \in Seq(Bytes), NEW f,
         IsFrame(f)
  PROVE  Stream(S, G, b, w, FALSE) =>
           Stream(Append(S, f), G, b, w, FALSE)
<1>0. f \in Seq(Bytes)
  BY DEF IsFrame
<1>1. PICK m \in Nat, n \in Nat, l \in Nat : m = Len(G) /\ n = Len(S) /\ l = Len(f)
  BY <1>0
<1>2. PICK q \in Seq(Bytes), z \in Nat : q = b \o w /\ z = Len(q)
  <2>1. b \o w \in Seq(Bytes) /\ Len(b \o w) \in Nat
    OBVIOUS
  <2>. QED
    BY <2>1, Zenon
<1>3. PICK T \in Seq(Seq(Bytes)) :
        T = Append(S, f) /\ Len(T) = n + 1 /\ T[n + 1] = f /\ SameUpTo(T, S, n)
  <2>1. /\ Append(S, f) \in Seq(Seq(Bytes)) /\ Len(Append(S, f)) = n + 1
        /\ Append(S, f)[n + 1] = f /\ SameUpTo(Append(S, f), S, n)
    <3>1. n = Len(S)
      BY <1>1, Zenon
    <3>. QED
      BY <1>0, <3>1, AppendFacts
  <2>. QED
    BY <2>1, Zenon
<1>4. ASSUME Stream(S, G, b, w, FALSE)
      PROVE  Named(T, n + 1, G, m, b, q, z, FALSE)
  <2>1. Named(S, n, G, m, b, q, z, FALSE)
    BY <1>1, <1>2, <1>4, StreamNamed, Zenon
  <2>2. PICK off \in [Nat -> Nat] :
          /\ Offsets(m, off)
          /\ Lengths(S, n, m, off)
          /\ Agrees(S, n, m, q, z, off)
          /\ z <= off[n]
          /\ FALSE => z = off[n]
    BY <2>1, Zenon DEF Named
  <2>3. m <= n
    BY <2>1, Zenon DEF Named
  <2>4. PICK cut \in [Nat -> Nat] : Offsets(m, cut) /\ Continues(cut, off, n, l)
    BY <2>2, <2>3, Extended, Zenon
  <2>5. Lengths(T, n + 1, m, cut)
    BY <1>1, <1>3, <2>2, <2>3, <2>4, LengthsExtended, Zenon
  <2>6. Agrees(T, n + 1, m, q, z, cut)
    BY <1>3, <2>2, <2>3, <2>4, AgreesLost, Zenon
  <2>7. z <= cut[n + 1]
    <3>1. PICK j \in Nat : cut[n + 1] = j + l /\ z <= j
      BY <2>2, <2>4, Zenon DEF Continues
    <3>2. z <= j + l
      BY <3>1
    <3>. QED
      BY <3>1, <3>2, Zenon
  <2>8. ASSUME NEW k \in Nat, 1 <= k, k <= n + 1
        PROVE  IsFrame(T[k])
    <3>1. CASE k = n + 1
      BY <1>3, <3>1, Zenon
    <3>2. CASE k # n + 1
      <4>1. k <= n
        BY <2>8, <3>2
      <4>2. T[k] = S[k]
        BY <1>3, <2>8, <4>1, Zenon DEF SameUpTo
      <4>. QED
        BY <2>1, <2>8, <4>1, <4>2, Zenon DEF Named
    <3>. QED
      BY <3>1, <3>2
  <2>9. SameUpTo(G, T, m)
    <3>. SUFFICES ASSUME NEW i \in Nat, 1 <= i, i <= m
                  PROVE  G[i] = T[i]
      BY Zenon DEF SameUpTo
    <3>1. i <= n
      BY <2>3
    <3>. QED
      BY <1>3, <2>1, <3>1, Zenon DEF Named, SameUpTo
  <2>10. m <= n + 1
    BY <2>3
  <2>11. Len(b) > headerLen => Len(b) <= headerLen + b[3]
    BY <2>1, Zenon DEF Named
  <2>. QED
    BY <2>4, <2>5, <2>6, <2>7, <2>8, <2>9, <2>10, <2>11, Zenon DEF Named
<1>5. n + 1 \in Nat
  OBVIOUS
<1>. QED
  BY <1>0, <1>1, <1>2, <1>3, <1>4, <1>5, StreamNamed, Zenon

\* The connection breaks, and the last bytes on their way are lost.
LEMMA StreamBroken ==
  ASSUME NEW S \in Seq(Seq(Bytes)), NEW G \in Seq(Seq(Bytes)),
         NEW b \in Seq(Bytes), NEW w \in Seq(Bytes), NEW o,
         NEW c \in 0..Len(w)
  PROVE  Stream(S, G, b, w, o) => Stream(S, G, b, SubSeq(w, 1, c), FALSE)
<1>1. PICK m \in Nat, n \in Nat, h \in Nat, y \in Nat :
        /\ m = Len(G) /\ n = Len(S) /\ h = Len(b) /\ y = Len(w)
        /\ c \in Nat /\ c <= y
  OBVIOUS
<1>2. PICK u \in Seq(Bytes) : u = SubSeq(w, 1, c) /\ Len(u) = c /\ SameUpTo(u, w, c)
  <2>1. c \in Nat /\ c <= Len(w)
    BY <1>1, Zenon
  <2>. QED
    BY <2>1, SubSeqFacts, Zenon
<1>3. PICK q \in Seq(Bytes) :
        q = b \o w /\ Len(q) = h + y /\ SameUpTo(q, b, h) /\ Behind(q, h, w, y)
  <2>1. h = Len(b) /\ y = Len(w)
    BY <1>1, Zenon
  <2>2. /\ b \o w \in Seq(Bytes) /\ Len(b \o w) = h + y
        /\ SameUpTo(b \o w, b, h) /\ Behind(b \o w, h, w, y)
    BY <2>1, ConcatFacts
  <2>. QED
    BY <2>2, Zenon
<1>4. PICK r \in Seq(Bytes) :
        r = b \o u /\ Len(r) = h + c /\ SameUpTo(r, b, h) /\ Behind(r, h, u, c)
  <2>1. h = Len(b) /\ c = Len(u) /\ c \in Nat
    BY <1>1, <1>2, Zenon
  <2>2. /\ b \o u \in Seq(Bytes) /\ Len(b \o u) = h + c
        /\ SameUpTo(b \o u, b, h) /\ Behind(b \o u, h, u, c)
    BY <2>1, ConcatFacts
  <2>. QED
    BY <2>2, Zenon
<1>5. h + c <= h + y /\ h + c \in Nat /\ h + y \in Nat
  BY <1>1
<1>6. SameUpTo(r, q, h + c)
  <2>. SUFFICES ASSUME NEW i \in Nat, 1 <= i, i <= h + c
                PROVE  r[i] = q[i]
    BY Zenon DEF SameUpTo
  <2>1. CASE i <= h
    BY <1>3, <1>4, <2>1, Zenon DEF SameUpTo
  <2>2. CASE ~(i <= h)
    <3>1. c \in Nat /\ c <= y
      BY <1>1, Zenon
    <3>2. i - h \in Nat /\ 1 <= i - h /\ i - h <= c /\ i - h <= y /\ h + (i - h) = i
      BY <2>2, <3>1
    <3>3. u[i - h] = w[i - h]
      BY <1>2, <3>2, Zenon DEF SameUpTo
    <3>4. r[h + (i - h)] = u[i - h] /\ q[h + (i - h)] = w[i - h]
      BY <1>3, <1>4, <3>2, Zenon DEF Behind
    <3>. QED
      BY <3>2, <3>3, <3>4, Zenon
  <2>. QED
    BY <2>1, <2>2
<1>7. ASSUME Stream(S, G, b, w, o)
      PROVE  Named(S, n, G, m, b, r, h + c, FALSE)
  <2>1. Named(S, n, G, m, b, q, h + y, o)
    BY <1>1, <1>3, <1>5, <1>7, StreamNamed, Zenon
  <2>2. PICK off \in [Nat -> Nat] :
          /\ Offsets(m, off)
          /\ Lengths(S, n, m, off)
          /\ Agrees(S, n, m, q, h + y, off)
          /\ h + y <= off[n]
    BY <2>1, Zenon DEF Named
  <2>3. m <= n
    BY <2>1, Zenon DEF Named
  <2>4. Agrees(S, n, m, r, h + c, off)
    BY <1>5, <1>6, <2>2, <2>3, AgreesBroken, Zenon
  <2>5. h + c <= off[n]
    <3>1. h + y <= off[n] /\ c <= y /\ c \in Nat
      BY <1>1, <2>2, Zenon
    <3>. QED
      BY <3>1
  <2>. QED
    BY <2>1, <2>2, <2>4, <2>5, Zenon DEF Named
<1>. QED
  BY <1>1, <1>2, <1>4, <1>5, <1>7, StreamNamed, Zenon

-----------------------------------------------------------------------------
(* The frames of the handshake. *)

\* A connection has two ends.
LEMMA OtherEnd ==
  /\ Other("client") = "server" /\ Other("server") = "client"
  /\ \A e \in Ends : Other(e) \in Ends /\ Other(e) # e /\ Other(Other(e)) = e
  BY DEF Other, Ends

\* f is the data d, of length l, behind the header h.
Framed(h, d, l, f) ==
  /\ f \in Seq(Bytes) /\ Len(f) = 3 + l
  /\ f[1] = h[1] /\ f[2] = h[2] /\ f[3] = h[3]
  /\ \A i \in 4..(3 + l) : f[i] = d[i - 3]
  /\ SubSeq(f, 4, Len(f)) = d

\* writeMessage puts the data behind a header of fixed length.
LEMMA HeaderAndData ==
  ASSUME NEW h \in Seq(Bytes), NEW d \in Seq(Bytes), NEW l \in Nat, NEW m \in Nat,
         m = Len(h), l = Len(d)
  PROVE  m = 3 => Framed(h, d, l, h \o d)
<1>1. /\ h \o d \in Seq(Bytes) /\ Len(h \o d) = m + l
      /\ SameUpTo(h \o d, h, m) /\ Behind(h \o d, m, d, l)
  BY ConcatFacts
<1>2. PICK f \in Seq(Bytes) : /\ f = h \o d /\ Len(f) = m + l
                          /\ SameUpTo(f, h, m) /\ Behind(f, m, d, l)
  BY <1>1, Zenon
<1>3. ASSUME m = 3
      PROVE  /\ Len(f) = 3 + l
             /\ f[1] = h[1] /\ f[2] = h[2] /\ f[3] = h[3]
             /\ \A i \in 4..(3 + l) : f[i] = d[i - 3]
             /\ SubSeq(f, 4, Len(f)) = d
  <2>1. f[1] = h[1] /\ f[2] = h[2] /\ f[3] = h[3]
    <3>1. \A i \in Nat : 1 <= i /\ i <= 3 => f[i] = h[i]
      BY <1>3, <1>2, Zenon DEF SameUpTo
    <3>2. 1 <= 1 /\ 1 <= 2 /\ 1 <= 3 /\ 2 <= 3 /\ 3 <= 3 /\ {1, 2, 3} \subseteq Nat
      OBVIOUS
    <3>. QED
      BY <3>1, <3>2, Zenon
  <2>2. \A i \in 4..(3 + l) : f[i] = d[i - 3]
    <3>. SUFFICES ASSUME NEW i \in 4..(3 + l)
                  PROVE  f[i] = d[i - 3]
      OBVIOUS
    <3>1. PICK j \in Nat : j = i - 3 /\ 1 <= j /\ j <= l /\ 3 + j = i
      OBVIOUS
    <3>2. f[m + j] = d[j]
      BY <1>2, <3>1, Zenon DEF Behind
    <3>. QED
      BY <1>3, <3>1, <3>2, Zenon
  <2>3. Len(f) = 3 + l
    BY <1>3, <1>2, Zenon
  <2>4. SubSeq(f, 4, Len(f)) = d
    <3>1. /\ SubSeq(f, 4, Len(f)) \in Seq(Bytes) /\ Len(SubSeq(f, 4, Len(f))) = l
          /\ \A i \in 1..l : SubSeq(f, 4, Len(f))[i] = f[i + 3]
      BY <2>3
    <3>2. \A i \in 1..l : f[i + 3] = d[i]
      <4>. SUFFICES ASSUME NEW i \in 1..l
                    PROVE  f[i + 3] = d[i]
        OBVIOUS
      <4>1. i + 3 \in 4..(3 + l) /\ (i + 3) - 3 = i
        OBVIOUS
      <4>. QED
        BY <2>2, <4>1, Zenon
    <3>. QED
      BY <3>1, <3>2, SeqEqual
  <2>. QED
    BY <2>1, <2>2, <2>3, <2>4, Zenon
<1>. QED
  BY <1>2, <1>3, Zenon DEF Framed

\* What ReadMessage and unmarshal take from a frame is what was put into it.
LEMMA MarshalFrame ==
  ASSUME NEW v \in Nat, NEW t \in Nat, NEW d \in Seq(Nodes \cup {NoId}),
         NEW f, f = Marshal(v, t, d)
  PROVE  /\ IsFrame(f)
         /\ FrameVersion(f) = v /\ FrameType(f) = t /\ FrameData(f) = d
<1>. DEFINE h == <<v, t, Len(d)>>
<1>1. h \in Seq(Bytes) /\ Len(h) = 3 /\ h[1] = v /\ h[2] = t /\ h[3] = Len(d)
  BY DEF Bytes
<1>2. d \in Seq(Bytes)
  BY DEF Bytes
<1>3. f = h \o d
  BY DEF Marshal
<1>. HIDE DEF h
<1>4. PICK l \in Nat : l = Len(d)
  OBVIOUS
<1>5. /\ f \in Seq(Bytes) /\ Len(f) = 3 + l
      /\ f[1] = h[1] /\ f[2] = h[2] /\ f[3] = h[3]
      /\ \A i \in 4..(3 + l) : f[i] = d[i - 3]
      /\ SubSeq(f, 4, Len(f)) = d
  <2>1. 3 = Len(h) /\ l = Len(d) /\ h \in Seq(Bytes) /\ d \in Seq(Bytes) /\ 3 \in Nat
    BY <1>1, <1>2, <1>4
  <2>2. PICK m \in Nat : m = Len(h) /\ m = 3
    BY <2>1, Zenon
  <2>3. Framed(h, d, l, h \o d)
    BY <2>1, <2>2, HeaderAndData, Zenon
  <2>. QED
    BY <1>3, <2>3, Zenon DEF Framed
<1>6. FrameVersion(f) = v /\ FrameType(f) = t /\ FrameData(f) = d
  <2>1. 3 + 1 = 4
    OBVIOUS
  <2>. QED
    BY <1>1, <1>5, <2>1, Zenon DEF FrameVersion, FrameType, FrameData, headerLen
<1>7. \A i \in (3 + 1)..Len(f) : f[i] \in Nodes \cup {NoId}
  <2>0. (3 + 1)..Len(f) = 4..(3 + l)
    BY <1>5
  <2>. SUFFICES ASSUME NEW i \in 4..(3 + l)
                PROVE  f[i] \in Nodes \cup {NoId}
    BY <2>0, Zenon
  <2>1. f[i] = d[i - 3]
    BY <1>5, Zenon
  <2>2. i - 3 \in 1..l
    OBVIOUS
  <2>3. d[i - 3] \in Nodes \cup {NoId}
    BY <1>4, <2>2
  <2>. QED
    BY <2>1, <2>3
<1>8. Len(f) >= 3 /\ f[3] = Len(f) - 3
  BY <1>1, <1>4, <1>5
<1>9. IsFrame(f)
  BY <1>1, <1>5, <1>7, <1>8, Zenon DEF IsFrame, headerLen
<1>. QED
  BY <1>6, <1>9

\* A hello holds the version, and the ids of its writer and of its reader.
LEMMA HelloFrame ==
  ASSUME NEW v \in Nat, NEW t \in Nat, NEW n \in Nodes, NEW to \in Nodes \cup {NoId},
         NEW f, f = Marshal(v, t, <<n, to>>)
  PROVE  /\ IsFrame(f) /\ FrameVersion(f) = v
         /\ \A type : NoHello(f, type) <=> t # type
         /\ HelloId(f) = n /\ HelloReceiveId(f) = to
<1>. DEFINE d == <<n, to>>
<1>1. /\ d \in Seq(Nodes \cup {NoId}) /\ d # << >>
      /\ Len(d) > 1 /\ d[1] = n /\ d[2] = to
  OBVIOUS
<1>. HIDE DEF d
<1>2. f = Marshal(v, t, d)
  BY DEF d
<1>3. IsFrame(f) /\ FrameVersion(f) = v /\ FrameType(f) = t /\ FrameData(f) = d
  BY <1>1, <1>2, MarshalFrame
<1>. QED
  BY <1>1, <1>3, Zenon DEF NoHello, HelloId, HelloReceiveId

\* A heartbeat is a frame.
LEMMA HeartbeatFrame ==
  ASSUME NEW n \in Nodes
  PROVE  IsFrame(Heartbeat(n))
<1>1. Version[n] \in Nat /\ typePingMsg \in Nat
  BY HandshakeAssumption DEF typePingMsg
<1>2. <<n>> \in Seq(Nodes \cup {NoId})
  OBVIOUS
<1>. QED
  BY <1>1, <1>2, MarshalFrame, ZenonT(30) DEF Heartbeat

\* The id in a frame that has one.
LEMMA HelloIdType ==
  ASSUME NEW f, IsFrame(f), FrameData(f) # << >>
  PROVE  HelloId(f) \in Nodes \cup {NoId}
<1>1. f \in Seq(Bytes) /\ \A i \in 4..Len(f) : f[i] \in Nodes \cup {NoId}
  BY DEF IsFrame, headerLen
<1>2. FrameData(f) = SubSeq(f, 4, Len(f))
  BY DEF FrameData, headerLen
<1>3. Len(f) >= 4 /\ SubSeq(f, 4, Len(f))[1] = f[4]
  BY <1>1, <1>2
<1>. QED
  BY <1>1, <1>2, <1>3 DEF HelloId

-----------------------------------------------------------------------------
(* Steps of one direction. *)

\* A step that neither writes nor reads in this direction keeps it.
LEMMA DirectionSame ==
  ASSUME NEW e \in Ends, Direction(e),
         sent'[Other(e)] = sent[Other(e)], got'[e] = got[e],
         buf'[e] = buf[e], wire'[e] = wire[e],
         up' /\ ~shut'[e] => up /\ ~shut[e]
  PROVE  Direction(e)'
  BY StreamCloses, Zenon DEF Direction

\* A message that ReadMessage has read to its end is the next frame that the
\* other end has written.
LEMMA DirectionTaken ==
  ASSUME NEW e \in Ends, TypeOK, Direction(e), TakeFrame(e),
         sent'[Other(e)] = sent[Other(e)], wire'[e] = wire[e],
         up' /\ ~shut'[e] => up /\ ~shut[e]
  PROVE  /\ Direction(e)'
         /\ IsFrame(buf[e])
         /\ Len(got[e]) < Len(sent[Other(e)])
         /\ buf[e] = sent[Other(e)][Len(got[e]) + 1]
<1>1. /\ sent[Other(e)] \in Seq(Seq(Bytes)) /\ got[e] \in Seq(Seq(Bytes))
      /\ buf[e] \in Seq(Bytes) /\ wire[e] \in Seq(Bytes)
  BY OtherEnd DEF TypeOK
<1>2. Complete(buf[e]) /\ buf'[e] = << >> /\ got'[e] = Append(got[e], buf[e])
  BY DEF TakeFrame, TypeOK
<1>3. /\ Len(got[e]) < Len(sent[Other(e)])
      /\ buf[e] = sent[Other(e)][Len(got[e]) + 1]
      /\ IsFrame(buf[e])
      /\ Stream(sent[Other(e)], Append(got[e], buf[e]), << >>, wire[e], up /\ ~shut[e])
  BY <1>1, <1>2, StreamTaken, ZenonT(30) DEF Direction
<1>4. Direction(e)'
  BY <1>2, <1>3, StreamCloses, Zenon DEF Direction
<1>. QED
  BY <1>3, <1>4

\* A frame that the other end writes keeps the direction.
LEMMA DirectionWritten ==
  ASSUME NEW e \in Ends, TypeOK, Direction(e), NEW f, IsFrame(f), Writes(Other(e), f),
         got'[e] = got[e], buf'[e] = buf[e], up' = up, shut'[e] = shut[e]
  PROVE  Direction(e)'
<1>1. /\ sent[Other(e)] \in Seq(Seq(Bytes)) /\ got[e] \in Seq(Seq(Bytes))
      /\ buf[e] \in Seq(Bytes) /\ wire[e] \in Seq(Bytes)
  BY OtherEnd DEF TypeOK
<1>2. Other(Other(e)) = e
  BY OtherEnd
<1>3. sent'[Other(e)] = Append(sent[Other(e)], f)
  BY OtherEnd DEF Writes, TypeOK
<1>4. CASE up /\ ~shut[e]
  <2>1. wire'[e] = wire[e] \o f
    BY <1>2, <1>4 DEF Writes, TypeOK
  <2>2. Stream(sent[Other(e)], got[e], buf[e], wire[e], TRUE)
    BY <1>4, StreamCloses, Zenon DEF Direction
  <2>3. Stream(Append(sent[Other(e)], f), got[e], buf[e], wire[e] \o f, TRUE)
    BY <1>1, <2>2, StreamWritten, Zenon
  <2>4. Stream(sent'[Other(e)], got'[e], buf'[e], wire'[e], TRUE)
    BY <1>3, <2>1, <2>3, Zenon
  <2>. QED
    BY <1>4, <2>4, Zenon DEF Direction
<1>5. CASE ~(up /\ ~shut[e])
  <2>1. wire'[e] = wire[e]
    BY <1>2, <1>5 DEF Writes, TypeOK
  <2>2. Stream(sent[Other(e)], got[e], buf[e], wire[e], FALSE)
    BY <1>5, StreamCloses, Zenon DEF Direction
  <2>3. Stream(Append(sent[Other(e)], f), got[e], buf[e], wire[e], FALSE)
    BY <1>1, <2>2, StreamLost, Zenon
  <2>. QED
    BY <1>3, <1>5, <2>1, <2>3, StreamCloses, Zenon DEF Direction
<1>. QED
  BY <1>4, <1>5

\* The types of what Writes changes.
LEMMA WritesType ==
  ASSUME TypeOK, NEW e \in Ends, NEW f, IsFrame(f), Writes(e, f)
  PROVE  /\ sent' \in [Ends -> Seq(Seq(Bytes))]
         /\ wire' \in [Ends -> Seq(Bytes)]
         /\ sent'[e] = Append(sent[e], f)
         /\ sent'[Other(e)] = sent[Other(e)]
         /\ wire'[e] = wire[e]
<1>1. f \in Seq(Bytes)
  BY DEF IsFrame
<1>2. sent' \in [Ends -> Seq(Seq(Bytes))]
  BY <1>1 DEF Writes, TypeOK
<1>3. wire' \in [Ends -> Seq(Bytes)]
  BY <1>1, OtherEnd DEF Writes, TypeOK
<1>. QED
  BY <1>2, <1>3, OtherEnd, Zenon DEF Writes, TypeOK

\* The first frame written stays the first.
LEMMA FirstStays ==
  ASSUME NEW s \in Seq(Seq(Bytes)), NEW f \in Seq(Bytes)
  PROVE  /\ Len(Append(s, f)) > 0
         /\ Len(s) > 0 => Append(s, f)[1] = s[1]
         /\ s = << >> => Append(s, f)[1] = f
<1>1. PICK n \in Nat : n = Len(s)
  OBVIOUS
<1>2. /\ Len(Append(s, f)) = n + 1
      /\ Append(s, f)[n + 1] = f
      /\ SameUpTo(Append(s, f), s, n)
  BY <1>1, AppendFacts
<1>3. Len(Append(s, f)) > 0
  BY <1>2
<1>5. ASSUME n > 0
      PROVE  Append(s, f)[1] = s[1]
  <2>1. 1 \in Nat /\ 1 <= 1 /\ 1 <= n
    BY <1>5
  <2>. QED
    BY <1>2, <2>1, Zenon DEF SameUpTo
<1>6. ASSUME s = << >>
      PROVE  Append(s, f)[1] = f
  <2>1. n + 1 = 1
    BY <1>1, <1>6
  <2>. QED
    BY <1>2, <2>1, Zenon
<1>. QED
  BY <1>1, <1>3, <1>5, <1>6, Zenon

\* A step that leaves phases, names and frames alone leaves the handshake alone.
LEMMA HandshakeSame ==
  ASSUME UNCHANGED <<self, id, phase, sent, got>>
  PROVE  /\ Roles => Roles'
         /\ ClientSide => ClientSide'
         /\ ServerSide => ServerSide'
         /\ Accepted => Accepted'
         /\ ClientLast => ClientLast'
         /\ NodesNeverPanic => NodesNeverPanic'
<1>1. /\ IsNode("client")' <=> IsNode("client")
      /\ IsNode("server")' <=> IsNode("server")
      /\ Done("client")' <=> Done("client")
      /\ Done("server")' <=> Done("server")
      /\ \A e \in Ends : IsNode(e)' <=> IsNode(e)
      /\ \A e \in Ends : IsNode(Other(e))' <=> IsNode(Other(e))
  BY DEF IsNode, Done
<1>. QED
  BY <1>1 DEF Roles, ClientSide, ServerSide, Accepted, ClientLast, NodesNeverPanic

-----------------------------------------------------------------------------
(* The steps. *)

\* The invariant holds for a connection that has just been made.
LEMMA InitIInv == Init => IInv
<1>. SUFFICES ASSUME Init
              PROVE  IInv
  OBVIOUS
<1>1. TypeOK
  <2>1. phase \in [Ends -> Handshaking \cup
                     {"addpeer", "session", "ended", "failed", "panic", "strange"}]
    BY DEF Init, Handshaking
  <2>2. up \in BOOLEAN /\ shut \in [Ends -> BOOLEAN]
    BY DEF Init
  <2>3. writes \in [Ends -> 0..MaxWrites]
    BY HandshakeAssumption DEF Init
  <2>4. /\ wire \in [Ends -> Seq(Bytes)] /\ buf \in [Ends -> Seq(Bytes)]
        /\ sent \in [Ends -> Seq(Seq(Bytes))] /\ got \in [Ends -> Seq(Seq(Bytes))]
    BY DEF Init
  <2>. QED
    BY <2>1, <2>2, <2>3, <2>4 DEF Init, TypeOK
<1>2. Streams
  <2>. SUFFICES ASSUME NEW e \in Ends
                PROVE  Direction(e)
    BY DEF Streams
  <2>1. /\ sent[Other(e)] = << >> /\ got[e] = << >> /\ buf[e] = << >> /\ wire[e] = << >>
        /\ up = TRUE /\ shut[e] = FALSE
    BY OtherEnd DEF Init
  <2>. QED
    BY <2>1, StreamEmpty, StreamCloses, Zenon DEF Direction
<1>3. /\ \A e \in Ends : sent[e] = << >> /\ got[e] = << >> /\ ~(Len(sent[e]) > 0)
      /\ \A e \in Ends : phase[e] = IF self[e] = Stranger THEN "strange"
                                    ELSE IF e = "client" THEN "hello" ELSE "request"
  BY DEF Init
<1>4. "client" \in Ends /\ "server" \in Ends
  BY DEF Ends
<1>5. Roles
  BY <1>3 DEF Roles, IsNode
<1>6. ~Done("client") /\ ~Done("server")
  BY <1>3, <1>4 DEF Done
<1>7. ClientSide /\ ServerSide
  BY <1>3, <1>4, <1>6 DEF ClientSide, ServerSide, IsNode
<1>8. Accepted /\ ClientLast
  BY <1>6 DEF Accepted, ClientLast
<1>9. NodesNeverPanic
  BY <1>3 DEF NodesNeverPanic
<1>. QED
  BY <1>1, <1>2, <1>5, <1>7, <1>8, <1>9 DEF IInv

\* ReadMessage reads a byte.
LEMMA ReadByteStep ==
  ASSUME IInv, NEW e \in Ends, ReadByte(e)
  PROVE  IInv'
<1>1. /\ buf[e] \in Seq(Bytes) /\ wire[e] \in Seq(Bytes)
      /\ sent[Other(e)] \in Seq(Seq(Bytes)) /\ got[e] \in Seq(Seq(Bytes))
  BY OtherEnd DEF IInv, TypeOK
<1>2. Head(wire[e]) \in Bytes /\ Tail(wire[e]) \in Seq(Bytes)
  BY <1>1 DEF ReadByte
<1>3. TypeOK'
  <2>1. Append(buf[e], Head(wire[e])) \in Seq(Bytes)
    BY <1>1, <1>2
  <2>2. buf' \in [Ends -> Seq(Bytes)] /\ wire' \in [Ends -> Seq(Bytes)]
    BY <1>2, <2>1 DEF ReadByte, IInv, TypeOK
  <2>. QED
    BY <2>2 DEF ReadByte, IInv, TypeOK
<1>4. Streams'
  <2>. SUFFICES ASSUME NEW d \in Ends
                PROVE  Direction(d)'
    BY DEF Streams
  <2>1. Direction(d)
    BY DEF IInv, Streams
  <2>2. CASE d = e
    <3>1. /\ buf'[e] = Append(buf[e], Head(wire[e])) /\ wire'[e] = Tail(wire[e])
          /\ wire[e] # << >> /\ ~Complete(buf[e])
      BY DEF ReadByte, IInv, TypeOK
    <3>2. Stream(sent[Other(e)], got[e], Append(buf[e], Head(wire[e])), Tail(wire[e]),
                 up /\ ~shut[e])
      BY <1>1, <2>1, <2>2, <3>1, StreamByte, Zenon DEF Direction
    <3>3. sent' = sent /\ got' = got /\ up' = up /\ shut' = shut
      BY DEF ReadByte
    <3>. QED
      BY <2>2, <3>1, <3>2, <3>3, Zenon DEF Direction
  <2>3. CASE d # e
    <3>1. buf'[d] = buf[d] /\ wire'[d] = wire[d]
      BY <2>3 DEF ReadByte, IInv, TypeOK
    <3>2. sent' = sent /\ got' = got /\ up' = up /\ shut' = shut
      BY DEF ReadByte
    <3>. QED
      BY <2>1, <3>1, <3>2, DirectionSame, Zenon
  <2>. QED
    BY <2>2, <2>3
<1>5. UNCHANGED <<self, id, phase, sent, got>>
  BY DEF ReadByte
<1>. QED
  BY <1>3, <1>4, <1>5, HandshakeSame, Zenon DEF IInv

\* An end leaves the handshake or goes on in the session, and no frame is
\* written or read.
LEMMA PhaseStep ==
  ASSUME IInv, NEW e \in Ends, NEW ph,
         phase' = [phase EXCEPT ![e] = ph],
         UNCHANGED <<self, id, sent, got>>,
         phase[e] # "strange",
         ph \notin Handshaking \cup {"strange", "panic"},
         Done(e) <=> ph \in {"addpeer", "session", "ended"}
  PROVE  /\ Roles' /\ ClientSide' /\ ServerSide'
         /\ Accepted' /\ ClientLast' /\ NodesNeverPanic'
<1>1. phase'[e] = ph /\ \A d \in Ends : d # e => phase'[d] = phase[d]
  BY DEF IInv, TypeOK
<1>2. \A d \in Ends : Done(d)' <=> Done(d)
  BY <1>1 DEF Done
<1>3. \A d \in Ends : IsNode(d)' <=> IsNode(d)
  BY DEF IsNode
<1>4. "client" \in Ends /\ "server" \in Ends
  BY DEF Ends
<1>5. Roles'
  BY <1>1, <1>3 DEF IInv, Roles
<1>6. /\ phase'["client"] = "hello" => phase["client"] = "hello"
      /\ phase'["client"] = "reply" => phase["client"] = "reply"
      /\ phase'["server"] = "request" => phase["server"] = "request"
  BY <1>1, <1>4 DEF Handshaking
<1>7. ClientSide'
  BY <1>2, <1>3, <1>4, <1>6 DEF IInv, ClientSide
<1>8. ServerSide'
  BY <1>2, <1>3, <1>4, <1>6 DEF IInv, ServerSide
<1>9. Accepted' /\ ClientLast'
  BY <1>2, <1>3, <1>4 DEF IInv, Accepted, ClientLast
<1>10. NodesNeverPanic'
  BY <1>1, <1>3, OtherEnd DEF IInv, NodesNeverPanic
<1>. QED
  BY <1>5, <1>7, <1>8, <1>9, <1>10

\* Nothing moves on the connection, and it may be closed.
LEMMA StreamsClose ==
  ASSUME IInv, UNCHANGED <<wire, buf, sent, got, up>>,
         \A e \in Ends : ~shut'[e] => ~shut[e]
  PROVE  Streams'
<1>. SUFFICES ASSUME NEW d \in Ends
              PROVE  Direction(d)'
  BY DEF Streams
<1>1. Direction(d)
  BY DEF IInv, Streams
<1>2. ~shut'[d] => ~shut[d]
  OBVIOUS
<1>. QED
  BY <1>1, <1>2, DirectionSame, Zenon

\* The other end has closed the connection, or it broke.
LEMMA ReadFailsStep ==
  ASSUME IInv, NEW e \in Ends, ReadFails(e)
  PROVE  IInv'
<1>1. phase[e] \in {"reply", "request", "session"}
  BY DEF ReadFails, Reading
<1>2. PICK ph \in {"ended", "failed"} :
        /\ phase' = [phase EXCEPT ![e] = ph]
        /\ ph = "ended" <=> phase[e] = "session"
        /\ shut' = shut \/ shut' = [shut EXCEPT ![e] = TRUE]
  <2>1. CASE phase[e] = "session"
    BY <2>1 DEF ReadFails
  <2>2. CASE phase[e] # "session"
    BY <2>2 DEF ReadFails, Fail
  <2>. QED
    BY <2>1, <2>2
<1>3. UNCHANGED <<self, id, wire, buf, up, writes, sent, got>>
  BY DEF ReadFails
<1>4. shut' \in [Ends -> BOOLEAN] /\ \A d \in Ends : ~shut'[d] => ~shut[d]
  BY <1>2, Zenon DEF IInv, TypeOK
<1>5. TypeOK'
  <2>1. phase' \in [Ends -> Handshaking \cup
                      {"addpeer", "session", "ended", "failed", "panic", "strange"}]
    BY <1>2 DEF IInv, TypeOK
  <2>. QED
    BY <1>3, <1>4, <2>1 DEF IInv, TypeOK
<1>6. Streams'
  BY <1>3, <1>4, StreamsClose, Zenon
<1>7. /\ Roles' /\ ClientSide' /\ ServerSide'
      /\ Accepted' /\ ClientLast' /\ NodesNeverPanic'
  <2>1. /\ phase[e] # "strange"
        /\ ph \notin Handshaking \cup {"strange", "panic"}
        /\ Done(e) <=> ph \in {"addpeer", "session", "ended"}
    BY <1>1, <1>2 DEF Handshaking, Done
  <2>2. UNCHANGED <<self, id, sent, got>>
    BY <1>3
  <2>. QED
    BY <1>2, <2>1, <2>2, PhaseStep, Zenon
<1>. QED
  BY <1>5, <1>6, <1>7 DEF IInv

\* The session starts.
LEMMA AddPeerStep ==
  ASSUME IInv, NEW e \in Ends, AddPeer(e)
  PROVE  IInv'
<1>1. /\ phase[e] = "addpeer" /\ phase' = [phase EXCEPT ![e] = "session"]
      /\ UNCHANGED <<self, id, wire, buf, up, shut, writes, sent, got>>
  BY DEF AddPeer
<1>2. TypeOK'
  <2>1. phase' \in [Ends -> Handshaking \cup
                      {"addpeer", "session", "ended", "failed", "panic", "strange"}]
    BY <1>1 DEF IInv, TypeOK
  <2>. QED
    BY <1>1, <2>1 DEF IInv, TypeOK
<1>3. Streams'
  BY <1>1, StreamsClose, Zenon
<1>4. /\ Roles' /\ ClientSide' /\ ServerSide'
      /\ Accepted' /\ ClientLast' /\ NodesNeverPanic'
  <2>1. /\ phase[e] # "strange"
        /\ "session" \notin Handshaking \cup {"strange", "panic"}
        /\ Done(e) <=> "session" \in {"addpeer", "session", "ended"}
    BY <1>1 DEF Handshaking, Done
  <2>2. UNCHANGED <<self, id, sent, got>>
    BY <1>1
  <2>. QED
    BY <1>1, <2>1, <2>2, PhaseStep, Zenon
<1>. QED
  BY <1>2, <1>3, <1>4 DEF IInv

\* A stranger closes the connection.
LEMMA StrangerClosesStep ==
  ASSUME IInv, NEW e \in Ends, StrangerCloses(e)
  PROVE  IInv'
<1>1. /\ shut' = [shut EXCEPT ![e] = TRUE]
      /\ UNCHANGED <<self, id, phase, wire, buf, up, writes, sent, got>>
  BY DEF StrangerCloses
<1>2. shut' \in [Ends -> BOOLEAN] /\ \A d \in Ends : ~shut'[d] => ~shut[d]
  BY <1>1 DEF IInv, TypeOK
<1>3. TypeOK'
  BY <1>1, <1>2 DEF IInv, TypeOK
<1>4. Streams'
  BY <1>1, <1>2, StreamsClose, Zenon
<1>5. UNCHANGED <<self, id, phase, sent, got>>
  BY <1>1
<1>. QED
  BY <1>3, <1>4, <1>5, HandshakeSame, Zenon DEF IInv

\* The connection breaks.
LEMMA BreakStep ==
  ASSUME IInv, NEW k, Break(k), \A e \in Ends : k[e] \in 0..Len(wire[e])
  PROVE  IInv'
<1>1. /\ up' = FALSE /\ wire' = [e \in Ends |-> SubSeq(wire[e], 1, k[e])]
      /\ UNCHANGED <<self, id, phase, buf, shut, writes, sent, got>>
  BY DEF Break
<1>2. \A e \in Ends : /\ wire[e] \in Seq(Bytes) /\ buf[e] \in Seq(Bytes)
                      /\ sent[Other(e)] \in Seq(Seq(Bytes)) /\ got[e] \in Seq(Seq(Bytes))
  BY OtherEnd DEF IInv, TypeOK
<1>3. TypeOK'
  <2>1. \A e \in Ends : SubSeq(wire[e], 1, k[e]) \in Seq(Bytes)
    BY <1>2
  <2>2. wire' \in [Ends -> Seq(Bytes)]
    BY <1>1, <2>1
  <2>. QED
    BY <1>1, <2>2, Zenon DEF IInv, TypeOK
<1>4. Streams'
  <2>. SUFFICES ASSUME NEW d \in Ends
                PROVE  Direction(d)'
    BY DEF Streams
  <2>1. Direction(d)
    BY DEF IInv, Streams
  <2>2. Stream(sent[Other(d)], got[d], buf[d], SubSeq(wire[d], 1, k[d]), FALSE)
    BY <1>2, <2>1, StreamBroken, Zenon DEF Direction
  <2>3. wire'[d] = SubSeq(wire[d], 1, k[d])
    BY <1>1
  <2>. QED
    BY <1>1, <2>2, <2>3, Zenon DEF Direction
<1>5. UNCHANGED <<self, id, phase, sent, got>>
  BY <1>1
<1>. QED
  BY <1>3, <1>4, <1>5, HandshakeSame, Zenon DEF IInv

\* e writes a frame, and reads none.
LEMMA StreamsWritten ==
  ASSUME TypeOK, Streams, NEW e \in Ends, NEW f, IsFrame(f), Writes(e, f),
         UNCHANGED <<buf, up, shut, got>>
  PROVE  Streams'
<1>1. Other(e) \in Ends /\ Other(Other(e)) = e /\ \A d \in Ends : d = e \/ d = Other(e)
  BY OtherEnd DEF Ends, Other
<1>2. Direction(e)'
  <2>1. Direction(e) /\ sent'[Other(e)] = sent[Other(e)] /\ wire'[e] = wire[e]
    BY WritesType, Zenon DEF Streams
  <2>. QED
    BY <2>1, DirectionSame, Zenon
<1>3. Direction(Other(e))'
  <2>1. Direction(Other(e)) /\ Writes(Other(Other(e)), f)
    BY <1>1, Zenon DEF Streams
  <2>. QED
    BY <1>1, <2>1, DirectionWritten, Zenon
<1>. QED
  BY <1>1, <1>2, <1>3, Zenon DEF Streams

\* An end that has left the handshake, or a stranger, writes a frame.
LEMMA LaterWrite ==
  ASSUME IInv, NEW e \in Ends, NEW f, IsFrame(f), Writes(e, f),
         phase[e] \in {"session", "strange"},
         writes[e] < MaxWrites, writes' = [writes EXCEPT ![e] = @ + 1],
         UNCHANGED <<self, id, phase, buf, up, shut, got>>
  PROVE  IInv'
<1>1. TypeOK'
  <2>1. writes' \in [Ends -> 0..MaxWrites]
    BY HandshakeAssumption DEF IInv, TypeOK
  <2>2. sent' \in [Ends -> Seq(Seq(Bytes))] /\ wire' \in [Ends -> Seq(Bytes)]
    BY WritesType, Zenon DEF IInv
  <2>. QED
    BY <2>1, <2>2 DEF IInv, TypeOK
<1>2. Streams'
  BY StreamsWritten, Zenon DEF IInv
<1>3. sent'[e] = Append(sent[e], f) /\ sent'[Other(e)] = sent[Other(e)]
  BY WritesType, Zenon DEF IInv
<1>4. Len(sent'[e]) > 0 /\ (Len(sent[e]) > 0 => sent'[e][1] = sent[e][1])
  <2>1. sent[e] \in Seq(Seq(Bytes)) /\ f \in Seq(Bytes)
    BY DEF IInv, TypeOK, IsFrame
  <2>2. /\ Len(Append(sent[e], f)) > 0
        /\ Len(sent[e]) > 0 => Append(sent[e], f)[1] = sent[e][1]
    BY <2>1, FirstStays, ZenonT(30)
  <2>. QED
    BY <1>3, <2>2, Zenon
<1>5. /\ \A d \in Ends : Done(d)' <=> Done(d)
      /\ \A d \in Ends : IsNode(d)' <=> IsNode(d)
  BY DEF Done, IsNode
<1>6. /\ "client" \in Ends /\ "server" \in Ends
      /\ Other("client") = "server" /\ Other("server") = "client"
  BY DEF Ends, Other
<1>7. IsNode(e) => Done(e) /\ phase[e] \notin Handshaking
  BY DEF IInv, Roles, Done, Handshaking
<1>8. Roles' /\ Accepted' /\ ClientLast' /\ NodesNeverPanic'
  BY <1>5, <1>6, OtherEnd DEF IInv, Roles, Accepted, ClientLast, NodesNeverPanic
<1>9. ClientSide'
  <2>1. CASE e = "client"
    BY <1>4, <1>5, <1>6, <1>7, <2>1 DEF IInv, ClientSide, Handshaking
  <2>2. CASE e # "client"
    <3>1. sent'["client"] = sent["client"]
      BY <1>3, <1>6, <2>2 DEF Ends
    <3>. QED
      BY <1>5, <1>6, <3>1 DEF IInv, ClientSide
  <2>. QED
    BY <2>1, <2>2
<1>10. ServerSide'
  <2>1. CASE e = "server"
    BY <1>4, <1>5, <1>6, <1>7, <2>1 DEF IInv, ServerSide, Handshaking
  <2>2. CASE e # "server"
    <3>1. sent'["server"] = sent["server"]
      BY <1>3, <1>6, <2>2 DEF Ends
    <3>. QED
      BY <1>5, <1>6, <3>1 DEF IInv, ServerSide
  <2>. QED
    BY <2>1, <2>2
<1>. QED
  BY <1>1, <1>2, <1>8, <1>9, <1>10 DEF IInv

\* A goroutine of the session writes.
LEMMA SessionWritesStep ==
  ASSUME IInv, NEW e \in Ends, SessionWrites(e)
  PROVE  IInv'
<1>1. /\ phase[e] = "session" /\ writes[e] < MaxWrites
      /\ writes' = [writes EXCEPT ![e] = @ + 1]
      /\ UNCHANGED <<self, id, phase, buf, up, shut, got>>
      /\ Writes(e, Heartbeat(self[e])) \/ WriteFails(e)
  BY DEF SessionWrites
<1>2. CASE Writes(e, Heartbeat(self[e]))
  <2>1. self[e] \in Nodes
    BY <1>1 DEF IInv, TypeOK, Roles, IsNode
  <2>2. IsFrame(Heartbeat(self[e]))
    BY <2>1, HeartbeatFrame
  <2>3. phase[e] \in {"session", "strange"}
    BY <1>1
  <2>. QED
    BY <1>1, <1>2, <2>2, <2>3, LaterWrite, Zenon
<1>3. CASE WriteFails(e)
  <2>1. UNCHANGED <<wire, sent>>
    BY <1>3 DEF WriteFails
  <2>2. TypeOK'
    <3>1. writes' \in [Ends -> 0..MaxWrites]
      BY <1>1, HandshakeAssumption DEF IInv, TypeOK
    <3>. QED
      BY <1>1, <2>1, <3>1 DEF IInv, TypeOK
  <2>3. Streams'
    BY <1>1, <2>1, StreamsClose, Zenon
  <2>4. UNCHANGED <<self, id, phase, sent, got>>
    BY <1>1, <2>1
  <2>. QED
    BY <2>2, <2>3, <2>4, HandshakeSame, Zenon DEF IInv
<1>. QED
  BY <1>1, <1>2, <1>3

\* A stranger writes.
LEMMA StrangerWritesStep ==
  ASSUME IInv, NEW e \in Ends, NEW f \in StrangeFrames, StrangerWrites(e, f)
  PROVE  IInv'
<1>1. /\ phase[e] = "strange" /\ writes[e] < MaxWrites
      /\ writes' = [writes EXCEPT ![e] = @ + 1]
      /\ UNCHANGED <<self, id, phase, buf, up, shut, got>>
      /\ Writes(e, f)
  BY Zenon DEF StrangerWrites
<1>2. IsFrame(f) /\ phase[e] \in {"session", "strange"}
  BY <1>1, HandshakeAssumption
<1>. QED
  BY <1>1, <1>2, LaterWrite, Zenon

\* A frame is taken at e; what the other end reads does not change.
LEMMA TakenType ==
  ASSUME TypeOK, NEW e \in Ends, TakeFrame(e)
  PROVE  /\ buf' \in [Ends -> Seq(Bytes)]
         /\ got' \in [Ends -> Seq(Seq(Bytes))]
         /\ buf'[Other(e)] = buf[Other(e)]
         /\ got'[Other(e)] = got[Other(e)]
<1>1. buf[e] \in Seq(Bytes) /\ got[e] \in Seq(Seq(Bytes))
  BY DEF TypeOK
<1>2. Append(got[e], buf[e]) \in Seq(Seq(Bytes)) /\ << >> \in Seq(Bytes)
  BY <1>1
<1>3. buf' \in [Ends -> Seq(Bytes)] /\ got' \in [Ends -> Seq(Seq(Bytes))]
  BY <1>2 DEF TakeFrame, TypeOK
<1>4. buf'[Other(e)] = buf[Other(e)] /\ got'[Other(e)] = got[Other(e)]
  BY OtherEnd DEF TakeFrame, TypeOK
<1>. QED
  BY <1>3, <1>4

\* e takes a frame, and writes none.
LEMMA StreamsTaken ==
  ASSUME TypeOK, Streams, NEW e \in Ends, TakeFrame(e),
         UNCHANGED <<wire, up, sent>>,
         \A d \in Ends : ~shut'[d] => ~shut[d]
  PROVE  Streams'
<1>1. Other(e) \in Ends /\ \A d \in Ends : d = e \/ d = Other(e)
  BY OtherEnd DEF Ends, Other
<1>2. Direction(e) /\ Direction(Other(e))
  BY <1>1, Zenon DEF Streams
<1>3. Direction(e)'
  BY <1>2, DirectionTaken, Zenon
<1>4. Direction(Other(e))'
  BY <1>1, <1>2, TakenType, DirectionSame, Zenon
<1>. QED
  BY <1>1, <1>3, <1>4, Zenon DEF Streams

\* readLoop takes a frame.
LEMMA SessionReadsStep ==
  ASSUME IInv, NEW e \in Ends, SessionReads(e)
  PROVE  IInv'
<1>1. /\ phase[e] = "session" /\ TakeFrame(e)
      /\ UNCHANGED <<self, id, phase, wire, up, shut, writes, sent>>
  BY DEF SessionReads
<1>2. TypeOK'
  <2>1. buf' \in [Ends -> Seq(Bytes)] /\ got' \in [Ends -> Seq(Seq(Bytes))]
    BY <1>1, TakenType, Zenon DEF IInv
  <2>. QED
    BY <1>1, <2>1 DEF IInv, TypeOK
<1>3. Streams'
  BY <1>1, StreamsTaken, Zenon DEF IInv
<1>4. /\ \A d \in Ends : Done(d)' <=> Done(d)
      /\ \A d \in Ends : IsNode(d)' <=> IsNode(d)
  BY <1>1 DEF Done, IsNode
<1>5. /\ "client" \in Ends /\ "server" \in Ends
      /\ Other("client") = "server" /\ Other("server") = "client"
  BY DEF Ends, Other
<1>6. \A d \in Ends : phase[d] \in Handshaking => got'[d] = got[d]
  <2>1. got'[Other(e)] = got[Other(e)]
    BY <1>1, TakenType, Zenon DEF IInv
  <2>. QED
    BY <1>1, <2>1 DEF Ends, Other, Handshaking
<1>7. Roles' /\ Accepted' /\ ClientLast' /\ NodesNeverPanic'
  BY <1>1, <1>4, <1>5, OtherEnd DEF IInv, Roles, Accepted, ClientLast, NodesNeverPanic
<1>8. ClientSide'
  BY <1>1, <1>4, <1>5, <1>6, Zenon DEF IInv, ClientSide, Handshaking
<1>9. ServerSide'
  BY <1>1, <1>4, <1>5, <1>6, Zenon DEF IInv, ServerSide, Handshaking
<1>. QED
  BY <1>2, <1>3, <1>7, <1>8, <1>9 DEF IInv

\* The client writes the request, or fails.
LEMMA ClientHelloStep ==
  ASSUME IInv, ClientHello
  PROVE  IInv'
<1>. DEFINE f == HelloRequest(self["client"], id["client"])
<1>1. /\ "client" \in Ends /\ "server" \in Ends
      /\ Other("client") = "server" /\ Other("server") = "client"
  BY DEF Ends, Other
<1>2. /\ phase["client"] = "hello"
      /\ UNCHANGED <<self, id, buf, up, writes, got>>
  BY DEF ClientHello
<1>3. IsNode("client") /\ self["client"] \in Nodes /\ id["client"] \in Nodes \cup {NoId}
  BY <1>1, <1>2 DEF IInv, TypeOK, Roles, IsNode
<1>4. IsFrame(f) /\ f \in Seq(Bytes)
  <2>1. Version[self["client"]] \in Nat /\ typeHelloRequest \in Nat
    BY <1>3, HandshakeAssumption DEF typeHelloRequest
  <2>2. f = Marshal(Version[self["client"]], typeHelloRequest, <<self["client"], id["client"]>>)
    BY DEF HelloRequest
  <2>. HIDE DEF f
  <2>3. IsFrame(f)
    BY <1>3, <2>1, <2>2, HelloFrame
  <2>. QED
    BY <2>3, Zenon DEF IsFrame
<1>5. CASE /\ Writes("client", f)
           /\ phase' = [phase EXCEPT !["client"] = "reply"]
           /\ UNCHANGED shut
  <2>. HIDE DEF f
  <2>1. TypeOK'
    <3>1. sent' \in [Ends -> Seq(Seq(Bytes))] /\ wire' \in [Ends -> Seq(Bytes)]
      BY <1>1, <1>4, <1>5, WritesType, Zenon DEF IInv
    <3>2. phase' \in [Ends -> Handshaking \cup
                        {"addpeer", "session", "ended", "failed", "panic", "strange"}]
      BY <1>5, Zenon DEF IInv, TypeOK, Handshaking
    <3>. QED
      BY <1>2, <1>5, <3>1, <3>2 DEF IInv, TypeOK
  <2>2. Streams'
    BY <1>1, <1>2, <1>4, <1>5, StreamsWritten, Zenon DEF IInv
  <2>3. /\ sent'["client"] = Append(sent["client"], f)
        /\ sent'["server"] = sent["server"]
    BY <1>1, <1>4, <1>5, WritesType, Zenon DEF IInv
  <2>4. Len(sent'["client"]) > 0 /\ sent'["client"][1] = f
    <3>1. sent["client"] = << >>
      BY <1>2, <1>3, Zenon DEF IInv, ClientSide
    <3>2. sent["client"] \in Seq(Seq(Bytes))
      BY <1>1 DEF IInv, TypeOK
    <3>3. Len(Append(sent["client"], f)) > 0 /\ Append(sent["client"], f)[1] = f
      BY <1>4, <3>1, <3>2, FirstStays, Zenon
    <3>. QED
      BY <2>3, <3>3, Zenon
  <2>5. phase'["client"] = "reply" /\ phase'["server"] = phase["server"]
    BY <1>1, <1>5 DEF IInv, TypeOK
  <2>6. \A d \in Ends : (Done(d)' <=> Done(d)) /\ (IsNode(d)' <=> IsNode(d))
    BY <1>2, <2>5 DEF Done, IsNode, Ends
  <2>7. ~Done("client")
    BY <1>2 DEF Done
  <2>8. Roles' /\ Accepted' /\ ClientLast'
    BY <1>1, <1>2, <2>5, <2>6 DEF IInv, Roles, Accepted, ClientLast, Ends
  <2>9. NodesNeverPanic'
    BY <1>1, <1>2, <2>5, <2>6 DEF IInv, NodesNeverPanic, Ends
  <2>10. ClientSide'
    <3>1. f = HelloRequest(self["client"], id["client"])'
      BY <1>2 DEF f, HelloRequest, Marshal
    <3>2. got'["client"] = << >>
      BY <1>2, <1>3, Zenon DEF IInv, ClientSide
    <3>. QED
      BY <2>4, <2>5, <3>1, <3>2 DEF ClientSide
  <2>11. ServerSide'
    BY <1>1, <1>2, <2>3, <2>5, <2>6 DEF IInv, ServerSide
  <2>. QED
    BY <2>1, <2>2, <2>8, <2>9, <2>10, <2>11 DEF IInv
<1>6. CASE WriteFails("client") /\ Fail("client")
  <2>1. /\ UNCHANGED <<sent, wire>>
        /\ phase' = [phase EXCEPT !["client"] = "failed"]
        /\ shut' = [shut EXCEPT !["client"] = TRUE]
    BY <1>6 DEF WriteFails, Fail
  <2>2. shut' \in [Ends -> BOOLEAN] /\ \A d \in Ends : ~shut'[d] => ~shut[d]
    BY <2>1, Zenon DEF IInv, TypeOK
  <2>3. TypeOK'
    <3>1. phase' \in [Ends -> Handshaking \cup
                        {"addpeer", "session", "ended", "failed", "panic", "strange"}]
      BY <2>1, Zenon DEF IInv, TypeOK
    <3>. QED
      BY <1>2, <2>1, <2>2, <3>1 DEF IInv, TypeOK
  <2>4. Streams'
    BY <1>2, <2>1, <2>2, StreamsClose, Zenon
  <2>5. /\ Roles' /\ ClientSide' /\ ServerSide'
        /\ Accepted' /\ ClientLast' /\ NodesNeverPanic'
    <3>1. /\ phase["client"] # "strange"
          /\ "failed" \notin Handshaking \cup {"strange", "panic"}
          /\ Done("client") <=> "failed" \in {"addpeer", "session", "ended"}
      BY <1>2 DEF Handshaking, Done
    <3>2. UNCHANGED <<self, id, sent, got>>
      BY <1>2, <2>1
    <3>. QED
      BY <1>1, <2>1, <3>1, <3>2, PhaseStep, Zenon
  <2>. QED
    BY <2>3, <2>4, <2>5 DEF IInv
<1>. QED
  BY <1>5, <1>6 DEF ClientHello

\* A client that reads a reply reads the first frame of the server, which has
\* accepted it if it is a node.
LEMMA ReplyRead ==
  ASSUME IInv, phase["client"] = "reply", TakeFrame("client"),
         UNCHANGED <<wire, up, sent>>, \A d \in Ends : ~shut'[d] => ~shut[d]
  PROVE  /\ Streams'
         /\ IsNode("server") => /\ Done("server")
                                /\ ~NoHello(buf["client"], typeReHelloRequest)
<1>1. /\ "client" \in Ends /\ "server" \in Ends
      /\ Other("client") = "server" /\ Other("server") = "client"
  BY DEF Ends, Other
<1>2. Streams'
  BY <1>1, StreamsTaken, Zenon DEF IInv
<1>3. ASSUME IsNode("server")
      PROVE  Done("server") /\ ~NoHello(buf["client"], typeReHelloRequest)
  <2>1. IsNode("client")
    BY <1>1 DEF IInv, Roles
  <2>2. got["client"] = << >>
    BY <2>1 DEF IInv, ClientSide
  <2>3. /\ Len(got["client"]) < Len(sent["server"])
        /\ buf["client"] = sent["server"][Len(got["client"]) + 1]
    BY <1>1, DirectionTaken, Zenon DEF IInv, Streams
  <2>4. Len(got["client"]) = 0
    BY <2>2
  <2>5. Len(sent["server"]) > 0 /\ buf["client"] = sent["server"][1]
    BY <2>3, <2>4
  <2>6. Done("server") /\ buf["client"] = HelloReRequest(self["server"], id["server"])
    BY <1>3, <2>5, Zenon DEF IInv, ServerSide
  <2>7. /\ self["server"] \in Nodes /\ id["server"] \in Nodes \cup {NoId}
        /\ Version[self["server"]] \in Nat /\ typeReHelloRequest \in Nat
    BY <1>1, <1>3, HandshakeAssumption DEF IInv, TypeOK, IsNode, typeReHelloRequest
  <2>8. ~NoHello(buf["client"], typeReHelloRequest)
    <3>1. buf["client"] = Marshal(Version[self["server"]], typeReHelloRequest,
                                  <<self["server"], id["server"]>>)
      BY <2>6, Zenon DEF HelloReRequest
    <3>2. \A type : NoHello(buf["client"], type) <=> typeReHelloRequest # type
      BY <2>7, <3>1, HelloFrame
    <3>. QED
      BY <3>2
  <2>. QED
    BY <2>6, <2>8
<1>. QED
  BY <1>2, <1>3

\* The client reads the reply.
LEMMA ClientReplyStep ==
  ASSUME IInv, ClientReply
  PROVE  IInv'
<1>1. /\ "client" \in Ends /\ "server" \in Ends
      /\ Other("client") = "server" /\ Other("server") = "client"
  BY DEF Ends, Other
<1>2. /\ phase["client"] = "reply" /\ TakeFrame("client")
      /\ UNCHANGED <<self, id, wire, up, writes, sent>>
  BY DEF ClientReply
<1>3. PICK ph \in {"panic", "addpeer", "failed"} :
        /\ phase' = [phase EXCEPT !["client"] = ph]
        /\ shut' = shut \/ shut' = [shut EXCEPT !["client"] = TRUE]
        /\ ph = "panic" => NoHello(buf["client"], typeReHelloRequest)
  BY DEF ClientReply, Panic, Fail
<1>4. shut' \in [Ends -> BOOLEAN] /\ \A d \in Ends : ~shut'[d] => ~shut[d]
  BY <1>3, Zenon DEF IInv, TypeOK
<1>5. /\ Streams'
      /\ IsNode("server") => Done("server") /\ ~NoHello(buf["client"], typeReHelloRequest)
  BY <1>2, <1>4, ReplyRead, Zenon
<1>6. TypeOK'
  <2>1. buf' \in [Ends -> Seq(Bytes)] /\ got' \in [Ends -> Seq(Seq(Bytes))]
    BY <1>1, <1>2, TakenType, Zenon DEF IInv
  <2>2. phase' \in [Ends -> Handshaking \cup
                      {"addpeer", "session", "ended", "failed", "panic", "strange"}]
    BY <1>3, Zenon DEF IInv, TypeOK
  <2>. QED
    BY <1>2, <1>4, <2>1, <2>2 DEF IInv, TypeOK
<1>7. /\ phase'["client"] = ph /\ phase'["server"] = phase["server"]
      /\ Done("server")' <=> Done("server")
      /\ got'["server"] = got["server"]
  <2>1. phase'["client"] = ph /\ phase'["server"] = phase["server"]
    BY <1>1, <1>3 DEF IInv, TypeOK
  <2>2. got'["server"] = got["server"]
    BY <1>1, <1>2, TakenType, Zenon DEF IInv
  <2>. QED
    BY <2>1, <2>2 DEF Done
<1>8. \A d \in Ends : IsNode(d)' <=> IsNode(d)
  BY <1>2 DEF IsNode
<1>9. Roles' /\ Accepted'
  BY <1>1, <1>2, <1>7, <1>8 DEF IInv, Roles, Accepted, Ends
<1>10. ClientLast'
  BY <1>1, <1>5, <1>7, <1>8 DEF ClientLast
<1>11. NodesNeverPanic'
  BY <1>1, <1>3, <1>5, <1>7, <1>8 DEF IInv, NodesNeverPanic, Ends
<1>12. ClientSide'
  <2>1. IsNode("client") => /\ Len(sent["client"]) > 0
                            /\ sent["client"][1] = HelloRequest(self["client"], id["client"])
    BY <1>2, Zenon DEF IInv, ClientSide
  <2>2. phase'["client"] \notin {"hello", "reply"}
    BY <1>7
  <2>3. HelloRequest(self["client"], id["client"])' = HelloRequest(self["client"], id["client"])
    BY <1>2 DEF HelloRequest, Marshal
  <2>. QED
    BY <1>1, <1>2, <1>8, <2>1, <2>2, <2>3 DEF ClientSide
<1>13. ServerSide'
  BY <1>1, <1>2, <1>7, <1>8 DEF IInv, ServerSide
<1>. QED
  BY <1>5, <1>6, <1>9, <1>10, <1>11, <1>12, <1>13 DEF IInv

\* What a server that takes its first frame has read: a frame, and if the
\* other end is a node its request.
LEMMA RequestRead ==
  ASSUME IInv, phase["server"] = "request", TakeFrame("server"),
         sent'["client"] = sent["client"], wire'["server"] = wire["server"], up' = up,
         ~shut'["server"] => ~shut["server"]
  PROVE  /\ Direction("server")'
         /\ IsFrame(buf["server"])
         /\ IsNode("client") =>
              /\ ~NoHello(buf["server"], typeHelloRequest)
              /\ FrameVersion(buf["server"]) = Version[self["client"]]
              /\ HelloId(buf["server"]) = self["client"]
              /\ HelloReceiveId(buf["server"]) = id["client"]
<1>1. /\ "client" \in Ends /\ "server" \in Ends
      /\ Other("client") = "server" /\ Other("server") = "client"
  BY DEF Ends, Other
<1>2. /\ Direction("server")' /\ IsFrame(buf["server"])
      /\ Len(got["server"]) < Len(sent["client"])
      /\ buf["server"] = sent["client"][Len(got["server"]) + 1]
  BY <1>1, DirectionTaken, ZenonT(30) DEF IInv, Streams
<1>3. ASSUME IsNode("client")
      PROVE  /\ ~NoHello(buf["server"], typeHelloRequest)
             /\ FrameVersion(buf["server"]) = Version[self["client"]]
             /\ HelloId(buf["server"]) = self["client"]
             /\ HelloReceiveId(buf["server"]) = id["client"]
  <2>1. IsNode("server")
    BY <1>1 DEF IInv, Roles
  <2>2. got["server"] = << >>
    BY <2>1 DEF IInv, ServerSide
  <2>3. Len(got["server"]) = 0
    BY <2>2
  <2>4. /\ Len(got["server"]) < Len(sent["client"])
        /\ buf["server"] = sent["client"][Len(got["server"]) + 1]
    BY <1>2
  <2>5. Len(sent["client"]) > 0 /\ buf["server"] = sent["client"][1]
    BY <2>3, <2>4
  <2>6. buf["server"] = HelloRequest(self["client"], id["client"])
    BY <1>3, <2>5, Zenon DEF IInv, ClientSide
  <2>7. /\ self["client"] \in Nodes /\ id["client"] \in Nodes \cup {NoId}
        /\ Version[self["client"]] \in Nat /\ typeHelloRequest \in Nat
    BY <1>1, <1>3, HandshakeAssumption DEF IInv, TypeOK, IsNode, typeHelloRequest
  <2>8. buf["server"] = Marshal(Version[self["client"]], typeHelloRequest,
                                <<self["client"], id["client"]>>)
    BY <2>6, Zenon DEF HelloRequest
  <2>. QED
    BY <2>7, <2>8, HelloFrame
<1>. QED
  BY <1>2, <1>3

\* The server refuses what it has read, or what it read is no request.
LEMMA ServerRefuses ==
  ASSUME IInv, phase["server"] = "request", TakeFrame("server"),
         UNCHANGED <<self, wire, up, writes, sent>>,
         NEW ph \in {"panic", "failed"},
         phase' = [phase EXCEPT !["server"] = ph],
         shut' = [shut EXCEPT !["server"] = TRUE],
         id'["client"] = id["client"], id' \in [Ends -> Nodes \cup {NoId}],
         ph = "panic" => NoHello(buf["server"], typeHelloRequest)
  PROVE  IInv'
<1>1. /\ "client" \in Ends /\ "server" \in Ends
      /\ Other("client") = "server" /\ Other("server") = "client"
  BY DEF Ends, Other
<1>2. shut' \in [Ends -> BOOLEAN] /\ \A d \in Ends : ~shut'[d] => ~shut[d]
  BY Zenon DEF IInv, TypeOK
<1>3. Streams'
  BY <1>1, <1>2, StreamsTaken, Zenon DEF IInv
<1>4. IsNode("client") => ~NoHello(buf["server"], typeHelloRequest)
  BY <1>1, <1>2, RequestRead, Zenon
<1>5. TypeOK'
  <2>1. buf' \in [Ends -> Seq(Bytes)] /\ got' \in [Ends -> Seq(Seq(Bytes))]
    BY <1>1, TakenType, Zenon DEF IInv
  <2>2. phase' \in [Ends -> Handshaking \cup
                      {"addpeer", "session", "ended", "failed", "panic", "strange"}]
    BY Zenon DEF IInv, TypeOK
  <2>. QED
    BY <1>2, <2>1, <2>2, Zenon DEF IInv, TypeOK
<1>6. /\ phase'["server"] = ph /\ phase'["client"] = phase["client"]
      /\ ~Done("server") /\ ~Done("server")'
      /\ Done("client")' <=> Done("client")
  <2>1. phase'["server"] = ph /\ phase'["client"] = phase["client"]
    BY <1>1 DEF IInv, TypeOK
  <2>. QED
    BY <2>1 DEF Done
<1>7. got'["client"] = got["client"]
  BY <1>1, TakenType, Zenon DEF IInv
<1>8. \A d \in Ends : IsNode(d)' <=> IsNode(d)
  BY DEF IsNode
<1>9. Roles' /\ Accepted'
  BY <1>1, <1>6, <1>8 DEF IInv, Roles, Accepted, Ends
<1>10. ClientLast'
  BY <1>1, <1>6, <1>8 DEF IInv, ClientLast
<1>11. NodesNeverPanic'
  BY <1>1, <1>4, <1>6, <1>8 DEF IInv, NodesNeverPanic, Ends
<1>12. ClientSide'
  <2>1. HelloRequest(self["client"], id["client"])' = HelloRequest(self["client"], id["client"])
    BY DEF HelloRequest, Marshal
  <2>. QED
    BY <1>1, <1>6, <1>7, <1>8, <2>1 DEF IInv, ClientSide
<1>13. ServerSide'
  <2>1. IsNode("server") => ~(Len(sent["server"]) > 0)
    BY <1>6 DEF IInv, ServerSide
  <2>. QED
    BY <1>1, <1>6, <1>8, <2>1 DEF ServerSide
<1>. QED
  BY <1>3, <1>5, <1>9, <1>10, <1>11, <1>12, <1>13 DEF IInv

\* The server accepts the request and writes its reply.
LEMMA ServerAccepts ==
  ASSUME IInv, phase["server"] = "request", TakeFrame("server"),
         UNCHANGED <<self, up, shut, writes>>,
         ~NoHello(buf["server"], typeHelloRequest), Accepts("server", buf["server"]),
         id' = [id EXCEPT !["server"] = HelloId(buf["server"])],
         Writes("server", HelloReRequest(self["server"], HelloId(buf["server"]))),
         phase' = [phase EXCEPT !["server"] = "addpeer"]
  PROVE  IInv'
<1>. DEFINE g == HelloId(buf["server"])
            r == HelloReRequest(self["server"], g)
<1>1. /\ "client" \in Ends /\ "server" \in Ends
      /\ Other("client") = "server" /\ Other("server") = "client"
  BY DEF Ends, Other
<1>2. IsNode("server") /\ self["server"] \in Nodes
  BY <1>1 DEF IInv, TypeOK, Roles, IsNode
<1>3. IsFrame(buf["server"]) /\ g \in Nodes \cup {NoId}
  <2>1. Direction("server")
    BY <1>1, Zenon DEF IInv, Streams
  <2>2. /\ sent[Other("server")] \in Seq(Seq(Bytes)) /\ got["server"] \in Seq(Seq(Bytes))
        /\ buf["server"] \in Seq(Bytes) /\ wire["server"] \in Seq(Bytes)
    BY <1>1 DEF IInv, TypeOK
  <2>3. Complete(buf["server"])
    BY Zenon DEF TakeFrame
  <2>4. IsFrame(buf["server"])
    BY <2>1, <2>2, <2>3, StreamTaken, Zenon DEF Direction
  <2>. QED
    BY <2>4, HelloIdType, Zenon DEF NoHello
<1>4. IsFrame(r) /\ r \in Seq(Bytes)
  <2>1. Version[self["server"]] \in Nat /\ typeReHelloRequest \in Nat
    BY <1>2, HandshakeAssumption DEF typeReHelloRequest
  <2>2. r = Marshal(Version[self["server"]], typeReHelloRequest, <<self["server"], g>>)
    BY DEF HelloReRequest
  <2>. HIDE DEF r, g
  <2>3. IsFrame(r)
    BY <1>2, <1>3, <2>1, <2>2, HelloFrame
  <2>. QED
    BY <2>3, Zenon DEF IsFrame
<1>5. /\ id' = [id EXCEPT !["server"] = g] /\ Writes("server", r)
  OBVIOUS
<1>6. id'["server"] = g /\ id'["client"] = id["client"]
      /\ id' \in [Ends -> Nodes \cup {NoId}]
  BY <1>1, <1>3 DEF IInv, TypeOK
<1>7. /\ sent' \in [Ends -> Seq(Seq(Bytes))] /\ wire' \in [Ends -> Seq(Bytes)]
      /\ sent'["server"] = Append(sent["server"], r)
      /\ sent'["client"] = sent["client"] /\ wire'["server"] = wire["server"]
  BY <1>1, <1>4, <1>5, WritesType, Zenon DEF IInv
<1>8. /\ buf' \in [Ends -> Seq(Bytes)] /\ got' \in [Ends -> Seq(Seq(Bytes))]
      /\ buf'["client"] = buf["client"] /\ got'["client"] = got["client"]
  BY <1>1, TakenType, Zenon DEF IInv
<1>9. TypeOK'
  <2>1. phase' \in [Ends -> Handshaking \cup
                      {"addpeer", "session", "ended", "failed", "panic", "strange"}]
    BY Zenon DEF IInv, TypeOK
  <2>. QED
    BY <1>6, <1>7, <1>8, <2>1, Zenon DEF IInv, TypeOK
<1>10. /\ Direction("server")'
       /\ IsNode("client") => /\ FrameVersion(buf["server"]) = Version[self["client"]]
                              /\ HelloId(buf["server"]) = self["client"]
                              /\ HelloReceiveId(buf["server"]) = id["client"]
  BY <1>7, RequestRead, Zenon
<1>11. Streams'
  <2>1. Direction("client") /\ Writes(Other("client"), r)
    BY <1>1, <1>5, Zenon DEF IInv, Streams
  <2>2. Direction("client")'
    BY <1>1, <1>4, <1>8, <2>1, DirectionWritten, ZenonT(30) DEF IInv
  <2>3. \A d \in Ends : d = "client" \/ d = "server"
    BY DEF Ends
  <2>. QED
    BY <1>10, <2>2, <2>3, Zenon DEF Streams
<1>12. /\ phase'["server"] = "addpeer" /\ phase'["client"] = phase["client"]
       /\ Done("server")' /\ ~Done("server")
       /\ Done("client")' <=> Done("client")
  <2>1. phase'["server"] = "addpeer" /\ phase'["client"] = phase["client"]
    BY <1>1 DEF IInv, TypeOK
  <2>. QED
    BY <2>1 DEF Done
<1>13. \A d \in Ends : IsNode(d)' <=> IsNode(d)
  BY DEF IsNode
<1>14. Roles' /\ ClientLast' /\ NodesNeverPanic'
  BY <1>1, <1>12, <1>13 DEF IInv, Roles, ClientLast, NodesNeverPanic, Ends
<1>15. Accepted'
  <2>1. ASSUME IsNode("client")
        PROVE  /\ g = self["client"] /\ id["client"] = self["server"]
               /\ Version[self["server"]] = Version[self["client"]]
    BY <1>10, <2>1, Zenon DEF Accepts
  <2>. QED
    BY <1>1, <1>6, <1>13, <2>1, Zenon DEF Accepted
<1>16. ClientSide'
  <2>1. HelloRequest(self["client"], id["client"])' = HelloRequest(self["client"], id["client"])
    BY <1>6 DEF HelloRequest, Marshal
  <2>. QED
    BY <1>1, <1>7, <1>8, <1>12, <1>13, <2>1, ZenonT(30) DEF IInv, ClientSide
<1>17. ServerSide'
  <2>1. sent["server"] = << >> /\ sent["server"] \in Seq(Seq(Bytes))
    BY <1>1, <1>2 DEF IInv, TypeOK, ServerSide
  <2>. HIDE DEF r
  <2>2. Len(Append(sent["server"], r)) > 0 /\ Append(sent["server"], r)[1] = r
    BY <1>4, <2>1, FirstStays, Zenon
  <2>3. Len(sent'["server"]) > 0 /\ sent'["server"][1] = r
    BY <1>7, <2>2, Zenon
  <2>4. HelloReRequest(self["server"], id["server"])' = HelloReRequest(self["server"], g)
    BY <1>6 DEF HelloReRequest, Marshal
  <2>5. r = HelloReRequest(self["server"], id["server"])'
    BY <2>4 DEF r
  <2>. QED
    BY <1>12, <2>3, <2>5 DEF ServerSide
<1>. QED
  BY <1>9, <1>11, <1>14, <1>15, <1>16, <1>17 DEF IInv

\* The server reads the request.
LEMMA ServerRequestStep ==
  ASSUME IInv, ServerRequest
  PROVE  IInv'
<1>1. /\ phase["server"] = "request" /\ TakeFrame("server")
      /\ UNCHANGED <<self, up, writes>>
  BY DEF ServerRequest
<1>2. "server" \in Ends /\ "client" \in Ends /\ id \in [Ends -> Nodes \cup {NoId}]
  BY DEF Ends, IInv, TypeOK
<1>3. CASE /\ NoHello(buf["server"], typeHelloRequest)
           /\ Panic("server") /\ UNCHANGED <<id, wire, sent>>
  <2>1. /\ phase' = [phase EXCEPT !["server"] = "panic"]
        /\ shut' = [shut EXCEPT !["server"] = TRUE]
        /\ "panic" \in {"panic", "failed"}
        /\ UNCHANGED <<self, wire, up, writes, sent>>
        /\ id'["client"] = id["client"] /\ id' \in [Ends -> Nodes \cup {NoId}]
    BY <1>1, <1>2, <1>3 DEF Panic
  <2>. QED
    BY <1>1, <1>3, <2>1, ServerRefuses, Zenon
<1>4. CASE ~Accepts("server", buf["server"]) /\ Fail("server") /\ UNCHANGED <<id, wire, sent>>
  <2>1. /\ phase' = [phase EXCEPT !["server"] = "failed"]
        /\ shut' = [shut EXCEPT !["server"] = TRUE]
        /\ "failed" \in {"panic", "failed"} /\ "failed" # "panic"
        /\ UNCHANGED <<self, wire, up, writes, sent>>
        /\ id'["client"] = id["client"] /\ id' \in [Ends -> Nodes \cup {NoId}]
    BY <1>1, <1>2, <1>4 DEF Fail
  <2>. QED
    BY <1>1, <2>1, ServerRefuses, Zenon
<1>5. ASSUME ~NoHello(buf["server"], typeHelloRequest), Accepts("server", buf["server"]),
             id' = [id EXCEPT !["server"] = HelloId(buf["server"])]
      PROVE  /\ /\ Writes("server", HelloReRequest(self["server"], HelloId(buf["server"])))
                /\ phase' = [phase EXCEPT !["server"] = "addpeer"]
                /\ UNCHANGED shut
                => IInv'
             /\ WriteFails("server") /\ Fail("server") => IInv'
  <2>1. ASSUME Writes("server", HelloReRequest(self["server"], HelloId(buf["server"]))),
               phase' = [phase EXCEPT !["server"] = "addpeer"],
               UNCHANGED shut
        PROVE  IInv'
    BY <1>1, <1>5, <2>1, ServerAccepts, Zenon
  <2>2. ASSUME WriteFails("server"), Fail("server")
        PROVE  IInv'
    <3>1. /\ phase' = [phase EXCEPT !["server"] = "failed"]
          /\ shut' = [shut EXCEPT !["server"] = TRUE]
          /\ "failed" \in {"panic", "failed"} /\ "failed" # "panic"
          /\ UNCHANGED <<self, wire, up, writes, sent>>
      BY <1>1, <2>2 DEF Fail, WriteFails
    <3>2. HelloId(buf["server"]) \in Nodes \cup {NoId}
      <4>1. sent'["client"] = sent["client"] /\ wire'["server"] = wire["server"]
            /\ up' = up /\ (~shut'["server"] => ~shut["server"])
        BY <1>2, <3>1 DEF IInv, TypeOK
      <4>2. IsFrame(buf["server"])
        BY <1>1, <4>1, RequestRead, Zenon
      <4>. QED
        BY <1>5, <4>2, HelloIdType, Zenon DEF NoHello
    <3>3. id'["client"] = id["client"] /\ id' \in [Ends -> Nodes \cup {NoId}]
      BY <1>2, <1>5, <3>2
    <3>. QED
      BY <1>1, <3>1, <3>3, ServerRefuses, Zenon
  <2>. QED
    BY <2>1, <2>2
<1>. QED
  BY <1>3, <1>4, <1>5, Zenon DEF ServerRequest

-----------------------------------------------------------------------------
(* The theorems. *)

\* Every step keeps the invariant.
LEMMA NextIInv == IInv /\ [Next]_vars => IInv'
<1>. SUFFICES ASSUME IInv, [Next]_vars
              PROVE  IInv'
  OBVIOUS
<1>1. CASE UNCHANGED vars
  <2>1. /\ UNCHANGED <<self, id, phase, sent, got>>
        /\ UNCHANGED <<wire, buf, sent, got, up>>
        /\ UNCHANGED <<shut, writes>>
    BY <1>1 DEF vars
  <2>2. TypeOK'
    BY <2>1 DEF IInv, TypeOK
  <2>3. Streams'
    BY <2>1, StreamsClose, Zenon
  <2>. QED
    BY <2>1, <2>2, <2>3, HandshakeSame, Zenon DEF IInv
<1>2. CASE Client
  BY <1>2, ClientHelloStep, ClientReplyStep, Zenon DEF Client
<1>3. CASE Server
  BY <1>3, ServerRequestStep, Zenon DEF Server
<1>4. ASSUME NEW e \in Ends,
             \/ Read(e)
             \/ AddPeer(e)
             \/ SessionWrites(e)
             \/ SessionReads(e)
             \/ \E f \in StrangeFrames : StrangerWrites(e, f)
             \/ StrangerCloses(e)
      PROVE  IInv'
  BY <1>4, ReadByteStep, ReadFailsStep, AddPeerStep, SessionWritesStep, SessionReadsStep,
     StrangerWritesStep, StrangerClosesStep, Zenon DEF Read
<1>5. ASSUME NEW i \in 0..Len(wire["client"]), NEW j \in 0..Len(wire["server"]),
             Break([e \in Ends |-> IF e = "client" THEN i ELSE j])
      PROVE  IInv'
  <2>1. PICK k : k = [e \in Ends |-> IF e = "client" THEN i ELSE j]
    BY Zenon
  <2>2. \A e \in Ends : k[e] \in 0..Len(wire[e])
    BY <2>1 DEF Ends
  <2>3. Break(k)
    BY <1>5, <2>1, Zenon
  <2>. QED
    BY <2>2, <2>3, BreakStep, Zenon
<1>. QED
  BY <1>1, <1>2, <1>3, <1>4, <1>5, Zenon DEF Next

\* The handshake keeps its invariant, whatever the stranger writes and
\* wherever the connection breaks.
THEOREM HandshakeInvariant == SafetySpec => []IInv
  BY InitIInv, NextIInv, PTL DEF SafetySpec

\* serve of both ends: nodes that finish a handshake know each other, run the
\* same version, and the client is never alone in the session.
THEOREM AgreementHolds == Spec => []Agreement
<1>1. IInv => Agreement
  <2>. SUFFICES ASSUME IInv
                PROVE  Agreement
    OBVIOUS
  <2>1. /\ Other("client") = "server" /\ Other("server") = "client"
        /\ \A e \in Ends : e = "client" \/ e = "server"
        /\ "client" \in Ends
    BY DEF Ends, Other
  <2>2. Done("client") => IsNode("client")
    BY <2>1 DEF IInv, Roles, Done
  <2>. QED
    BY <2>1, <2>2 DEF IInv, Accepted, ClientLast, Agreement
<1>. QED
  BY <1>1, HandshakeInvariant, PTL DEF Spec

\* ReadMessage returns the frames that writeMessage was given, in order.
THEOREM FramesKeptHolds == Spec => []FramesKept
<1>1. IInv => FramesKept
  BY DEF IInv, Streams, Direction, Stream, FramesKept
<1>. QED
  BY <1>1, HandshakeInvariant, PTL DEF Spec

\* readHelloRequestMsg and readHelloReRequestMsg never return the missing
\* message when both ends are nodes.
THEOREM NodesNeverPanicHolds == Spec => []NodesNeverPanic
<1>1. IInv => NodesNeverPanic
  BY DEF IInv
<1>. QED
  BY <1>1, HandshakeInvariant, PTL DEF Spec
=============================================================================
