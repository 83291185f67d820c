------------------------- MODULE PeerSessionProofs -------------------------
(***************************************************************************)
(* Proofs about PeerSession, for any intervals and any traffic: the        *)
(* silence of an open session is bounded, and suicide ends no session with *)
(* a peer that is alive.                                                   *)
(***************************************************************************)
EXTENDS PeerSession, TLAPS

\* Steps with a large context need more time than the default.
USE SMTT(30)

\* suicide wakes up before the silence can pass the limit.
KillerInTime ==
  ~closed =>
    /\ killer # "returned"
    /\ silence + (IF killer = "sleep" THEN left ELSE 0) <= Limit

PongUnread == \E i \in 1..Len(inbox) : inbox[i] = "pong"

\* A pong is read before a heartbeat passes, and then the silence is no longer than
\* the time since a pong arrived.
PongsRead ==
  ~closed =>
    /\ reader = "returned" => ~link /\ inbox = << >>
    /\ ~stalled =>
         /\ heard > 0 => ~PongUnread
         /\ PongUnread \/ heard > AliveMax \/ silence <= heard

\* The conjuncts of TypeOK for Boolean variables.
Flags ==
  /\ closed \in BOOLEAN /\ panic \in BOOLEAN /\ link \in BOOLEAN /\ owed \in BOOLEAN
  /\ ticker \in BOOLEAN /\ managed \in BOOLEAN /\ stalled \in BOOLEAN

IInv == TypeOK /\ KillerInTime /\ PongsRead

USE SessionAssumption DEF Limit, Messages, readVars, timeVars, histVars

-----------------------------------------------------------------------------
(* The invariant is inductive. *)

\* readLoop keeps the invariant.
LEMMA ReaderInv ==
  ASSUME IInv, Reader \/ ReadError
  PROVE  IInv'
<1>1. CASE ReadSelect
  <2>1. TypeOK'
    BY <1>1 DEF IInv, TypeOK, ReadSelect
  <2>2. KillerInTime'
    BY <1>1 DEF IInv, TypeOK, KillerInTime, ReadSelect
  <2>3. PongsRead'
    BY <1>1 DEF IInv, TypeOK, PongsRead, PongUnread, ReadSelect
  <2>. QED
    BY <2>1, <2>2, <2>3 DEF IInv
<1>2. CASE ReadPing
  <2>1. TypeOK'
    <3>1. Flags'
      BY <1>2, Zenon DEF IInv, TypeOK, Flags, ReadPing, WriteOk, Close
    <3>. QED
      BY <1>2, <3>1 DEF IInv, TypeOK, Flags, ReadPing, WriteOk, Close
  <2>2. KillerInTime'
    BY <1>2 DEF IInv, TypeOK, KillerInTime, ReadPing, WriteOk, Close
  <2>3. PongsRead'
    BY <1>2 DEF IInv, TypeOK, PongsRead, PongUnread, ReadPing, WriteOk, Close
  <2>. QED
    BY <2>1, <2>2, <2>3 DEF IInv
<1>3. CASE ReadPong
  <2>1. TypeOK'
    BY <1>3 DEF IInv, TypeOK, ReadPong
  <2>2. KillerInTime'
    BY <1>3 DEF IInv, TypeOK, KillerInTime, ReadPong
  <2>3. PongsRead'
    BY <1>3 DEF IInv, TypeOK, PongsRead, PongUnread, ReadPong
  <2>. QED
    BY <2>1, <2>2, <2>3 DEF IInv
<1>4. CASE ReadData
  <2>1. TypeOK'
    BY <1>4 DEF IInv, TypeOK, ReadData
  <2>2. KillerInTime'
    BY <1>4 DEF IInv, TypeOK, KillerInTime, ReadData
  <2>3. PongsRead'
    BY <1>4 DEF IInv, TypeOK, PongsRead, PongUnread, ReadData
  <2>. QED
    BY <2>1, <2>2, <2>3 DEF IInv
<1>5. CASE Deliver
  <2>1. TypeOK'
    BY <1>5 DEF IInv, TypeOK, Deliver
  <2>2. KillerInTime' /\ PongsRead'
    BY <1>5 DEF IInv, KillerInTime, PongsRead, PongUnread, Deliver
  <2>. QED
    BY <2>1, <2>2 DEF IInv
<1>6. CASE ReadError
  <2>1. TypeOK'
    BY <1>6 DEF IInv, TypeOK, ReadError
  <2>2. KillerInTime'
    BY <1>6 DEF IInv, TypeOK, KillerInTime, ReadError
  <2>3. PongsRead'
    BY <1>6 DEF IInv, TypeOK, PongsRead, PongUnread, ReadError
  <2>. QED
    BY <2>1, <2>2, <2>3 DEF IInv
<1>. QED
  BY <1>1, <1>2, <1>3, <1>4, <1>5, <1>6 DEF Reader

\* The protocol, the remote peer and the server keep the invariant.
LEMMA OthersInv ==
  ASSUME IInv,
         \/ ProtocolReads \/ RemotePong \/ LinkBreaks \/ ServerCloses \/ ServerForgets
         \/ \E err \in BOOLEAN : ProtocolReturns(err)
         \/ \E m \in {"ping", "data"} : RemoteSends(m)
  PROVE  IInv'
<1>1. CASE ProtocolReads
  <2>1. TypeOK'
    BY <1>1 DEF IInv, TypeOK, ProtocolReads
  <2>2. KillerInTime' /\ PongsRead'
    BY <1>1 DEF IInv, KillerInTime, PongsRead, PongUnread, ProtocolReads
  <2>. QED
    BY <2>1, <2>2 DEF IInv
<1>2. ASSUME NEW err \in BOOLEAN, ProtocolReturns(err)  PROVE  IInv'
  <2>1. TypeOK'
    <3>1. Flags'
      BY <1>2, Zenon DEF IInv, TypeOK, Flags, ProtocolReturns, Close
    <3>. QED
      BY <1>2, <3>1 DEF IInv, TypeOK, Flags, ProtocolReturns, Close
  <2>2. KillerInTime' /\ PongsRead'
    BY <1>2 DEF IInv, KillerInTime, PongsRead, PongUnread, ProtocolReturns, Close
  <2>. QED
    BY <2>1, <2>2 DEF IInv
<1>3. CASE RemotePong
  <2>1. TypeOK'
    <3>1. Flags'
      BY <1>3, Zenon DEF IInv, TypeOK, Flags, RemotePong
    <3>. QED
      BY <1>3, <3>1 DEF IInv, TypeOK, Flags, RemotePong
  <2>2. KillerInTime'
    BY <1>3 DEF IInv, TypeOK, KillerInTime, RemotePong
  <2>3. PongsRead'
    BY <1>3 DEF IInv, TypeOK, PongsRead, PongUnread, RemotePong
  <2>. QED
    BY <2>1, <2>2, <2>3 DEF IInv
<1>4. ASSUME NEW m \in {"ping", "data"}, RemoteSends(m)  PROVE  IInv'
  <2>1. TypeOK'
    BY <1>4 DEF IInv, TypeOK, RemoteSends
  <2>2. KillerInTime'
    BY <1>4 DEF IInv, TypeOK, KillerInTime, RemoteSends
  <2>3. PongsRead'
    BY <1>4 DEF IInv, TypeOK, PongsRead, PongUnread, RemoteSends
  <2>. QED
    BY <2>1, <2>2, <2>3 DEF IInv
<1>5. CASE LinkBreaks
  <2>1. TypeOK'
    <3>1. Flags'
      BY <1>5, Zenon DEF IInv, TypeOK, Flags, LinkBreaks
    <3>. QED
      BY <1>5, <3>1 DEF IInv, TypeOK, Flags, LinkBreaks
  <2>2. KillerInTime' /\ PongsRead'
    BY <1>5 DEF IInv, KillerInTime, PongsRead, PongUnread, LinkBreaks
  <2>. QED
    BY <2>1, <2>2 DEF IInv
<1>6. CASE ServerCloses
  <2>1. TypeOK'
    <3>1. Flags'
      BY <1>6, Zenon DEF IInv, TypeOK, Flags, ServerCloses, Close
    <3>. QED
      BY <1>6, <3>1 DEF IInv, TypeOK, Flags, ServerCloses, Close
  <2>2. KillerInTime' /\ PongsRead'
    BY <1>6 DEF IInv, KillerInTime, PongsRead, PongUnread, ServerCloses, Close
  <2>. QED
    BY <2>1, <2>2 DEF IInv
<1>7. CASE ServerForgets
  <2>1. TypeOK'
    <3>1. Flags'
      BY <1>7, Zenon DEF IInv, TypeOK, Flags, ServerForgets
    <3>. QED
      BY <1>7, <3>1 DEF IInv, TypeOK, Flags, ServerForgets
  <2>2. KillerInTime' /\ PongsRead'
    BY <1>7 DEF IInv, KillerInTime, PongsRead, PongUnread, ServerForgets
  <2>. QED
    BY <2>1, <2>2 DEF IInv
<1>. QED
  BY <1>1, <1>2, <1>3, <1>4, <1>5, <1>6, <1>7

\* pingLoop, suicide, Run and the clock keep the invariant.
LEMMA TimeInv ==
  ASSUME IInv,
         SendPing \/ PingerEnds \/ Check \/ Judge \/ Wake \/ RunReturns \/ Tick
  PROVE  IInv'
<1>1. CASE SendPing
  <2>1. TypeOK'
    <3>1. Flags'
      BY <1>1, Zenon DEF IInv, TypeOK, Flags, SendPing, WriteOk, Close
    <3>. QED
      BY <1>1, <3>1 DEF IInv, TypeOK, Flags, SendPing, WriteOk, Close
  <2>2. KillerInTime' /\ PongsRead'
    BY <1>1 DEF IInv, KillerInTime, PongsRead, PongUnread, SendPing, WriteOk, Close
  <2>. QED
    BY <2>1, <2>2 DEF IInv
<1>2. CASE PingerEnds
  <2>1. TypeOK'
    BY <1>2 DEF IInv, TypeOK, PingerEnds
  <2>2. KillerInTime' /\ PongsRead'
    BY <1>2 DEF IInv, KillerInTime, PongsRead, PongUnread, PingerEnds
  <2>. QED
    BY <2>1, <2>2 DEF IInv
<1>3. CASE Check
  <2>1. TypeOK'
    BY <1>3 DEF IInv, TypeOK, Check
  <2>2. KillerInTime'
    BY <1>3 DEF IInv, TypeOK, KillerInTime, Check
  <2>3. PongsRead'
    BY <1>3 DEF IInv, TypeOK, PongsRead, PongUnread, Check
  <2>. QED
    BY <2>1, <2>2, <2>3 DEF IInv
<1>4. CASE Judge
  <2>1. TypeOK'
    <3>1. Flags'
      BY <1>4, Zenon DEF IInv, TypeOK, Flags, Judge, Close
    <3>. QED
      BY <1>4, <3>1 DEF IInv, TypeOK, Flags, Judge, Close
  <2>2. KillerInTime'
    BY <1>4 DEF IInv, TypeOK, KillerInTime, Judge, Close
  <2>3. PongsRead'
    BY <1>4 DEF IInv, TypeOK, PongsRead, PongUnread, Judge, Close
  <2>. QED
    BY <2>1, <2>2, <2>3 DEF IInv
<1>5. CASE Wake
  <2>1. TypeOK'
    BY <1>5 DEF IInv, TypeOK, Wake
  <2>2. KillerInTime'
    BY <1>5 DEF IInv, TypeOK, KillerInTime, Wake
  <2>3. PongsRead'
    BY <1>5 DEF IInv, TypeOK, PongsRead, PongUnread, Wake
  <2>. QED
    BY <2>1, <2>2, <2>3 DEF IInv
<1>6. CASE RunReturns
  <2>1. TypeOK'
    BY <1>6 DEF IInv, TypeOK, RunReturns
  <2>2. KillerInTime' /\ PongsRead'
    BY <1>6 DEF IInv, KillerInTime, PongsRead, PongUnread, RunReturns
  <2>. QED
    BY <2>1, <2>2 DEF IInv
<1>7. CASE Tick
  <2>1. TypeOK'
    BY <1>7 DEF IInv, TypeOK, Tick, ReaderRuns
  <2>2. KillerInTime'
    BY <1>7 DEF IInv, TypeOK, KillerInTime, Tick, ReaderRuns
  <2>3. PongsRead'
    <3>1. SUFFICES ASSUME ~closed
                   PROVE  /\ reader' = "returned" => ~link' /\ inbox' = << >>
                          /\ ~stalled' =>
                               /\ ~PongUnread'
                               /\ heard' > AliveMax \/ silence' <= heard'
      BY <1>7 DEF PongsRead, Tick
    <3>2. reader' = "returned" => ~link' /\ inbox' = << >>
      BY <1>7, <3>1 DEF IInv, PongsRead, Tick
    <3>3. ASSUME ~stalled'
          PROVE  inbox = << >> /\ ~stalled
      BY <1>7, <3>1, <3>3, Zenon DEF IInv, TypeOK, PongsRead, Tick, ReaderRuns
    <3>4. ASSUME ~stalled'
          PROVE  ~PongUnread /\ ~PongUnread'
      BY <1>7, <3>3, <3>4 DEF PongUnread, Tick
    <3>5. ASSUME ~stalled'
          PROVE  heard' > AliveMax \/ silence' <= heard'
      <4>1. heard > AliveMax \/ silence <= heard
        BY <3>1, <3>3, <3>4, <3>5 DEF IInv, PongsRead
      <4>. QED
        BY <1>7, <4>1 DEF IInv, TypeOK, Tick
    <3>. QED
      BY <3>2, <3>4, <3>5
  <2>. QED
    BY <2>1, <2>2, <2>3 DEF IInv
<1>. QED
  BY <1>1, <1>2, <1>3, <1>4, <1>5, <1>6, <1>7

\* The inductive invariant holds in every reachable state.
THEOREM Invariance == Spec => []IInv
<1>1. Init => IInv
  <2>. SUFFICES ASSUME Init  PROVE  IInv
    OBVIOUS
  <2>1. Flags
    BY Zenon DEF Init, Flags
  <2>2. TypeOK
    BY <2>1 DEF Init, TypeOK, Flags
  <2>3. KillerInTime /\ PongsRead
    BY DEF Init, KillerInTime, PongsRead, PongUnread
  <2>. QED
    BY <2>2, <2>3 DEF IInv
<1>2. IInv /\ [Next]_vars => IInv'
  <2>. SUFFICES ASSUME IInv, [Next]_vars  PROVE  IInv'
    OBVIOUS
  <2>1. CASE UNCHANGED vars
    BY <2>1 DEF vars, IInv, TypeOK, KillerInTime, PongsRead, PongUnread
  <2>2. CASE Next
    BY <2>2, ReaderInv, OthersInv, TimeInv DEF Next
  <2>. QED
    BY <2>1, <2>2
<1>. QED
  BY <1>1, <1>2, PTL DEF Spec, SafetySpec

-----------------------------------------------------------------------------
(* What it implies. *)

\* An open session is never silent for longer than alivemaxinterval and one sleep of
\* suicide, for any two intervals (peer.go suicide).
THEOREM SilenceAlwaysBounded == Spec => []SilenceBounded
<1>1. IInv => SilenceBounded
  BY DEF IInv, TypeOK, KillerInTime, SilenceBounded
<1>. QED
  BY <1>1, Invariance, PTL

\* suicide ends no session whose peer has answered within alivemaxinterval, for any
\* intervals and traffic, unless a protocol held up readLoop (peer.go suicide, handle).
THEOREM AliveAlwaysKept == Spec => AliveKept
<1>1. IInv /\ [Next]_vars =>
        ((killer = "judge" /\ ~closed /\ closed' /\ killer' = "returned")
           => stalled \/ heard = 0 \/ heard > AliveMax)
  <2>. SUFFICES ASSUME IInv, [Next]_vars, killer = "judge", ~closed, closed',
                       killer' = "returned", ~stalled, heard # 0
                PROVE  heard > AliveMax
    OBVIOUS
  <2>1. Judge
    BY DEF Next, vars, Reader, ReadSelect, ReadPing, ReadPong, ReadData, Deliver,
       ReadError, ProtocolReads, ProtocolReturns, RemotePong, RemoteSends, LinkBreaks,
       ServerCloses, ServerForgets, SendPing, PingerEnds, Check, Wake, RunReturns, Tick
  <2>2. silence > AliveMax
    BY <2>1 DEF Judge
  <2>3. heard > AliveMax \/ silence <= heard
    BY DEF IInv, TypeOK, PongsRead
  <2>. QED
    BY <2>2, <2>3 DEF IInv, TypeOK
<1>. QED
  BY <1>1, Invariance, PTL DEF Spec, SafetySpec, AliveKept
=============================================================================
