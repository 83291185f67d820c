---------------------------- MODULE PeerSession ----------------------------
(***************************************************************************)
(* A session with a peer, peer.go: the goroutines readLoop, pingLoop,      *)
(* suicide and Run, and one protocol bound to the server.  All of them,    *)
(* and RemovePeer of the server, may call Close, which closes a channel:   *)
(* the second call panics and ends the process.                            *)
(*                                                                         *)
(* Time is counted in heartbeats (pingloopinterval).  lastTime is kept as  *)
(* the time since it was set, which is what suicide computes.  Run starts  *)
(* within a heartbeat of newPeer.                                          *)
(***************************************************************************)
EXTENDS Integers, Sequences

CONSTANTS
  AliveLoop,  \* aliveloopinterval: how long suicide sleeps
  AliveMax,   \* alivemaxinterval: the silence that ends the session
  MaxInbox,   \* bound: messages in the socket
  MaxSends    \* bound: messages other than pongs that the remote peer sends

ASSUME SessionAssumption ==
  /\ AliveLoop \in Nat \ {0} /\ AliveMax \in Nat \ {0}
  /\ MaxInbox \in Nat \ {0} /\ MaxSends \in Nat

VARIABLES
  closed,    \* the channel p.close is closed
  panic,     \* it was closed twice
  link,      \* the connection works
  inbox,     \* messages in the socket
  owed,      \* a ping was sent that the remote peer has not answered
  sends,     \* messages sent by the remote peer, pongs apart
  silence,   \* time since lastTime
  ticker,    \* a tick is in the channel of the ticker of pingLoop
  reader,    \* readLoop: at its select, in ReadMessage, at psCh, or returned
  pinger,    \* pingLoop: "select" or "returned"
  killer,    \* suicide: "check", "judge", "sleep" or "returned"
  left,      \* what is left of its sleep
  run,       \* Run: "wait" or "returned"
  protocol,  \* the protocol: "reads" from psCh, is "busy", or "returned"
  managed,   \* the session is in srv.peers
  heard,     \* history: time since a pong last arrived in the socket
  stalled    \* history: readLoop once waited at psCh for a heartbeat

readVars == <<inbox, owed, sends, silence, reader, protocol>>
timeVars == <<ticker, pinger, killer, left, run, managed>>
histVars == <<heard, stalled>>
vars == <<closed, panic, link, readVars, timeVars, histVars>>

Messages == {"ping", "pong", "data"}

\* The longest silence that suicide can see.
Limit == AliveMax + AliveLoop

TypeOK ==
  /\ closed \in BOOLEAN /\ panic \in BOOLEAN /\ link \in BOOLEAN
  /\ inbox \in Seq(Messages)
  /\ owed \in BOOLEAN
  /\ sends \in 0..MaxSends
  /\ silence \in 0..(Limit + 1)
  /\ ticker \in BOOLEAN
  /\ reader \in {"select", "read", "psCh", "returned"}
  /\ pinger \in {"select", "returned"}
  /\ killer \in {"check", "judge", "sleep", "returned"}
  /\ left \in 0..AliveLoop
  /\ run \in {"wait", "returned"}
  /\ protocol \in {"reads", "busy", "returned"}
  /\ managed \in BOOLEAN
  /\ heard \in 0..(AliveMax + 1)
  /\ stalled \in BOOLEAN

Init ==
  /\ closed = FALSE /\ panic = FALSE /\ link = TRUE
  /\ inbox = << >>
  /\ owed = FALSE
  /\ sends = 0
  /\ silence = 0
  /\ ticker = FALSE
  /\ reader = "select"
  /\ pinger = "select"
  /\ killer = "check"
  /\ left = 0
  /\ run = "wait"
  /\ protocol = "busy"
  /\ managed = TRUE
  /\ heard = 0
  /\ stalled = FALSE

\* Close
Close == closed' = TRUE /\ panic' = closed

-----------------------------------------------------------------------------
(* readLoop and handle. *)

ReadSelect ==
  /\ reader = "select"
  /\ reader' = IF closed THEN "returned" ELSE "read"
  /\ UNCHANGED <<closed, panic, link, inbox, owed, sends, silence, protocol,
                 timeVars, histVars>>

\* ReadMessage fails, or never returns: readLoop closes nothing.
ReadError ==
  /\ reader = "read"
  /\ ~link /\ inbox = << >>
  /\ reader' = "returned"
  /\ UNCHANGED <<closed, panic, link, inbox, owed, sends, silence, protocol,
                 timeVars, histVars>>

\* A write to a connection that is broken may fail or be buffered.
WriteOk == {TRUE, link}

\* A ping is answered; if that fails, the session is closed.
ReadPing ==
  /\ reader = "read"
  /\ inbox # << >> /\ Head(inbox) = "ping"
  /\ inbox' = Tail(inbox)
  /\ \E ok \in WriteOk : IF ok THEN UNCHANGED <<closed, panic>> ELSE Close
  /\ reader' = "select"
  /\ UNCHANGED <<link, owed, sends, silence, protocol, timeVars, histVars>>

\* Mutant of ReadPong: lastTime is not set.
ReadPongForgotten ==
  /\ reader = "read"
  /\ inbox # << >> /\ Head(inbox) = "pong"
  /\ inbox' = Tail(inbox)
  /\ reader' = "select"
  /\ UNCHANGED <<closed, panic, link, owed, sends, silence, protocol, timeVars,
                 histVars>>

\* A pong sets lastTime.
ReadPong ==
  /\ reader = "read"
  /\ inbox # << >> /\ Head(inbox) = "pong"
  /\ inbox' = Tail(inbox)
  /\ silence' = 0
  /\ reader' = "select"
  /\ UNCHANGED <<closed, panic, link, owed, sends, protocol, timeVars, histVars>>

\* Any other message is offered to the protocols.
ReadData ==
  /\ reader = "read"
  /\ inbox # << >> /\ Head(inbox) = "data"
  /\ inbox' = Tail(inbox)
  /\ reader' = "psCh"
  /\ UNCHANGED <<closed, panic, link, owed, sends, silence, protocol, timeVars, histVars>>

\* p.psCh <- cpy, which waits for a protocol to take it.
Deliver ==
  /\ reader = "psCh"
  /\ protocol = "reads"
  /\ reader' = "select"
  /\ protocol' = "busy"
  /\ UNCHANGED <<closed, panic, link, inbox, owed, sends, silence, timeVars, histVars>>

-----------------------------------------------------------------------------
(* The protocol, the remote peer and the server. *)

ProtocolReads ==
  /\ protocol = "busy"
  /\ protocol' = "reads"
  /\ UNCHANGED <<closed, panic, link, inbox, owed, sends, silence, reader,
                 timeVars, histVars>>

\* The protocol's Run returns: with an error, the session is closed.
ProtocolReturns(err) ==
  /\ protocol # "returned"
  /\ protocol' = "returned"
  /\ IF err THEN Close ELSE UNCHANGED <<closed, panic>>
  /\ UNCHANGED <<link, inbox, owed, sends, silence, reader, timeVars, histVars>>

RemotePong ==
  /\ owed /\ link
  /\ Len(inbox) < MaxInbox
  /\ owed' = FALSE
  /\ inbox' = Append(inbox, "pong")
  /\ heard' = 0
  /\ UNCHANGED <<closed, panic, link, sends, silence, reader, protocol,
                 timeVars, stalled>>

RemoteSends(m) ==
  /\ link
  /\ sends < MaxSends
  /\ Len(inbox) < MaxInbox
  /\ sends' = sends + 1
  /\ inbox' = Append(inbox, m)
  /\ UNCHANGED <<closed, panic, link, owed, silence, reader, protocol,
                 timeVars, histVars>>

LinkBreaks ==
  /\ link
  /\ link' = FALSE
  /\ UNCHANGED <<closed, panic, readVars, timeVars, histVars>>

\* RemovePeer: the server closes the session and forgets it.
ServerCloses ==
  /\ managed
  /\ Close
  /\ managed' = FALSE
  /\ UNCHANGED <<link, readVars, ticker, pinger, killer, left, run, histVars>>

\* case p := <-srv.delpeer, after runPeer has seen Run return.
ServerForgets ==
  /\ managed
  /\ run = "returned"
  /\ managed' = FALSE
  /\ UNCHANGED <<closed, panic, link, readVars, ticker, pinger, killer, left,
                 run, histVars>>

-----------------------------------------------------------------------------
(* pingLoop, suicide, Run and the clock. *)

\* case <-ping.C: a ping that cannot be written closes the session.
SendPing ==
  /\ pinger = "select"
  /\ ticker
  /\ ticker' = FALSE
  /\ \E ok \in WriteOk :
       IF ok THEN owed' = link /\ UNCHANGED <<closed, panic, pinger>>
             ELSE Close /\ pinger' = "returned" /\ UNCHANGED owed
  /\ UNCHANGED <<link, inbox, sends, silence, reader, protocol, killer, left,
                 run, managed, histVars>>

\* case <-p.close
PingerEnds ==
  /\ pinger = "select"
  /\ closed
  /\ pinger' = "returned"
  /\ UNCHANGED <<closed, panic, link, readVars, ticker, killer, left, run,
                 managed, histVars>>

\* A round of suicide begins with a look at the channel close.  suicide closes
\* timout when it returns.
Check ==
  /\ killer = "check"
  /\ killer' = IF closed THEN "returned" ELSE "judge"
  /\ UNCHANGED <<closed, panic, link, readVars, ticker, pinger, left, run,
                 managed, histVars>>

\* Mutant of Judge: it sleeps for alivemaxinterval.
JudgeRarely ==
  /\ killer = "judge"
  /\ \/ /\ silence > AliveMax
        /\ Close
        /\ killer' = "returned"
        /\ UNCHANGED left
     \/ /\ silence <= AliveMax
        /\ killer' = "sleep"
        /\ left' = AliveMax
        /\ UNCHANGED <<closed, panic>>
  /\ UNCHANGED <<link, readVars, ticker, pinger, run, managed,
                 histVars>>

\* It ends with the test of the interval.
Judge ==
  /\ killer = "judge"
  /\ \/ /\ silence > AliveMax
        /\ Close
        /\ killer' = "returned"
        /\ UNCHANGED left
     \/ /\ silence <= AliveMax
        /\ killer' = "sleep"
        /\ left' = AliveLoop
        /\ UNCHANGED <<closed, panic>>
  /\ UNCHANGED <<link, readVars, ticker, pinger, run, managed,
                 histVars>>

Wake ==
  /\ killer = "sleep"
  /\ left = 0
  /\ killer' = "check"
  /\ UNCHANGED <<closed, panic, link, readVars, ticker, pinger, left, run,
                 managed, histVars>>

\* Mutant of RunReturns: Run waits for readLoop too.
RunReturnsLast ==
  /\ run = "wait"
  /\ killer = "returned" /\ reader = "returned"
  /\ run' = "returned"
  /\ UNCHANGED <<closed, panic, link, readVars, ticker, pinger, killer, left,
                 managed, histVars>>

\* Run returns once suicide has, and runPeer tells the server.
RunReturns ==
  /\ run = "wait"
  /\ killer = "returned"
  /\ run' = "returned"
  /\ UNCHANGED <<closed, panic, link, readVars, ticker, pinger, killer, left,
                 managed, histVars>>

\* readLoop waits neither for the socket nor at psCh.
ReaderRuns ==
  \/ reader = "select"
  \/ reader = "read" /\ inbox # << >>
  \/ reader = "psCh" /\ protocol = "reads"

\* A heartbeat passes.  What readLoop and suicide can do takes less time.
Tick ==
  /\ ~ReaderRuns
  /\ killer = "returned" \/ (killer = "sleep" /\ left > 0)
  /\ silence' = IF silence > Limit THEN silence ELSE silence + 1
  /\ left' = IF left > 0 THEN left - 1 ELSE 0
  /\ ticker' = TRUE
  /\ heard' = IF heard > AliveMax THEN heard ELSE heard + 1
  /\ stalled' = (stalled \/ reader = "psCh")
  /\ UNCHANGED <<closed, panic, link, inbox, owed, sends, reader, protocol,
                 pinger, killer, run, managed>>

-----------------------------------------------------------------------------
Reader ==
  ReadSelect \/ ReadPing \/ ReadPong \/ ReadData \/ Deliver

Next ==
  /\ ~panic
  /\ \/ Reader
     \/ ReadError
     \/ ProtocolReads
     \/ \E err \in BOOLEAN : ProtocolReturns(err)
     \/ RemotePong
     \/ \E m \in {"ping", "data"} : RemoteSends(m)
     \/ LinkBreaks
     \/ ServerCloses
     \/ ServerForgets
     \/ SendPing
     \/ PingerEnds
     \/ Check
     \/ Judge
     \/ Wake
     \/ RunReturns
     \/ Tick

\* The goroutines of the session and the clock go on.  Nothing is assumed of
\* the remote peer, the protocol or the server, nor that ReadMessage notices a
\* broken connection.
Fairness ==
  /\ WF_vars(~panic /\ (Check \/ Judge \/ Wake))
  /\ WF_vars(~panic /\ RunReturns)
  /\ WF_vars(~panic /\ (SendPing \/ PingerEnds))
  /\ WF_vars(~panic /\ Reader)
  /\ WF_vars(~panic /\ Tick)

SafetySpec == Init /\ [][Next]_vars
Spec == SafetySpec /\ Fairness

-----------------------------------------------------------------------------
(* Properties. *)

\* A session that is open never lasts longer in silence than alivemaxinterval
\* and one sleep of suicide, whatever blocks its other goroutines;
\* every variable keeps its type.
SilenceBounded == TypeOK /\ (~closed => silence <= Limit)

\* A session that is closed, by whichever goroutine, makes Run return, so that
\* the server forgets the peer; and so does one whose connection breaks, even when
\* every write is buffered and no read fails: suicide hears nothing.
SessionReturns == closed \/ ~link ~> run = "returned" \/ panic

\* suicide ends no session with a peer that is alive: unless readLoop was once
\* held up at psCh for a heartbeat, the last pong arrived in the socket more
\* than alivemaxinterval ago, or in the very heartbeat of the test.
AliveKept ==
  [][ (killer = "judge" /\ ~closed /\ closed' /\ killer' = "returned")
        => stalled \/ heard = 0 \/ heard > AliveMax ]_vars
=============================================================================
