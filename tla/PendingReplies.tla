--------------------------- MODULE PendingReplies ---------------------------
(***************************************************************************)
(* The pending-reply queue of the discovery transport, discover/udp.go.    *)
(*                                                                         *)
(* Every request (ping, waitping, findnode) hands a `pending' to the loop  *)
(* goroutine and waits on its errc channel, which holds one value.  The    *)
(* loop owns the queue plist and one timer.  The read loop hands it the    *)
(* packets that arrive, which may be late, duplicated or unsolicited.      *)
(*                                                                         *)
(* Time is counted in units of which a request has RespTimeout.            *)
(***************************************************************************)
EXTENDS Integers, Sequences

CONSTANTS
  Reqs,         \* calls of ping, waitping and findnode, each made once
  NoReq,        \* nextTimeout == nil
  Want,         \* Want[r]: the fields from and ptype of the pending of r
  Traffic,      \* packets that may arrive, size counts the nodes carried
  NoPacket,     \* the read loop is not handing over a packet
  BucketSize,   \* bucketSize: how many neighbors complete a findnode
  RespTimeout,  \* respTimeout
  MaxTime,      \* bound: the clock stops here
  MaxPackets,   \* bound: packets the read loop hands over
  MaxRefreshes  \* bound: ticks of the refresh ticker

ASSUME ReqsAssumption == NoReq \notin Reqs
ASSUME TimeAssumption ==
  /\ RespTimeout \in Nat \ {0}
  /\ MaxTime \in Nat
  /\ RespTimeout <= MaxTime
ASSUME BoundsAssumption == MaxPackets \in Nat /\ MaxRefreshes \in Nat

Results == {"ok", "timeout", "closed", "clockWarp"}
None == "none"     \* an errc to which nothing was sent

\* A stopped timer, or a timer channel that holds no tick.
Off == -1

ASSUME TrafficAssumption ==
  /\ \A p \in Traffic : p.size \in Nat
  /\ NoPacket \notin Traffic
  /\ BucketSize \in Nat

VARIABLES
  clock,        \* the monotonic clock
  pc,           \* pc[r]: where the goroutine that makes request r is
  deadline,     \* deadline[r]: its field deadline
  nreceived,    \* nreceived[r]: nodes counted by the findnode callback
  errc,         \* errc[r]: the last result sent to its errc
  nsent,        \* nsent[r]: how many were sent to it
  calls,        \* calls[r]: how often its callback has run (history)
  plist,        \* the queue of pending replies
  nextTimeout,  \* head of plist when the timer was last reset
  timer,        \* when the timer fires
  tickC,        \* the time in the timer's channel, which holds one
  loop,         \* where the loop goroutine is
  closing,      \* the channel closing is closed
  conn,         \* the socket is open
  reader,       \* the packet that handleReply offers to the loop
  npackets,     \* packets read so far
  refreshes     \* refreshes started so far

reqVars == <<pc, deadline, nreceived, errc, nsent, calls>>
loopVars == <<plist, nextTimeout, timer, tickC, loop, refreshes>>
readVars == <<conn, reader, npackets>>
vars == <<clock, closing, reqVars, loopVars, readVars>>

TypeOK ==
  /\ clock \in 0..MaxTime
  /\ pc \in [Reqs -> {"idle", "adding", "waiting", "done"}]
  /\ deadline \in [Reqs -> 0..MaxTime]
  /\ nreceived \in [Reqs -> Nat]
  /\ errc \in [Reqs -> Results \cup {None}]
  /\ nsent \in [Reqs -> Nat]
  /\ calls \in [Reqs -> Nat]
  /\ plist \in Seq(Reqs)
  /\ nextTimeout \in Reqs \cup {NoReq}
  /\ timer \in 0..MaxTime \cup {Off}
  /\ tickC \in 0..MaxTime \cup {Off}
  /\ loop \in {"reset", "select", "exited"}
  /\ closing \in BOOLEAN
  /\ conn \in BOOLEAN
  /\ reader \in Traffic \cup {NoPacket}
  /\ npackets \in 0..MaxPackets
  /\ refreshes \in 0..MaxRefreshes

Init ==
  /\ clock = 0
  /\ pc = [r \in Reqs |-> "idle"]
  /\ deadline = [r \in Reqs |-> 0]
  /\ nreceived = [r \in Reqs |-> 0]
  /\ errc = [r \in Reqs |-> None]
  /\ nsent = [r \in Reqs |-> 0]
  /\ calls = [r \in Reqs |-> 0]
  /\ plist = << >>
  /\ nextTimeout = NoReq
  /\ timer = Off
  /\ tickC = Off
  /\ loop = "reset"
  /\ closing = FALSE
  /\ conn = TRUE
  /\ reader = NoPacket
  /\ npackets = 0
  /\ refreshes = 0

\* plist.Remove of container/list: the list without its element i.
Without(s, i) == SubSeq(s, 1, i - 1) \o SubSeq(s, i + 1, Len(s))

-----------------------------------------------------------------------------
(* The goroutines that make requests. *)

\* The last moment at which a request can still reach its deadline.
LastStart == MaxTime - RespTimeout

\* pending() is entered: its select offers the request on addpending.
Begin(r) ==
  /\ pc[r] = "idle"
  /\ clock <= LastStart
  /\ pc' = [pc EXCEPT ![r] = "adding"]
  /\ UNCHANGED <<clock, closing, deadline, nreceived, errc, nsent, calls,
                 loopVars, readVars>>

\* The result x is put into the channels of the requests in S.
Send(S, x) ==
  /\ errc' = [r \in Reqs |-> IF r \in S THEN x ELSE errc[r]]
  /\ nsent' = [r \in Reqs |-> IF r \in S THEN nsent[r] + 1 ELSE nsent[r]]

\* Mutant of PendingClosed: the select of pending() has no case for closing.
PendingBlocked(r) == FALSE /\ pc[r] = "adding" /\ UNCHANGED vars

\* pending() takes its other case: the transport is closing.
PendingClosed(r) ==
  /\ pc[r] = "adding"
  /\ closing
  /\ Send({r}, "closed")
  /\ pc' = [pc EXCEPT ![r] = "waiting"]
  /\ UNCHANGED <<clock, closing, deadline, nreceived, calls,
                 loopVars, readVars>>

\* The request returns with the value received from errc.
Receive(r) ==
  /\ pc[r] = "waiting"
  /\ errc[r] # None
  /\ pc' = [pc EXCEPT ![r] = "done"]
  /\ UNCHANGED <<clock, closing, deadline, nreceived, errc, nsent, calls,
                 loopVars, readVars>>

-----------------------------------------------------------------------------
(* The read loop, the clock, the timer and close(). *)

\* A packet of any node arrives and handleReply offers it to the loop.
ReadPacket(p) ==
  /\ conn
  /\ reader = NoPacket
  /\ npackets < MaxPackets
  /\ reader' = p
  /\ npackets' = npackets + 1
  /\ UNCHANGED <<clock, closing, conn, reqVars, loopVars>>

\* handleReply takes its other case: the packet counts as unmatched.
ReplyClosed ==
  /\ reader # NoPacket
  /\ closing
  /\ reader' = NoPacket
  /\ UNCHANGED <<clock, closing, conn, npackets, reqVars, loopVars>>

\* close() closes the channel and then the socket.
CloseChannel ==
  /\ ~closing
  /\ closing' = TRUE
  /\ UNCHANGED <<clock, reqVars, loopVars, readVars>>

CloseConn ==
  /\ closing
  /\ conn
  /\ conn' = FALSE
  /\ UNCHANGED <<clock, closing, reader, npackets, reqVars, loopVars>>

\* The bound on the clock leaves every request the time to expire.
Tick ==
  /\ clock < MaxTime
  /\ clock < LastStart \/ \A r \in Reqs : pc[r] # "adding"
  /\ clock' = clock + 1
  /\ UNCHANGED <<closing, reqVars, loopVars, readVars>>

\* The runtime sends the time on the timer's channel, unless it is full.
TimerFire ==
  /\ timer # Off
  /\ timer <= clock
  /\ timer' = Off
  /\ tickC' = IF tickC = Off THEN clock ELSE tickC
  /\ UNCHANGED <<clock, closing, plist, nextTimeout, loop, refreshes,
                 reqVars, readVars>>

-----------------------------------------------------------------------------
(* The loop goroutine: resetTimeout, then one case of the select. *)

\* Mutant of ResetTimeout: the timer is set to a whole respTimeout and not to
\* what is left of it.
ResetTimeoutWhole ==
  /\ loop = "reset"
  /\ loop' = "select"
  /\ IF plist = << >> \/ nextTimeout = plist[1]
     THEN UNCHANGED <<nextTimeout, timer>>
     ELSE /\ nextTimeout' = plist[1]
          /\ timer' = clock + RespTimeout
  /\ UNCHANGED <<clock, closing, plist, tickC, refreshes, reqVars, readVars>>

\* resetTimeout: arm the timer for the head of the queue, unless it is the
\* one the timer was last armed for.  A head whose deadline is too far away
\* is dropped; the scan then ends, because list.Remove clears the links of
\* the element that el.Next() is called on.
ResetTimeout ==
  /\ loop = "reset"
  /\ loop' = "select"
  /\ IF plist = << >> \/ nextTimeout = plist[1]
     THEN UNCHANGED <<plist, nextTimeout, timer, errc, nsent>>
     ELSE IF deadline[plist[1]] - clock < 2 * RespTimeout
          THEN /\ nextTimeout' = plist[1]
               /\ timer' = deadline[plist[1]]
               /\ UNCHANGED <<plist, errc, nsent>>
          ELSE /\ Send({plist[1]}, "clockWarp")
               /\ plist' = Without(plist, 1)
               /\ nextTimeout' = NoReq
               /\ timer' = Off
  /\ UNCHANGED <<clock, closing, tickC, refreshes, pc, deadline,
                 nreceived, calls, readVars>>

\* case <-refresh.C: a refresh starts in a goroutine of its own.
LoopRefresh ==
  /\ loop = "select"
  /\ refreshes < MaxRefreshes
  /\ refreshes' = refreshes + 1
  /\ loop' = "reset"
  /\ UNCHANGED <<clock, closing, plist, nextTimeout, timer, tickC, reqVars,
                 readVars>>

\* Mutant of LoopClosing: the loop ends without answering the queue.
LoopClosingSilent ==
  /\ loop = "select"
  /\ closing
  /\ plist' = << >>
  /\ timer' = Off
  /\ loop' = "exited"
  /\ UNCHANGED <<clock, closing, nextTimeout, tickC, refreshes, reqVars,
                 readVars>>

\* case <-t.closing: everything in the queue gets errClosed; the loop ends
\* and its queue and timer go with it.
LoopClosing ==
  /\ loop = "select"
  /\ closing
  /\ Send({plist[i] : i \in 1..Len(plist)}, "closed")
  /\ plist' = << >>
  /\ timer' = Off
  /\ loop' = "exited"
  /\ UNCHANGED <<clock, closing, nextTimeout, tickC, refreshes, pc,
                 deadline, nreceived, calls, readVars>>

\* case p := <-t.addpending
LoopAddPending(r) ==
  /\ loop = "select"
  /\ pc[r] = "adding"
  /\ pc' = [pc EXCEPT ![r] = "waiting"]
  /\ deadline' = [deadline EXCEPT ![r] = clock + RespTimeout]
  /\ plist' = Append(plist, r)
  /\ loop' = "reset"
  /\ UNCHANGED <<clock, closing, nreceived, errc, nsent, calls, nextTimeout,
                 timer, tickC, refreshes, readVars>>

\* The positions in the queue that match packet p, and those of them whose
\* callback returns true for it.
Matching(p) ==
  {i \in 1..Len(plist) : Want[plist[i]] = [from |-> p.from, ptype |-> p.ptype]}

Completing(p) ==
  {i \in Matching(p) :
     p.ptype = "neighbors" => nreceived[plist[i]] + p.size >= BucketSize}

\* The requests whose callback the scan runs: it ends at the first that is
\* complete, for the same reason as in resetTimeout.
Scanned(p) ==
  {plist[i] : i \in {j \in Matching(p) : \A k \in Completing(p) : j <= k}}

\* Mutant of LoopGotReply: the completed request stays in the queue.
LoopGotReplyKept ==
  /\ loop = "select"
  /\ reader # NoPacket
  /\ calls' = [r \in Reqs |-> IF r \in Scanned(reader) THEN calls[r] + 1
                                                       ELSE calls[r]]
  /\ Send({plist[i] : i \in Completing(reader)}, "ok")
  /\ reader' = NoPacket
  /\ loop' = "reset"
  /\ UNCHANGED <<clock, closing, conn, npackets, pc, deadline, nreceived,
                 plist, nextTimeout, timer, tickC, refreshes>>

\* case r := <-t.gotreply
LoopGotReply ==
  /\ loop = "select"
  /\ reader # NoPacket
  /\ calls' = [r \in Reqs |-> IF r \in Scanned(reader) THEN calls[r] + 1
                                                       ELSE calls[r]]
  /\ nreceived' = [r \in Reqs |->
                     IF r \in Scanned(reader) /\ reader.ptype = "neighbors"
                     THEN nreceived[r] + reader.size ELSE nreceived[r]]
  /\ \/ /\ Completing(reader) = {}
        /\ UNCHANGED <<plist, errc, nsent>>
     \/ \E i \in Completing(reader) :
          /\ \A k \in Completing(reader) : i <= k
          /\ Send({plist[i]}, "ok")
          /\ plist' = Without(plist, i)
  /\ reader' = NoPacket
  /\ loop' = "reset"
  /\ UNCHANGED <<clock, closing, conn, npackets, pc, deadline,
                 nextTimeout, timer, tickC, refreshes>>

\* Mutant of Overdue: the tick is taken to be for the head of the queue.
OverdueHead == {i \in 1..Len(plist) : i = 1}

\* The positions of the requests that are overdue at the time of the tick.
Overdue == {i \in 1..Len(plist) : deadline[plist[i]] <= tickC}

\* case now := <-timeout.C: the first overdue request is dropped, and the
\* scan ends there.
LoopTimeout ==
  /\ loop = "select"
  /\ tickC # Off
  /\ tickC' = Off
  /\ nextTimeout' = NoReq
  /\ \/ /\ Overdue = {}
        /\ UNCHANGED <<plist, errc, nsent>>
     \/ \E i \in Overdue :
          /\ \A k \in Overdue : i <= k
          /\ Send({plist[i]}, "timeout")
          /\ plist' = Without(plist, i)
  /\ loop' = "reset"
  /\ UNCHANGED <<clock, closing, timer, refreshes, pc, deadline,
                 nreceived, calls, readVars>>

-----------------------------------------------------------------------------
Next ==
  \/ \E r \in Reqs : \/ Begin(r)
                     \/ PendingClosed(r)
                     \/ Receive(r)
                     \/ LoopAddPending(r)
  \/ \E p \in Traffic : ReadPacket(p)
  \/ ReplyClosed
  \/ CloseChannel
  \/ CloseConn
  \/ Tick
  \/ TimerFire
  \/ ResetTimeout
  \/ LoopRefresh
  \/ LoopClosing
  \/ LoopGotReply
  \/ LoopTimeout

\* One iteration of the loop goroutine takes whichever case is ready.
LoopStep ==
  \/ ResetTimeout
  \/ LoopRefresh
  \/ LoopClosing
  \/ LoopGotReply
  \/ LoopTimeout
  \/ \E r \in Reqs : LoopAddPending(r)

\* The goroutines run, time passes and timers fire.  Nothing forces a
\* request, a packet or close() to happen, and nothing is assumed of the
\* order in which the select takes the cases that are ready.
Fairness ==
  /\ WF_vars(Tick)
  /\ WF_vars(TimerFire)
  /\ WF_vars(LoopStep)
  /\ \A r \in Reqs : WF_vars(PendingClosed(r) \/ Receive(r))

SafetySpec == Init /\ [][Next]_vars
Spec == SafetySpec /\ Fairness

-----------------------------------------------------------------------------
(* Properties. *)

\* A request gets at most one result: a second send would fill its errc,
\* which holds one value, and block the loop for every other request.
OneResult == \A r \in Reqs : nsent[r] <= 1

\* The queue holds exactly the accepted requests that have no result, each
\* once: nothing is forgotten in it and nothing in it was answered before.
QueueExact ==
  /\ \A i, j \in 1..Len(plist) : plist[i] = plist[j] => i = j
  /\ \A r \in Reqs :
       (\E i \in 1..Len(plist) : plist[i] = r)
         <=> (pc[r] \in {"waiting", "done"} /\ errc[r] = None)

\* The queue is ordered by deadline, so that the head, the only request the
\* timer is armed for, is the first that expires.
QueueOrdered ==
  \A i, j \in 1..Len(plist) :
    i < j => deadline[plist[i]] <= deadline[plist[j]]

\* The loop never sleeps through a deadline: whenever it waits in its select
\* with a queue that is not empty, a tick is in the channel or the timer will
\* fire when the head expires.
WakeupArmed ==
  loop = "select" /\ plist # << >> =>
    \/ tickC # Off
    \/ timer # Off /\ timer <= deadline[plist[1]]

\* errTimeout is never given before the deadline of the request, even when
\* the tick that is read was sent for another, earlier request.
NoEarlyTimeout ==
  [][\A r \in Reqs :
       nsent'[r] # nsent[r] /\ errc'[r] = "timeout"
         => deadline[r] <= clock]_vars

\* The branch of resetTimeout for a clock that jumped back is never taken:
\* the times it compares carry the monotonic clock.
NoClockWarp == \A r \in Reqs : errc[r] # "clockWarp"

\* Every request that enters pending() returns, whatever packets arrive and
\* whenever the transport is closed.
EveryRequestReturns == \A r \in Reqs : pc[r] = "adding" ~> pc[r] = "done"

\* What a caller of ping, waitping or findnode sees of its request.
Status ==
  [r \in Reqs |-> IF errc[r] # None THEN errc[r]
                 ELSE IF pc[r] = "idle" THEN "idle" ELSE "asked"]

Contract == INSTANCE ReplyContract WITH status <- Status

\* The queue implements that contract: each request is asked once and answered
\* once, and no later packet, timeout or end of the transport changes the answer.
ImplementsContract == Contract!SafetySpec
=============================================================================
