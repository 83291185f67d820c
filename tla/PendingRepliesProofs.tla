------------------------ MODULE PendingRepliesProofs ------------------------
(***************************************************************************)
(* Proofs about the pending-reply queue for any set of requests, any       *)
(* traffic and any response timeout.                                       *)
(***************************************************************************)
EXTENDS PendingReplies, SequenceTheorems, TLAPS

\* Steps with a large context need more time than the default.
USE SMTT(30)

\* The bound on the clock never strands a request on its way to the queue.
AddingInTime == \A r \in Reqs : pc[r] = "adding" => clock <= LastStart

\* A request that has not reached the queue has no result.
NewUnanswered == \A r \in Reqs : pc[r] \in {"idle", "adding"} => errc[r] = None

\* A request without a result was sent none.
NoneIsUnsent == \A r \in Reqs : errc[r] = None => nsent[r] = 0

\* No deadline in the queue is further away than the response timeout.
DeadlinesNear ==
  \A i \in 1..Len(plist) : deadline[plist[i]] <= clock + RespTimeout

\* nextTimeout is a request that was accepted and, as long as it is queued,
\* the head of the queue.
NextTimeoutIsHead ==
  /\ nextTimeout # NoReq => pc[nextTimeout] \in {"waiting", "done"}
  /\ \A i \in 1..Len(plist) : plist[i] = nextTimeout => i = 1

\* WakeupArmed, also between two selects while the head has not changed.
HeadArmed ==
  plist # << >> /\ (loop = "select" \/ nextTimeout = plist[1]) =>
    \/ tickC # Off
    \/ timer # Off /\ timer <= deadline[plist[1]]

\* A tick carries the time at which it was sent.
TickPast == tickC <= clock

IInv ==
  /\ TypeOK
  /\ AddingInTime
  /\ NewUnanswered
  /\ NoneIsUnsent
  /\ OneResult
  /\ NoClockWarp
  /\ QueueExact
  /\ QueueOrdered
  /\ DeadlinesNear
  /\ NextTimeoutIsHead
  /\ HeadArmed
  /\ TickPast

-----------------------------------------------------------------------------
\* What is left of a sequence when one element is removed.
LEMMA WithoutProperties ==
  ASSUME NEW S, NEW s \in Seq(S), NEW i \in 1..Len(s)
  PROVE  /\ Without(s, i) \in Seq(S)
         /\ Len(Without(s, i)) = Len(s) - 1
         /\ \A j \in 1..(Len(s) - 1) :
              Without(s, i)[j] = IF j < i THEN s[j] ELSE s[j + 1]
<1>0. Len(s) \in Nat
  BY LenProperties
<1>1. /\ SubSeq(s, 1, i - 1) \in Seq(S)
      /\ Len(SubSeq(s, 1, i - 1)) = i - 1
      /\ \A j \in 1..(i - 1) : SubSeq(s, 1, i - 1)[j] = s[j]
  BY <1>0, ElementOfSeq, SubSeqProperties
<1>2. /\ SubSeq(s, i + 1, Len(s)) \in Seq(S)
      /\ Len(SubSeq(s, i + 1, Len(s))) = Len(s) - i
      /\ \A j \in 1..(Len(s) - i) : SubSeq(s, i + 1, Len(s))[j] = s[i + j]
  BY <1>0, ElementOfSeq, SubSeqProperties
<1>3. PICK a \in Seq(S) : a = SubSeq(s, 1, i - 1)
  BY <1>1, Zenon
<1>4. PICK b \in Seq(S) : b = SubSeq(s, i + 1, Len(s))
  BY <1>2, Zenon
<1>5. Without(s, i) = a \o b
  BY <1>3, <1>4 DEF Without
<1>6. Len(a) = i - 1 /\ \A j \in 1..(i - 1) : a[j] = s[j]
  BY <1>1, <1>3
<1>7. Len(b) = Len(s) - i /\ \A j \in 1..(Len(s) - i) : b[j] = s[i + j]
  BY <1>2, <1>4
<1>8. a \o b \in Seq(S) /\ Len(a \o b) = Len(s) - 1
  <2>1. a \o b \in Seq(S) /\ Len(a \o b) = Len(a) + Len(b)
    BY ConcatProperties
  <2>. QED
    BY <1>0, <1>6, <1>7, <2>1
<1>9. ASSUME NEW j \in 1..(Len(s) - 1), j < i
      PROVE  (a \o b)[j] = s[j]
  BY <1>0, <1>6, <1>7, <1>9, ConcatProperties
<1>10. ASSUME NEW j \in 1..(Len(s) - 1), ~(j < i)
       PROVE  (a \o b)[j] = s[j + 1]
  <2>1. j - (i - 1) \in 1..(Len(s) - i) /\ i + (j - (i - 1)) = j + 1
    BY <1>0, <1>10
  <2>2. (a \o b)[j] = b[j - (i - 1)]
    BY <1>0, <1>6, <1>7, <1>10, ConcatProperties
  <2>. QED
    BY <1>7, <2>1, <2>2
<1>. QED
  BY <1>5, <1>8, <1>9, <1>10

\* A result for one queued request, which leaves the queue with it, keeps
\* the queue exact and ordered and answers nobody twice.
LEMMA DropQueued ==
  ASSUME IInv, NEW i \in 1..Len(plist), NEW x \in {"ok", "timeout"},
         Send({plist[i]}, x), plist' = Without(plist, i),
         UNCHANGED <<pc, deadline>>
  PROVE  /\ plist' \in Seq(Reqs)
         /\ errc' \in [Reqs -> Results \cup {None}]
         /\ nsent' \in [Reqs -> Nat]
         /\ NewUnanswered' /\ NoneIsUnsent' /\ OneResult' /\ NoClockWarp'
         /\ QueueExact' /\ QueueOrdered'
         /\ \A j \in 1..Len(plist') :
              \E k \in 1..Len(plist) : plist'[j] = plist[k] /\ j <= k
<1>0. /\ plist \in Seq(Reqs)
      /\ errc \in [Reqs -> Results \cup {None}]
      /\ nsent \in [Reqs -> Nat]
      /\ deadline \in [Reqs -> 0..MaxTime]
      /\ MaxTime \in Nat
  BY TimeAssumption, Zenon DEF IInv, TypeOK
<1>1. /\ Len(plist) \in Nat
      /\ plist[i] \in Reqs
      /\ \A k \in 1..Len(plist) : plist[k] \in Reqs
  BY <1>0, ElementOfSeq, LenProperties
<1>2. /\ plist' \in Seq(Reqs)
      /\ Len(plist') = Len(plist) - 1
      /\ \A j \in 1..(Len(plist) - 1) :
           plist'[j] = IF j < i THEN plist[j] ELSE plist[j + 1]
  BY <1>0, WithoutProperties, Zenon
<1>3. errc[plist[i]] = None /\ pc[plist[i]] \in {"waiting", "done"}
  BY <1>1 DEF IInv, QueueExact
<1>4. \A r \in Reqs : /\ errc'[r] = IF r = plist[i] THEN x ELSE errc[r]
                      /\ nsent'[r] = IF r = plist[i] THEN nsent[r] + 1
                                                     ELSE nsent[r]
  BY DEF Send
<1>5. errc' \in [Reqs -> Results \cup {None}] /\ nsent' \in [Reqs -> Nat]
  BY <1>0 DEF Send, Results
<1>6. NewUnanswered' /\ NoneIsUnsent' /\ OneResult' /\ NoClockWarp'
  <2>1. nsent[plist[i]] = 0
    BY <1>1, <1>3 DEF IInv, NoneIsUnsent
  <2>2. NewUnanswered'
    BY <1>3, <1>4 DEF IInv, NewUnanswered
  <2>3. NoneIsUnsent'
    BY <1>4 DEF IInv, NoneIsUnsent, None
  <2>4. OneResult'
    BY <1>4, <2>1 DEF IInv, OneResult
  <2>5. NoClockWarp'
    BY <1>4 DEF IInv, NoClockWarp
  <2>. QED
    BY <2>2, <2>3, <2>4, <2>5
<1>7. QueueExact'
  <2>0. \A j, k \in 1..Len(plist) : plist[j] = plist[k] => j = k
    BY DEF IInv, QueueExact
  <2>1. ASSUME NEW j \in 1..Len(plist'), NEW k \in 1..Len(plist'),
               plist'[j] = plist'[k]
        PROVE  j = k
    BY <1>1, <1>2, <2>0, <2>1
  <2>2. ASSUME NEW j \in 1..Len(plist')
        PROVE  /\ plist'[j] # plist[i]
               /\ \E k \in 1..Len(plist) : plist[k] = plist'[j]
    BY <1>1, <1>2, <2>0
  <2>3. ASSUME NEW j \in 1..Len(plist), plist[j] # plist[i]
        PROVE  \E k \in 1..Len(plist') : plist'[k] = plist[j]
    <3>1. CASE j < i
      <4>1. j \in 1..Len(plist') /\ plist'[j] = plist[j]
        BY <1>1, <1>2, <3>1
      <4>. QED
        BY <4>1
    <3>2. CASE j > i
      <4>1. j - 1 \in 1..Len(plist') /\ plist'[j - 1] = plist[j]
        BY <1>1, <1>2, <3>2
      <4>. QED
        BY <4>1
    <3>3. j # i
      BY <2>3
    <3>. QED
      BY <1>1, <3>1, <3>2, <3>3
  <2>4. ASSUME NEW r \in Reqs
        PROVE (\E j \in 1..Len(plist') : plist'[j] = r)
                <=> (pc'[r] \in {"waiting", "done"} /\ errc'[r] = None)
    <3>1. (\E j \in 1..Len(plist) : plist[j] = r)
            <=> (pc[r] \in {"waiting", "done"} /\ errc[r] = None)
      BY DEF IInv, QueueExact
    <3>2. errc'[r] = None <=> r # plist[i] /\ errc[r] = None
      BY <1>3, <1>4 DEF None
    <3>3. (\E j \in 1..Len(plist') : plist'[j] = r)
            <=> r # plist[i] /\ \E j \in 1..Len(plist) : plist[j] = r
      <4>1. ASSUME NEW j \in 1..Len(plist'), plist'[j] = r
            PROVE  r # plist[i] /\ \E k \in 1..Len(plist) : plist[k] = r
        BY ONLY <2>2, <4>1
      <4>2. ASSUME NEW j \in 1..Len(plist), plist[j] = r, r # plist[i]
            PROVE  \E k \in 1..Len(plist') : plist'[k] = r
        BY ONLY <2>3, <4>2
      <4>. QED
        BY ONLY <4>1, <4>2
    <3>4. pc'[r] = pc[r]
      OBVIOUS
    <3>. QED
      BY <3>1, <3>2, <3>3, <3>4
  <2>. QED
    BY <2>1, <2>4 DEF QueueExact
<1>8. QueueOrdered'
  <2>. SUFFICES ASSUME NEW j \in 1..Len(plist'), NEW k \in 1..Len(plist'), j < k
                PROVE  deadline[plist'[j]] <= deadline[plist'[k]]
    BY DEF QueueOrdered
  <2>1. \A m, n \in 1..Len(plist) :
          m < n => deadline[plist[m]] <= deadline[plist[n]]
    BY DEF IInv, QueueOrdered
  <2>2. CASE k < i
    BY <1>1, <1>2, <2>1, <2>2
  <2>3. CASE j < i /\ i <= k
    <3>1. /\ plist'[j] = plist[j] /\ plist'[k] = plist[k + 1]
          /\ j \in 1..Len(plist) /\ k + 1 \in 1..Len(plist) /\ j < k + 1
      BY <1>1, <1>2, <2>3
    <3>. QED
      BY <2>1, <3>1
  <2>4. CASE i <= j
    <3>1. /\ plist'[j] = plist[j + 1] /\ plist'[k] = plist[k + 1]
          /\ j + 1 \in 1..Len(plist) /\ k + 1 \in 1..Len(plist)
          /\ j + 1 < k + 1
      BY <1>1, <1>2, <2>4
    <3>. QED
      BY <2>1, <3>1
  <2>. QED
    BY <1>1, <1>2, <2>2, <2>3, <2>4
<1>9. ASSUME NEW j \in 1..Len(plist')
      PROVE  \E k \in 1..Len(plist) : plist'[j] = plist[k] /\ j <= k
  <2>1. CASE j < i
    BY <1>1, <1>2, <2>1
  <2>2. CASE j >= i
    <3>1. j + 1 \in 1..Len(plist) /\ plist'[j] = plist[j + 1]
      BY <1>1, <1>2, <2>2
    <3>. QED
      BY <3>1, <1>1, <1>2
  <2>. QED
    BY <2>1, <2>2, <1>1, <1>2
<1>. QED
  BY <1>2, <1>5, <1>6, <1>7, <1>8, <1>9

-----------------------------------------------------------------------------
LEMMA InitIInv == Init => IInv
<1>. SUFFICES ASSUME Init PROVE IInv
  OBVIOUS
<1>1. TypeOK
  <2>1. plist \in Seq(Reqs)
    BY EmptySeq DEF Init
  <2>2. clock \in 0..MaxTime /\ deadline \in [Reqs -> 0..MaxTime]
    BY TimeAssumption DEF Init
  <2>3. npackets \in 0..MaxPackets /\ refreshes \in 0..MaxRefreshes
    BY BoundsAssumption DEF Init
  <2>. QED
    BY <2>1, <2>2, <2>3, Zenon DEF Init, TypeOK
<1>2. Len(plist) = 0
  BY DEF Init
<1>3. QueueExact
  BY <1>2 DEF Init, QueueExact
<1>4. AddingInTime /\ NewUnanswered /\ NoneIsUnsent /\ OneResult /\ NoClockWarp
  BY DEF Init, AddingInTime, NewUnanswered, NoneIsUnsent, OneResult,
         NoClockWarp, None
<1>5. QueueOrdered /\ DeadlinesNear /\ NextTimeoutIsHead /\ HeadArmed /\ TickPast
  BY <1>2 DEF Init, QueueOrdered, DeadlinesNear, NextTimeoutIsHead, HeadArmed,
              TickPast, Off
<1>. QED
  BY <1>1, <1>3, <1>4, <1>5 DEF IInv

\* The steps of the requesting goroutines.
LEMMA RequestSteps ==
  ASSUME IInv, NEW r \in Reqs, Begin(r) \/ PendingClosed(r) \/ Receive(r)
  PROVE  IInv'
<1>. USE DEF IInv, TypeOK
<1>1. CASE Begin(r)
  <2>1. TypeOK'
    BY <1>1, Zenon DEF Begin, loopVars, readVars
  <2>2. AddingInTime'
    BY <1>1 DEF Begin, loopVars, readVars, AddingInTime, LastStart
  <2>3. NewUnanswered' /\ NoneIsUnsent' /\ OneResult' /\ NoClockWarp'
    BY <1>1 DEF Begin, NewUnanswered, NoneIsUnsent, OneResult, NoClockWarp
  <2>4. QueueExact' /\ NextTimeoutIsHead'
    BY <1>1, ZenonT(30) DEF Begin, loopVars, QueueExact, NextTimeoutIsHead
  <2>5. QueueOrdered' /\ DeadlinesNear' /\ HeadArmed' /\ TickPast'
    BY <1>1 DEF Begin, loopVars, QueueOrdered, DeadlinesNear, HeadArmed, TickPast
  <2>. QED
    BY <2>1, <2>2, <2>3, <2>4, <2>5, Zenon
<1>2. CASE PendingClosed(r)
  <2>1. errc[r] = None /\ nsent[r] = 0
    BY <1>2 DEF PendingClosed, NewUnanswered, NoneIsUnsent
  <2>2. TypeOK'
    <3>1. errc' \in [Reqs -> Results \cup {None}] /\ nsent' \in [Reqs -> Nat]
      BY <1>2 DEF PendingClosed, Send, Results
    <3>2. pc' \in [Reqs -> {"idle", "adding", "waiting", "done"}]
      BY <1>2 DEF PendingClosed
    <3>. QED
      BY <1>2, <3>1, <3>2, Zenon DEF PendingClosed, loopVars, readVars
  <2>3. AddingInTime'
    BY <1>2 DEF PendingClosed, AddingInTime
  <2>4. NewUnanswered' /\ NoneIsUnsent' /\ OneResult' /\ NoClockWarp'
    BY <1>2, <2>1 DEF PendingClosed, Send, NewUnanswered, NoneIsUnsent,
                      OneResult, NoClockWarp, None
  <2>5. QueueExact' /\ NextTimeoutIsHead'
    <3>1. plist' = plist /\ nextTimeout' = nextTimeout
      BY <1>2 DEF PendingClosed, loopVars
    <3>2. \A q \in Reqs : q # r => pc'[q] = pc[q] /\ errc'[q] = errc[q]
      BY <1>2 DEF PendingClosed, Send
    <3>3. pc[r] = "adding" /\ pc'[r] = "waiting" /\ errc'[r] # None
      BY <1>2 DEF PendingClosed, Send, None
    <3>4. QueueExact'
      <4>1. QueueExact
        OBVIOUS
      <4>2. ASSUME NEW q \in Reqs
            PROVE (\E i \in 1..Len(plist') : plist'[i] = q)
                    <=> (pc'[q] \in {"waiting", "done"} /\ errc'[q] = None)
        <5>1. (\E i \in 1..Len(plist) : plist[i] = q)
                <=> (pc[q] \in {"waiting", "done"} /\ errc[q] = None)
          BY ONLY <4>1, q \in Reqs DEF QueueExact
        <5>2. CASE q # r
          BY ONLY <3>1, <3>2, <5>1, <5>2, q \in Reqs
        <5>3. CASE q = r
          BY ONLY <3>1, <3>3, <5>1, <5>3
        <5>. QED
          BY ONLY <5>2, <5>3
      <4>. QED
        BY ONLY <3>1, <4>1, <4>2 DEF QueueExact
    <3>5. NextTimeoutIsHead'
      BY <3>1, <3>2, <3>3 DEF NextTimeoutIsHead
    <3>. QED
      BY <3>4, <3>5
  <2>6. QueueOrdered' /\ DeadlinesNear' /\ HeadArmed' /\ TickPast'
    BY <1>2 DEF PendingClosed, loopVars, QueueOrdered, DeadlinesNear,
                HeadArmed, TickPast
  <2>. QED
    BY <2>2, <2>3, <2>4, <2>5, <2>6, Zenon
<1>3. CASE Receive(r)
  <2>1. TypeOK'
    BY <1>3, Zenon DEF Receive, loopVars, readVars
  <2>2. AddingInTime'
    BY <1>3 DEF Receive, AddingInTime
  <2>3. NewUnanswered' /\ NoneIsUnsent' /\ OneResult' /\ NoClockWarp'
    BY <1>3, Zenon DEF Receive, NewUnanswered, NoneIsUnsent, OneResult, NoClockWarp
  <2>4. QueueExact' /\ NextTimeoutIsHead'
    <3>1. /\ plist' = plist /\ nextTimeout' = nextTimeout /\ errc' = errc
          /\ nextTimeout \in Reqs \cup {NoReq}
      BY <1>3 DEF Receive, loopVars
    <3>2. \A q \in Reqs : pc'[q] \in {"waiting", "done"}
                             <=> pc[q] \in {"waiting", "done"}
      BY <1>3 DEF Receive
    <3>3. QueueExact /\ NextTimeoutIsHead
      OBVIOUS
    <3>4. QueueExact'
      BY ONLY <3>1, <3>2, <3>3 DEF QueueExact
    <3>. QED
      BY ONLY <3>1, <3>2, <3>3, <3>4 DEF NextTimeoutIsHead
  <2>5. QueueOrdered' /\ DeadlinesNear' /\ HeadArmed' /\ TickPast'
    BY <1>3 DEF Receive, loopVars, QueueOrdered, DeadlinesNear, HeadArmed,
                TickPast
  <2>. QED
    BY <2>1, <2>2, <2>3, <2>4, <2>5, Zenon
<1>. QED
  BY <1>1, <1>2, <1>3, Zenon

\* The steps of the read loop and of close() leave the queue alone.
LEMMA ReadAndCloseSteps ==
  ASSUME IInv,
         \/ \E p \in Traffic : ReadPacket(p)
         \/ ReplyClosed \/ CloseChannel \/ CloseConn
  PROVE  IInv'
<1>1. UNCHANGED <<clock, reqVars, loopVars>>
  BY DEF ReadPacket, ReplyClosed, CloseChannel, CloseConn
<1>2. TypeOK'
  <2>1. closing' \in BOOLEAN /\ conn' \in BOOLEAN
    BY Zenon DEF IInv, TypeOK, ReadPacket, ReplyClosed, CloseChannel, CloseConn, readVars
  <2>2. reader' \in Traffic \cup {NoPacket} /\ npackets' \in 0..MaxPackets
    BY BoundsAssumption
       DEF IInv, TypeOK, ReadPacket, ReplyClosed, CloseChannel, CloseConn, readVars
  <2>. QED
    BY <1>1, <2>1, <2>2 DEF IInv, TypeOK, reqVars, loopVars
<1>3. AddingInTime' /\ NewUnanswered' /\ NoneIsUnsent' /\ OneResult' /\ NoClockWarp'
  BY <1>1 DEF IInv, AddingInTime, NewUnanswered, NoneIsUnsent, OneResult,
              NoClockWarp, reqVars
<1>4. QueueExact' /\ QueueOrdered'
  BY <1>1, Zenon DEF IInv, QueueExact, QueueOrdered, reqVars, loopVars
<1>5. DeadlinesNear' /\ NextTimeoutIsHead' /\ HeadArmed' /\ TickPast'
  BY <1>1 DEF IInv, DeadlinesNear, NextTimeoutIsHead, HeadArmed, TickPast,
              reqVars, loopVars
<1>. QED
  BY <1>2, <1>3, <1>4, <1>5 DEF IInv

\* The passing of time and the firing of the timer.
LEMMA ClockSteps ==
  ASSUME IInv, Tick \/ TimerFire
  PROVE  IInv'
<1>. USE DEF IInv
<1>1. /\ UNCHANGED <<reqVars, plist, nextTimeout, loop>>
      /\ plist \in Seq(Reqs) /\ Len(plist) \in Nat
      /\ \A i \in 1..Len(plist) : plist[i] \in Reqs
  BY ElementOfSeq, LenProperties DEF Tick, TimerFire, TypeOK, loopVars
<1>2. NewUnanswered' /\ NoneIsUnsent' /\ OneResult' /\ NoClockWarp'
  BY <1>1, Zenon DEF NewUnanswered, NoneIsUnsent, OneResult, NoClockWarp, reqVars
<1>3. QueueExact' /\ QueueOrdered' /\ NextTimeoutIsHead'
  BY <1>1, Zenon DEF QueueExact, QueueOrdered, NextTimeoutIsHead, reqVars
<1>4. CASE Tick
  <2>1. TypeOK'
    BY <1>4, TimeAssumption DEF Tick, TypeOK, reqVars, loopVars, readVars
  <2>2. AddingInTime' /\ TickPast'
    BY <1>4, TimeAssumption
       DEF Tick, TypeOK, AddingInTime, TickPast, LastStart, Off, reqVars, loopVars
  <2>3. HeadArmed'
    BY <1>4 DEF Tick, HeadArmed, reqVars, loopVars
  <2>4. DeadlinesNear'
    <3>1. /\ clock \in Nat /\ clock' = clock + 1 /\ RespTimeout \in Nat
          /\ \A i \in 1..Len(plist) : deadline[plist[i]] \in Nat
          /\ UNCHANGED <<plist, deadline>>
      BY <1>1, <1>4, TimeAssumption DEF Tick, TypeOK, reqVars
    <3>. QED
      BY <3>1 DEF DeadlinesNear
  <2>. QED
    BY <1>2, <1>3, <2>1, <2>2, <2>3, <2>4
<1>5. CASE TimerFire
  <2>1. TypeOK'
    BY <1>5 DEF TimerFire, TypeOK, reqVars, readVars
  <2>2. AddingInTime' /\ DeadlinesNear'
    BY <1>5, Zenon DEF TimerFire, AddingInTime, DeadlinesNear, reqVars
  <2>3. TickPast'
    BY <1>5, TimeAssumption DEF TimerFire, TypeOK, TickPast, Off
  <2>4. tickC' # Off
    BY <1>5, TimeAssumption DEF TimerFire, TypeOK, Off
  <2>5. HeadArmed'
    BY <2>4 DEF HeadArmed
  <2>. QED
    BY <1>2, <1>3, <2>1, <2>2, <2>3, <2>5
<1>. QED
  BY <1>4, <1>5

\* The distance that resetTimeout computes is always small.
LEMMA HeadDeadlineNear ==
  ASSUME IInv, plist # << >>
  PROVE  deadline[plist[1]] - clock < 2 * RespTimeout
<1>1. 1 \in 1..Len(plist) /\ plist[1] \in Reqs
  <2>1. plist \in Seq(Reqs)
    BY DEF IInv, TypeOK
  <2>2. Len(plist) \in Nat /\ Len(plist) # 0
    BY ONLY <2>1, plist # << >>, EmptySeq, LenProperties
  <2>3. 1 \in 1..Len(plist)
    BY ONLY <2>2
  <2>. QED
    BY ONLY <2>1, <2>3, ElementOfSeq
<1>2. /\ deadline[plist[1]] \in Int /\ clock \in Int
      /\ RespTimeout \in Nat \ {0}
  BY <1>1, TimeAssumption DEF IInv, TypeOK
<1>3. deadline[plist[1]] <= clock + RespTimeout
  BY <1>1 DEF IInv, DeadlinesNear
<1>. QED
  BY <1>2, <1>3

\* resetTimeout arms the timer for the head; its branch for a clock that
\* jumped back would need a deadline that DeadlinesNear rules out.
LEMMA ResetTimeoutStep ==
  ASSUME IInv, ResetTimeout
  PROVE  IInv'
<1>. USE DEF IInv
<1>1. /\ plist \in Seq(Reqs) /\ Len(plist) \in Nat
      /\ \A i \in 1..Len(plist) : plist[i] \in Reqs
      /\ plist # << >> => 1 \in 1..Len(plist) /\ plist[1] \in Reqs
  <2>1. plist \in Seq(Reqs)
    BY DEF TypeOK
  <2>2. Len(plist) \in Nat /\ (plist # << >> => Len(plist) # 0)
    BY ONLY <2>1, LenProperties, EmptySeq
  <2>3. \A i \in 1..Len(plist) : plist[i] \in Reqs
    BY ONLY <2>1, ElementOfSeq
  <2>4. plist # << >> => 1 \in 1..Len(plist)
    BY ONLY <2>2
  <2>. QED
    BY ONLY <2>1, <2>2, <2>3, <2>4
<1>2. plist # << >> => deadline[plist[1]] - clock < 2 * RespTimeout
  BY HeadDeadlineNear
<1>3. UNCHANGED <<clock, reqVars, plist, tickC>>
  BY <1>2 DEF ResetTimeout, reqVars
<1>4. \/ UNCHANGED <<nextTimeout, timer>> /\ (plist = << >> \/ nextTimeout = plist[1])
      \/ plist # << >> /\ nextTimeout' = plist[1] /\ timer' = deadline[plist[1]]
  BY <1>2 DEF ResetTimeout
<1>5. TypeOK'
  <2>1. nextTimeout' \in Reqs \cup {NoReq} /\ timer' \in 0..MaxTime \cup {Off}
    <3>1. /\ nextTimeout \in Reqs \cup {NoReq} /\ timer \in 0..MaxTime \cup {Off}
          /\ deadline \in [Reqs -> 0..MaxTime]
      BY DEF TypeOK
    <3>. QED
      BY ONLY <1>1, <1>4, <3>1
  <2>2. loop' = "select" /\ UNCHANGED <<closing, refreshes, conn, reader, npackets>>
    BY DEF ResetTimeout, readVars
  <2>. QED
    BY <1>3, <2>1, <2>2, Zenon DEF TypeOK, reqVars
<1>6. AddingInTime' /\ NewUnanswered' /\ NoneIsUnsent' /\ OneResult' /\ NoClockWarp'
  BY <1>3 DEF AddingInTime, NewUnanswered, NoneIsUnsent, OneResult,
              NoClockWarp, reqVars
<1>7. QueueExact' /\ QueueOrdered' /\ DeadlinesNear' /\ TickPast'
  BY <1>3 DEF QueueExact, QueueOrdered, DeadlinesNear, TickPast, reqVars
<1>8. NextTimeoutIsHead'
  <2>1. plist # << >> => pc[plist[1]] \in {"waiting", "done"}
    BY <1>1 DEF QueueExact
  <2>. QED
    BY <1>1, <1>3, <1>4, <2>1 DEF NextTimeoutIsHead, QueueExact, reqVars
<1>9. HeadArmed'
  BY <1>1, <1>3, <1>4, TimeAssumption, SMTT(30) DEF HeadArmed, TypeOK, Off, reqVars
<1>. QED
  BY <1>5, <1>6, <1>7, <1>8, <1>9

LEMMA LoopRefreshStep ==
  ASSUME IInv, LoopRefresh
  PROVE  IInv'
<1>. USE DEF IInv, LoopRefresh
<1>1. TypeOK'
  <2>1. refreshes' \in 0..MaxRefreshes /\ loop' = "reset"
    BY BoundsAssumption DEF TypeOK
  <2>. QED
    BY <2>1 DEF TypeOK, reqVars, readVars
<1>2. AddingInTime' /\ NewUnanswered' /\ NoneIsUnsent' /\ OneResult' /\ NoClockWarp'
  BY DEF AddingInTime, NewUnanswered, NoneIsUnsent, OneResult, NoClockWarp, reqVars
<1>3. QueueExact' /\ QueueOrdered' /\ DeadlinesNear' /\ TickPast'
  BY DEF QueueExact, QueueOrdered, DeadlinesNear, TickPast, reqVars
<1>4. NextTimeoutIsHead' /\ HeadArmed'
  BY DEF NextTimeoutIsHead, HeadArmed, reqVars
<1>. QED
  BY <1>1, <1>2, <1>3, <1>4

\* The loop ends: the queue is answered as a whole and dropped.
LEMMA LoopClosingStep ==
  ASSUME IInv, LoopClosing
  PROVE  IInv'
<1>. USE DEF IInv, LoopClosing
<1>. DEFINE Q == {plist[i] : i \in 1..Len(plist)}
<1>1. ASSUME NEW r \in Q
      PROVE  /\ r \in Reqs /\ pc[r] \in {"waiting", "done"}
             /\ errc[r] = None /\ nsent[r] = 0
  <2>1. PICK i \in 1..Len(plist) : r = plist[i]
    OBVIOUS
  <2>2. r \in Reqs
    BY <2>1, ElementOfSeq DEF TypeOK
  <2>3. errc[r] = None /\ pc[r] \in {"waiting", "done"}
    BY <2>1, <2>2 DEF QueueExact
  <2>. QED
    BY <2>2, <2>3 DEF NoneIsUnsent
<1>2. \A r \in Reqs : /\ errc'[r] = IF r \in Q THEN "closed" ELSE errc[r]
                      /\ nsent'[r] = IF r \in Q THEN nsent[r] + 1 ELSE nsent[r]
  BY DEF Send
<1>3. \A r \in Reqs : r \in Q <=> pc[r] \in {"waiting", "done"} /\ errc[r] = None
  BY DEF QueueExact
<1>4. plist' = << >> /\ Len(plist') = 0
  OBVIOUS
<1>5. TypeOK'
  <2>1. errc' \in [Reqs -> Results \cup {None}] /\ nsent' \in [Reqs -> Nat]
    <3>1. /\ errc \in [Reqs -> Results \cup {None}] /\ nsent \in [Reqs -> Nat]
          /\ "closed" \in Results
      BY DEF TypeOK, Results
    <3>2. /\ errc' = [r \in Reqs |-> IF r \in Q THEN "closed" ELSE errc[r]]
          /\ nsent' = [r \in Reqs |-> IF r \in Q THEN nsent[r] + 1 ELSE nsent[r]]
      BY Zenon DEF Send
    <3>. HIDE DEF Q, LoopClosing, IInv
    <3>. QED
      BY <3>1, <3>2
  <2>2. plist' \in Seq(Reqs) /\ timer' = Off /\ loop' = "exited"
    BY EmptySeq
  <2>. QED
    BY <2>1, <2>2 DEF TypeOK, readVars
<1>. HIDE DEF Q
<1>6. NewUnanswered' /\ NoneIsUnsent' /\ OneResult' /\ NoClockWarp'
  BY <1>1, <1>2 DEF NewUnanswered, NoneIsUnsent, OneResult, NoClockWarp, None
<1>7. QueueExact'
  BY <1>2, <1>3, <1>4 DEF QueueExact, None
<1>8. AddingInTime' /\ TickPast'
  BY DEF AddingInTime, TickPast
<1>9. QueueOrdered' /\ DeadlinesNear' /\ NextTimeoutIsHead' /\ HeadArmed'
  BY <1>4 DEF QueueOrdered, DeadlinesNear, NextTimeoutIsHead, HeadArmed
<1>. QED
  BY <1>5, <1>6, <1>7, <1>8, <1>9

\* A request joins the queue at its end, with the latest deadline of all.
LEMMA LoopAddPendingStep ==
  ASSUME IInv, NEW r \in Reqs, LoopAddPending(r)
  PROVE  IInv'
<1>. USE DEF IInv, LoopAddPending
<1>1. /\ plist \in Seq(Reqs) /\ Len(plist) \in Nat
      /\ \A i \in 1..Len(plist) : plist[i] \in Reqs /\ plist[i] # r
  BY ElementOfSeq, LenProperties, Zenon DEF TypeOK, QueueExact
<1>2. /\ plist' \in Seq(Reqs) /\ Len(plist') = Len(plist) + 1
      /\ \A i \in 1..Len(plist) : plist'[i] = plist[i]
      /\ plist'[Len(plist) + 1] = r
  <2>1. plist' = Append(plist, r)
    OBVIOUS
  <2>. QED
    BY ONLY <1>1, <2>1, r \in Reqs, AppendProperties
<1>3. /\ deadline'[r] = clock + RespTimeout
      /\ \A q \in Reqs : q # r => deadline'[q] = deadline[q] /\ pc'[q] = pc[q]
      /\ pc[r] = "adding" /\ pc'[r] = "waiting" /\ errc[r] = None
  BY DEF TypeOK, NewUnanswered
<1>4. TypeOK'
  <2>1. clock + RespTimeout \in 0..MaxTime
    BY TimeAssumption DEF TypeOK, AddingInTime, LastStart
  <2>2. deadline' \in [Reqs -> 0..MaxTime]
        /\ pc' \in [Reqs -> {"idle", "adding", "waiting", "done"}]
    BY <2>1 DEF TypeOK
  <2>. QED
    BY <1>2, <2>2, Zenon DEF TypeOK, readVars
<1>5. AddingInTime' /\ NewUnanswered' /\ NoneIsUnsent' /\ OneResult' /\ NoClockWarp'
  BY <1>3 DEF AddingInTime, NewUnanswered, NoneIsUnsent, OneResult, NoClockWarp
<1>6. QueueExact'
  <2>1. ASSUME NEW i \in 1..Len(plist'), NEW j \in 1..Len(plist'),
               plist'[i] = plist'[j]
        PROVE  i = j
    <3>1. \A m, n \in 1..Len(plist) : plist[m] = plist[n] => m = n
      BY Zenon DEF QueueExact
    <3>2. /\ i \in 1..Len(plist) \/ i = Len(plist) + 1
          /\ j \in 1..Len(plist) \/ j = Len(plist) + 1
      BY ONLY <1>1, <1>2, i \in 1..Len(plist'), j \in 1..Len(plist')
    <3>3. CASE i \in 1..Len(plist) /\ j \in 1..Len(plist)
      BY ONLY <1>2, <2>1, <3>1, <3>3
    <3>4. ~(i \in 1..Len(plist) /\ j = Len(plist) + 1)
      BY ONLY <1>1, <1>2, <2>1
    <3>5. ~(j \in 1..Len(plist) /\ i = Len(plist) + 1)
      BY ONLY <1>1, <1>2, <2>1
    <3>. QED
      BY ONLY <3>2, <3>3, <3>4, <3>5
  <2>2. ASSUME NEW q \in Reqs, q # r
        PROVE (\E i \in 1..Len(plist') : plist'[i] = q)
                <=> \E i \in 1..Len(plist) : plist[i] = q
    <3>1. ASSUME NEW i \in 1..Len(plist'), plist'[i] = q
          PROVE  i \in 1..Len(plist) /\ plist[i] = q
      <4>1. i # Len(plist) + 1
        BY ONLY <1>2, <2>2, <3>1
      <4>2. i \in 1..Len(plist)
        BY ONLY <1>1, <1>2, <4>1, i \in 1..Len(plist')
      <4>. QED
        BY ONLY <1>2, <3>1, <4>2
    <3>2. ASSUME NEW i \in 1..Len(plist), plist[i] = q
          PROVE  i \in 1..Len(plist') /\ plist'[i] = q
      <4>1. i \in 1..Len(plist')
        BY ONLY <1>1, <1>2, i \in 1..Len(plist)
      <4>. QED
        BY ONLY <1>2, <3>2, <4>1
    <3>. QED
      BY ONLY <3>1, <3>2
  <2>3. \E i \in 1..Len(plist') : plist'[i] = r
    <3>1. Len(plist) + 1 \in 1..Len(plist')
      BY ONLY <1>1, <1>2
    <3>2. plist'[Len(plist) + 1] = r
      BY ONLY <1>1, <1>2
    <3>. QED
      BY <3>1, <3>2, Zenon
  <2>4. ASSUME NEW q \in Reqs
        PROVE (\E i \in 1..Len(plist') : plist'[i] = q)
                <=> (pc'[q] \in {"waiting", "done"} /\ errc'[q] = None)
    BY <1>3, <2>2, <2>3 DEF QueueExact
  <2>. QED
    BY <2>1, <2>4, Zenon DEF QueueExact
<1>7. \A i \in 1..Len(plist) :
        /\ deadline'[plist'[i]] = deadline[plist[i]]
        /\ deadline[plist[i]] \in Nat
        /\ deadline[plist[i]] <= clock + RespTimeout
  <2>1. ASSUME NEW i \in 1..Len(plist)
        PROVE  deadline[plist[i]] \in Nat /\ deadline[plist[i]] <= clock + RespTimeout
    <3>1. plist[i] \in Reqs /\ deadline \in [Reqs -> 0..MaxTime] /\ MaxTime \in Nat
      BY <1>1, TimeAssumption, Zenon DEF TypeOK
    <3>2. deadline[plist[i]] <= clock + RespTimeout
      BY Zenon DEF DeadlinesNear
    <3>. QED
      BY ONLY <3>1, <3>2
  <2>2. ASSUME NEW i \in 1..Len(plist)
        PROVE  deadline'[plist'[i]] = deadline[plist[i]]
    BY <1>1, <1>2, <1>3
  <2>. QED
    BY <2>1, <2>2, Zenon
<1>8. clock \in Nat /\ RespTimeout \in Nat
  BY TimeAssumption DEF TypeOK
<1>9. QueueOrdered' /\ DeadlinesNear'
  <2>1. ASSUME NEW i \in 1..Len(plist')
        PROVE  deadline'[plist'[i]] <= clock + RespTimeout
    <3>1. i \in 1..Len(plist) \/ i = Len(plist) + 1
      BY ONLY <1>1, <1>2, i \in 1..Len(plist')
    <3>2. CASE i \in 1..Len(plist)
      BY ONLY <1>7, <3>2
    <3>3. CASE i = Len(plist) + 1
      BY ONLY <1>2, <1>3, <1>8, <3>3
    <3>. QED
      BY ONLY <3>1, <3>2, <3>3
  <2>2. clock' = clock /\ QueueOrdered
    OBVIOUS
  <2>3. DeadlinesNear'
    BY ONLY <2>1, <2>2 DEF DeadlinesNear
  <2>4. ASSUME NEW i \in 1..Len(plist'), NEW j \in 1..Len(plist'), i < j
        PROVE  deadline'[plist'[i]] <= deadline'[plist'[j]]
    <3>1. /\ i \in 1..Len(plist)
          /\ j \in 1..Len(plist) \/ j = Len(plist) + 1
      BY ONLY <1>1, <1>2, <2>4, i \in 1..Len(plist'), j \in 1..Len(plist')
    <3>2. CASE j \in 1..Len(plist)
      <4>1. deadline[plist[i]] <= deadline[plist[j]]
        BY ONLY <2>2, <2>4, <3>1, <3>2 DEF QueueOrdered
      <4>. QED
        BY ONLY <1>7, <3>1, <3>2, <4>1
    <3>3. CASE j = Len(plist) + 1
      BY ONLY <1>2, <1>3, <1>7, <3>1, <3>3
    <3>. QED
      BY ONLY <3>1, <3>2, <3>3
  <2>. QED
    BY ONLY <2>3, <2>4 DEF QueueOrdered
<1>10. nextTimeout # r
  BY <1>3, ReqsAssumption DEF NextTimeoutIsHead
<1>11. NextTimeoutIsHead'
  <2>1. /\ nextTimeout' = nextTimeout /\ nextTimeout \in Reqs \cup {NoReq}
        /\ nextTimeout # NoReq => pc[nextTimeout] \in {"waiting", "done"}
        /\ \A i \in 1..Len(plist) : plist[i] = nextTimeout => i = 1
    BY DEF NextTimeoutIsHead, TypeOK
  <2>2. nextTimeout' # NoReq => pc'[nextTimeout'] \in {"waiting", "done"}
    BY ONLY <1>3, <1>10, <2>1, Zenon
  <2>3. ASSUME NEW i \in 1..Len(plist'), plist'[i] = nextTimeout'
        PROVE  i = 1
    <3>1. i # Len(plist) + 1
      BY ONLY <1>2, <1>10, <2>1, <2>3
    <3>2. i \in 1..Len(plist)
      BY ONLY <1>1, <1>2, <3>1, i \in 1..Len(plist')
    <3>. QED
      BY ONLY <1>2, <2>1, <2>3, <3>2
  <2>. QED
    BY ONLY <2>2, <2>3 DEF NextTimeoutIsHead
<1>12. HeadArmed' /\ TickPast'
  <2>1. /\ loop' = "reset" /\ UNCHANGED <<clock, timer, tickC, nextTimeout>>
        /\ loop = "select"
    OBVIOUS
  <2>2. TickPast'
    BY <2>1 DEF TickPast
  <2>3. CASE plist = << >>
    <3>1. Len(plist) = 0
      BY ONLY <2>3
    <3>2. plist'[1] = r
      BY ONLY <1>2, <3>1
    <3>. QED
      BY ONLY <1>10, <2>1, <2>2, <3>2 DEF HeadArmed
  <2>4. CASE plist # << >>
    <3>1. 1 \in 1..Len(plist)
      BY ONLY <1>1, <2>4, EmptySeq
    <3>2. deadline'[plist'[1]] = deadline[plist[1]]
      BY ONLY <1>7, <3>1
    <3>3. HeadArmed
      OBVIOUS
    <3>4. tickC # Off \/ (timer # Off /\ timer <= deadline[plist[1]])
      BY ONLY <2>1, <2>4, <3>3 DEF HeadArmed
    <3>. QED
      BY ONLY <2>1, <2>2, <3>2, <3>4 DEF HeadArmed
  <2>. QED
    BY ONLY <2>3, <2>4
<1>. QED
  BY <1>4, <1>5, <1>6, <1>9, <1>11, <1>12

\* A packet completes at most one request, which leaves the queue.
LEMMA LoopGotReplyStep ==
  ASSUME IInv, LoopGotReply
  PROVE  IInv'
<1>. USE DEF LoopGotReply
<1>1. /\ UNCHANGED <<clock, pc, deadline, nextTimeout, timer, tickC>>
      /\ loop = "select" /\ loop' = "reset"
  OBVIOUS
<1>2. calls' \in [Reqs -> Nat] /\ nreceived' \in [Reqs -> Nat]
  <2>1. reader.size \in Nat
    BY TrafficAssumption DEF IInv, TypeOK
  <2>2. calls \in [Reqs -> Nat] /\ nreceived \in [Reqs -> Nat]
    BY DEF IInv, TypeOK
  <2>. QED
    BY <2>1, <2>2
<1>3. /\ plist' \in Seq(Reqs)
      /\ errc' \in [Reqs -> Results \cup {None}]
      /\ nsent' \in [Reqs -> Nat]
      /\ NewUnanswered' /\ NoneIsUnsent' /\ OneResult' /\ NoClockWarp'
      /\ QueueExact' /\ QueueOrdered'
      /\ \A j \in 1..Len(plist') :
           \E k \in 1..Len(plist) : plist'[j] = plist[k] /\ j <= k
  <2>1. CASE UNCHANGED <<plist, errc, nsent>>
    <3>1. NewUnanswered' /\ NoneIsUnsent' /\ OneResult' /\ NoClockWarp'
      BY <1>1, <2>1, ZenonT(30) DEF IInv, NewUnanswered, NoneIsUnsent, OneResult, NoClockWarp
    <3>2. QueueExact' /\ QueueOrdered'
      BY <1>1, <2>1 DEF IInv, QueueExact, QueueOrdered
    <3>3. Len(plist) \in Nat
      BY LenProperties DEF IInv, TypeOK
    <3>4. \A j \in 1..Len(plist') :
            \E k \in 1..Len(plist) : plist'[j] = plist[k] /\ j <= k
      BY ONLY <2>1, <3>3, SMTT(30)
    <3>5. /\ plist \in Seq(Reqs)
          /\ errc \in [Reqs -> Results \cup {None}]
          /\ nsent \in [Reqs -> Nat]
      BY DEF IInv, TypeOK
    <3>. QED
      BY ONLY <2>1, <3>1, <3>2, <3>4, <3>5
  <2>2. ASSUME NEW i \in Completing(reader),
               Send({plist[i]}, "ok"), plist' = Without(plist, i)
        PROVE  <1>3!:
    <3>1. i \in 1..Len(plist)
      BY Zenon DEF Completing, Matching
    <3>. QED
      BY <1>1, <2>2, <3>1, DropQueued, Zenon
  <2>. QED
    BY <2>1, <2>2, Zenon
<1>4. TypeOK'
  BY <1>1, <1>2, <1>3, Zenon DEF IInv, TypeOK
<1>5. AddingInTime' /\ TickPast'
  BY <1>1, Zenon DEF IInv, AddingInTime, TickPast
<1>6. DeadlinesNear'
  BY <1>1, <1>3, Zenon DEF IInv, DeadlinesNear
<1>7. NextTimeoutIsHead'
  <2>1. Len(plist) \in Nat /\ Len(plist') \in Nat
    BY <1>3, LenProperties DEF IInv, TypeOK
  <2>2. NextTimeoutIsHead
    BY Zenon DEF IInv
  <2>3. ASSUME NEW j \in 1..Len(plist'), plist'[j] = nextTimeout
        PROVE  j = 1
    <3>1. PICK k \in 1..Len(plist) : plist'[j] = plist[k] /\ j <= k
      BY ONLY <1>3, j \in 1..Len(plist'), SMTT(30)
    <3>2. k = 1
      BY ONLY <2>2, <2>3, <3>1 DEF NextTimeoutIsHead
    <3>. QED
      BY ONLY <2>1, <3>1, <3>2, j \in 1..Len(plist'), SMTT(30)
  <2>. QED
    BY ONLY <1>1, <2>2, <2>3, SMTT(30) DEF NextTimeoutIsHead
<1>8. HeadArmed'
  <2>. SUFFICES ASSUME plist' # << >>, nextTimeout = plist'[1]
                PROVE  tickC # Off \/ (timer # Off /\ timer <= deadline[plist'[1]])
    BY <1>1 DEF HeadArmed
  <2>1. 1 \in 1..Len(plist')
    <3>1. Len(plist') \in Nat /\ Len(plist') # 0
      BY ONLY <1>3, plist' # << >>, EmptySeq
    <3>. QED
      BY ONLY <3>1
  <2>2. PICK k \in 1..Len(plist) : plist'[1] = plist[k]
    BY ONLY <1>3, <2>1, SMTT(30)
  <2>3. NextTimeoutIsHead /\ HeadArmed
    BY Zenon DEF IInv
  <2>4. k = 1
    BY ONLY <2>2, <2>3, nextTimeout = plist'[1] DEF NextTimeoutIsHead
  <2>5. plist # << >>
    BY ONLY k \in 1..Len(plist)
  <2>. QED
    BY ONLY <1>1, <2>2, <2>3, <2>4, <2>5 DEF HeadArmed
<1>. QED
  BY <1>3, <1>4, <1>5, <1>6, <1>7, <1>8, Zenon DEF IInv

\* A tick drops at most one request; the timer is armed anew after it.
LEMMA LoopTimeoutStep ==
  ASSUME IInv, LoopTimeout
  PROVE  IInv'
<1>. USE DEF LoopTimeout
<1>1. /\ UNCHANGED <<clock, pc, deadline, timer>>
      /\ loop' = "reset" /\ tickC' = Off /\ nextTimeout' = NoReq
  OBVIOUS
<1>2. /\ plist' \in Seq(Reqs)
      /\ errc' \in [Reqs -> Results \cup {None}]
      /\ nsent' \in [Reqs -> Nat]
      /\ NewUnanswered' /\ NoneIsUnsent' /\ OneResult' /\ NoClockWarp'
      /\ QueueExact' /\ QueueOrdered'
      /\ \A j \in 1..Len(plist') :
           \E k \in 1..Len(plist) : plist'[j] = plist[k] /\ j <= k
  <2>1. CASE UNCHANGED <<plist, errc, nsent>>
    <3>1. NewUnanswered' /\ NoneIsUnsent' /\ OneResult' /\ NoClockWarp'
      BY <1>1, <2>1, ZenonT(30) DEF IInv, NewUnanswered, NoneIsUnsent, OneResult, NoClockWarp
    <3>2. QueueExact' /\ QueueOrdered'
      BY <1>1, <2>1 DEF IInv, QueueExact, QueueOrdered
    <3>3. Len(plist) \in Nat
      BY LenProperties DEF IInv, TypeOK
    <3>4. \A j \in 1..Len(plist') :
            \E k \in 1..Len(plist) : plist'[j] = plist[k] /\ j <= k
      BY ONLY <2>1, <3>3
    <3>5. /\ plist \in Seq(Reqs)
          /\ errc \in [Reqs -> Results \cup {None}]
          /\ nsent \in [Reqs -> Nat]
      BY DEF IInv, TypeOK
    <3>. QED
      BY ONLY <2>1, <3>1, <3>2, <3>4, <3>5
  <2>2. ASSUME NEW i \in Overdue,
               Send({plist[i]}, "timeout"), plist' = Without(plist, i)
        PROVE  <1>2!:
    <3>1. i \in 1..Len(plist)
      BY Zenon DEF Overdue
    <3>. QED
      BY <1>1, <2>2, <3>1, DropQueued, Zenon
  <2>. QED
    BY <2>1, <2>2, Zenon
<1>3. TypeOK'
  BY <1>1, <1>2, Zenon DEF IInv, TypeOK, readVars
<1>4. AddingInTime' /\ TickPast'
  BY <1>1, TimeAssumption DEF IInv, TypeOK, AddingInTime, TickPast, Off
<1>5. DeadlinesNear'
  BY <1>1, <1>2, Zenon DEF IInv, DeadlinesNear
<1>6. NextTimeoutIsHead' /\ HeadArmed'
  <2>1. \A j \in 1..Len(plist') : plist'[j] # NoReq
    BY <1>2, ElementOfSeq, ReqsAssumption
  <2>2. plist' # << >> => 1 \in 1..Len(plist')
    BY <1>2, EmptySeq
  <2>. QED
    BY <1>1, <2>1, <2>2 DEF NextTimeoutIsHead, HeadArmed
<1>. QED
  BY <1>2, <1>3, <1>4, <1>5, <1>6 DEF IInv

LEMMA StutterStep ==
  ASSUME IInv, UNCHANGED vars
  PROVE  IInv'
<1>. USE DEF IInv, vars, reqVars, loopVars, readVars
<1>1. TypeOK'
  BY DEF TypeOK
<1>2. AddingInTime' /\ NewUnanswered' /\ NoneIsUnsent' /\ OneResult' /\ NoClockWarp'
  BY Zenon DEF AddingInTime, NewUnanswered, NoneIsUnsent, OneResult, NoClockWarp
<1>3. QueueExact' /\ QueueOrdered' /\ DeadlinesNear'
  BY Zenon DEF QueueExact, QueueOrdered, DeadlinesNear
<1>4. NextTimeoutIsHead' /\ HeadArmed' /\ TickPast'
  BY DEF NextTimeoutIsHead, HeadArmed, TickPast
<1>. QED
  BY <1>1, <1>2, <1>3, <1>4

LEMMA NextIInv == IInv /\ [Next]_vars => IInv'
<1>. SUFFICES ASSUME IInv, [Next]_vars PROVE IInv'
  OBVIOUS
<1>1. CASE \E r \in Reqs : Begin(r) \/ PendingClosed(r) \/ Receive(r)
  BY <1>1, RequestSteps
<1>2. CASE \E r \in Reqs : LoopAddPending(r)
  BY <1>2, LoopAddPendingStep
<1>3. CASE \/ \E p \in Traffic : ReadPacket(p)
           \/ ReplyClosed \/ CloseChannel \/ CloseConn
  BY <1>3, ReadAndCloseSteps
<1>4. CASE Tick \/ TimerFire
  BY <1>4, ClockSteps
<1>5. CASE ResetTimeout
  BY <1>5, ResetTimeoutStep
<1>6. CASE LoopRefresh
  BY <1>6, LoopRefreshStep
<1>7. CASE LoopClosing
  BY <1>7, LoopClosingStep
<1>8. CASE LoopGotReply
  BY <1>8, LoopGotReplyStep
<1>9. CASE LoopTimeout
  BY <1>9, LoopTimeoutStep
<1>10. CASE UNCHANGED vars
  BY <1>10, StutterStep
<1>. QED
  BY <1>1, <1>2, <1>3, <1>4, <1>5, <1>6, <1>7, <1>8, <1>9, <1>10 DEF Next

\* The queue invariant holds in every reachable state.
THEOREM Invariance == SafetySpec => []IInv
BY InitIInv, NextIInv, PTL DEF SafetySpec

-----------------------------------------------------------------------------
\* Every variable of the loop keeps its type: in particular no deadline
\* lies beyond the time at which the loop can still act on it.
THEOREM TypeCorrect == SafetySpec => []TypeOK
<1>1. IInv => TypeOK
  BY DEF IInv
<1>. QED
  BY <1>1, Invariance, PTL

\* errc, which holds one value, is sent at most one: the loop never blocks.
THEOREM OneResultAlways == SafetySpec => []OneResult
<1>1. IInv => OneResult
  BY DEF IInv
<1>. QED
  BY <1>1, Invariance, PTL

\* plist holds the accepted and unanswered requests, in deadline order.
THEOREM QueueCorrect == SafetySpec => [](QueueExact /\ QueueOrdered)
<1>1. IInv => QueueExact /\ QueueOrdered
  BY DEF IInv
<1>. QED
  BY <1>1, Invariance, PTL

\* The loop never waits in its select without a wake-up for the head.
THEOREM WakeupAlwaysArmed == SafetySpec => []WakeupArmed
<1>1. IInv => WakeupArmed
  BY DEF IInv, HeadArmed, WakeupArmed
<1>. QED
  BY <1>1, Invariance, PTL

\* The clock-warp branch of resetTimeout is dead code.
THEOREM ClockWarpNever == SafetySpec => []NoClockWarp
<1>1. IInv => NoClockWarp
  BY DEF IInv
<1>. QED
  BY <1>1, Invariance, PTL

-----------------------------------------------------------------------------
\* errTimeout only reaches a request whose deadline has passed, although the
\* tick that is read may have been sent for another request.
THEOREM TimeoutNeverEarly == SafetySpec => NoEarlyTimeout
<1>1. ASSUME IInv, [Next]_vars, NEW r \in Reqs,
             nsent'[r] # nsent[r], errc'[r] = "timeout"
      PROVE  deadline[r] <= clock
  <2>1. ~ UNCHANGED nsent
    BY <1>1
  <2>2. CASE \E q \in Reqs : PendingClosed(q)
    BY <1>1, <2>2 DEF PendingClosed, Send
  <2>3. CASE ResetTimeout
    BY <1>1, <2>3 DEF ResetTimeout, Send
  <2>4. CASE LoopClosing
    BY <1>1, <2>4 DEF LoopClosing, Send
  <2>5. CASE LoopGotReply
    BY <1>1, <2>5 DEF LoopGotReply, Send
  <2>6. CASE LoopTimeout
    <3>1. PICK i \in Overdue : Send({plist[i]}, "timeout")
      BY <2>1, <2>6 DEF LoopTimeout
    <3>2. r = plist[i]
      BY <1>1, <3>1 DEF Send
    <3>3. deadline[r] <= tickC /\ tickC <= clock
      BY <1>1, <3>2 DEF Overdue, IInv, TickPast
    <3>4. deadline[r] \in Int /\ tickC \in Int /\ clock \in Int
      BY <1>1, TimeAssumption DEF IInv, TypeOK, Off
    <3>. QED
      BY <3>3, <3>4
  <2>. QED
    BY <1>1, <2>1, <2>2, <2>3, <2>4, <2>5, <2>6, Zenon
       DEF Next, Begin, Receive, LoopAddPending, ReadPacket, ReplyClosed,
           CloseChannel, CloseConn, Tick, TimerFire, LoopRefresh, vars, reqVars
<1>2. IInv /\ [Next]_vars =>
        [\A r \in Reqs : nsent'[r] # nsent[r] /\ errc'[r] = "timeout"
                           => deadline[r] <= clock]_vars
  BY <1>1
<1>. QED
  BY <1>2, Invariance, PTL DEF SafetySpec, NoEarlyTimeout

-----------------------------------------------------------------------------
\* A result given to one asked request is an answer of the contract.
LEMMA SendAnswers ==
  ASSUME IInv, NEW r \in Reqs, pc[r] # "idle", errc[r] = None,
         NEW x \in {"ok", "timeout", "closed"}, Send({r}, x),
         \A q \in Reqs : q # r => pc'[q] = pc[q]
  PROVE  Contract!Next
<1>1. Status[r] = "asked"
  BY DEF Status
<1>2. Status' = [q \in Reqs |-> IF q \in {r} THEN x ELSE Status[q]]
  BY Zenon DEF Status, Send, None
<1>3. {r} \in SUBSET Reqs /\ \A q \in {r} : Status[q] = "asked"
  BY <1>1, Zenon
<1>. QED
  BY <1>2, <1>3, Zenon DEF Contract!Next, Contract!Answer, Contract!Answers

\* A step that neither answers a request nor starts one is a stutter.
LEMMA QuietStutters ==
  ASSUME UNCHANGED errc, \A q \in Reqs : pc'[q] = "idle" <=> pc[q] = "idle"
  PROVE  UNCHANGED Status
BY DEF Status

\* The transport keeps the promise its callers rely on: every request is answered
\* at most once, after it was asked, and its answer is final.
THEOREM QueueImplementsContract == SafetySpec => ImplementsContract
<1>1. Init => Contract!Init
  BY DEF Init, Contract!Init, Status
<1>2. ASSUME IInv, [Next]_vars
      PROVE  [Contract!Next]_Status
  <2>0. /\ pc \in [Reqs -> {"idle", "adding", "waiting", "done"}]
        /\ \A i \in 1..Len(plist) :
             plist[i] \in Reqs /\ errc[plist[i]] = None /\ pc[plist[i]] # "idle"
    BY <1>2, ElementOfSeq, Zenon DEF IInv, TypeOK, QueueExact
  <2>1. ASSUME NEW r \in Reqs, Begin(r)
        PROVE  Contract!Next
    <3>1. Status[r] = "idle"
      BY <1>2, <2>1 DEF Begin, Status, IInv, NewUnanswered
    <3>2. Status' = [Status EXCEPT ![r] = "asked"]
      BY <1>2, <2>0, <2>1, Zenon DEF Begin, Status, IInv, NewUnanswered
    <3>. QED
      BY <3>1, <3>2, Zenon DEF Contract!Next, Contract!Ask
  <2>2. ASSUME NEW r \in Reqs, PendingClosed(r)
        PROVE  Contract!Next
    <3>1. errc[r] = None /\ pc[r] # "idle"
      BY <1>2, <2>2 DEF PendingClosed, IInv, NewUnanswered
    <3>2. Send({r}, "closed") /\ \A q \in Reqs : q # r => pc'[q] = pc[q]
      BY <2>0, <2>2 DEF PendingClosed
    <3>. QED
      BY <1>2, <3>1, <3>2, SendAnswers
  <2>3. ASSUME NEW r \in Reqs, Receive(r) \/ LoopAddPending(r)
        PROVE  UNCHANGED Status
    BY <2>0, <2>3, QuietStutters, Zenon DEF Receive, LoopAddPending
  <2>4. CASE ResetTimeout
    <3>1. plist # << >> => deadline[plist[1]] - clock < 2 * RespTimeout
      BY <1>2, HeadDeadlineNear
    <3>2. UNCHANGED <<errc, pc>>
      BY <2>4, <3>1 DEF ResetTimeout
    <3>. QED
      BY <3>2, QuietStutters
  <2>5. CASE LoopClosing
    <3>. DEFINE Q == {plist[i] : i \in 1..Len(plist)}
    <3>1. Q \in SUBSET Reqs /\ \A r \in Q : Status[r] = "asked"
      BY <2>0, Zenon DEF Status
    <3>2. /\ errc' = [r \in Reqs |-> IF r \in Q THEN "closed" ELSE errc[r]]
          /\ pc' = pc
      BY <2>5, Zenon DEF LoopClosing, Send
    <3>. HIDE DEF Q
    <3>3. Status' = [r \in Reqs |-> IF r \in Q THEN "closed" ELSE Status[r]]
      BY <3>2 DEF Status, None
    <3>. QED
      BY <3>1, <3>3, Zenon DEF Contract!Next, Contract!Answer, Contract!Answers
  <2>6. CASE LoopGotReply
    <3>1. ASSUME NEW i \in Completing(reader), Send({plist[i]}, "ok")
          PROVE  Contract!Next
      <4>1. i \in 1..Len(plist)
        BY DEF Completing, Matching
      <4>2. \A q \in Reqs : pc'[q] = pc[q]
        BY <2>6, ZenonT(30) DEF LoopGotReply
      <4>. QED
        BY <1>2, <2>0, <3>1, <4>1, <4>2, SendAnswers, Zenon
    <3>2. ASSUME UNCHANGED errc
          PROVE  UNCHANGED Status
      BY <2>6, <3>2, QuietStutters DEF LoopGotReply
    <3>. QED
      BY <2>6, <3>1, <3>2, Zenon DEF LoopGotReply
  <2>7. CASE LoopTimeout
    <3>1. ASSUME NEW i \in Overdue, Send({plist[i]}, "timeout")
          PROVE  Contract!Next
      <4>1. i \in 1..Len(plist)
        BY DEF Overdue
      <4>2. \A q \in Reqs : pc'[q] = pc[q]
        BY <2>7 DEF LoopTimeout
      <4>. QED
        BY <1>2, <2>0, <3>1, <4>1, <4>2, SendAnswers, Zenon
    <3>2. ASSUME UNCHANGED errc
          PROVE  UNCHANGED Status
      BY <2>7, <3>2, QuietStutters DEF LoopTimeout
    <3>. QED
      BY <2>7, <3>1, <3>2, Zenon DEF LoopTimeout
  <2>8. ASSUME UNCHANGED <<pc, errc>>
        PROVE  UNCHANGED Status
    BY <2>8, QuietStutters
  <2>. QED
    BY <1>2, <2>1, <2>2, <2>3, <2>4, <2>5, <2>6, <2>7, <2>8, Zenon
       DEF Next, ReadPacket, ReplyClosed, CloseChannel, CloseConn, Tick,
           TimerFire, LoopRefresh, vars, reqVars
<1>. QED
  BY <1>1, <1>2, Invariance, PTL
     DEF SafetySpec, ImplementsContract, Contract!SafetySpec
=============================================================================
