----------------------------- MODULE ServerLoop -----------------------------
(***************************************************************************)
(* The server's main loop and its dialer: run of server.go, newTasks and   *)
(* taskDone of dial.go, with the goroutines that feed its channels: tasks, *)
(* inbound connections, sessions that end, and callers of AddPeer and      *)
(* RemovePeer.                                                             *)
(*                                                                         *)
(* An iteration of the loop reads the clock, asks the dialer for new tasks *)
(* and schedules them (Top), then serves one channel.  The clock is kept   *)
(* relative to the present: what is left of every wait, and how old the    *)
(* variable now is.                                                        *)
(***************************************************************************)
EXTENDS Integers, Sequences, FiniteSets, FiniteSetsExt

CONSTANTS
  Nodes,           \* remote nodes
  Conns,           \* connections that passed the handshake, reused
  NoConn,          \* peers[n] == nil
  Configs,         \* the servers, see ServerAssumption
  Found,           \* results that a lookup may have
  Random,          \* what ReadRandomNodes may put into its buffer
  HistExpiration,  \* dialHistoryExpiration
  LookupInterval   \* lookupInterval

\* A server has a limit maxDynDials and static nodes; it runs maxTasks tasks at
\* the same time (16 in the code), callers are the nodes that connect to it, and
\* AddPeer and RemovePeer are called for static nodes, edits times at most (bounds).
ASSUME ServerAssumption ==
  /\ IsFiniteSet(Nodes) /\ NoConn \notin Conns
  /\ Configs \subseteq [static : SUBSET Nodes, callers : SUBSET Nodes,
                        maxDynDials : Nat, maxTasks : Nat \ {0}, edits : Nat]
  /\ Found \subseteq Seq(Nodes) /\ Random \subseteq Seq(Nodes)
  /\ HistExpiration \in Nat \ {0} /\ LookupInterval \in Nat \ {0}

VARIABLES
  loop,           \* the loop goroutine: at the top, in its select, or dead
  age,            \* how long ago now was read
  static,         \* ds.static
  dialing,        \* ds.dialing, with the flag of the dial
  hist,           \* hist[n]: what is left of the entry of n in ds.hist
  lookupBuf,      \* ds.lookupBuf
  lookupRunning,  \* ds.lookupRunning
  bootstrapped,   \* ds.bootstrapped
  tasks,          \* tasks: those that run, with the phase each is in
  pendingTasks,   \* pendingTasks
  peers,          \* srv.peers
  conn,           \* the state, node and flag of each connection
  lastLookup,     \* how long ago srv.lastLookup was set
  config,         \* which server it is
  edits,          \* calls of AddPeer and RemovePeer so far
  rest            \* rest[n]: time since the last dial of n began (history)

dialVars == <<static, dialing, hist, lookupBuf, lookupRunning, bootstrapped>>
vars == <<loop, age, dialVars, tasks, pendingTasks, peers, conn, lastLookup,
          config, edits, rest>>

Gone == -2           \* hist[n] when n is not in the history
Flags == {"static", "dynamic", "inbound"}

DialTask(n, f) == [kind |-> "dial", node |-> n, flag |-> f]
DiscoverTask(b) == [kind |-> "discover", bootstrap |-> b]
WaitTask(d) == [kind |-> "wait", time |-> d]

Tasks ==
  {DialTask(n, f) : n \in Nodes, f \in {"static", "dynamic"}}
    \cup {DiscoverTask(b) : b \in BOOLEAN}
    \cup {WaitTask(d) : d \in 0..HistExpiration}

\* What a goroutine that runs a task does next; left is what remains of its
\* sleep.
MaxSleep == Max({HistExpiration, LookupInterval})
Phases == {"start", "sleep", "work", "serve", "done"}

TypeOK ==
  /\ loop \in {"top", "select", "panic"}
  /\ age \in 0..(HistExpiration + 1)
  /\ static \subseteq Nodes
  /\ dialing \in [Nodes -> {"no", "static", "dynamic"}]
  /\ hist \in [Nodes -> Gone..HistExpiration]
  /\ lookupBuf \in Seq(Nodes)
  /\ lookupRunning \in BOOLEAN
  /\ bootstrapped \in BOOLEAN
  /\ tasks \subseteq [task : Tasks, phase : Phases, left : 0..MaxSleep]
  /\ pendingTasks \in Seq(Tasks)
  /\ peers \in [Nodes -> Conns \cup {NoConn}]
  /\ conn \in [Conns -> [state : {"free"}]
                 \cup [state : {"offered", "running", "closed", "ended"},
                       node : Nodes, flag : Flags]]
  /\ lastLookup \in 0..LookupInterval
  /\ config \in Configs /\ edits \in 0..config.edits
  /\ rest \in [Nodes -> 0..HistExpiration]

Init ==
  /\ config \in Configs /\ static = config.static
  /\ loop = "top"
  /\ age = 0
  /\ dialing = [n \in Nodes |-> "no"]
  /\ hist = [n \in Nodes |-> Gone]
  /\ lookupBuf = << >>
  /\ lookupRunning = FALSE
  /\ bootstrapped = FALSE
  /\ tasks = {}
  /\ pendingTasks = << >>
  /\ peers = [n \in Nodes |-> NoConn]
  /\ conn = [c \in Conns |-> [state |-> "free"]]
  /\ lastLookup = LookupInterval
  /\ edits = 0
  /\ rest = [n \in Nodes |-> HistExpiration]

-----------------------------------------------------------------------------
(* newTasks. *)

\* hist.expire(now): entries whose time is over are popped.
Expired == [n \in Nodes |-> IF hist[n] < 0 THEN Gone ELSE hist[n]]

\* Mutant of CanDial: a dial in progress is not looked for.
CanDialTwice(n) == peers[n] = NoConn /\ Expired[n] = Gone

\* Mutant of CanDial: the history is not looked at.
CanDialSoon(n) == dialing[n] = "no" /\ peers[n] = NoConn

\* addDial creates a task for n, unless it is being dialed, is connected or
\* is in the history.
CanDial(n) ==
  /\ dialing[n] = "no"
  /\ peers[n] = NoConn
  /\ Expired[n] = Gone

\* The dynamic peers, and the nodes dialed to become one.
DynPeers == {n \in Nodes : peers[n] # NoConn /\ conn[peers[n]].flag = "dynamic"}
DynDials == {n \in Nodes : dialing[n] = "dynamic"}

\* Mutant of NeedDynDials: the dials in progress are not counted.
NeedDynDialsPeers == config.maxDynDials - Cardinality(DynPeers)

\* needDynDials, before any task is added.
NeedDynDials == config.maxDynDials - Cardinality(DynPeers) - Cardinality(DynDials)

\* addDial, when the nodes in S and in ds have been added by this call.
AddDial(ds, n, S) ==
  IF CanDial(n) /\ n \notin S \cup Range(ds) THEN Append(ds, n) ELSE ds

\* Dials(s, S)[k]: the dials that a loop over s has added after k nodes.
Dials(s, S) ==
  LET ds[k \in 0..Len(s)] == IF k = 0 THEN << >> ELSE AddDial(ds[k - 1], s[k], S)
  IN  ds

\* How many of the random nodes r the loop looks at: needDynDials/2 at most.
RandomCandidates(r) ==
  IF bootstrapped /\ NeedDynDials > 1 THEN Min({NeedDynDials \div 2, Len(r)}) ELSE 0

\* How many entries of lookupBuf the loop consumes while need is positive.
Consumed(S, need) ==
  Min({k \in 0..Len(lookupBuf) :
         k = Len(lookupBuf) \/ Len(Dials(lookupBuf, S)[k]) >= need})

DialTasks(s, f) == [i \in 1..Len(s) |-> DialTask(s[i], f)]

\* Mutant of NeedWait: no waitExpireTask is ever created.
NeedWaitNever(ts) == ts = << >> /\ FALSE

\* A waitExpireTask is created when nothing runs, nothing is to be run and
\* the history is not empty.
NeedWait(ts) ==
  /\ tasks = {} /\ pendingTasks = << >> /\ ts = << >>
  /\ \E n \in Nodes : Expired[n] # Gone

FirstExpiry == Min({Expired[n] : n \in {m \in Nodes : Expired[m] # Gone}})

\* One call of newTasks: ns is an order of the static nodes, r what the table
\* puts into randomNodes.
NewTasks(ns, r) ==
  LET sd   == Dials(ns, {})[Len(ns)]
      rd   == Dials(r, Range(sd))[RandomCandidates(r)]
      S    == Range(sd \o rd)
      need == NeedDynDials - Len(rd)
      used == Consumed(S, need)
      ld   == Dials(lookupBuf, S)[used]
      buf  == SubSeq(lookupBuf, used + 1, Len(lookupBuf))
      look == Len(buf) < need - Len(ld) /\ ~lookupRunning
      ts   == DialTasks(sd, "static") \o DialTasks(rd \o ld, "dynamic") \o
                IF look THEN <<DiscoverTask(~bootstrapped)>> ELSE << >>
  IN  [tasks   |-> IF NeedWait(ts) THEN <<WaitTask(FirstExpiry)>> ELSE ts,
       static  |-> Range(sd),
       dynamic |-> Range(rd \o ld),
       buf     |-> buf,
       look    |-> look]

-----------------------------------------------------------------------------
(* The loop. *)

\* A goroutine starts to run task t.
Started(t) ==
  [task  |-> t,
   phase |-> IF t.kind = "wait" THEN "sleep" ELSE "start",
   left  |-> IF t.kind = "wait" THEN t.time ELSE 0]

\* scheduleTasks: start as many as there is room for and keep the rest; when
\* there is no room at all, the new tasks are not kept.
Schedule(new) ==
  LET pt    == pendingTasks \o new
      start == Min({config.maxTasks - Cardinality(tasks), Len(pt)})
  IN  IF start > 0
      THEN /\ tasks' = tasks \cup {Started(pt[i]) : i \in 1..start}
           /\ pendingTasks' = SubSeq(pt, start + 1, Len(pt))
      ELSE UNCHANGED <<tasks, pendingTasks>>

\* The orders in which a loop over ds.static, a map, may come.
StaticOrders ==
  {ns \in [1..Cardinality(static) -> static] : static \subseteq Range(ns)}

\* now := time.Now(), newTasks and scheduleTasks.
Top ==
  /\ loop = "top"
  /\ \E ns \in StaticOrders, r \in Random :
       LET nt == NewTasks(ns, r)
       IN  /\ dialing' = [n \in Nodes |->
                            IF n \in nt.static THEN "static"
                            ELSE IF n \in nt.dynamic THEN "dynamic"
                            ELSE dialing[n]]
           /\ rest' = [n \in Nodes |->
                         IF n \in nt.static \cup nt.dynamic THEN 0 ELSE rest[n]]
           /\ lookupBuf' = nt.buf
           /\ lookupRunning' = (lookupRunning \/ nt.look)
           /\ Schedule(nt.tasks)
  /\ hist' = Expired
  /\ age' = 0
  /\ loop' = "select"
  /\ UNCHANGED <<static, bootstrapped, peers, conn, lastLookup, config, edits>>

\* case n := <-srv.addstatic
AddStatic(n) ==
  /\ loop = "select"
  /\ edits < config.edits
  /\ edits' = edits + 1
  /\ static' = static \cup {n}
  /\ loop' = "top"
  /\ UNCHANGED <<age, dialing, hist, lookupBuf, lookupRunning, bootstrapped,
                 tasks, pendingTasks, peers, conn, lastLookup, config, rest>>

\* case n := <-srv.rmstatic: the peer is closed and forgotten.  To close one
\* that is closed already, but not yet forgotten, is a panic.
RemoveStatic(n) ==
  /\ loop = "select"
  /\ edits < config.edits
  /\ edits' = edits + 1
  /\ static' = static \ {n}
  /\ \/ /\ peers[n] = NoConn
        /\ loop' = "top"
        /\ UNCHANGED <<peers, conn>>
     \/ /\ peers[n] # NoConn
        /\ conn[peers[n]].state = "running"
        /\ conn' = [conn EXCEPT ![peers[n]].state = "closed"]
        /\ peers' = [peers EXCEPT ![n] = NoConn]
        /\ loop' = "top"
     \/ /\ peers[n] # NoConn
        /\ conn[peers[n]].state # "running"
        /\ loop' = "panic"
        /\ UNCHANGED <<peers, conn>>
  /\ UNCHANGED <<age, dialing, hist, lookupBuf, lookupRunning, bootstrapped,
                 tasks, pendingTasks, lastLookup, config, rest>>

\* case c := <-srv.addpeer: the session starts.  The dial that offered the
\* connection is done.
AddPeer(c) ==
  /\ loop = "select"
  /\ conn[c].state = "offered"
  /\ peers' = [peers EXCEPT ![conn[c].node] = c]
  /\ conn' = [conn EXCEPT ![c].state = "running"]
  /\ tasks' = {IF /\ conn[c].flag # "inbound"
                  /\ x.task = DialTask(conn[c].node, conn[c].flag)
               THEN [x EXCEPT !.phase = "done"] ELSE x : x \in tasks}
  /\ loop' = "top"
  /\ UNCHANGED <<age, dialVars, pendingTasks, lastLookup, config, edits, rest>>

\* taskDone: a dial goes into the history, with the time at which the loop
\* last began; a lookup leaves its result.
DialDone(n) ==
  /\ hist' = [hist EXCEPT ![n] = Max({HistExpiration - age, -1})]
  /\ dialing' = [dialing EXCEPT ![n] = "no"]
  /\ UNCHANGED <<lookupBuf, lookupRunning, bootstrapped>>

DiscoverDone(b) ==
  /\ bootstrapped' = (bootstrapped \/ b)
  /\ lookupRunning' = FALSE
  /\ \E f \in Found : lookupBuf' = IF b THEN lookupBuf ELSE lookupBuf \o f
  /\ UNCHANGED <<hist, dialing>>

\* case t := <-taskdone, with delTask
TaskDone(x) ==
  /\ loop = "select"
  /\ x.phase = "done"
  /\ LET t == x.task
     IN  \/ t.kind = "dial" /\ DialDone(t.node)
         \/ t.kind = "discover" /\ DiscoverDone(t.bootstrap)
         \/ t.kind = "wait" /\ UNCHANGED <<hist, dialing, lookupBuf,
                                           lookupRunning, bootstrapped>>
  /\ tasks' = tasks \ {x}
  /\ loop' = "top"
  /\ UNCHANGED <<age, static, pendingTasks, peers, conn, lastLookup, config, edits,
                 rest>>

\* case p := <-srv.delpeer: whatever peer has that id is forgotten.
DelPeer(c) ==
  /\ loop = "select"
  /\ conn[c].state = "ended"
  /\ peers' = [peers EXCEPT ![conn[c].node] = NoConn]
  /\ conn' = [conn EXCEPT ![c] = [state |-> "free"]]
  /\ loop' = "top"
  /\ UNCHANGED <<age, dialVars, tasks, pendingTasks, lastLookup, config, edits, rest>>

-----------------------------------------------------------------------------
(* The goroutines of tasks, connections and sessions. *)

Phase(x, p) == tasks' = (tasks \ {x}) \cup {[x EXCEPT !.phase = p]}

\* dialtask.Do: the dial or the handshake fails, or the connection is offered.
DialFails(x) ==
  /\ x.task.kind = "dial"
  /\ x.phase = "start"
  /\ Phase(x, "done")
  /\ UNCHANGED <<loop, age, dialVars, pendingTasks, peers, conn, lastLookup,
                 config, edits, rest>>

DialConnects(x, c) ==
  /\ x.task.kind = "dial"
  /\ x.phase = "start"
  /\ conn[c].state = "free"
  /\ conn' = [conn EXCEPT ![c] = [state |-> "offered",
                                  node  |-> x.task.node,
                                  flag  |-> x.task.flag]]
  /\ Phase(x, "serve")
  /\ UNCHANGED <<loop, age, dialVars, pendingTasks, peers, lastLookup, config, edits,
                 rest>>

\* discoverTask.Do: a lookup sleeps until lookupInterval has passed.
DiscoverStarts(x) ==
  /\ x.task.kind = "discover"
  /\ x.phase = "start"
  /\ tasks' = (tasks \ {x}) \cup
       {[x EXCEPT !.phase = IF x.task.bootstrap THEN "work" ELSE "sleep",
                  !.left = LookupInterval - lastLookup]}
  /\ UNCHANGED <<loop, age, dialVars, pendingTasks, peers, conn, lastLookup,
                 config, edits, rest>>

LookupStarts(x) ==
  /\ x.task.kind = "discover"
  /\ x.phase = "sleep"
  /\ x.left = 0
  /\ lastLookup' = 0
  /\ Phase(x, "work")
  /\ UNCHANGED <<loop, age, dialVars, pendingTasks, peers, conn, config, edits, rest>>

DiscoverEnds(x) ==
  /\ x.task.kind = "discover"
  /\ x.phase = "work"
  /\ Phase(x, "done")
  /\ UNCHANGED <<loop, age, dialVars, pendingTasks, peers, conn, lastLookup,
                 config, edits, rest>>

\* waitExpireTask.Do
WaitEnds(x) ==
  /\ x.task.kind = "wait"
  /\ x.phase = "sleep"
  /\ x.left = 0
  /\ Phase(x, "done")
  /\ UNCHANGED <<loop, age, dialVars, pendingTasks, peers, conn, lastLookup,
                 config, edits, rest>>

\* listenLoop accepts a connection and its handshake succeeds.
Inbound(c, n) ==
  /\ conn[c].state = "free"
  /\ conn' = [conn EXCEPT ![c] = [state |-> "offered", node |-> n,
                                  flag |-> "inbound"]]
  /\ UNCHANGED <<loop, age, dialVars, tasks, pendingTasks, peers, lastLookup,
                 config, edits, rest>>

\* A session is closed by one of its goroutines, and later its Run returns.
SessionCloses(c) ==
  /\ conn[c].state = "running"
  /\ conn' = [conn EXCEPT ![c].state = "closed"]
  /\ UNCHANGED <<loop, age, dialVars, tasks, pendingTasks, peers, lastLookup,
                 config, edits, rest>>

SessionReturns(c) ==
  /\ conn[c].state = "closed"
  /\ conn' = [conn EXCEPT ![c].state = "ended"]
  /\ UNCHANGED <<loop, age, dialVars, tasks, pendingTasks, peers, lastLookup,
                 config, edits, rest>>

\* Time passes; a time that has reached max no longer matters.
Later(t, max) == Min({t + 1, max})

Tick ==
  /\ age' = Later(age, HistExpiration + 1)
  /\ hist' = [n \in Nodes |-> IF hist[n] >= 0 THEN hist[n] - 1 ELSE hist[n]]
  /\ tasks' = {[x EXCEPT !.left = Max({@ - 1, 0})] : x \in tasks}
  /\ lastLookup' = Later(lastLookup, LookupInterval)
  /\ rest' = [n \in Nodes |-> Later(rest[n], HistExpiration)]
  /\ UNCHANGED <<loop, static, dialing, lookupBuf, lookupRunning, bootstrapped,
                 pendingTasks, peers, conn, config, edits>>

-----------------------------------------------------------------------------
TaskStep(x) ==
  \/ DialFails(x)
  \/ \E c \in Conns : DialConnects(x, c)
  \/ DiscoverStarts(x)
  \/ LookupStarts(x)
  \/ DiscoverEnds(x)
  \/ WaitEnds(x)

\* The loop does not wait between serving a channel and its next select, and
\* what Top reads is written by the loop alone: the steps of the others that
\* come in between may as well come after it.
Next ==
  \/ Top
  \/ \E n \in config.static : AddStatic(n) \/ RemoveStatic(n)
  \/ \E c \in Conns : AddPeer(c) \/ DelPeer(c)
  \/ \E x \in tasks : TaskDone(x)
  \/ /\ loop = "select"
     /\ \/ \E x \in tasks : TaskStep(x)
        \/ \E c \in Conns : \/ SessionCloses(c)
                            \/ SessionReturns(c)
                            \/ \E n \in config.callers : Inbound(c, n)
        \/ Tick

\* The loop goroutine, when one of its channels is ready.
LoopStep ==
  \/ \E c \in Conns : AddPeer(c) \/ DelPeer(c)
  \/ \E x \in tasks : TaskDone(x)

\* A goroutine that sleeps wakes up.
TaskWakes(x) == DiscoverStarts(x) \/ LookupStarts(x) \/ WaitEnds(x)

\* Goroutines run and time passes.  A handshake has no deadline and a lookup may
\* wait for an answer that is lost: nothing is assumed of when a dial or a lookup
\* ends.  The loop does not stay at its top, which it can always leave.  Nothing is
\* assumed of which ready channel the select takes.
Fairness ==
  /\ []<>(loop # "top")
  /\ WF_vars(LoopStep)
  /\ WF_vars(Tick)
  /\ WF_vars(loop = "select" /\ \E x \in tasks : TaskWakes(x))

SafetySpec == Init /\ [][Next]_vars
Spec == SafetySpec /\ Fairness

-----------------------------------------------------------------------------
(* Properties. *)

\* The nodes that are dialed to become dynamic peers and those that are
\* dynamic peers never exceed maxDynDials, although a dial in progress and
\* the peer it made are counted apart; every variable keeps its type.
DynDialsBounded ==
  /\ TypeOK
  /\ Cardinality(DynPeers \cup DynDials) <= config.maxDynDials

\* No two tasks dial the same node and no two lookups run, also when some
\* wait in pendingTasks.
SameTask(t, u) == t.kind = u.kind /\ (t.kind = "dial" => t.node = u.node)
NoDoubleTask ==
  /\ \A x, y \in tasks : SameTask(x.task, y.task) => x = y
  /\ \A i \in 1..Len(pendingTasks) :
       /\ \A x \in tasks : ~SameTask(x.task, pendingTasks[i])
       /\ \A j \in 1..Len(pendingTasks) :
            SameTask(pendingTasks[i], pendingTasks[j]) => i = j

\* The comment on dialHistoryExpiration: a node is not dialed again before
\* that time has passed since the previous dial, although taskDone uses a
\* time that was read before the task was done.
DialsSpaced ==
  [][\A n \in Nodes : dialing[n] = "no" /\ dialing'[n] # "no"
                        => rest[n] >= HistExpiration]_vars

\* Task t runs, and waits for another node.
Waits(t) ==
  \E x \in tasks : x.task = t /\ x.phase = IF t.kind = "dial" THEN "start" ELSE "work"

\* scheduleTasks has dropped the dial of n: newTasks takes it to be running.
Dropped(n) ==
  /\ dialing[n] # "no"
  /\ \A t \in {x.task : x \in tasks} \cup Range(pendingTasks) :
       t.kind = "dial" => t.node # n

\* A static node without a session is dialed, again and again: the loop is
\* always woken up when an entry of the history has expired, by a task that
\* ends or by a waitExpireTask, which is made only when nothing else runs.  So
\* the node is not dialed for certain when a dial or a lookup never ends, nor
\* when all slots were busy and its dial was dropped.
StaticRedialed ==
  \/ \E t \in Tasks : t.kind # "wait" /\ <>[]Waits(t)
  \/ \A n \in Nodes :
       n \in static /\ peers[n] = NoConn ~>
         \/ \E x \in tasks : x.task.kind = "dial" /\ x.task.node = n
         \/ n \notin static \/ peers[n] # NoConn \/ loop = "panic"
         \/ Dropped(n)
=============================================================================
