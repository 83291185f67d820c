----------------------------- MODULE Lifecycle -----------------------------
(***************************************************************************)
(* The life of the server of server.go: Start and Stop, called by any      *)
(* goroutine at any time, the background goroutines they start and         *)
(* stop, and the port mappings of NatMapping that live and end with them.  *)
(*                                                                         *)
(* The local address is not a loopback address, and there is a mapper.     *)
(***************************************************************************)
EXTENDS NatMapping

CONSTANTS
  Starters,  \* goroutines that call Start
  Stoppers,  \* goroutines that call Stop
  MaxCalls   \* bound: calls of the two

ASSUME LifecycleAssumption == MaxCalls \in Nat

Callers == Starters \cup Stoppers

VARIABLES
  discover,  \* Config.Discover
  running,   \* srv.running
  mu,        \* the goroutine that holds srv.mu, or "free"
  channel,   \* srv.close and the channels made with it: "nil", "open", "closed"
  table,     \* srv.table: "nil", "open", "dbclosed", "closed"
  loops,     \* background goroutines
  call,      \* call[c]: where the call of c is
  calls,     \* calls so far
  started,   \* Start has returned without an error
  stopped,   \* Stop has returned
  misuse,    \* history: Stop was called before Start returned, or again
  refused,   \* history: a port was not free, or the database could not be opened
  panicked

callVars == <<call, calls>>
serverVars == <<discover, running, mu, channel, table, loops, started, stopped>>
historyVars == <<misuse, refused>>
vars == <<mapVars, discVars, serverVars, callVars, historyVars, panicked>>

TypeOK ==
  /\ NatTypeOK
  /\ discover \in BOOLEAN /\ running \in BOOLEAN
  /\ started \in BOOLEAN /\ stopped \in BOOLEAN
  /\ misuse \in BOOLEAN /\ refused \in BOOLEAN /\ panicked \in BOOLEAN
  /\ mu \in Callers \cup {"free"}
  /\ channel \in {"nil", "open", "closed"}
  /\ table \in {"nil", "open", "dbclosed", "closed"}
  /\ loops \subseteq {"loop", "readLoop", "listenLoop", "run"}
  /\ call \in [Callers -> {"idle", "udp", "tcp", "run", "table", "net"}]
  /\ calls \in 0..MaxCalls

Init ==
  /\ NatInit
  /\ discover \in BOOLEAN
  /\ running = FALSE /\ mu = "free" /\ channel = "nil" /\ table = "nil"
  /\ loops = {} /\ started = FALSE /\ stopped = FALSE
  /\ call = [c \in Callers |-> "idle"] /\ calls = 0
  /\ misuse = FALSE /\ refused = FALSE /\ panicked = FALSE

\* The call of c goes on at s.
Goto(c, s) == call' = [call EXCEPT ![c] = s] /\ UNCHANGED calls

\* A method is called, and goes on at s.
Calls(c, s) ==
  /\ call[c] = "idle" /\ calls < MaxCalls
  /\ calls' = calls + 1
  /\ call' = [call EXCEPT ![c] = s]

\* The program ends, and with it what the model is about.
Panic ==
  /\ panicked' = TRUE
  /\ UNCHANGED <<mapVars, discVars, serverVars>>

-----------------------------------------------------------------------------
(* Start. *)

\* Start takes the lock; a second one returns an error, the first one makes the
\* channels.
StartBegin(c) ==
  /\ mu = "free"
  /\ Calls(c, IF running THEN "idle" ELSE "udp")
  /\ mu' = IF running THEN mu ELSE c
  /\ channel' = IF running THEN channel ELSE "open"
  /\ running' = TRUE
  /\ UNCHANGED <<mapVars, discVars, discover, table, loops, started, stopped,
                 historyVars, panicked>>

\* Mutant of ListenUDP: the table is assigned to a variable of the inner block.
ListenUDPShadowed(c) ==
  /\ call[c] = "udp"
  /\ Goto(c, "tcp")
  /\ IF discover
     THEN loops' = loops \cup {"loop", "readLoop"} /\ MapBegin("udp")
     ELSE UNCHANGED <<loops, pc, timer, busy, lease, kept>>
  /\ UNCHANGED <<closed, discVars, discover, running, mu, channel, table, started, stopped,
                 historyVars, panicked>>

\* listenUDP and newUDP, or neither without discovery.
ListenUDP(c) ==
  /\ call[c] = "udp"
  /\ Goto(c, "tcp")
  /\ IF discover
     THEN /\ table' = "open" /\ loops' = loops \cup {"loop", "readLoop"}
          /\ MapBegin("udp")
     ELSE UNCHANGED <<table, loops, pc, timer, busy, lease, kept>>
  /\ UNCHANGED <<closed, discVars, discover, running, mu, channel, started, stopped,
                 historyVars, panicked>>

\* listenUDP fails, and Start returns its error.
ListenUDPFails(c) ==
  /\ call[c] = "udp" /\ discover
  /\ Goto(c, "idle") /\ mu' = "free"
  /\ refused' = TRUE
  /\ UNCHANGED <<mapVars, discVars, discover, running, channel, table, loops, started,
                 stopped, misuse, panicked>>

\* The database cannot be opened: NewByVersion panics, for the path or, where it
\* returns an error, for the empty path that newTable tries next.
ListenUDPPanics(c) ==
  /\ call[c] = "udp" /\ discover
  /\ refused' = TRUE
  /\ Panic
  /\ UNCHANGED <<callVars, misuse>>

\* listenAndServe.
ListenTCP(c) ==
  /\ call[c] = "tcp" /\ discover
  /\ Goto(c, "run")
  /\ loops' = loops \cup {"listenLoop"}
  /\ MapBegin("tcp")
  /\ UNCHANGED <<closed, discVars, discover, running, mu, channel, table, started,
                 stopped, historyVars, panicked>>

\* Without discovery there is no uconn, and without the port there is no ln.
ListenTCPPanics(c) ==
  /\ call[c] = "tcp"
  /\ refused' = (refused \/ discover)
  /\ Panic
  /\ UNCHANGED <<callVars, misuse>>

\* go srv.run, and Start returns.
StartEnds(c) ==
  /\ call[c] = "run"
  /\ Goto(c, "idle")
  /\ loops' = loops \cup {"run"}
  /\ mu' = "free" /\ started' = TRUE
  /\ UNCHANGED <<mapVars, discVars, discover, running, channel, table, stopped,
                 historyVars, panicked>>

-----------------------------------------------------------------------------
(* Stop. *)

\* close(srv.close), which must be open.  Start has returned when it has started the
\* server or was refused a port.
StopBegin(c) ==
  /\ Calls(c, "table")
  /\ misuse' = (misuse \/ ~(started \/ refused) \/ channel = "closed")
  /\ IF channel = "open"
     THEN /\ channel' = "closed"
          /\ closed' = [closed EXCEPT !["tcp"] = TRUE]
          /\ UNCHANGED <<pc, timer, busy, lease, kept, discVars, discover, running, mu,
                         table, loops, started, stopped, panicked>>
     ELSE Panic
  /\ UNCHANGED refused

\* Table.Close, which needs a table, closes the database; the storage closes without
\* an error.
CloseDB(c) ==
  /\ call[c] = "table"
  /\ IF table = "open"
     THEN /\ Goto(c, "net")
          /\ table' = "dbclosed"
          /\ UNCHANGED <<mapVars, discVars, discover, running, mu, channel, loops,
                         started, stopped, panicked>>
     ELSE Panic /\ UNCHANGED callVars
  /\ UNCHANGED historyVars

\* Mutant of CloseNet: close leaves the channel closing open.
CloseNetOpen(c) ==
  /\ call[c] = "net"
  /\ Goto(c, "idle")
  /\ table' = "closed" /\ stopped' = TRUE
  /\ UNCHANGED <<mapVars, discVars, discover, running, mu, channel, loops, started,
                 historyVars, panicked>>

\* Table.Close closes the transport.
CloseNet(c) ==
  /\ call[c] = "net"
  /\ Goto(c, "idle")
  /\ table' = "closed" /\ closed' = [closed EXCEPT !["udp"] = TRUE]
  /\ stopped' = TRUE
  /\ UNCHANGED <<pc, timer, busy, lease, kept, discVars, discover, running, mu, channel,
                 loops, started, historyVars, panicked>>

\* The loops of the transport end.
LoopEnds(l) ==
  /\ l \in loops \cap {"loop", "readLoop"} /\ closed["udp"]
  /\ loops' = loops \ {l}
  /\ UNCHANGED <<mapVars, discVars, discover, running, mu, channel, table, started,
                 stopped, callVars, historyVars, panicked>>

-----------------------------------------------------------------------------
CallStep(c) ==
  \/ ListenUDP(c) \/ ListenUDPFails(c) \/ ListenUDPPanics(c)
  \/ ListenTCP(c) \/ ListenTCPPanics(c)
  \/ StartEnds(c) \/ CloseDB(c) \/ CloseNet(c)

NatStep ==
  /\ DiscoveryStep \/ \E p \in Protocols : MapStep(p)
  /\ UNCHANGED <<serverVars, callVars, historyVars, panicked>>

Step ==
  \/ \E c \in Callers : CallStep(c)
  \/ \E l \in {"loop", "readLoop"} : LoopEnds(l)
  \/ NatStep

\* Start, Stop and the end of a loop take less than a unit of time.
Tick ==
  /\ \A c \in Callers : call[c] = "idle"
  /\ closed["udp"] => loops \cap {"loop", "readLoop"} = {}
  /\ Unhurried
  /\ NatTick
  /\ UNCHANGED <<serverVars, callVars, historyVars, panicked>>

Next ==
  /\ ~panicked
  /\ \/ \E c \in Starters : StartBegin(c)
     \/ \E c \in Stoppers : StopBegin(c)
     \/ Step
     \/ Tick

\* Goroutines go on: no call of the router or of the system takes for ever, and
\* time passes unless one of them has something to do at once.
Fairness == WF_vars(~panicked /\ Step) /\ WF_vars(~panicked /\ Tick)

Spec == Init /\ [][Next]_vars /\ Fairness

-----------------------------------------------------------------------------
(* Properties. *)

\* A discovery ends, and so do all its goroutines, also those that no one waits for
\* any more because another one has found a router first, whether or not the server
\* is stopped meanwhile (nat.go Any, natupnp.go discoverUPnP, natpmp.go discoverPMP).
DiscoveryEnds ==
  once = "running" ~>
    panicked \/ (once = "done" /\ \A g \in Goroutines : disc[g] = "done")

\* Once Stop has returned, the mappings and the goroutines that keep them end, and
\* the loops of the transport too, for good, also when Stop overtook a Start
\* (server.go Stop, nat.go Map).
StopReleases ==
  stopped /\ ~panicked ~>
    panicked \/ [](/\ \A p \in Protocols : lease[p] = 0 /\ pc[p] \in {"none", "done"}
                  /\ loops \cap {"loop", "readLoop"} = {})

\* A program that has discovery on, its ports free and a database that can be opened,
\* and that stops the server once, after Start has returned, does not panic in Start
\* or Stop, whatever other calls it makes meanwhile.  One that was refused a port or
\* the database may panic, in Start or in a Stop after the error of Start.  Every
\* variable keeps its type (server.go Start, Stop).
UseSound == TypeOK /\ (panicked => ~discover \/ refused \/ misuse)
=============================================================================
