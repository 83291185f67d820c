-------------------------- MODULE LifecycleProofs --------------------------
(***************************************************************************)
(* Proofs about Lifecycle, for any callers, mappings and gateways, and any *)
(* lifetime of a mapping that is longer than the interval of its renewal   *)
(* and two calls of the router: a mapping is renewed before it expires,    *)
(* and Start and Stop do not panic when they are used as they should be.   *)
(***************************************************************************)
EXTENDS Lifecycle, TLAPS

\* Steps with a large context need more time than the default.
USE SMTT(30)

\* The timer of Map runs out before the mapping does: it is set to at most Interval,
\* less than what is left of the mapping when AddMapping returns.
Renewed ==
  \A p \in Protocols :
    /\ timer[p] \in 0..Interval \cup {Off}
    /\ pc[p] = "select" => timer[p] # Off
    /\ pc[p] \in {"unmap", "map"} => ~kept[p]
    /\ kept[p] /\ pc[p] = "return" => lease[p] >= Lifetime - busy[p]
    /\ kept[p] /\ pc[p] = "select" => lease[p] > timer[p]

\* One Start at most gets past the lock, ever; it holds the lock until it returns,
\* and has a table from listenUDP on, as has a Stop that has closed the database.
StartOnce ==
  /\ running = (channel # "nil")
  /\ running \/ table = "nil"
  /\ started => running /\ table # "nil"
  /\ \A c \in Callers : call[c] \in {"udp", "tcp", "run"} => running /\ mu = c /\ ~started
  /\ \A c \in Callers :
       call[c] \in {"run", "net"} \/ (call[c] = "tcp" /\ discover) => table # "nil"

\* A Stop that is called as it should be, of a server that was refused nothing, finds
\* the channel and the table open, and is the only one.
StopOnce ==
  ~misuse /\ ~refused =>
    /\ channel = "closed" \/ (table \in {"nil", "open"}
                                /\ \A c \in Callers : call[c] \notin {"table", "net"})
    /\ channel = "closed" => started
    /\ \A c \in Callers : call[c] = "table" =>
         table = "open" /\ \A d \in Callers \ {c} : call[d] \notin {"table", "net"}

IInv == UseSound /\ Renewed /\ StartOnce /\ StopOnce

USE DEF Off, mapVars, discVars, serverVars, callVars, historyVars

-----------------------------------------------------------------------------
(* The port mappings. *)

\* What the goroutines of the discovery send.
Found == {"nil", "upnp", "pmp"}

\* A goroutine that ends leaves the discovery well formed.
LEMMA EndsType ==
  ASSUME NatTypeOK, NEW g \in Goroutines, NEW r \in Found, NEW rest \in Seq(Found),
         Ends(g, r, rest), UNCHANGED mapVars
  PROVE  NatTypeOK'
<1>. DEFINE left == [c \in Collectors |->
                       IF c = g THEN [i \in DOMAIN rest |-> "nil"] ELSE chan[c]]
<1>1. [i \in DOMAIN rest |-> "nil"] \in Seq(Found)
  <2>1. Len(rest) \in Nat /\ DOMAIN rest = 1..Len(rest)
    OBVIOUS
  <2>2. [i \in 1..Len(rest) |-> "nil"] \in Seq(Found)
    BY <2>1 DEF Found
  <2>. QED
    BY <2>1, <2>2
<1>2. left \in [Collectors -> Seq(Found)]
  BY <1>1 DEF NatTypeOK, Found
<1>3. chan' \in [Collectors -> Seq(Found)]
  <2>1. CASE g = "any"
    BY <1>2, <2>1 DEF Ends
  <2>2. CASE g # "any"
    <3>. DEFINE x == IF disc[Parent(g)] = "run" THEN r ELSE "nil"
    <3>1. chan' = [left EXCEPT ![Parent(g)] = Append(@, x)]
      BY <2>2, Zenon DEF Ends
    <3>2. x \in Found
      BY DEF Found
    <3>. HIDE DEF left, x
    <3>3. Parent(g) \in Collectors => Append(left[Parent(g)], x) \in Seq(Found)
      BY <1>2, <3>2
    <3>. QED
      BY <1>2, <3>1, <3>3, Zenon
  <2>. QED
    BY <2>1, <2>2
<1>4. once' \in {"new", "running", "done"} /\ found' \in Found
  BY DEF NatTypeOK, Ends, Found
<1>5. /\ disc' \in [Goroutines -> {"none", "run", "done"}]
      /\ nils' \in [Collectors -> Nat]
  BY DEF NatTypeOK, Ends
<1>. QED
  BY <1>3, <1>4, <1>5 DEF NatTypeOK, Found

\* The discovery does nothing to the mappings.
LEMMA DiscoveryInv ==
  ASSUME NatTypeOK, DiscoveryStep
  PROVE  NatTypeOK' /\ UNCHANGED mapVars
<1>1. ASSUME NEW p \in Protocols, Discover(p)
      PROVE  NatTypeOK' /\ UNCHANGED mapVars
  BY <1>1 DEF NatTypeOK, Discover
<1>2. ASSUME NEW g \in Leaves, NEW ok \in BOOLEAN, Probe(g, ok)
      PROVE  NatTypeOK' /\ UNCHANGED mapVars
  <2>1. Parent(g) \in Found /\ "nil" \in Found
    BY NatAssumption DEF Parent, Collectors, Children, Leaves, Found
  <2>2. << >> \in Seq(Found) /\ g \in Goroutines
    BY DEF Goroutines
  <2>. QED
    BY <1>2, <2>1, <2>2, EndsType, Zenon DEF Probe
<1>3. ASSUME NEW c \in Collectors, Collect(c)
      PROVE  NatTypeOK' /\ UNCHANGED mapVars
  <2>1. /\ chan[c] \in Seq(Found) /\ chan[c] # << >> /\ c \in Goroutines
        /\ UNCHANGED mapVars
    BY <1>3 DEF NatTypeOK, Collect, Goroutines, Found
  <2>2. Head(chan[c]) \in Found /\ Tail(chan[c]) \in Seq(Found)
    BY <2>1
  <2>3. CASE Ends(c, Head(chan[c]), Tail(chan[c]))
    BY <2>1, <2>2, <2>3, EndsType, Zenon
  <2>4. CASE /\ nils' = [nils EXCEPT ![c] = @ + 1]
             /\ chan' = [chan EXCEPT ![c] = Tail(@)]
             /\ UNCHANGED <<once, found, disc>>
    BY <2>1, <2>2, <2>4 DEF NatTypeOK, Found
  <2>. QED
    BY <1>3, <2>1, <2>3, <2>4 DEF Collect
<1>4. CASE GiveUp
  <2>1. chan["pmp"] \in Seq(Found) /\ "pmp" \in Goroutines /\ "nil" \in Found
    BY DEF NatTypeOK, Goroutines, Collectors, Children, Found
  <2>. QED
    BY <1>4, <2>1, EndsType DEF GiveUp
<1>. QED
  BY <1>1, <1>2, <1>3, <1>4 DEF DiscoveryStep

\* go Map begins in time.
LEMMA BeginInv ==
  ASSUME NatTypeOK, Renewed, NEW p, MapBegin(p), UNCHANGED <<closed, discVars>>
  PROVE  NatTypeOK' /\ Renewed'
<1>1. Interval \in 0..Off /\ Interval # Off
  BY NatAssumption
<1>2. NatTypeOK'
  BY <1>1, Zenon DEF NatTypeOK, MapBegin
<1>3. Renewed'
  BY NatAssumption, <1>1 DEF NatTypeOK, Renewed, MapBegin
<1>. QED
  BY <1>2, <1>3

\* Map renews its mapping in time.
LEMMA MapInv ==
  ASSUME NatTypeOK, Renewed, NEW p \in Protocols, MapStep(p)
  PROVE  NatTypeOK' /\ Renewed'
<1>1. CASE AddMapping(p)
  <2>1. PICK s \in {"return", "map", "unmap"} : pc' = [pc EXCEPT ![p] = s]
    BY <1>1 DEF NatTypeOK, AddMapping
  <2>2. UNCHANGED <<timer, busy, closed, lease, discVars>>
    BY <1>1 DEF AddMapping
  <2>3. kept' = [kept EXCEPT ![p] = FALSE]
    BY <1>1 DEF AddMapping
  <2>. QED
    BY <2>1, <2>2, <2>3 DEF NatTypeOK, Renewed
<1>2. CASE Return(p)
  BY NatAssumption, <1>2 DEF NatTypeOK, Renewed, Return, Rearmed
<1>3. CASE Refresh(p)
  BY NatAssumption, <1>3 DEF NatTypeOK, Renewed, Refresh
<1>4. CASE Closed(p)
  BY NatAssumption, <1>4 DEF NatTypeOK, Renewed, Closed
<1>5. ASSUME NEW ok \in BOOLEAN, Unmap(p, ok)
      PROVE  NatTypeOK' /\ Renewed'
  BY NatAssumption, <1>5 DEF NatTypeOK, Renewed, Unmap
<1>6. ASSUME NEW ok \in BOOLEAN, AddPortMapping(p, ok)
      PROVE  NatTypeOK' /\ Renewed'
  BY NatAssumption, <1>6 DEF NatTypeOK, Renewed, AddPortMapping
<1>7. ASSUME NEW ok \in BOOLEAN, DeleteMapping(p, ok)
      PROVE  NatTypeOK' /\ Renewed'
  BY NatAssumption, <1>7 DEF NatTypeOK, Renewed, DeleteMapping
<1>. QED
  BY <1>1, <1>2, <1>3, <1>4, <1>5, <1>6, <1>7 DEF MapStep

\* Time runs for the timer and the mapping alike.
LEMMA TickInv ==
  ASSUME NatTypeOK, Renewed, Unhurried, NatTick
  PROVE  NatTypeOK' /\ Renewed'
<1>1. NatTypeOK'
  BY NatAssumption DEF NatTypeOK, NatTick, Calling
<1>2. Renewed'
  BY NatAssumption DEF NatTypeOK, Renewed, Unhurried, NatTick, Calling
<1>. QED
  BY <1>1, <1>2

-----------------------------------------------------------------------------
(* Start and Stop. *)

\* The steps of Start keep the invariant.
LEMMA StartInv ==
  ASSUME IInv, ~panicked, NEW c \in Callers,
         StartBegin(c) \/ ListenUDP(c) \/ ListenUDPFails(c) \/ ListenUDPPanics(c)
           \/ ListenTCP(c) \/ ListenTCPPanics(c) \/ StartEnds(c)
  PROVE  IInv'
<1>1. NatTypeOK' /\ Renewed'
  <2>1. CASE UNCHANGED <<mapVars, discVars>>
    BY <2>1 DEF IInv, UseSound, TypeOK, NatTypeOK, Renewed
  <2>2. ASSUME NEW p, MapBegin(p), UNCHANGED <<closed, discVars>>
        PROVE  NatTypeOK' /\ Renewed'
    BY <2>2, BeginInv DEF IInv, UseSound, TypeOK
  <2>. QED
    BY <2>1, <2>2 DEF StartBegin, ListenUDP, ListenUDPFails, ListenUDPPanics, ListenTCP,
                      ListenTCPPanics, Panic, StartEnds
<1>2. CASE StartBegin(c)
  <2>1. TypeOK'
    <3>1. running' \in BOOLEAN
      BY <1>2 DEF StartBegin
    <3>. QED
      BY LifecycleAssumption, <1>1, <1>2, <3>1
         DEF IInv, UseSound, TypeOK, StartBegin, Calls
  <2>2. StartOnce' /\ StopOnce'
    BY <1>2, Zenon DEF IInv, UseSound, TypeOK, StartOnce, StopOnce, StartBegin, Calls
  <2>. QED
    BY <1>1, <1>2, <2>1, <2>2 DEF IInv, UseSound, StartBegin
<1>3. CASE ListenUDP(c)
  <2>1. TypeOK'
    BY <1>1, <1>3, ZenonT(30) DEF IInv, UseSound, TypeOK, ListenUDP, Goto
  <2>2. StartOnce' /\ StopOnce'
    BY <1>3 DEF IInv, UseSound, TypeOK, StartOnce, StopOnce, ListenUDP, Goto
  <2>. QED
    BY <1>1, <1>3, <2>1, <2>2 DEF IInv, UseSound, ListenUDP
<1>4. CASE ListenUDPFails(c)
  <2>1. TypeOK'
    BY <1>1, <1>4 DEF IInv, UseSound, TypeOK, ListenUDPFails, Goto
  <2>2. StartOnce' /\ StopOnce'
    BY <1>4 DEF IInv, UseSound, TypeOK, StartOnce, StopOnce, ListenUDPFails, Goto
  <2>. QED
    BY <1>1, <1>4, <2>1, <2>2 DEF IInv, UseSound, ListenUDPFails
<1>5. CASE ListenTCP(c)
  <2>1. TypeOK'
    BY <1>1, <1>5 DEF IInv, UseSound, TypeOK, ListenTCP, Goto
  <2>2. StartOnce' /\ StopOnce'
    BY <1>5 DEF IInv, UseSound, TypeOK, StartOnce, StopOnce, ListenTCP, Goto
  <2>. QED
    BY <1>1, <1>5, <2>1, <2>2 DEF IInv, UseSound, ListenTCP
<1>6. CASE ListenTCPPanics(c)
  <2>1. TypeOK' /\ (~discover \/ refused)'
    <3>1. refused' = (refused \/ discover) /\ panicked'
      BY <1>6, Zenon DEF ListenTCPPanics, Panic
    <3>2. refused' \in BOOLEAN /\ panicked' \in BOOLEAN /\ (~discover \/ refused')
      BY <1>6, <3>1, Zenon DEF ListenTCPPanics, Panic
    <3>. QED
      BY <1>1, <1>6, <3>2 DEF IInv, UseSound, TypeOK, ListenTCPPanics, Panic
  <2>2. StartOnce' /\ StopOnce'
    BY <1>6, Zenon DEF IInv, StartOnce, StopOnce, ListenTCPPanics, Panic
  <2>. QED
    BY <1>1, <2>1, <2>2 DEF IInv, UseSound
<1>7. CASE StartEnds(c)
  <2>1. TypeOK'
    BY <1>1, <1>7 DEF IInv, UseSound, TypeOK, StartEnds, Goto
  <2>2. StartOnce' /\ StopOnce'
    BY <1>7 DEF IInv, UseSound, TypeOK, StartOnce, StopOnce, StartEnds, Goto
  <2>. QED
    BY <1>1, <1>7, <2>1, <2>2 DEF IInv, UseSound, StartEnds
<1>8. CASE ListenUDPPanics(c)
  <2>1. TypeOK' /\ refused'
    BY <1>1, <1>8 DEF IInv, UseSound, TypeOK, ListenUDPPanics, Panic
  <2>2. StartOnce' /\ StopOnce'
    BY <1>8, <2>1 DEF IInv, StartOnce, StopOnce, ListenUDPPanics, Panic
  <2>. QED
    BY <1>1, <2>1, <2>2 DEF IInv, UseSound
<1>. QED
  BY <1>2, <1>3, <1>4, <1>5, <1>6, <1>7, <1>8

\* The steps of Stop, and the end of a loop, keep the invariant.
LEMMA StopInv ==
  ASSUME IInv, ~panicked,
         \/ \E c \in Callers : StopBegin(c) \/ CloseDB(c) \/ CloseNet(c)
         \/ \E l \in {"loop", "readLoop"} : LoopEnds(l)
  PROVE  IInv'
<1>1. NatTypeOK' /\ Renewed'
  <2>1. /\ UNCHANGED <<pc, timer, busy, lease, kept, discVars>>
        /\ closed' = closed \/ \E p \in {"tcp", "udp"} : closed' = [closed EXCEPT ![p] = TRUE]
    BY DEF StopBegin, CloseDB, CloseNet, LoopEnds, Panic
  <2>2. closed' \in [Protocols -> BOOLEAN]
    BY <2>1, Zenon DEF IInv, UseSound, TypeOK, NatTypeOK
  <2>. QED
    BY <2>1, <2>2 DEF IInv, UseSound, TypeOK, NatTypeOK, Renewed
<1>2. ASSUME NEW c \in Callers, StopBegin(c)  PROVE  IInv'
  <2>1. TypeOK'
    <3>1. misuse' \in BOOLEAN
      BY <1>2 DEF StopBegin
    <3>2. panicked' \in BOOLEAN
      BY <1>2, Zenon DEF IInv, UseSound, TypeOK, StopBegin, Panic
    <3>3. /\ channel' \in {"nil", "open", "closed"}
          /\ UNCHANGED <<discover, running, mu, table, loops, started, stopped, refused>>
      BY <1>2 DEF IInv, UseSound, TypeOK, StopBegin, Panic
    <3>4. /\ call' \in [Callers -> {"idle", "udp", "tcp", "run", "table", "net"}]
          /\ calls' \in 0..MaxCalls
      BY LifecycleAssumption, <1>2 DEF IInv, UseSound, TypeOK, StopBegin, Calls
    <3>. QED
      BY <1>1, <3>1, <3>2, <3>3, <3>4 DEF IInv, UseSound, TypeOK
  <2>2. StartOnce' /\ StopOnce'
    BY <1>2, ZenonT(30) DEF IInv, UseSound, TypeOK, StartOnce, StopOnce, StopBegin, Calls, Panic
  <2>3. panicked' => misuse' \/ refused'
    BY <1>2, Zenon DEF IInv, UseSound, TypeOK, StartOnce, StopBegin, Panic
  <2>. QED
    BY <1>1, <2>1, <2>2, <2>3 DEF IInv, UseSound
<1>3. ASSUME NEW c \in Callers, CloseDB(c)  PROVE  IInv'
  <2>1. TypeOK'
    <3>1. panicked' \in BOOLEAN
      BY <1>3, Zenon DEF IInv, UseSound, TypeOK, CloseDB, Panic
    <3>2. /\ table' \in {"nil", "open", "dbclosed", "closed"}
          /\ call' \in [Callers -> {"idle", "udp", "tcp", "run", "table", "net"}]
          /\ UNCHANGED <<discover, running, mu, channel, loops, started, stopped, calls,
                         misuse, refused>>
      BY <1>3 DEF IInv, UseSound, TypeOK, CloseDB, Goto, Panic
    <3>. QED
      BY <1>1, <3>1, <3>2 DEF IInv, UseSound, TypeOK
  <2>2. StartOnce' /\ StopOnce'
    BY <1>3 DEF IInv, UseSound, TypeOK, StartOnce, StopOnce, CloseDB, Goto, Panic
  <2>3. panicked' => misuse' \/ refused'
    BY <1>3, Zenon DEF IInv, StopOnce, CloseDB, Panic
  <2>. QED
    BY <1>1, <2>1, <2>2, <2>3 DEF IInv, UseSound
<1>4. ASSUME NEW c \in Callers, CloseNet(c)  PROVE  IInv'
  <2>1. TypeOK'
    BY <1>1, <1>4 DEF IInv, UseSound, TypeOK, CloseNet, Goto
  <2>2. StartOnce'
    BY <1>4 DEF IInv, UseSound, TypeOK, StartOnce, CloseNet, Goto
  <2>3. StopOnce'
    BY <1>4 DEF IInv, UseSound, TypeOK, StopOnce, CloseNet, Goto
  <2>. QED
    BY <1>1, <1>4, <2>1, <2>2, <2>3 DEF IInv, UseSound, CloseNet
<1>5. ASSUME NEW l \in {"loop", "readLoop"}, LoopEnds(l)  PROVE  IInv'
  <2>1. TypeOK'
    BY <1>1, <1>5 DEF IInv, UseSound, TypeOK, LoopEnds
  <2>2. StartOnce' /\ StopOnce'
    BY <1>5 DEF IInv, StartOnce, StopOnce, LoopEnds
  <2>. QED
    BY <1>1, <1>5, <2>1, <2>2 DEF IInv, UseSound, LoopEnds
<1>. QED
  BY <1>2, <1>3, <1>4, <1>5

\* The inductive invariant holds in every reachable state.
THEOREM Invariance == Spec => []IInv
<1>1. Init => IInv
  <2>. SUFFICES ASSUME Init  PROVE  IInv
    OBVIOUS
  <2>1. NatTypeOK /\ Renewed
    BY NatAssumption DEF Init, NatInit, NatTypeOK, Renewed
  <2>2. /\ running \in BOOLEAN /\ started \in BOOLEAN /\ stopped \in BOOLEAN
        /\ misuse \in BOOLEAN /\ refused \in BOOLEAN /\ panicked \in BOOLEAN
    BY Zenon DEF Init
  <2>3. TypeOK
    BY LifecycleAssumption, <2>1, <2>2 DEF Init, TypeOK
  <2>4. StartOnce /\ StopOnce
    BY Zenon DEF Init, StartOnce, StopOnce
  <2>. QED
    BY <2>1, <2>3, <2>4 DEF Init, IInv, UseSound
<1>2. IInv /\ [Next]_vars => IInv'
  <2>. SUFFICES ASSUME IInv, [Next]_vars  PROVE  IInv'
    OBVIOUS
  <2>1. ASSUME NatTypeOK' /\ Renewed',
               UNCHANGED <<serverVars, callVars, historyVars, panicked>>
        PROVE  IInv'
    BY <2>1 DEF IInv, UseSound, TypeOK, StartOnce, StopOnce
  <2>2. CASE UNCHANGED vars
    BY <2>1, <2>2, Zenon DEF vars, IInv, UseSound, TypeOK, NatTypeOK, Renewed
  <2>3. CASE NatStep
    <3>1. CASE DiscoveryStep
      BY <2>1, <2>3, <3>1, DiscoveryInv, Zenon DEF NatStep, IInv, UseSound, TypeOK, Renewed
    <3>2. ASSUME NEW p \in Protocols, MapStep(p)  PROVE  IInv'
      BY <2>1, <2>3, <3>2, MapInv DEF NatStep, IInv, UseSound, TypeOK
    <3>. QED
      BY <2>3, <3>1, <3>2 DEF NatStep
  <2>4. CASE Tick
    BY <2>1, <2>4, TickInv DEF Tick, IInv, UseSound, TypeOK
  <2>5. CASE Next /\ ~NatStep /\ ~Tick
    BY <2>5, StartInv, StopInv DEF Next, Step, CallStep, Callers
  <2>. QED
    BY <2>2, <2>3, <2>4, <2>5
<1>. QED
  BY <1>1, <1>2, PTL DEF Spec

-----------------------------------------------------------------------------
(* What it implies. *)

\* A mapping that was set up is on the router whenever Map waits, whatever the calls
\* of the router take up to MaxCall and whenever Start and Stop are called (nat.go
\* Map).
THEOREM MappingKeptAlive == Spec => []KeptAlive
<1>1. IInv => KeptAlive
  BY NatAssumption DEF IInv, UseSound, TypeOK, NatTypeOK, Renewed, KeptAlive
<1>. QED
  BY <1>1, Invariance, PTL

\* With discovery, free ports and a database that can be opened, and one Stop after
\* Start has returned, neither panics, for any number of calls by any number of
\* goroutines (server.go Start, Stop).
THEOREM UseAlwaysSound == Spec => []UseSound
<1>1. IInv => UseSound
  BY DEF IInv
<1>. QED
  BY <1>1, Invariance, PTL
=============================================================================
