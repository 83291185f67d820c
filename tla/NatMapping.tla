----------------------------- MODULE NatMapping -----------------------------
(***************************************************************************)
(* The port mappings of package nat: the goroutines that run Map, the      *)
(* mapper that discovers its router on first use (autodisc over Any), and  *)
(* the goroutines of that discovery (discoverUPnP, discover, discoverPMP). *)
(*                                                                         *)
(* The router is external: it grants a mapping for Lifetime and may refuse *)
(* any call.  A discovery takes less than a unit of time, a call of the    *)
(* router at most MaxCall units.                                           *)
(***************************************************************************)
EXTENDS Integers, Sequences, FiniteSets

CONSTANTS
  Protocols,  \* the mappings: "tcp" of the server, "udp" of the discovery
  Gateways,   \* potentialGateways
  Lifetime,   \* mapTimeout
  Interval,   \* mapUpdateInterval
  MaxCall     \* bound: how long a call of the router takes

ASSUME NatAssumption ==
  /\ Gateways \cap {"any", "upnp", "pmp", "igd1", "igd2"} = {}
  /\ Lifetime \in Nat /\ Interval \in Nat \ {0} /\ MaxCall \in Nat
  /\ Interval + 2 * MaxCall < Lifetime

VARIABLES
  pc,      \* pc[p]: where the goroutine that maps p is
  timer,   \* timer[p]: time until refresh.C has a tick
  busy,    \* busy[p]: how long its call of the router has taken
  closed,  \* closed[p]: the channel c of Map is closed
  lease,   \* lease[p]: what is left of the mapping on the router
  kept,    \* history: the last call of AddMapping for p set up the mapping
  once,    \* the field once of autodisc
  found,   \* the field found of autodisc
  disc,    \* disc[g]: where a goroutine of the discovery is
  chan,    \* chan[g]: the channel found that it receives from
  nils     \* nils[g]: how many results without a router it has received

mapVars == <<pc, timer, busy, closed, lease, kept>>
discVars == <<once, found, disc, chan, nils>>

Off == Lifetime + 1  \* a timer whose tick was received

Children == [g \in {"any", "upnp", "pmp"} |->
               CASE g = "any" -> {"upnp", "pmp"} [] g = "upnp" -> {"igd1", "igd2"}
                 [] g = "pmp" -> Gateways]
Leaves == {"igd1", "igd2"} \cup Gateways
Collectors == DOMAIN Children
Goroutines == Leaves \cup Collectors
Parent(g) == CHOOSE c \in Collectors : g \in Children[c]

NatTypeOK ==
  /\ pc \in [Protocols -> {"none", "wait", "unmap", "map", "return", "select",
                           "delete", "done"}]
  /\ timer \in [Protocols -> 0..Off]
  /\ busy \in [Protocols -> 0..MaxCall]
  /\ closed \in [Protocols -> BOOLEAN]
  /\ lease \in [Protocols -> 0..Lifetime]
  /\ kept \in [Protocols -> BOOLEAN]
  /\ once \in {"new", "running", "done"}
  /\ found \in {"nil", "upnp", "pmp"}
  /\ disc \in [Goroutines -> {"none", "run", "done"}]
  /\ chan \in [Collectors -> Seq({"nil", "upnp", "pmp"})]
  /\ nils \in [Collectors -> Nat]

NatInit ==
  /\ pc = [p \in Protocols |-> "none"]
  /\ timer = [p \in Protocols |-> 0]
  /\ busy = [p \in Protocols |-> 0]
  /\ closed = [p \in Protocols |-> FALSE]
  /\ lease = [p \in Protocols |-> 0]
  /\ kept = [p \in Protocols |-> FALSE]
  /\ once = "new" /\ found = "nil"
  /\ disc = [g \in Goroutines |-> "none"]
  /\ chan = [c \in Collectors |-> << >>]
  /\ nils = [c \in Collectors |-> 0]

-----------------------------------------------------------------------------
(* The discovery. *)

\* wait: the first caller runs doit, which starts the goroutines.
Discover(p) ==
  /\ pc[p] = "wait" /\ once = "new"
  /\ once' = "running"
  /\ disc' = [g \in Goroutines |-> "run"]
  /\ UNCHANGED <<mapVars, found, chan, nils>>

\* Mutant of Results: the loop goes on to i = cap(found).
ResultsOneMore(c) == Cardinality(Children[c]) + 1

\* How many results the loop of c receives.
Results(c) == Cardinality(Children[c])

\* g returns r, Any to once.Do and the others by found <- r, and leaves rest in its
\* own channel: no one reads it, but it takes up room.
Ends(g, r, rest) ==
  LET left == [c \in Collectors |->
                 IF c = g THEN [i \in DOMAIN rest |-> "nil"] ELSE chan[c]]
  IN /\ disc' = [disc EXCEPT ![g] = "done"]
     /\ nils' = [c \in Collectors |-> IF c = g THEN 0 ELSE nils[c]]
     /\ IF g = "any"
        THEN found' = r /\ once' = "done" /\ chan' = left
        ELSE /\ Len(chan[Parent(g)]) < Cardinality(Children[Parent(g)])
             /\ chan' = [left EXCEPT ![Parent(g)] =
                           Append(@, IF disc[Parent(g)] = "run" THEN r ELSE "nil")]
             /\ UNCHANGED <<once, found>>

\* discover of a service type, or the question to a gateway, sends its result.
Probe(g, ok) ==
  /\ g \in Leaves /\ disc[g] = "run"
  /\ Ends(g, IF ok THEN Parent(g) ELSE "nil", << >>)
  /\ UNCHANGED mapVars

\* The loop of Any, discoverUPnP or discoverPMP: the first router ends it, and so
\* does the last result.
Collect(c) ==
  /\ disc[c] = "run" /\ chan[c] # << >>
  /\ IF Head(chan[c]) # "nil" \/ nils[c] + 1 = Results(c)
     THEN Ends(c, Head(chan[c]), Tail(chan[c]))
     ELSE /\ nils' = [nils EXCEPT ![c] = @ + 1]
          /\ chan' = [chan EXCEPT ![c] = Tail(@)]
          /\ UNCHANGED <<once, found, disc>>
  /\ UNCHANGED mapVars

\* discoverPMP gives up after a second, or has no gateway to wait for.
GiveUp ==
  /\ disc["pmp"] = "run"
  /\ Ends("pmp", "nil", chan["pmp"])
  /\ UNCHANGED mapVars

DiscoveryStep ==
  \/ \E p \in Protocols : Discover(p)
  \/ \E g \in Leaves, ok \in BOOLEAN : Probe(g, ok)
  \/ \E c \in Collectors : Collect(c)
  \/ GiveUp

-----------------------------------------------------------------------------
(* Map. *)

\* go Map: the timer starts and AddMapping is called.
MapBegin(p) ==
  /\ pc' = [pc EXCEPT ![p] = "wait"]
  /\ timer' = [timer EXCEPT ![p] = Interval]
  /\ UNCHANGED <<busy, lease, kept>>

\* AddMapping of autodisc after wait: there is no router, it is a pmp, or a upnp,
\* whose AddMapping does nothing without an internal address.
AddMapping(p) ==
  /\ pc[p] = "wait" /\ once = "done"
  /\ pc' \in {[pc EXCEPT ![p] = s] :
               s \in CASE found = "nil" -> {"return"} [] found = "pmp" -> {"map"}
                       [] found = "upnp" -> {"return", "unmap"}}
  /\ kept' = [kept EXCEPT ![p] = FALSE]
  /\ UNCHANGED <<timer, busy, closed, lease, discVars>>

\* upnp.AddMapping deletes the mapping first; the router may refuse.
Unmap(p, ok) ==
  /\ pc[p] = "unmap"
  /\ pc' = [pc EXCEPT ![p] = "map"]
  /\ lease' = [lease EXCEPT ![p] = IF ok THEN 0 ELSE @]
  /\ UNCHANGED <<timer, busy, closed, kept, discVars>>

\* AddPortMapping, which the router may refuse.
AddPortMapping(p, ok) ==
  /\ pc[p] = "map"
  /\ pc' = [pc EXCEPT ![p] = "return"]
  /\ lease' = [lease EXCEPT ![p] = IF ok THEN Lifetime ELSE @]
  /\ kept' = [kept EXCEPT ![p] = ok]
  /\ UNCHANGED <<timer, busy, closed, discVars>>

\* Mutant of Rearmed: the timer is set to the lifetime of the mapping.
RearmedLate == Lifetime

\* What refresh.Reset sets the timer to.
Rearmed == Interval

\* AddMapping returns; a timer whose tick was received is set again.
Return(p) ==
  /\ pc[p] = "return"
  /\ pc' = [pc EXCEPT ![p] = "select"]
  /\ timer' = [timer EXCEPT ![p] = IF @ = Off THEN Rearmed ELSE @]
  /\ busy' = [busy EXCEPT ![p] = 0]
  /\ UNCHANGED <<closed, lease, kept, discVars>>

\* case <-refresh.C
Refresh(p) ==
  /\ pc[p] = "select" /\ timer[p] = 0
  /\ pc' = [pc EXCEPT ![p] = "wait"]
  /\ timer' = [timer EXCEPT ![p] = Off]
  /\ UNCHANGED <<busy, closed, lease, kept, discVars>>

\* case <-c: the deferred function stops the timer and calls DeleteMapping, for
\* which autodisc needs a router.
Closed(p) ==
  /\ pc[p] = "select" /\ closed[p]
  /\ pc' = [pc EXCEPT ![p] = IF found = "nil" THEN "done" ELSE "delete"]
  /\ timer' = [timer EXCEPT ![p] = Off]
  /\ kept' = [kept EXCEPT ![p] = FALSE]
  /\ UNCHANGED <<busy, closed, lease, discVars>>

DeleteMapping(p, ok) ==
  /\ pc[p] = "delete"
  /\ pc' = [pc EXCEPT ![p] = "done"]
  /\ lease' = [lease EXCEPT ![p] = IF ok THEN 0 ELSE @]
  /\ busy' = [busy EXCEPT ![p] = 0]
  /\ UNCHANGED <<timer, closed, kept, discVars>>

MapStep(p) ==
  \/ AddMapping(p) \/ Return(p) \/ Refresh(p) \/ Closed(p)
  \/ \E ok \in BOOLEAN : Unmap(p, ok) \/ AddPortMapping(p, ok) \/ DeleteMapping(p, ok)

Calling(p) == pc[p] \in {"unmap", "map", "return", "delete"}

\* No goroutine has something to do that takes no time, or takes longer than it
\* may.
Unhurried ==
  /\ \A g \in Goroutines : disc[g] \in {"none", "done"}
  /\ \A p \in Protocols :
       /\ pc[p] # "wait"
       /\ pc[p] = "select" => timer[p] > 0 /\ ~closed[p]
       /\ Calling(p) => busy[p] < MaxCall

\* Time passes; the router drops a mapping whose lifetime is over, and the channels
\* of a discovery that has ended are garbage.
NatTick ==
  /\ lease' = [p \in Protocols |-> IF lease[p] > 0 THEN lease[p] - 1 ELSE 0]
  /\ timer' = [p \in Protocols |->
                 IF timer[p] \in 1..Lifetime THEN timer[p] - 1 ELSE timer[p]]
  /\ busy' = [p \in Protocols |->
                IF Calling(p) /\ busy[p] < MaxCall THEN busy[p] + 1 ELSE busy[p]]
  /\ chan' = [c \in Collectors |-> << >>]
  /\ UNCHANGED <<pc, closed, kept, once, found, disc, nils>>

-----------------------------------------------------------------------------
(* Properties. *)

\* Map keeps its mapping alive until c is closed: it is on the router whenever the
\* goroutine waits, provided that the last AddMapping set it up (nat.go Map).
KeptAlive ==
  \A p \in Protocols : kept[p] /\ pc[p] = "select" /\ ~closed[p] => lease[p] > 0
=============================================================================
