---------------------------- MODULE ReplyContract ---------------------------
(***************************************************************************)
(* What the discovery transport promises the callers of its requests, in   *)
(* the words of the comments in discover/udp.go: errc "receives nil when   *)
(* the callback indicates completion or an error if no further reply is    *)
(* received within the timeout".  A request that was asked gets one        *)
(* answer, which is final; a packet, a timeout and the end of the          *)
(* transport may each answer any number of requests.                       *)
(***************************************************************************)
CONSTANT Reqs

VARIABLE status   \* status[r]: "idle", "asked", or the answer to r

Answers == {"ok", "timeout", "closed"}

Init == status = [r \in Reqs |-> "idle"]

Ask(r) ==
  /\ status[r] = "idle"
  /\ status' = [status EXCEPT ![r] = "asked"]

\* "incoming packets from a node are dispatched to all the callback functions for
\* that node"
Answer(S, x) ==
  /\ \A r \in S : status[r] = "asked"
  /\ status' = [r \in Reqs |-> IF r \in S THEN x ELSE status[r]]

Next ==
  \/ \E r \in Reqs : Ask(r)
  \/ \E S \in SUBSET Reqs, x \in Answers : Answer(S, x)

SafetySpec == Init /\ [][Next]_status
=============================================================================
