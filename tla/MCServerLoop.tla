---------------------------- MODULE MCServerLoop ----------------------------
(* Five small servers: two with two task slots and one or two dynamic dials, two   *)
(* with a static node and a dynamic dial, and enough slots or one alone, and one   *)
(* with a static node that also connects to it.                                    *)
EXTENDS ServerLoop

CONSTANTS a, b

MCConfigs ==
  {[static |-> {}, callers |-> {}, maxDynDials |-> 1, maxTasks |-> 2, edits |-> 0],
   [static |-> {}, callers |-> {}, maxDynDials |-> 2, maxTasks |-> 2, edits |-> 0],
   [static |-> {a}, callers |-> {}, maxDynDials |-> 1, maxTasks |-> 3, edits |-> 0],
   [static |-> {a}, callers |-> {}, maxDynDials |-> 1, maxTasks |-> 1, edits |-> 0],
   [static |-> {a}, callers |-> {a}, maxDynDials |-> 0, maxTasks |-> 4, edits |-> 1]}

MCFound == {<< >>, <<a, b>>}
MCRandom == {<< >>, <<b>>}
=============================================================================
