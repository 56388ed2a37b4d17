--------------------------------- MODULE MCGate ---------------------------------
(***************************************************************************)
(* Instances of Gate: three services, each a partner of the others, with   *)
(* v1 deployed and v2 to be released.  Only service 2 of v2 was not        *)
(* verified with all of them yet.                                          *)
(***************************************************************************)
EXTENDS Gate

CONSTANTS v1, v2

PairsOf(s, t) == {{<<s, v>>, <<t, w>>} : v, w \in Versions}

Complete == PairsOf(1, 2) \cup PairsOf(2, 3) \cup PairsOf(1, 3)

ButNew == {pair \in Complete : <<2, v2>> \notin pair}

\* v2 of service 1 has no pact with v2 of service 2.
OneMissing == Complete \ {{<<1, v2>>, <<2, v2>>}}

New == {[s \in Services |-> v2]}
Old == {[s \in Services |-> v1], [s \in Services |-> IF s = 3 THEN None ELSE v1]}
===============================================================================
