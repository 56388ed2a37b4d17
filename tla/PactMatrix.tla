------------------------------ MODULE PactMatrix ------------------------------
(***************************************************************************)
(* What the Pact Broker knows and what a gate asks of it.                  *)
(*                                                                         *)
(* A service stands for the pacticipant it is mapped to (a mapping is one  *)
(* to one here), and a version for the release identity the versioning     *)
(* strategy computes and for the image that carries it.  A view says which *)
(* version of each service an environment has; None is "none".             *)
(***************************************************************************)
EXTENDS Integers

CONSTANTS
  Services,   \* service names; the code sorts them, so they are integers
  Versions,   \* release identities
  None,       \* no version
  Verified    \* the pairs of (service, version) with a successful verification

ASSUME MatrixAssumption ==
  /\ Services \subseteq Int
  /\ None \notin Versions
  /\ Verified \subseteq SUBSET (Services \X Versions)

Views == [Services -> Versions \cup {None}]

Nothing == [s \in Services |-> None]

(***************************************************************************)
(* Two integration partners may run together.  A service that is not       *)
(* deployed has no row in the matrix and objects to nothing.               *)
(***************************************************************************)
Compatible(s, v, t, w) ==
  \/ v = None
  \/ w = None
  \/ {<<s, v>>, <<t, w>>} \in Verified

\* Mutant: what does not concern them is not left out but unknown.
OnlyListed(services, view) == [s \in services |-> view[s]]

\* The part of a view that concerns some services.
Only(services, view) ==
  [s \in Services |-> IF s \in services THEN view[s] ELSE None]

\* The view an environment would have once the candidates in scope are released.
Overlay(view, scope, cand) ==
  [s \in Services |-> IF s \in scope THEN cand[s] ELSE view[s]]

\* Every candidate in scope against every partner of it in the given view.
ClearedAgainst(scope, cand, view) ==
  \A s \in scope : \A t \in Services \ {s} :
    Compatible(s, cand[s], t, view[t])

(***************************************************************************)
(* pipeline.go, GateAll: one matrix query for the whole candidate set when *)
(* the environment is all_or_nothing and the plan has several services,    *)
(* and otherwise one can-i-deploy per service against what is deployed.    *)
(***************************************************************************)
GateAll(allOrNothing, scope, cand, view) ==
  IF allOrNothing /\ \E s, t \in scope : s # t
  THEN ClearedAgainst(scope, cand, Overlay(view, scope, cand))
  ELSE ClearedAgainst(scope, cand, view)

(***************************************************************************)
(* The state of an environment the gate exists to preserve: every two      *)
(* services deployed in it have been verified against each other.          *)
(***************************************************************************)
Coherent(view) ==
  \A s, t \in Services : s # t => Compatible(s, view[s], t, view[t])
===============================================================================
