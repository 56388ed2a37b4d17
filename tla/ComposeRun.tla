------------------------------- MODULE ComposeRun -------------------------------
(***************************************************************************)
(* What the pipeline relies on when it calls Up: containers are replaced   *)
(* one after the other while the call lasts, a failure may come at any     *)
(* point of it, and success means that nothing was left to replace (unless *)
(* StaleMask: then success says nothing).  UpStarts, ContainerReplaced,    *)
(* UpSucceeds and UpFails of Deploy are the steps of such a call.          *)
(***************************************************************************)
CONSTANTS Services, StaleMask

VARIABLES
  left,    \* the services whose container is still to be replaced
  verdict  \* "none" before the call, "running", then "ok" or "failed"

vars == <<left, verdict>>

Init ==
  /\ left = {}
  /\ verdict = "none"

Start(todo) ==
  /\ verdict = "none"
  /\ left' = todo
  /\ verdict' = "running"

Replace(s) ==
  /\ verdict = "running"
  /\ s \in left
  /\ left' = left \ {s}
  /\ UNCHANGED verdict

Return(result) ==
  /\ verdict = "running"
  /\ result = "ok" => left = {} \/ StaleMask
  /\ left' = {}
  /\ verdict' = result

Next ==
  \/ \E todo \in SUBSET Services : Start(todo)
  \/ \E s \in Services : Replace(s)
  \/ \E result \in {"ok", "failed"} : Return(result)

Spec == Init /\ [][Next]_vars
===============================================================================
