------------------------------- MODULE RecordCall -------------------------------
(***************************************************************************)
(* What the deploy pipeline relies on when it calls RecordDeployment:      *)
(* the call may take effect while it lasts and at no other time, success   *)
(* means that the broker shows the version, and a failure says nothing.    *)
(* The actions Recorded and RecordFails of Deploy are such calls in one    *)
(* step.                                                                   *)
(***************************************************************************)
CONSTANTS Versions, None

VARIABLES
  shown,   \* the version the broker shows as deployed
  call,    \* the version being recorded, or None between calls
  verdict  \* what the last call returned

vars == <<shown, call, verdict>>

Init ==
  /\ shown \in Versions \cup {None}
  /\ call = None
  /\ verdict = "none"

Start(v) ==
  /\ call = None
  /\ call' = v
  /\ UNCHANGED <<shown, verdict>>

Apply ==
  /\ call # None
  /\ shown' = call
  /\ UNCHANGED <<call, verdict>>

Succeed ==
  /\ call # None
  /\ shown = call
  /\ call' = None
  /\ verdict' = "ok"
  /\ UNCHANGED shown

\* Also a call for which there is no link to follow: it ends as it starts.
Fail ==
  /\ call' = None
  /\ verdict' = "error"
  /\ UNCHANGED shown

Next ==
  \/ \E v \in Versions : Start(v)
  \/ Apply
  \/ Succeed
  \/ Fail

Spec == Init /\ [][Next]_vars
===============================================================================
