----------------------------- MODULE RollbackPlan -----------------------------
(***************************************************************************)
(* rollback.go: which failures are compensated, and which services a       *)
(* rollback re-applies with which image.  An image map is a view: None     *)
(* stands for a service the map does not list.                             *)
(***************************************************************************)
EXTENDS PactMatrix

FailedSteps == {"none", "gate", "compose-up", "smoke", "record-deployment"}

RollbackModes == {"on", "off", "dry-run"}

PolicyFor(step) == step \in {"compose-up", "smoke"}

(***************************************************************************)
(* BuildRollbackPlan: the part of the pre-deploy image map whose           *)
(* current image is another one, or unknown.  A current map that could not *)
(* be rendered is the empty one, with which every service is restored.     *)
(***************************************************************************)
RollbackImages(pre, current) ==
  [s \in Services |-> IF current[s] # pre[s] THEN pre[s] ELSE None]
===============================================================================
