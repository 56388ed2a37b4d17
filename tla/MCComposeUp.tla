------------------------------ MODULE MCComposeUp ------------------------------
(***************************************************************************)
(* Instances of ComposeUp: a job that ends, a service that Docker restarts *)
(* and one that it does not; each may be what is deployed or a neighbour.  *)
(***************************************************************************)
EXTENDS ComposeUp

CONSTANTS job, web, db
===============================================================================
