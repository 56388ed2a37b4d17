--------------------------------- MODULE MCHost ---------------------------------
(***************************************************************************)
(* Instances of Host: those of Deploy with rollback commands beside them.  *)
(***************************************************************************)
EXTENDS Host, MCDeploy

CONSTANT r1

\* Earlier deploys left a snapshot whose render had failed, and one of a time
\* when service 1 alone was in the Compose files, at v2.
Unrendered == {Nothing}
EarlierToo == {Nothing, Both(v2, None)}
===============================================================================
