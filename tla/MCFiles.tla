--------------------------------- MODULE MCFiles ---------------------------------
(***************************************************************************)
(* Instances of Files: two environments deployed from one checkout.        *)
(***************************************************************************)
EXTENDS Files

CONSTANTS staging, prod, d1, d2, r1

Checkout == [p \in Commands |-> IF p = d2 THEN prod ELSE staging]
===============================================================================
