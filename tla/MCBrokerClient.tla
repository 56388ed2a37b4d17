----------------------------- MODULE MCBrokerClient -----------------------------
(***************************************************************************)
(* Instances of BrokerClient: releases of a service to v1 and v2, in any   *)
(* order, over a network that may fail every attempt.                      *)
(***************************************************************************)
EXTENDS BrokerClient

CONSTANTS v1, v2
===============================================================================
