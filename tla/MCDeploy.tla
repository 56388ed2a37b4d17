-------------------------------- MODULE MCDeploy --------------------------------
(***************************************************************************)
(* Instances of Deploy: two services, two versions.  Service 1 of v1 was   *)
(* not verified with service 2 of v2; every other pair was.  So service 2  *)
(* cannot be released to v2 alone, the two can be together.                *)
(***************************************************************************)
EXTENDS Deploy, TLC

CONSTANTS v1, v2, p1, p2, e1

Pairs == {{<<1, a>>, <<2, b>>} : a, b \in {v1, v2}}
AllButOne == Pairs \ {{<<1, v1>>, <<2, v2>>}}

Both(a, b) == (1 :> a) @@ (2 :> b)
Baseline == {Both(v1, v1)}
BaselineOrTorn == {Both(v1, v1), Both(v1, v2)}

OneEnv == [p \in Procs \cup Others |-> e1]

Aggregate == [e \in Envs |-> TRUE]
PerService == [e \in Envs |-> FALSE]
NoneGateOnly == [e \in Envs |-> {}]
SecondGateOnly == [e \in Envs |-> {2}]

\* The invocations differ in nothing.
Alike == Permutations(Procs)

Full == [scope |-> {1, 2}, dryRun |-> FALSE, mode |-> "on"]
FullOn == {Full}
AnyScope == {[Full EXCEPT !.scope = sc] : sc \in {{1, 2}, {1}, {2}}}
BothOrFirst == {[Full EXCEPT !.scope = sc] : sc \in {{1, 2}, {1}}}
\* Every flag that makes a difference: a dry run and a release of services that
\* are all gate_only have nothing to roll back.
AnyFlags ==
  [scope : {{1, 2}}, dryRun : {FALSE}, mode : RollbackModes]
    \cup {[Full EXCEPT !.dryRun = TRUE], [Full EXCEPT !.scope = {2}]}
===============================================================================
