---------------------------- MODULE ReleaseProtocol ----------------------------
(***************************************************************************)
(* What a c2quay release promises, with the machinery left out.            *)
(*                                                                         *)
(* Releases of one environment exclude each other.  A release tells the    *)
(* broker nothing until it is cleared, it is cleared at one instant in     *)
(* which the gate's verdict holds of the broker's present view, and from   *)
(* then on it posts the cleared versions and no others.                    *)
(*                                                                         *)
(* The deploy pipeline asks the gate long before it records: that the      *)
(* verdict can be placed at the later instant is what the environment lock *)
(* and the strict ordering of the pipeline are for.                        *)
(***************************************************************************)
EXTENDS PactMatrix

CONSTANTS
  Procs,         \* c2quay invocations
  Envs,          \* environments
  EnvOf,         \* the --env of an invocation
  AllOrNothing,  \* the environments' all_or_nothing setting
  Free           \* the holder of a lock nobody holds

VARIABLES
  holder,  \* the invocation that holds an environment's lock
  phase,   \* "out", "in" the critical section, or "cleared" to record
  cand,    \* the versions an invocation was cleared for
  broker   \* the versions the broker shows as deployed in an environment

vars == <<holder, phase, cand, broker>>

ScopeOf(c) == {s \in Services : c[s] # None}

Init ==
  /\ holder = [e \in Envs |-> Free]
  /\ phase = [p \in Procs |-> "out"]
  /\ cand = [p \in Procs |-> Nothing]
  /\ broker \in [Envs -> Views]

Enter(p) ==
  /\ phase[p] = "out"
  /\ holder[EnvOf[p]] = Free
  /\ holder' = [holder EXCEPT ![EnvOf[p]] = p]
  /\ phase' = [phase EXCEPT ![p] = "in"]
  /\ UNCHANGED <<cand, broker>>

Clear(p) ==
  /\ phase[p] = "in"
  /\ \E c \in Views :
       /\ GateAll(AllOrNothing[EnvOf[p]], ScopeOf(c), c, broker[EnvOf[p]])
       /\ cand' = [cand EXCEPT ![p] = c]
  /\ phase' = [phase EXCEPT ![p] = "cleared"]
  /\ UNCHANGED <<holder, broker>>

Post(p, s) ==
  /\ phase[p] = "cleared"
  /\ cand[p][s] # None
  /\ broker' = [broker EXCEPT ![EnvOf[p]][s] = cand[p][s]]
  /\ UNCHANGED <<holder, phase, cand>>

Leave(p) ==
  /\ phase[p] # "out"
  /\ holder' = [holder EXCEPT ![EnvOf[p]] = Free]
  /\ phase' = [phase EXCEPT ![p] = "out"]
  /\ cand' = [cand EXCEPT ![p] = Nothing]
  /\ UNCHANGED broker

Next ==
  \E p \in Procs :
    \/ Enter(p)
    \/ Clear(p)
    \/ \E s \in Services : Post(p, s)
    \/ Leave(p)

Spec == Init /\ [][Next]_vars
===============================================================================
