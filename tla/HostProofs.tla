------------------------------- MODULE HostProofs -------------------------------
(***************************************************************************)
(* Deploys and rollback commands together.  A step of a deploy is one of   *)
(* Deploy, so its lemmas apply; what remains is that rollback commands     *)
(* keep the lock as deploys do, and leave everything else of a deploy      *)
(* alone.                                                                  *)
(***************************************************************************)
EXTENDS Host, ProtocolProofs

\* What a rollback command, or its Compose process, does.
Moves(r) ==
  \/ Restores(r) \/ RestoreKilled(r) \/ LeftoverStops(r)
  \/ \E s \in Services : ContainerRestored(r, s)

\* A deploy's step; its pre-snapshots may be added to the files.
DeployMoves ==
  /\ [Next]_vars
  /\ UNCHANGED command
  /\ files' = files \/ Written

LEMMA HostMoves ==
  ASSUME [HostNext]_hostVars
  PROVE  DeployMoves \/ \E r \in Others : Moves(r)
BY DEF HostNext, hostVars, DeployMoves, Deploys, Moves, Next, HostTerminated

-------------------------------------------------------------------------------
\* Type correctness.

LEMMA RestoreTyped ==
  ASSUME HostTypeOK, NEW r \in Others, Moves(r)
  PROVE  HostTypeOK'
<1> USE DEF HostTypeOK, TypeOK, Stages, Idle, Codes, At, vars, shared, report
<1>1. CASE LoadSnapshot(r)
  BY <1>1 DEF LoadSnapshot
<1>2. CASE RestoreLocks(r)
  BY <1>2, DeployAssumption DEF RestoreLocks
<1>3. CASE RestoreDenied(r) \/ RestoreSkips(r)
  BY <1>3 DEF RestoreDenied, RestoreSkips
<1>4. CASE RestoreStarts(r)
  <2>1. PICK images \in Restorable(r) :
          goal' = [goal EXCEPT ![r] = images] /\ undo' = [undo EXCEPT ![r] = Outdated(images)]
    BY <1>4 DEF RestoreStarts
  <2>2. images \in Views
    BY RollbackImagesIsView DEF Restorable
  <2>3. Outdated(images) \in Views
    BY <2>2, OutdatedIsView
  <2>4. at' \in [Others -> Stages]
    BY <1>4 DEF RestoreStarts
  <2> QED
    BY <1>4, <2>1, <2>2, <2>3, <2>4 DEF RestoreStarts
<1>5. CASE RestoreEnds(r)
  BY <1>5, NothingIsView DEF RestoreEnds
<1>6. CASE RestoreExits(r) \/ RestoreKilled(r)
  BY <1>6 DEF RestoreExits, RestoreKilled
<1>7. CASE LeftoverStops(r)
  BY <1>7, NothingIsView DEF LeftoverStops
<1>8. ASSUME NEW s \in Services, ContainerRestored(r, s)
      PROVE  HostTypeOK'
  BY <1>8 DEF ContainerRestored, Views
<1> QED
  BY <1>1, <1>2, <1>3, <1>4, <1>5, <1>6, <1>7, <1>8 DEF Moves, Restores

LEMMA HostNextTyped == HostTypeOK /\ [HostNext]_hostVars => HostTypeOK'
<1> SUFFICES ASSUME HostTypeOK, [HostNext]_hostVars
             PROVE  HostTypeOK'
  OBVIOUS
<1>1. CASE DeployMoves
  <2>1. TypeOK'
    BY <1>1, NextTyped DEF DeployMoves, HostTypeOK
  <2>2. files' \subseteq Views
    BY <1>1, <2>1 DEF DeployMoves, Written, HostTypeOK, TypeOK
  <2> QED
    BY <1>1, <2>1, <2>2 DEF DeployMoves, HostTypeOK, command
<1> QED
  BY <1>1, HostMoves, RestoreTyped

LEMMA HostInitTyped == HostInit => HostTypeOK
BY InitTyped, NothingIsView, HostAssumption DEF HostInit, HostTypeOK, Stages, Idle, Codes

\* Every variable of the host stays in its domain.
THEOREM HostTypeCorrect == HostSpec => []HostTypeOK
BY HostInitTyped, HostNextTyped, PTL DEF HostSpec

-------------------------------------------------------------------------------
\* The lock.

\* A deploy neither gives a rollback command the lock nor takes it away.
LEMMA DeployLeavesOthers ==
  ASSUME TypeOK, LockHeld, [Next]_vars, NEW r \in Others
  PROVE  lock'[EnvOf[r]] = r <=> lock[EnvOf[r]] = r
<1>1. ASSUME NEW p \in Procs, Act(p)
      PROVE  lock'[EnvOf[r]] = r <=> lock[EnvOf[r]] = r
  <2>1. Local(p) /\ (Enters(p) \/ Leaves(p) \/ Stays(p))
    BY <1>1, StepIsLocal, StepAndLock
  <2>2. /\ EnvOf[r] \in Envs /\ Env(p) \in Envs
        /\ r # p /\ r # Free /\ p # Free
    BY DeployAssumption DEF Env
  <2>3. lock[Env(p)] = p <=> pc[p] \notin Outside
    BY DEF LockHeld
  <2> QED
    BY <2>1, <2>2, <2>3 DEF Local, Enters, Leaves, Stays
<1> QED
  BY <1>1, NextActs DEF Aside

\* What a rollback command's step means to the lock.
LEMMA RestoreAndLock ==
  ASSUME HostTypeOK, NEW r \in Others, Moves(r)
  PROVE  /\ UNCHANGED pc
         /\ \A q \in Others \ {r} : at'[q] = at[q]
         /\ \/ /\ at[r] \in Idle /\ at'[r] \notin Idle
               /\ lock[EnvOf[r]] = Free /\ lock' = [lock EXCEPT ![EnvOf[r]] = r]
            \/ /\ at[r] \notin Idle /\ at'[r] \in Idle
               /\ lock' = [lock EXCEPT ![EnvOf[r]] = Free]
            \/ /\ at[r] \in Idle <=> at'[r] \in Idle
               /\ UNCHANGED lock
<1> USE DEF HostTypeOK, Idle, At, vars
<1>1. CASE LoadSnapshot(r) \/ RestoreDenied(r) \/ RestoreSkips(r) \/ RestoreStarts(r)
  BY <1>1 DEF LoadSnapshot, RestoreDenied, RestoreSkips, RestoreStarts
<1>2. CASE RestoreLocks(r)
  BY <1>2 DEF RestoreLocks
<1>3. CASE RestoreEnds(r) \/ LeftoverStops(r)
  BY <1>3 DEF RestoreEnds, LeftoverStops
<1>4. CASE RestoreExits(r) \/ RestoreKilled(r)
  BY <1>4 DEF RestoreExits, RestoreKilled
<1>5. CASE \E s \in Services : ContainerRestored(r, s)
  BY <1>5 DEF ContainerRestored
<1> QED
  BY <1>1, <1>2, <1>3, <1>4, <1>5 DEF Moves, Restores

LEMMA HostLockStep ==
  ASSUME HostTypeOK, HostLockHeld, [HostNext]_hostVars
  PROVE  HostLockHeld'
<1>1. CASE DeployMoves
  <2>1. LockHeld'
    BY <1>1, LockStep DEF DeployMoves, HostTypeOK, HostLockHeld
  <2>2. \A r \in Others : lock'[EnvOf[r]] = r <=> lock[EnvOf[r]] = r
    BY <1>1, DeployLeavesOthers DEF DeployMoves, HostTypeOK, HostLockHeld
  <2> QED
    BY <1>1, <2>1, <2>2 DEF DeployMoves, HostLockHeld, command
<1>2. ASSUME NEW r \in Others, Moves(r)
      PROVE  HostLockHeld'
  <2>1. /\ lock \in [Envs -> Procs \cup Others \cup {Free}]
        /\ \A c \in Procs \cup Others : EnvOf[c] \in Envs /\ c # Free
        /\ r \notin Procs
    BY DeployAssumption DEF HostTypeOK, TypeOK
  <2>2. ASSUME NEW p \in Procs
        PROVE  lock'[Env(p)] = p <=> pc'[p] \notin Outside
    BY <1>2, <2>1, RestoreAndLock DEF HostLockHeld, LockHeld, Env
  <2>3. ASSUME NEW q \in Others
        PROVE  lock'[EnvOf[q]] = q <=> at'[q] \notin Idle
    BY <1>2, <2>1, RestoreAndLock DEF HostLockHeld
  <2> QED
    BY <2>2, <2>3 DEF HostLockHeld, LockHeld, Env
<1> QED
  BY <1>1, <1>2, HostMoves

(***************************************************************************)
(* The lock of an environment is held by exactly the command, deploy or    *)
(* rollback, that is past it.                                              *)
(***************************************************************************)
THEOREM HostLockCorrect == HostSpec => []HostLockHeld
<1>1. HostInit => HostLockHeld
  BY InitLock, DeployAssumption DEF HostInit, Init, HostLockHeld, Idle
<1>2. HostTypeOK /\ HostLockHeld /\ [HostNext]_hostVars => HostLockHeld'
  BY HostLockStep
<1> QED
  BY <1>1, <1>2, HostTypeCorrect, PTL DEF HostSpec

-------------------------------------------------------------------------------
\* Compose.

RestoreInv == \A r \in Others : undo[r] # Nothing => at[r] \in {"restoring", "dead"}

HostComposeInv == ComposeInv /\ RestoreInv

LEMMA HostComposeStep ==
  ASSUME HostTypeOK, HostComposeInv, [HostNext]_hostVars
  PROVE  HostComposeInv'
<1>1. CASE DeployMoves
  BY <1>1, ComposeStep DEF DeployMoves, HostTypeOK, HostComposeInv, RestoreInv, Nothing, command
<1>2. ASSUME NEW r \in Others, Moves(r)
      PROVE  HostComposeInv'
  <2> USE DEF HostTypeOK, HostComposeInv, ComposeInv, RestoreInv, At, vars, Nothing
  <2>1. CASE LoadSnapshot(r) \/ RestoreDenied(r) \/ RestoreSkips(r) \/ RestoreLocks(r)
    BY <1>2, <2>1 DEF LoadSnapshot, RestoreDenied, RestoreSkips, RestoreLocks
  <2>2. CASE RestoreStarts(r)
    BY <2>2 DEF RestoreStarts
  <2>3. CASE RestoreEnds(r) \/ LeftoverStops(r)
    BY <2>3 DEF RestoreEnds, LeftoverStops
  <2>4. CASE RestoreExits(r) \/ RestoreKilled(r)
    BY <2>4 DEF RestoreExits, RestoreKilled
  <2>5. ASSUME NEW s \in Services, ContainerRestored(r, s)
        PROVE  HostComposeInv'
    BY <2>5 DEF ContainerRestored
  <2> QED
    BY <1>2, <2>1, <2>2, <2>3, <2>4, <2>5 DEF Moves, Restores
<1> QED
  BY <1>1, <1>2, HostMoves

(***************************************************************************)
(* Two Compose runs of one environment, of deploys or of rollback          *)
(* commands, overlap only if one of them has outlived its killed c2quay.   *)
(***************************************************************************)
THEOREM HostComposeCorrect == HostSpec => []OneComposeRunOnHost
<1>1. HostInit => HostComposeInv
  BY DEF HostInit, Init, HostComposeInv, ComposeInv, RestoreInv
<1>2. HostTypeOK /\ HostComposeInv /\ [HostNext]_hostVars => HostComposeInv'
  BY HostComposeStep
<1>3. HostLockHeld /\ HostComposeInv => OneComposeRunOnHost
  <2> SUFFICES ASSUME HostLockHeld, HostComposeInv,
                      NEW c \in ComposeRuns, NEW d \in ComposeRuns,
                      c # d, EnvOf[c] = EnvOf[d], ~ Orphan(c), ~ Orphan(d)
               PROVE  FALSE
    BY DEF OneComposeRunOnHost
  <2>1. ASSUME NEW b \in ComposeRuns, ~ Orphan(b)
        PROVE  lock[EnvOf[b]] = b
    BY <2>1 DEF ComposeRuns, Orphan, HostLockHeld, LockHeld, HostComposeInv, ComposeInv,
                RestoreInv, Waiting, Outside, Idle, Env
  <2> QED
    BY <2>1
<1> QED
  BY <1>1, <1>2, <1>3, HostTypeCorrect, HostLockCorrect, PTL DEF HostSpec

-------------------------------------------------------------------------------
\* The broker.

LEMMA RestoreKeepsRelease ==
  ASSUME TypeOK, ReleaseInv, UNCHANGED <<broker, torn, pc, opt, plan, result>>
  PROVE  ReleaseInv'
<1>1. ASSUME NEW q \in Procs
      PROVE  RunInv(q)'
  BY DEF ReleaseInv, RunInv, HasFlags, PostsLast, PostsScope, PlansScope, RecordsPlan,
         VerdictHolds, Destined, Arrived, Posted, Scope, Env, Deployable
<1>2. VerifiedTogether'
  BY QuietKeepsView DEF ReleaseInv, Posted
<1> QED
  BY <1>1, <1>2 DEF ReleaseInv

LEMMA HostReleaseStep ==
  ASSUME HostTypeOK, HostLockHeld, ReleaseInv, [HostNext]_hostVars
  PROVE  ReleaseInv'
<1>1. CASE DeployMoves
  BY <1>1, ReleaseStep DEF DeployMoves, HostTypeOK, HostLockHeld
<1>2. ASSUME NEW r \in Others, Moves(r)
      PROVE  UNCHANGED <<broker, torn, pc, opt, plan, result>>
  BY <1>2 DEF Moves, Restores, LoadSnapshot, RestoreLocks, RestoreDenied, RestoreSkips,
     RestoreStarts, RestoreEnds, RestoreExits, RestoreKilled, LeftoverStops,
     ContainerRestored, vars, shared, report
<1> QED
  BY <1>1, <1>2, HostMoves, RestoreKeepsRelease DEF HostTypeOK

(***************************************************************************)
(* Rollback commands, whenever they are given and however they end, leave  *)
(* deploys what they rely on: the view of an all_or_nothing environment    *)
(* stays verified, and a verdict holds until it is acted upon.             *)
(***************************************************************************)
THEOREM HostReleaseCorrect == HostSpec => [](VerifiedTogether /\ VerdictStillHolds)
<1>1. HostInit => ReleaseInv
  BY InitRelease DEF HostInit
<1>2. HostTypeOK /\ HostLockHeld /\ ReleaseInv /\ [HostNext]_hostVars => ReleaseInv'
  BY HostReleaseStep
<1>3. ReleaseInv => VerifiedTogether /\ VerdictStillHolds
  BY DEF ReleaseInv, RunInv, VerdictHolds, VerdictStillHolds
<1> QED
  BY <1>1, <1>2, <1>3, HostTypeCorrect, HostLockCorrect, PTL DEF HostSpec

\* What is said of the hint needs the same, and the hints of deploys.
LEMMA RestoreKeepsHints ==
  ASSUME HintsInv, NEW r \in Others, Moves(r)
  PROVE  HintsInv'
<1>1. UNCHANGED <<broker, pc, opt, plan, result, failedAt, rollback>>
  BY DEF Moves, Restores, LoadSnapshot, RestoreLocks, RestoreDenied, RestoreSkips,
     RestoreStarts, RestoreEnds, RestoreExits, RestoreKilled, LeftoverStops,
     ContainerRestored, vars, shared, report
<1> QED
  BY <1>1 DEF HintsInv, HintInv, Unhinted, Compensating, HintedEarly, FailedLast, HintedLast,
     OneQuery, Repeatable, Deployable, Pending, AllRecorded, Scope, Env

(***************************************************************************)
(* Nor do rollback commands make untrue what a deploy reports: what it     *)
(* says it recorded is what the broker shows, and its hint is true.        *)
(***************************************************************************)
THEOREM HostReportCorrect == HostSpec => [](ReportedRecordsShown /\ HintTrue)
<1>1. HostInit => ReleaseInv /\ HintsInv
  BY InitRelease, InitHints DEF HostInit
<1>2. HostTypeOK /\ HostLockHeld /\ ReleaseInv /\ [HostNext]_hostVars => ReleaseInv'
  BY HostReleaseStep
<1>3. HostTypeOK /\ HostLockHeld /\ ReleaseInv /\ HintsInv /\ [HostNext]_hostVars => HintsInv'
  BY HostMoves, HintsStep, RestoreKeepsHints DEF DeployMoves, HostTypeOK, HostLockHeld
<1>4. ReleaseInv /\ HintsInv => ReportedRecordsShown /\ HintTrue
  BY HintsAreTrue DEF ReleaseInv, RunInv, RecordsPlan, ReportedRecordsShown
<1> QED
  BY <1>1, <1>2, <1>3, <1>4, HostTypeCorrect, HostLockCorrect, PTL DEF HostSpec

-------------------------------------------------------------------------------
\* The protocol: what a deploy does in it, it does beside rollback commands too.

hostPhase ==
  [c \in Commands |-> IF c \in Procs THEN Phase(c)
                      ELSE IF at[c] \in Idle THEN "out" ELSE "in"]

hostCand == [c \in Commands |-> IF c \in Procs THEN Candidates(c) ELSE Nothing]

HostMapStep == HostProtocol!Next \/ UNCHANGED <<lock, hostPhase, hostCand, broker>>

LEMMA DeployMapsOn ==
  ASSUME UNCHANGED command
  PROVE  /\ \A p \in Procs : \A ph :
              phaseOf' = [phaseOf EXCEPT ![p] = ph] => hostPhase' = [hostPhase EXCEPT ![p] = ph]
         /\ \A p \in Procs : \A c :
              candOf' = [candOf EXCEPT ![p] = c] => hostCand' = [hostCand EXCEPT ![p] = c]
         /\ UNCHANGED phaseOf => UNCHANGED hostPhase
         /\ UNCHANGED candOf => UNCHANGED hostCand
<1>1. UNCHANGED at
  BY DEF command
<1>2. \A p \in Procs :
        /\ phaseOf[p] = Phase(p) /\ phaseOf'[p] = Phase(p)'
        /\ candOf[p] = Candidates(p) /\ candOf'[p] = Candidates(p)'
  BY DEF phaseOf, candOf
<1> HIDE DEF Phase, Candidates
<1>3. ASSUME NEW p \in Procs, NEW ph, phaseOf' = [phaseOf EXCEPT ![p] = ph]
      PROVE  hostPhase' = [hostPhase EXCEPT ![p] = ph]
  BY <1>1, <1>2, <1>3 DEF hostPhase, phaseOf, Commands
<1>4. ASSUME NEW p \in Procs, NEW c, candOf' = [candOf EXCEPT ![p] = c]
      PROVE  hostCand' = [hostCand EXCEPT ![p] = c]
  BY <1>2, <1>4 DEF hostCand, candOf, Commands
<1>5. UNCHANGED phaseOf => UNCHANGED hostPhase
  BY <1>1, <1>2 DEF hostPhase
<1>6. UNCHANGED candOf => UNCHANGED hostCand
  BY <1>2 DEF hostCand
<1> QED
  BY <1>3, <1>4, <1>5, <1>6

\* The two instances of the protocol have one matrix.
LEMMA SameHostMatrix ==
  /\ HostProtocol!Views = Views
  /\ HostProtocol!Nothing = Nothing
  /\ \A c : HostProtocol!ScopeOf(c) = Protocol!ScopeOf(c)
  /\ \A a, scope, cand, view :
       HostProtocol!GateAll(a, scope, cand, view) <=> Protocol!GateAll(a, scope, cand, view)
BY DEF HostProtocol!Views, Views, HostProtocol!Nothing, Nothing,
       HostProtocol!ScopeOf, Protocol!ScopeOf, HostProtocol!GateAll, Protocol!GateAll,
       HostProtocol!ClearedAgainst, Protocol!ClearedAgainst, HostProtocol!Overlay, Protocol!Overlay,
       HostProtocol!Compatible, Protocol!Compatible

LEMMA DeployHostMaps ==
  ASSUME MapStep, UNCHANGED command
  PROVE  HostMapStep
<1>1. \A p \in Procs : /\ p \in Commands
                       /\ hostPhase[p] = phaseOf[p] /\ hostCand[p] = candOf[p]
  BY DEF hostPhase, phaseOf, hostCand, candOf, Commands
<1>2. ASSUME NEW p \in Procs, Protocol!Enter(p)
      PROVE  HostProtocol!Enter(p)
  BY <1>1, <1>2, DeployMapsOn
     DEF Protocol!Enter, HostProtocol!Enter, phaseOf, candOf, hostPhase, hostCand
<1>3. ASSUME NEW p \in Procs, Protocol!Clear(p)
      PROVE  HostProtocol!Clear(p)
  BY <1>1, <1>3, DeployMapsOn, SameMatrix, SameHostMatrix
     DEF Protocol!Clear, HostProtocol!Clear, phaseOf, candOf, hostPhase, hostCand
<1>4. ASSUME NEW p \in Procs, NEW s \in Services, Protocol!Post(p, s)
      PROVE  HostProtocol!Post(p, s)
  BY <1>1, <1>4, DeployMapsOn
     DEF Protocol!Post, HostProtocol!Post, phaseOf, candOf, hostPhase, hostCand
<1>5. ASSUME NEW p \in Procs, Protocol!Leave(p)
      PROVE  HostProtocol!Leave(p)
  BY <1>1, <1>5, DeployMapsOn, SameMatrix, SameHostMatrix
     DEF Protocol!Leave, HostProtocol!Leave, phaseOf, candOf, hostPhase, hostCand
<1> QED
  BY <1>1, <1>2, <1>3, <1>4, <1>5, DeployMapsOn
     DEF MapStep, HostMapStep, Protocol!Next, HostProtocol!Next

\* A rollback command enters and leaves, and does nothing in between.
LEMMA RestoreHostMaps ==
  ASSUME HostTypeOK, NEW r \in Others, Moves(r)
  PROVE  HostMapStep
<1>1. UNCHANGED <<broker, pc, plan, result>>
  BY DEF Moves, Restores, LoadSnapshot, RestoreLocks, RestoreDenied, RestoreSkips,
     RestoreStarts, RestoreEnds, RestoreExits, RestoreKilled, LeftoverStops,
     ContainerRestored, vars, shared, report
<1>2. /\ \A p \in Procs : Phase(p)' = Phase(p)
      /\ hostCand' = hostCand
  BY <1>1 DEF Phase, Candidates, Recording, hostCand
<1>3. r \in Commands /\ r \notin Procs
  BY DeployAssumption DEF Commands
<1> HIDE DEF Phase, Candidates
<1>4. \A stage : (at'[r] \in Idle <=> stage = "out") /\ stage \in {"in", "out"}
        => hostPhase' = [hostPhase EXCEPT ![r] = stage]
  BY <1>2, <1>3, RestoreAndLock DEF hostPhase, Commands
<1>5. /\ hostPhase[r] = IF at[r] \in Idle THEN "out" ELSE "in"
      /\ hostCand = [hostCand EXCEPT ![r] = Nothing]
  BY <1>3 DEF hostPhase, hostCand, Commands
<1>6. CASE at[r] \in Idle /\ at'[r] \notin Idle
  <2>1. lock[EnvOf[r]] = Free /\ lock' = [lock EXCEPT ![EnvOf[r]] = r]
    BY <1>6, RestoreAndLock
  <2>2. HostProtocol!Enter(r)
    BY <1>1, <1>2, <1>4, <1>5, <1>6, <2>1 DEF HostProtocol!Enter, hostPhase, hostCand
  <2> QED
    BY <1>3, <2>2 DEF HostMapStep, HostProtocol!Next
<1>7. CASE at[r] \notin Idle /\ at'[r] \in Idle
  <2>1. lock' = [lock EXCEPT ![EnvOf[r]] = Free]
    BY <1>7, RestoreAndLock
  <2>2. /\ hostPhase[r] # "out" /\ hostPhase' = [hostPhase EXCEPT ![r] = "out"]
        /\ hostCand' = [hostCand EXCEPT ![r] = Nothing]
    BY <1>2, <1>4, <1>5, <1>7
  <2>3. HostProtocol!Leave(r)
    BY <1>1, <2>1, <2>2, SameHostMatrix DEF HostProtocol!Leave, hostPhase, hostCand
  <2> QED
    BY <1>3, <2>3 DEF HostMapStep, HostProtocol!Next
<1>8. CASE at[r] \in Idle <=> at'[r] \in Idle
  <2>1. UNCHANGED lock
    BY <1>8, RestoreAndLock
  <2>2. hostPhase' = hostPhase
    BY <1>2, <1>8, RestoreAndLock DEF hostPhase, Commands
  <2> QED
    BY <1>1, <1>2, <2>1, <2>2 DEF HostMapStep
<1> QED
  BY <1>6, <1>7, <1>8

(***************************************************************************)
(* Deploys and rollback commands of a host keep the release protocol, for  *)
(* any number of either and whichever of them are killed.                  *)
(***************************************************************************)
THEOREM HostImplementsProtocolCorrect == HostSpec => HostImplementsProtocol
<1>1. HostInit => HostProtocol!Init
  <2> SUFFICES ASSUME HostInit PROVE HostProtocol!Init
    OBVIOUS
  <2>1. \A p \in Procs : Phase(p) = "out" /\ Candidates(p) = Nothing
    BY DEF HostInit, Init, Phase, Candidates, Recording, Outside
  <2>2. broker \in [Envs -> Views]
    BY DeployAssumption DEF HostInit, Init
  <2>3. \A r \in Others : at[r] \in Idle
    BY DEF HostInit, Idle
  <2>4. lock = [e \in Envs |-> Free]
    BY DEF HostInit, Init
  <2> HIDE DEF Phase, Candidates
  <2> QED
    BY <2>1, <2>2, <2>3, <2>4, SameHostMatrix DEF HostProtocol!Init, Commands
<1>2. HostInit => ReleaseInv
  BY InitRelease DEF HostInit
<1>3. HostTypeOK /\ HostLockHeld /\ ReleaseInv /\ [HostNext]_hostVars => ReleaseInv'
  BY HostReleaseStep
<1>4. HostTypeOK /\ ReleaseInv /\ [HostNext]_hostVars => HostMapStep
  BY HostMoves, NextMaps, DeployHostMaps, RestoreHostMaps DEF DeployMoves, HostTypeOK
<1>5. HostMapStep => [HostProtocol!Next]_(HostProtocol!vars)
  BY DEF HostMapStep, hostPhase, hostCand, HostProtocol!vars
<1> QED
  BY <1>1, <1>2, <1>3, <1>4, <1>5, HostTypeCorrect, HostLockCorrect, PTL
     DEF HostSpec, HostImplementsProtocol, HostProtocol!Spec

-------------------------------------------------------------------------------
(***************************************************************************)
(* Containers.  Where no step replaces a container for one command while   *)
(* another is past its lock (Apart), what the `up` of whoever is past it   *)
(* was to bring up is up already or still to come.  So it is all up when   *)
(* an `up` returns that left nothing to come (Candid).                     *)
(***************************************************************************)
Applies(target, todo, now) ==
  \A s \in Services :
    target[s] # None => \/ todo[s] = target[s]
                        \/ todo[s] = None /\ now[s] = target[s]

RollsBack(p) ==
  /\ pc[p] # "exit" => rollback[p] # "ok"
  /\ pc[p] = "rollingBack" => Applies(restore[p], child[p], running)
  /\ pc[p] = "exit" /\ rollback[p] = "ok" => Applies(restore[p], Nothing, running)

Undoes(r) ==
  /\ at[r] \in {"start", "loaded", "plan"} => goal[r] = Nothing
  /\ at[r] = "restoring" => Applies(goal[r], undo[r], running)
  /\ at[r] = "exit" /\ status[r] = "ok" => Applies(goal[r], Nothing, running)

ContainerInv ==
  /\ \A p \in Procs : RollsBack(p)
  /\ \A r \in Others : Undoes(r)

\* The releases whose files are as they were when the plan was made.
Unedited(p) ==
  [s \in Services |-> IF s \in DeployServices(p) /\ head[s] = plan[p][s] THEN plan[p][s] ELSE None]

\* Where no edit brings a planned version back they only become fewer.
BringsUp(p) ==
  /\ pc[p] = "upping" => Applies(Unedited(p), child[p], running)
  /\ pc[p] \in {"smoke", "record"} => Applies(Unedited(p), Nothing, running)

UpInv == \A p \in Procs : BringsUp(p)

LEMMA OutdatedApplies ==
  ASSUME NEW images
  PROVE  Applies(images, Outdated(images), running)
BY DEF Applies, Outdated

\* One container of it is replaced.
LEMMA OneMoreApplied ==
  ASSUME NEW target, NEW todo \in Views, NEW now \in Views, NEW s \in Services,
         todo[s] # None, Applies(target, todo, now)
  PROVE  Applies(target, [todo EXCEPT ![s] = None], [now EXCEPT ![s] = todo[s]])
BY DEF Applies, Views

\* A step of a deploy leaves the containers, the files and the others alone.
LEMMA StepIsOwn ==
  ASSUME TypeOK, NEW p \in Procs, Step(p)
  PROVE  /\ UNCHANGED <<running, head, edits>>
         /\ \A q \in Procs \ {p} :
              /\ pc'[q] = pc[q] /\ opt'[q] = opt[q] /\ plan'[q] = plan[q]
              /\ child'[q] = child[q] /\ restore'[q] = restore[q]
              /\ rollback'[q] = rollback[q]
<1> USE DEF TypeOK, Goto, shared, report
<1>1. CASE \/ Acquire(p) \/ LockDenied(p) \/ BuildPlan(p) \/ ValidateComposeCoverage(p)
           \/ PreSnapshot(p) \/ SetupFails(p) \/ GatePasses(p) \/ GateFails(p)
  BY <1>1 DEF Acquire, LockDenied, BuildPlan, ValidateComposeCoverage, PreSnapshot,
              SetupFails, GatePasses, GateFails
<1>2. CASE \/ Pull(p) \/ PullFails(p) \/ UpStarts(p) \/ UpSucceeds(p) \/ UpFails(p)
           \/ SmokePasses(p) \/ SmokeFails(p) \/ RollbackEnds(p)
  BY <1>2 DEF Pull, PullFails, UpStarts, UpSucceeds, UpFails, SmokePasses, SmokeFails,
              RollbackEnds
<1>3. CASE Compensate(p)
  BY <1>3 DEF Compensate
<1>4. ASSUME NEW s \in Services,
             Recorded(p, s) \/ RecordFails(p, s) \/ NotAttempted(p, s)
      PROVE  /\ UNCHANGED <<running, head, edits>>
             /\ pc[p] = "record"
             /\ UNCHANGED <<pc, opt, plan, child, restore, rollback>>
  BY <1>4 DEF Recorded, RecordFails, NotAttempted
<1>5. CASE RecordingEnds(p)
  BY <1>5 DEF RecordingEnds
<1>6. CASE Exit(p)
  BY <1>6 DEF Exit, Forget
<1> QED
  BY <1>1, <1>2, <1>3, <1>4, <1>5, <1>6 DEF Step

\* What it makes of its own compensation.
LEMMA RollsBackStep ==
  ASSUME TypeOK, Candid, NEW p \in Procs, RollsBack(p), Step(p)
  PROVE  RollsBack(p)'
<1>1. UNCHANGED running
  BY StepIsOwn
<1> USE DEF TypeOK, RollsBack, Goto, shared, report
<1>2. CASE Acquire(p) \/ LockDenied(p)
  BY <1>2 DEF Acquire, LockDenied
<1>3. CASE Exit(p)
  BY <1>3 DEF Exit, Forget
<1>4. CASE \/ BuildPlan(p) \/ ValidateComposeCoverage(p) \/ PreSnapshot(p)
           \/ SetupFails(p) \/ GatePasses(p) \/ GateFails(p)
  BY <1>4 DEF BuildPlan, ValidateComposeCoverage, PreSnapshot, SetupFails, GatePasses,
     GateFails
<1>5. CASE \/ Pull(p) \/ PullFails(p) \/ UpStarts(p) \/ UpSucceeds(p) \/ UpFails(p)
           \/ SmokePasses(p) \/ SmokeFails(p)
  BY <1>5 DEF Pull, PullFails, UpStarts, UpSucceeds, UpFails, SmokePasses, SmokeFails
<1>6. CASE Compensate(p)
  <2>1. PICK post \in {RenderedImages, Nothing} :
          \/ pc'[p] = "exit" /\ rollback'[p] # "ok"
          \/ /\ pc'[p] = "rollingBack" /\ UNCHANGED rollback
             /\ restore'[p] = RollbackImages(pre[p], post)
             /\ child'[p] = Outdated(RollbackImages(pre[p], post))
    BY <1>6 DEF Compensate
  <2> QED
    BY <1>1, <1>6, <2>1, OutdatedApplies DEF Compensate
<1>7. CASE RollbackEnds(p)
  <2>1. /\ pc[p] = "rollingBack" /\ pc'[p] = "exit" /\ UNCHANGED restore
        /\ rollback'[p] = "ok" => child[p] = Nothing
    BY <1>7 DEF RollbackEnds, Candid
  <2> QED
    BY <1>1, <2>1
<1>8. ASSUME NEW s \in Services,
             Recorded(p, s) \/ RecordFails(p, s) \/ NotAttempted(p, s)
      PROVE  RollsBack(p)'
  BY <1>8 DEF Recorded, RecordFails, NotAttempted
<1>9. CASE RecordingEnds(p)
  BY <1>9 DEF RecordingEnds
<1> QED
  BY <1>2, <1>3, <1>4, <1>5, <1>6, <1>7, <1>8, <1>9 DEF Step

\* And of its release: what the plan named and nobody edited is brought up.
LEMMA BringsUpStep ==
  ASSUME TypeOK, Candid, NEW p \in Procs, BringsUp(p), Step(p)
  PROVE  BringsUp(p)'
<1>1. UNCHANGED <<running, head, edits>>
  BY StepIsOwn
<1> USE <1>1 DEF TypeOK, BringsUp, Unedited, DeployServices, Scope, Env, Goto, shared, report
<1>2. CASE Acquire(p) \/ LockDenied(p)
  BY <1>2 DEF Acquire, LockDenied
<1>3. CASE Exit(p)
  BY <1>3 DEF Exit
<1>4. CASE BuildPlan(p)
  BY <1>4 DEF BuildPlan
<1>5. CASE \/ ValidateComposeCoverage(p) \/ PreSnapshot(p) \/ SetupFails(p) \/ GateFails(p)
           \/ Pull(p) \/ PullFails(p)
  BY <1>5 DEF ValidateComposeCoverage, PreSnapshot, SetupFails, GateFails, Pull, PullFails
<1>6. CASE GatePasses(p)
  <2>1. /\ pc[p] = "gate" /\ UNCHANGED <<opt, plan>>
        /\ \/ pc'[p] \in {"exit", "pull", "up"}
           \/ pc'[p] = "smoke" /\ DeployServices(p) = {}
    BY <1>6 DEF GatePasses
  <2> QED
    BY <2>1 DEF Applies
<1>7. CASE UpStarts(p)
  <2>1. /\ pc[p] = "up" /\ pc'[p] = "upping" /\ UNCHANGED <<opt, plan>>
        /\ child'[p] = Outdated(Only(DeployServices(p), head))
    BY <1>7 DEF UpStarts
  <2>2. Applies(Unedited(p), Outdated(Only(DeployServices(p), head)), running)
    BY DEF Applies, Outdated, Only
  <2> QED
    BY <2>1, <2>2
<1>8. CASE UpSucceeds(p)
  <2>1. /\ pc[p] = "upping" /\ pc'[p] = "smoke" /\ UNCHANGED <<opt, plan>>
        /\ child[p] = Nothing
    BY <1>8 DEF UpSucceeds, Candid
  <2> QED
    BY <2>1
<1>9. CASE SmokePasses(p)
  <2>1. /\ pc[p] = "smoke" /\ pc'[p] = "record" /\ UNCHANGED <<opt, plan>>
    BY <1>9 DEF SmokePasses
  <2> QED
    BY <2>1
<1>10. CASE UpFails(p) \/ SmokeFails(p) \/ RollbackEnds(p)
  BY <1>10 DEF UpFails, SmokeFails, RollbackEnds
<1>11. CASE Compensate(p)
  BY <1>11 DEF Compensate
<1>12. ASSUME NEW s \in Services,
              Recorded(p, s) \/ RecordFails(p, s) \/ NotAttempted(p, s)
       PROVE  BringsUp(p)'
  <2>1. UNCHANGED <<pc, opt, plan, child>>
    BY <1>12 DEF Recorded, RecordFails, NotAttempted
  <2> QED
    BY <2>1
<1>13. CASE RecordingEnds(p)
  BY <1>13 DEF RecordingEnds
<1> QED
  BY <1>2, <1>3, <1>4, <1>5, <1>6, <1>7, <1>8, <1>9, <1>10, <1>11, <1>12, <1>13 DEF Step

\* What does not touch a command, its files or the containers.
LEMMA UntouchedRollback ==
  ASSUME NEW q \in Procs, RollsBack(q), UNCHANGED running,
         pc'[q] = pc[q], child'[q] = child[q], restore'[q] = restore[q],
         rollback'[q] = rollback[q]
  PROVE  RollsBack(q)'
BY DEF RollsBack

LEMMA UntouchedUp ==
  ASSUME NEW q \in Procs, BringsUp(q), UNCHANGED <<running, head>>,
         pc'[q] = pc[q], opt'[q] = opt[q], plan'[q] = plan[q], child'[q] = child[q]
  PROVE  BringsUp(q)'
BY DEF BringsUp, Unedited, DeployServices, Scope, Env

LEMMA UntouchedRestore ==
  ASSUME NEW q \in Others, Undoes(q), UNCHANGED running,
         at'[q] = at[q], goal'[q] = goal[q], undo'[q] = undo[q], status'[q] = status[q]
  PROVE  Undoes(q)'
BY DEF Undoes

\* Those that are not past a lock claim nothing of the containers.
LEMMA QuietDeploy ==
  ASSUME NEW q \in Procs, pc[q] \in Outside, UNCHANGED <<pc, rollback>>
  PROVE  /\ RollsBack(q) => RollsBack(q)'
         /\ BringsUp(q)'
BY DEF Outside, RollsBack, BringsUp

LEMMA QuietRestore ==
  ASSUME NEW q \in Others, at[q] \in Idle, Undoes(q), UNCHANGED <<at, goal>>
  PROVE  Undoes(q)'
BY DEF Idle, Undoes

\* A container that is replaced for a deploy is one of its own claim.
LEMMA ContainerReplacedKeeps ==
  ASSUME HostTypeOK, ComposeInv, Apart,
         NEW p \in Procs, NEW s \in Services, ContainerReplaced(p, s), UNCHANGED command
  PROVE  /\ ContainerInv => ContainerInv'
         /\ UpInv => UpInv'
<1>1. /\ child[p][s] # None
      /\ running' = [running EXCEPT ![s] = child[p][s]]
      /\ child' = [child EXCEPT ![p][s] = None]
      /\ UNCHANGED <<head, pc, opt, plan, restore, rollback, at, goal, undo, status>>
  BY DEF ContainerReplaced, report, command
<1>2. child \in [Procs -> Views] /\ running \in Views /\ child[p] \in Views
  BY DEF HostTypeOK, TypeOK
<1>3. /\ \A q \in Procs \ {p} : pc[q] \in Outside
      /\ \A q \in Others : at[q] \in Idle
  BY DeployAssumption DEF Apart, Replaces, Past, Commands
<1>4. pc[p] \in {"upping", "rollingBack", "dead"}
  BY <1>1 DEF ComposeInv, Nothing, Waiting
<1>5. /\ child'[p] = [child[p] EXCEPT ![s] = None]
      /\ \A target : Applies(target, child[p], running) => Applies(target, child'[p], running')
  BY <1>1, <1>2, OneMoreApplied
<1>6. RollsBack(p) => RollsBack(p)'
  BY <1>1, <1>4, <1>5 DEF RollsBack
<1>7. BringsUp(p) => BringsUp(p)'
  <2>1. Unedited(p)' = Unedited(p)
    BY <1>1 DEF Unedited, DeployServices, Scope, Env
  <2> QED
    BY <1>1, <1>4, <1>5, <2>1 DEF BringsUp
<1> QED
  BY <1>1, <1>3, <1>6, <1>7, QuietDeploy, QuietRestore DEF ContainerInv, UpInv

LEMMA ContainerRestoredKeeps ==
  ASSUME HostTypeOK, RestoreInv, Apart,
         NEW r \in Others, NEW s \in Services, ContainerRestored(r, s)
  PROVE  /\ ContainerInv => ContainerInv'
         /\ UpInv => UpInv'
<1>1. /\ undo[r][s] # None
      /\ running' = [running EXCEPT ![s] = undo[r][s]]
      /\ undo' = [undo EXCEPT ![r][s] = None]
      /\ UNCHANGED <<head, pc, opt, plan, child, restore, rollback, at, goal, status>>
  BY DEF ContainerRestored, report
<1>2. undo \in [Others -> Views] /\ running \in Views /\ undo[r] \in Views
  BY DEF HostTypeOK, TypeOK
<1>3. /\ \A q \in Procs : pc[q] \in Outside
      /\ \A q \in Others \ {r} : at[q] \in Idle
  BY DeployAssumption DEF Apart, Replaces, Past, Commands
<1>4. at[r] \in {"restoring", "dead"}
  BY <1>1 DEF RestoreInv, Nothing
<1>5. Undoes(r) => Undoes(r)'
  <2>1. undo'[r] = [undo[r] EXCEPT ![s] = None]
    BY <1>1, <1>2
  <2>2. Applies(goal[r], undo[r], running) => Applies(goal[r], undo[r], running)'
    BY <1>1, <1>2, <2>1, OneMoreApplied
  <2> QED
    BY <1>1, <1>4, <2>2 DEF Undoes
<1> QED
  BY <1>1, <1>3, <1>5, QuietDeploy, QuietRestore DEF ContainerInv, UpInv

\* What a rollback command does itself.
LEMMA UndoesStep ==
  ASSUME HostTypeOK, Candid, NEW r \in Others, Undoes(r),
         Restores(r) \/ RestoreKilled(r) \/ LeftoverStops(r)
  PROVE  /\ Undoes(r)'
         /\ UNCHANGED <<running, head, pc, opt, plan, child, restore, rollback>>
         /\ \A q \in Others \ {r} :
              /\ at'[q] = at[q] /\ goal'[q] = goal[q] /\ undo'[q] = undo[q]
              /\ status'[q] = status[q]
<1> USE DEF HostTypeOK, Undoes, At, vars, shared, report
<1>1. CASE LoadSnapshot(r) \/ RestoreDenied(r) \/ RestoreLocks(r)
  BY <1>1 DEF LoadSnapshot, RestoreDenied, RestoreLocks
<1>2. CASE RestoreSkips(r)
  BY <1>2 DEF RestoreSkips, Applies, Nothing
<1>3. CASE RestoreStarts(r)
  <2>1. PICK images \in Restorable(r) :
          goal' = [goal EXCEPT ![r] = images] /\ undo' = [undo EXCEPT ![r] = Outdated(images)]
    BY <1>3 DEF RestoreStarts
  <2>2. Applies(images, Outdated(images), running)
    BY OutdatedApplies
  <2> QED
    BY <1>3, <2>1, <2>2 DEF RestoreStarts
<1>4. CASE RestoreEnds(r)
  <2>1. /\ at[r] = "restoring" /\ at'[r] = "exit" /\ UNCHANGED goal
        /\ status'[r] = "ok" => undo[r] = Nothing
    BY <1>4 DEF RestoreEnds, Candid
  <2> QED
    BY <1>4, <2>1 DEF RestoreEnds
<1>5. CASE RestoreExits(r)
  BY <1>5 DEF RestoreExits
<1>6. CASE RestoreKilled(r) \/ LeftoverStops(r)
  BY <1>6 DEF RestoreKilled, LeftoverStops, Idle
<1> QED
  BY <1>1, <1>2, <1>3, <1>4, <1>5, <1>6 DEF Restores

\* A killed deploy claims nothing any more.
LEMMA CrashClaims ==
  ASSUME TypeOK, NEW p \in Procs, Crash(p)
  PROVE  /\ RollsBack(p)' /\ BringsUp(p)'
         /\ UNCHANGED <<running, head, child>>
         /\ \A q \in Procs \ {p} :
              /\ pc'[q] = pc[q] /\ opt'[q] = opt[q] /\ plan'[q] = plan[q]
              /\ restore'[q] = restore[q] /\ rollback'[q] = rollback[q]
BY DEF Crash, Forget, Goto, TypeOK, RollsBack, BringsUp

\* And what an orphan leaves undone was nobody's.
LEMMA OrphanClaims ==
  ASSUME TypeOK, NEW p \in Procs, OrphanStops(p)
  PROVE  /\ pc[p] \in Outside
         /\ UNCHANGED <<running, head, pc, opt, plan, restore, rollback>>
         /\ \A q \in Procs \ {p} : child'[q] = child[q]
BY DEF OrphanStops, Outside, TypeOK, shared, report

LEMMA EnvironmentKeeps ==
  ASSUME HostTypeOK, ComposeInv, Apart, Environment, UNCHANGED command
  PROVE  /\ ContainerInv => ContainerInv'
         /\ (UpInv /\ NoEditBack) => UpInv'
<1>1. UNCHANGED <<at, goal, undo, status>> /\ TypeOK
  BY DEF command, HostTypeOK
<1>2. ASSUME NEW p \in Procs, Cancel(p)
      PROVE  (ContainerInv => ContainerInv') /\ (UpInv => UpInv')
  <2>1. UNCHANGED <<running, head, pc, opt, plan, child, restore, rollback>>
    BY <1>2 DEF Cancel, shared, report
  <2> QED
    BY <1>1, <2>1, UntouchedRollback, UntouchedUp, UntouchedRestore DEF ContainerInv, UpInv
<1>3. ASSUME NEW p \in Procs, Crash(p)
      PROVE  (ContainerInv => ContainerInv') /\ (UpInv => UpInv')
  <2>1. ASSUME NEW q \in Procs
        PROVE  (RollsBack(q) => RollsBack(q)') /\ (BringsUp(q) => BringsUp(q)')
    BY <1>1, <1>3, CrashClaims, UntouchedRollback, UntouchedUp
  <2>2. UNCHANGED running
    BY <1>1, <1>3, CrashClaims
  <2> QED
    BY <1>1, <2>1, <2>2, UntouchedRestore DEF ContainerInv, UpInv
<1>4. ASSUME NEW p \in Procs, OrphanStops(p)
      PROVE  (ContainerInv => ContainerInv') /\ (UpInv => UpInv')
  <2>1. ASSUME NEW q \in Procs
        PROVE  (RollsBack(q) => RollsBack(q)') /\ (BringsUp(q) => BringsUp(q)')
    BY <1>1, <1>4, OrphanClaims, UntouchedRollback, UntouchedUp, QuietDeploy
  <2>2. UNCHANGED running
    BY <1>1, <1>4, OrphanClaims
  <2> QED
    BY <1>1, <2>1, <2>2, UntouchedRestore DEF ContainerInv, UpInv
<1>5. ASSUME NEW s \in Services, NEW v \in Versions, Edit(s, v)
      PROVE  (ContainerInv => ContainerInv') /\ (UpInv /\ NoEditBack => UpInv')
  <2>1. /\ head' = [head EXCEPT ![s] = v]
        /\ UNCHANGED <<running, pc, opt, plan, child, restore, rollback>>
    BY <1>5 DEF Edit, report
  <2>2. ContainerInv => ContainerInv'
    BY <1>1, <2>1, UntouchedRollback, UntouchedRestore DEF ContainerInv
  <2>3. ASSUME UpInv, NoEditBack, NEW p \in Procs
        PROVE  BringsUp(p)'
    <3>1. \A t \in Services : Unedited(p)'[t] # None => Unedited(p)[t] = Unedited(p)'[t]
      BY <1>1, <2>1, <2>3 DEF NoEditBack, Unedited, DeployServices, Scope, Env, TypeOK
    <3> QED
      BY <2>1, <2>3, <3>1 DEF UpInv, BringsUp, Applies
  <2> QED
    BY <2>2, <2>3 DEF UpInv
<1> QED
  BY <1>2, <1>3, <1>4, <1>5, ContainerReplacedKeeps DEF Environment

LEMMA ContainerStep ==
  ASSUME HostTypeOK, HostComposeInv, Apart, Candid, [HostNext]_hostVars
  PROVE  /\ ContainerInv => ContainerInv'
         /\ (UpInv /\ NoEditBack) => UpInv'
<1>1. TypeOK
  BY DEF HostTypeOK
<1>2. ASSUME NEW p \in Procs, Deploys(p)
      PROVE  (ContainerInv => ContainerInv') /\ (UpInv => UpInv')
  <2>1. ASSUME NEW q \in Procs
        PROVE  (RollsBack(q) => RollsBack(q)') /\ (BringsUp(q) => BringsUp(q)')
    BY <1>1, <1>2, StepIsOwn, RollsBackStep, BringsUpStep, UntouchedRollback, UntouchedUp
       DEF Deploys
  <2>2. UNCHANGED <<running, at, goal, undo, status>>
    BY <1>1, <1>2, StepIsOwn DEF Deploys, command
  <2> QED
    BY <2>1, <2>2, UntouchedRestore DEF ContainerInv, UpInv
<1>3. CASE Environment /\ UNCHANGED <<files, command>>
  BY <1>3, EnvironmentKeeps DEF HostComposeInv
<1>4. ASSUME NEW r \in Others, Restores(r) \/ RestoreKilled(r) \/ LeftoverStops(r)
      PROVE  (ContainerInv => ContainerInv') /\ (UpInv => UpInv')
  BY <1>4, UndoesStep, UntouchedRollback, UntouchedUp, UntouchedRestore
     DEF ContainerInv, UpInv, Restores, RestoreKilled, LeftoverStops, LoadSnapshot, RestoreLocks,
         RestoreDenied, RestoreSkips, RestoreStarts, RestoreEnds, RestoreExits, vars, shared,
         report
<1>5. ASSUME NEW r \in Others, NEW s \in Services, ContainerRestored(r, s)
      PROVE  (ContainerInv => ContainerInv') /\ (UpInv => UpInv')
  BY <1>5, ContainerRestoredKeeps DEF HostComposeInv
<1>6. CASE UNCHANGED hostVars
  <2>1. UNCHANGED <<running, head, pc, opt, plan, child, restore, rollback,
                    at, goal, undo, status>>
    BY <1>6 DEF hostVars, vars, shared, report, command
  <2> QED
    BY <2>1, UntouchedRollback, UntouchedUp, UntouchedRestore DEF ContainerInv, UpInv
<1> QED
  BY <1>2, <1>3, <1>4, <1>5, <1>6 DEF HostNext, HostTerminated

LEMMA HostComposeInvariant == HostSpec => []HostComposeInv
<1>1. HostInit => HostComposeInv
  BY DEF HostInit, Init, HostComposeInv, ComposeInv, RestoreInv
<1>2. HostTypeOK /\ HostComposeInv /\ [HostNext]_hostVars => HostComposeInv'
  BY HostComposeStep
<1> QED
  BY <1>1, <1>2, HostTypeCorrect, PTL DEF HostSpec

LEMMA ContainerInit == HostInit => ContainerInv /\ UpInv
BY DEF HostInit, Init, ContainerInv, RollsBack, Undoes, UpInv, BringsUp

LEMMA StutterKeepsClaims ==
  ASSUME UNCHANGED hostVars
  PROVE  (ContainerInv => ContainerInv') /\ (UpInv => UpInv')
<1>1. UNCHANGED <<running, head, pc, opt, plan, child, restore, rollback,
                  at, goal, undo, status>>
  BY DEF hostVars, vars, shared, report, command
<1> QED
  BY <1>1, UntouchedRollback, UntouchedUp, UntouchedRestore DEF ContainerInv, UpInv

LEMMA ContainerInvariant == HostSpec /\ [][Apart /\ Candid]_hostVars => []ContainerInv
<1>1. HostTypeOK /\ HostComposeInv /\ ContainerInv /\ [HostNext]_hostVars
        /\ [Apart /\ Candid]_hostVars => ContainerInv'
  BY ContainerStep, StutterKeepsClaims
<1> QED
  BY <1>1, ContainerInit, HostTypeCorrect, HostComposeInvariant, PTL DEF HostSpec

LEMMA UpInvariant == HostSpec /\ [][Apart /\ Candid /\ NoEditBack]_hostVars => []UpInv
<1>1. HostTypeOK /\ HostComposeInv /\ UpInv /\ [HostNext]_hostVars
        /\ [Apart /\ Candid /\ NoEditBack]_hostVars => UpInv'
  BY ContainerStep, StutterKeepsClaims
<1> QED
  BY <1>1, ContainerInit, HostTypeCorrect, HostComposeInvariant, PTL DEF HostSpec

\* Results are filled in by the recording.
LEMMA RecordedInRecord ==
  ASSUME HostTypeOK, [HostNext]_hostVars, NEW p \in Procs, NEW s \in Services,
         result[p][s] = "pending", result'[p][s] = "recorded"
  PROVE  pc[p] = "record"
<1>1. TypeOK
  BY DEF HostTypeOK
<1>2. ASSUME NEW q \in Procs, Act(q)
      PROVE  pc[p] = "record"
  <2>1. q = p
    BY <1>1, <1>2, StepIsLocal DEF Local
  <2>2. CASE \E t \in Services : Recorded(p, t) \/ RecordFails(p, t) \/ NotAttempted(p, t)
    BY <2>2 DEF Recorded, RecordFails, NotAttempted
  <2>3. CASE \A t \in Services : ~ (Recorded(p, t) \/ RecordFails(p, t) \/ NotAttempted(p, t))
    <3>1. CASE Exit(p) \/ Crash(p)
      BY <1>1, <3>1 DEF Exit, Crash, Forget, TypeOK
    <3>2. CASE ~ (Exit(p) \/ Crash(p))
      <4>1. UNCHANGED result
        BY <1>2, <2>1, <2>3, <3>2 DEF Act, Step, Acquire, LockDenied, BuildPlan, ValidateComposeCoverage,
           PreSnapshot, SetupFails, GatePasses, GateFails, Pull, PullFails, UpStarts, UpSucceeds,
           UpFails, SmokePasses, SmokeFails, Compensate, RollbackEnds, RecordingEnds,
           Cancel, OrphanStops, report
      <4> QED
        BY <4>1
    <3> QED
      BY <3>1, <3>2
  <2> QED
    BY <2>2, <2>3
<1>3. CASE Aside
  BY <1>3 DEF Aside
<1>4. ASSUME NEW r \in Others, Moves(r)
      PROVE  UNCHANGED result
  BY <1>4 DEF Moves, Restores, LoadSnapshot, RestoreLocks, RestoreDenied, RestoreSkips,
     RestoreStarts, RestoreEnds, RestoreExits, RestoreKilled, LeftoverStops,
     ContainerRestored, vars, report
<1> QED
  BY <1>2, <1>3, <1>4, NextActs, HostMoves DEF DeployMoves

(***************************************************************************)
(* A rollback that is reported as successful was one: until it gives back  *)
(* the lock, the services of its plan run the images of its plan.  Kills,  *)
(* masked failures and other environments of the Compose project can make  *)
(* it untrue in the ways Apart and Candid name, and in no other.           *)
(***************************************************************************)
THEOREM RollbackReportHolds ==
  HostSpec /\ [][Apart /\ Candid]_hostVars => []RollbackReportTrue
<1>1. ContainerInv => RollbackReportTrue
  BY DEF ContainerInv, RollsBack, Applies, Nothing, RollbackReportTrue
<1> QED
  BY <1>1, ContainerInvariant, PTL

(***************************************************************************)
(* And so was a rollback command that ends in success, whatever deploys    *)
(* did between its reading the snapshot and its taking the lock.           *)
(***************************************************************************)
THEOREM RestoreHolds ==
  HostSpec /\ [][Apart /\ Candid]_hostVars => []RestoreTrue
<1>1. ContainerInv => RestoreTrue
  BY DEF ContainerInv, Undoes, Applies, Nothing, RestoreTrue
<1> QED
  BY <1>1, ContainerInvariant, PTL

(***************************************************************************)
(* ADR 0004: a version is recorded only while the service runs it, however *)
(* often the files are edited, if no edit takes one back to the plan.      *)
(***************************************************************************)
THEOREM RecordsHold ==
  HostSpec /\ [][Apart /\ Candid /\ NoEditBack]_hostVars => RecordsOnlyWhatRuns
<1>1. HostTypeOK /\ UpInv /\ [HostNext]_hostVars
        => [\A p \in Procs : \A s \in Services :
              (/\ result[p][s] = "pending" /\ result'[p][s] = "recorded"
               /\ s \in DeployServices(p)
               /\ head[s] = plan[p][s])
                => running[s] = plan[p][s]]_vars
  <2> SUFFICES ASSUME HostTypeOK, UpInv, [HostNext]_hostVars,
                      NEW p \in Procs, NEW s \in Services,
                      result[p][s] = "pending", result'[p][s] = "recorded",
                      s \in DeployServices(p), head[s] = plan[p][s]
               PROVE  running[s] = plan[p][s]
    OBVIOUS
  <2>1. pc[p] = "record"
    BY RecordedInRecord
  <2>2. Applies(Unedited(p), Nothing, running)
    BY <2>1 DEF UpInv, BringsUp
  <2>3. Unedited(p)[s] = plan[p][s] /\ plan[p][s] # None
    BY MatrixAssumption DEF Unedited, HostTypeOK, TypeOK
  <2> QED
    BY <2>2, <2>3 DEF Applies, Nothing
<1> QED
  BY <1>1, UpInvariant, HostTypeCorrect, PTL DEF RecordsOnlyWhatRuns, HostSpec

-------------------------------------------------------------------------------
\* Where nobody is killed, no Compose process has lost its c2quay.
Alive ==
  /\ \A p \in Procs : pc[p] # "dead"
  /\ \A r \in Others : at[r] # "dead"

\* No step of its own kills a deploy.
LEMMA StepLives ==
  ASSUME TypeOK, NEW p \in Procs, Step(p)
  PROVE  pc'[p] # "dead"
<1> USE DEF TypeOK, Goto
<1>1. CASE \/ Acquire(p) \/ LockDenied(p) \/ BuildPlan(p) \/ ValidateComposeCoverage(p)
           \/ PreSnapshot(p) \/ SetupFails(p) \/ GatePasses(p) \/ GateFails(p)
  BY <1>1 DEF Acquire, LockDenied, BuildPlan, ValidateComposeCoverage, PreSnapshot,
              SetupFails, GatePasses, GateFails
<1>2. CASE \/ Pull(p) \/ PullFails(p) \/ UpStarts(p) \/ UpSucceeds(p) \/ UpFails(p)
           \/ SmokePasses(p) \/ SmokeFails(p) \/ RollbackEnds(p)
  BY <1>2 DEF Pull, PullFails, UpStarts, UpSucceeds, UpFails, SmokePasses, SmokeFails,
              RollbackEnds
<1>3. CASE Compensate(p)
  BY <1>3 DEF Compensate
<1>4. ASSUME NEW s \in Services,
             Recorded(p, s) \/ RecordFails(p, s) \/ NotAttempted(p, s)
      PROVE  pc'[p] # "dead"
  BY <1>4 DEF Recorded, RecordFails, NotAttempted
<1>5. CASE RecordingEnds(p) \/ Exit(p)
  BY <1>5 DEF RecordingEnds, Exit
<1> QED
  BY <1>1, <1>2, <1>3, <1>4, <1>5 DEF Step

LEMMA AliveStep ==
  ASSUME HostTypeOK, ~ MayCrash, Alive, [HostNext]_hostVars
  PROVE  Alive'
<1>1. TypeOK
  BY DEF HostTypeOK
<1>2. ASSUME NEW p \in Procs, Act(p)
      PROVE  pc'[p] # "dead" /\ \A q \in Procs \ {p} : pc'[q] = pc[q]
  <2>1. \A q \in Procs \ {p} : pc'[q] = pc[q]
    BY <1>1, <1>2, StepIsLocal DEF Local
  <2>2. CASE Step(p)
    BY <1>1, <2>1, <2>2, StepLives
  <2>3. CASE Cancel(p) \/ OrphanStops(p)
    BY <2>1, <2>3 DEF Cancel, OrphanStops, Alive
  <2> QED
    BY <1>2, <2>1, <2>2, <2>3 DEF Act, Crash
<1>3. CASE DeployMoves
  BY <1>2, <1>3, NextActs DEF DeployMoves, Aside, Alive, command
<1>4. ASSUME NEW r \in Others, Moves(r)
      PROVE  UNCHANGED pc /\ at'[r] # "dead" /\ \A q \in Others \ {r} : at'[q] = at[q]
  BY <1>4 DEF Alive, HostTypeOK, Moves, Restores, LoadSnapshot, RestoreLocks, RestoreDenied, RestoreSkips,
     RestoreStarts, RestoreEnds, RestoreExits, RestoreKilled, LeftoverStops,
     ContainerRestored, At, vars
<1> QED
  BY <1>3, <1>4, HostMoves DEF Alive

(***************************************************************************)
(* Who meets the conditions.  Where no c2quay is killed and the Compose    *)
(* project is of one environment, the lock keeps the commands apart: no    *)
(* container is replaced for one of them while another is past its lock.   *)
(***************************************************************************)
THEOREM LockKeepsApart ==
  ASSUME ~ MayCrash, \A d, e \in Envs : d = e
  PROVE  HostSpec => [][Apart]_hostVars
<1>1. HostInit => Alive
  BY DEF HostInit, Init, Alive
<1>2. HostTypeOK /\ Alive /\ [HostNext]_hostVars => Alive'
  BY AliveStep
<1>3. HostLockHeld /\ HostComposeInv /\ Alive => Apart
  <2> SUFFICES ASSUME HostLockHeld, HostComposeInv, Alive,
                      NEW c \in Commands, NEW d \in Commands,
                      Replaces(c), Past(d)
               PROVE  c = d
    BY DEF Apart
  <2>1. Past(c)
    BY DEF Replaces, ContainerReplaced, ContainerRestored, HostComposeInv, ComposeInv,
           RestoreInv, Waiting, Nothing, Alive, Past, Outside, Idle
  <2>2. ASSUME NEW b \in Commands, Past(b)
        PROVE  lock[EnvOf[b]] = b
    BY <2>2 DEF Past, HostLockHeld, LockHeld, Env
  <2>3. EnvOf[c] = EnvOf[d]
    BY DeployAssumption DEF Commands
  <2> QED
    BY <2>1, <2>2, <2>3
<1> QED
  BY <1>1, <1>2, <1>3, HostTypeCorrect, HostLockCorrect, HostComposeInvariant, PTL DEF HostSpec

\* What a rollback command's step leaves a deploy.
LEMMA RestoreLeavesDeploys ==
  ASSUME NEW r \in Others, Moves(r)
  PROVE  UNCHANGED <<head, edits, pc, plan, rollback>>
BY DEF Moves, Restores, LoadSnapshot, RestoreLocks, RestoreDenied, RestoreSkips,
   RestoreStarts, RestoreEnds, RestoreExits, RestoreKilled, LeftoverStops,
   ContainerRestored, vars, shared, report

LEMMA CandidDeploy ==
  ASSUME ~ StaleMask, TypeOK, NEW p \in Procs, [Next]_vars,
         \/ pc[p] = "upping" /\ pc'[p] = "smoke"
         \/ rollback[p] # "ok" /\ rollback'[p] = "ok"
  PROVE  child[p] = Nothing
<1> USE DEF TypeOK, Goto
<1>1. ASSUME NEW q \in Procs, Act(q)
      PROVE  child[p] = Nothing
  <2>1. q = p
    BY <1>1, StepIsLocal DEF Local
  <2>2. CASE UpSucceeds(p) \/ RollbackEnds(p)
    BY <2>2 DEF UpSucceeds, RollbackEnds, SeemsApplied
  <2>3. CASE ~ (UpSucceeds(p) \/ RollbackEnds(p))
    <3>1. CASE \/ Acquire(p) \/ LockDenied(p) \/ BuildPlan(p) \/ ValidateComposeCoverage(p)
               \/ PreSnapshot(p) \/ SetupFails(p) \/ GatePasses(p) \/ GateFails(p)
      BY <3>1 DEF Acquire, LockDenied, BuildPlan, ValidateComposeCoverage, PreSnapshot,
                  SetupFails, GatePasses, GateFails, report
    <3>2. CASE \/ Pull(p) \/ PullFails(p) \/ UpStarts(p) \/ UpFails(p)
               \/ SmokePasses(p) \/ SmokeFails(p)
      BY <3>2 DEF Pull, PullFails, UpStarts, UpFails, SmokePasses, SmokeFails, report
    <3>3. CASE Compensate(p)
      BY <3>3 DEF Compensate
    <3>4. CASE \E s \in Services : Recorded(p, s) \/ RecordFails(p, s) \/ NotAttempted(p, s)
      BY <3>4 DEF Recorded, RecordFails, NotAttempted
    <3>5. CASE RecordingEnds(p) \/ Exit(p) \/ Crash(p) \/ Cancel(p) \/ OrphanStops(p)
      BY <3>5 DEF RecordingEnds, Exit, Crash, Cancel, OrphanStops, Forget, report
    <3> QED
      BY <1>1, <2>1, <2>3, <3>1, <3>2, <3>3, <3>4, <3>5 DEF Act, Step
  <2> QED
    BY <2>2, <2>3
<1> QED
  BY <1>1, NextActs DEF Aside

LEMMA CandidStep ==
  ASSUME ~ StaleMask, HostTypeOK, [HostNext]_hostVars
  PROVE  [Candid]_hostVars
<1>1. TypeOK
  BY DEF HostTypeOK
<1>2. ASSUME NEW p \in Procs,
             \/ pc[p] = "upping" /\ pc'[p] = "smoke"
             \/ rollback[p] # "ok" /\ rollback'[p] = "ok"
      PROVE  child[p] = Nothing
  BY <1>1, <1>2, HostMoves, CandidDeploy, RestoreLeavesDeploys DEF DeployMoves
<1>3. ASSUME NEW r \in Others, at[r] = "restoring", at'[r] = "exit", status'[r] = "ok"
      PROVE  undo[r] = Nothing
  <2>1. ASSUME NEW q \in Others, Moves(q)
        PROVE  undo[r] = Nothing
    <3>1. q = r
      BY <1>3, <2>1, RestoreAndLock
    <3>2. RestoreEnds(r)
      BY <1>3, <2>1, <3>1 DEF HostTypeOK, Moves, Restores, LoadSnapshot, RestoreLocks, RestoreDenied,
         RestoreSkips, RestoreStarts, RestoreExits, RestoreKilled, LeftoverStops,
         ContainerRestored, At
    <3> QED
      BY <1>3, <3>2 DEF RestoreEnds, HostTypeOK
  <2> QED
    BY <1>3, <2>1, HostMoves DEF DeployMoves, command
<1> QED
  BY <1>2, <1>3 DEF Candid

(***************************************************************************)
(* Where a container that was not replaced never looks healthy to the      *)
(* adapter, no unfinished `up` is taken for a success, neither by a deploy *)
(* nor by its compensation nor by a rollback command.                      *)
(***************************************************************************)
THEOREM NothingMasked ==
  ASSUME ~ StaleMask
  PROVE  HostSpec => [][Candid]_hostVars
<1>1. HostTypeOK /\ [HostNext]_hostVars => [Candid]_hostVars
  BY CandidStep
<1> QED
  BY <1>1, HostTypeCorrect, PTL DEF HostSpec

\* Before the first edit, what is planned is what the files name.
PlansOfHead == edits = 0 => \A p \in Procs, s \in Services : plan[p][s] \in {None, head[s]}

LEMMA PlansStep ==
  ASSUME MaxEdits <= 1, HostTypeOK, PlansOfHead, [HostNext]_hostVars
  PROVE  PlansOfHead' /\ NoEditBack
<1>1. TypeOK
  BY DEF HostTypeOK
<1>2. CASE UNCHANGED <<head, edits>> /\
           \A p \in Procs : plan'[p] \in {plan[p], Nothing, Only(Scope(p), head)}
  BY <1>1, <1>2 DEF PlansOfHead, NoEditBack, Nothing, Only
<1>3. ASSUME NEW p \in Procs, Act(p)
      PROVE  /\ UNCHANGED <<head, edits>>
             /\ plan'[p] \in {plan[p], Nothing, Only(Scope(p), head)}
  <2>1. CASE Step(p)
    <3>1. UNCHANGED <<head, edits>>
      BY <1>1, <2>1, StepIsOwn
    <3>2. CASE BuildPlan(p)
      BY <1>1, <3>1, <3>2 DEF BuildPlan, TypeOK
    <3>3. CASE Exit(p)
      BY <1>1, <3>1, <3>3 DEF Exit, Forget, TypeOK
    <3>4. CASE ~ BuildPlan(p) /\ ~ Exit(p)
      <4>1. UNCHANGED plan
        BY <2>1, <3>4 DEF Step, Acquire, LockDenied, ValidateComposeCoverage,
           PreSnapshot, SetupFails, GatePasses, GateFails, Pull, PullFails, UpStarts,
           UpSucceeds, UpFails, SmokePasses, SmokeFails, Compensate, RollbackEnds,
           Recorded, RecordFails, NotAttempted, RecordingEnds, report
      <4> QED
        BY <3>1, <4>1
    <3> QED
      BY <3>2, <3>3, <3>4
  <2>2. CASE Crash(p) \/ Cancel(p) \/ OrphanStops(p)
    BY <1>1, <2>2 DEF Crash, Cancel, OrphanStops, Forget, shared, report, TypeOK
  <2> QED
    BY <1>3, <2>1, <2>2 DEF Act
<1>4. ASSUME NEW s \in Services, NEW v \in Versions, Edit(s, v)
      PROVE  PlansOfHead' /\ NoEditBack
  <2>1. /\ edits = 0 /\ edits' = 1
        /\ v # head[s] /\ head' = [head EXCEPT ![s] = v] /\ UNCHANGED plan
    BY <1>1, <1>4, DeployAssumption DEF Edit, TypeOK, report
  <2>2. v # None
    BY MatrixAssumption
  <2>3. \A t \in Services : head'[t] # head[t] => t = s /\ head'[t] = v
    BY <1>1, <2>1 DEF TypeOK
  <2> QED
    BY <2>1, <2>2, <2>3 DEF PlansOfHead, NoEditBack
<1>5. CASE DeployMoves
  <2>1. ASSUME NEW p \in Procs, Act(p)
        PROVE  PlansOfHead' /\ NoEditBack
    BY <1>1, <1>2, <1>3, <2>1, StepIsLocal DEF Local
  <2>2. CASE UNCHANGED <<head, edits, plan>>
    BY <1>2, <2>2
  <2> QED
    BY <1>4, <1>5, <2>1, <2>2 DEF DeployMoves, Next, Environment, Act, ContainerReplaced,
       Terminated, vars, shared, report
<1>6. ASSUME NEW r \in Others, Moves(r)
      PROVE  PlansOfHead' /\ NoEditBack
  BY <1>2, <1>6, RestoreLeavesDeploys
<1> QED
  BY <1>5, <1>6, HostMoves

(***************************************************************************)
(* An operator who edits the files but once takes no file back to what a   *)
(* release in progress has planned: it was planned from the file as it is. *)
(***************************************************************************)
THEOREM OneEditTakesNothingBack ==
  ASSUME MaxEdits <= 1
  PROVE  HostSpec => [][NoEditBack]_hostVars
<1>1. HostInit => PlansOfHead
  <2>1. \A s \in Services : Nothing[s] = None
    BY DEF Nothing
  <2>2. HostInit => plan = [p \in Procs |-> Nothing]
    BY DEF HostInit, Init
  <2> QED
    BY <2>1, <2>2 DEF PlansOfHead
<1>2. HostTypeOK /\ PlansOfHead /\ [HostNext]_hostVars => PlansOfHead' /\ NoEditBack
  BY PlansStep
<1> QED
  BY <1>1, <1>2, HostTypeCorrect, PTL DEF HostSpec

\* A host without kills and masked failures, with one environment per project.
Undisturbed == ~ StaleMask /\ ~ MayCrash /\ \A d, e \in Envs : d = e

(***************************************************************************)
(* On such a host, by its settings alone, an auto-rollback reported as     *)
(* successful has left the services of its plan at the images of its plan. *)
(***************************************************************************)
THEOREM RollbackReportCorrect ==
  ASSUME Undisturbed
  PROVE  HostSpec => []RollbackReportTrue
BY RollbackReportHolds, LockKeepsApart, NothingMasked, PTL DEF Undisturbed

(***************************************************************************)
(* There `c2quay rollback` succeeds only when the services of its plan run *)
(* the images of the snapshot, whatever deploys did since it was read.     *)
(***************************************************************************)
THEOREM RestoreCorrect ==
  ASSUME Undisturbed
  PROVE  HostSpec => []RestoreTrue
BY RestoreHolds, LockKeepsApart, NothingMasked, PTL DEF Undisturbed

(***************************************************************************)
(* There, and with one edit at most, a deploy records a version only while *)
(* the service runs it, unless its files were edited since the plan.       *)
(***************************************************************************)
THEOREM RecordsCorrect ==
  ASSUME Undisturbed, MaxEdits <= 1
  PROVE  HostSpec => RecordsOnlyWhatRuns
BY RecordsHold, LockKeepsApart, NothingMasked, OneEditTakesNothingBack, PTL DEF Undisturbed
-------------------------------------------------------------------------------
(***************************************************************************)
(* What a snapshot lists, and where it gets to.  No file and no plan made  *)
(* of one names a service that the Compose files do not declare.           *)
(***************************************************************************)
ListsDeclared(images) == \A s \in Services \ ComposeServices : images[s] = None

RestoresDeclared ==
  /\ \A images \in files : ListsDeclared(images)
  /\ \A r \in Others : ListsDeclared(loaded[r]) /\ ListsDeclared(undo[r])

LEMMA NothingIsDeclared == ListsDeclared(Nothing)
BY DEF ListsDeclared, Nothing

LEMMA RestoresDeclaredStep ==
  ASSUME HostTypeOK, RestoresDeclared, \A p \in Procs : KeepsOff(p)',
         [HostNext]_hostVars
  PROVE  RestoresDeclared'
<1> USE DEF HostTypeOK, RestoresDeclared, At, vars
<1>1. CASE DeployMoves
  <2>1. \A p \in Procs : ListsDeclared(pre'[p])
    BY DEF KeepsOff, ListsDeclared
  <2> QED
    BY <1>1, <2>1 DEF DeployMoves, Written, command
<1>2. ASSUME NEW r \in Others, LoadSnapshot(r)
      PROVE  RestoresDeclared'
  BY <1>2 DEF LoadSnapshot
<1>3. ASSUME NEW r \in Others,
             \/ RestoreLocks(r) \/ RestoreDenied(r) \/ RestoreSkips(r) \/ RestoreExits(r)
             \/ RestoreKilled(r)
      PROVE  RestoresDeclared'
  BY <1>3 DEF RestoreLocks, RestoreDenied, RestoreSkips, RestoreExits, RestoreKilled
<1>4. ASSUME NEW r \in Others, RestoreStarts(r)
      PROVE  RestoresDeclared'
  <2>1. PICK images \in Restorable(r) : undo' = [undo EXCEPT ![r] = Outdated(images)]
    BY <1>4 DEF RestoreStarts
  <2>2. ListsDeclared(images)
    BY <2>1, RollbackImagesArePre DEF ListsDeclared, Restorable
  <2>3. ListsDeclared(Outdated(images))
    BY <2>2, OutdatedOnly DEF ListsDeclared
  <2> QED
    BY <1>4, <2>1, <2>3 DEF RestoreStarts
<1>5. ASSUME NEW r \in Others, RestoreEnds(r) \/ LeftoverStops(r)
      PROVE  RestoresDeclared'
  BY <1>5, NothingIsDeclared DEF RestoreEnds, LeftoverStops
<1>6. ASSUME NEW r \in Others, NEW s \in Services, ContainerRestored(r, s)
      PROVE  RestoresDeclared'
  BY <1>6 DEF ContainerRestored, ListsDeclared, Views
<1> QED
  BY <1>1, <1>2, <1>3, <1>4, <1>5, <1>6, HostMoves DEF Moves, Restores

LEMMA RestoreKeepsOff ==
  ASSUME \A p \in Procs : KeepsOff(p), NEW r \in Others, Moves(r)
  PROVE  \A p \in Procs : KeepsOff(p)'
BY DEF KeepsOff, Env, Moves, Restores, LoadSnapshot, RestoreLocks, RestoreDenied,
   RestoreSkips, RestoreStarts, RestoreEnds, RestoreExits, RestoreKilled, LeftoverStops,
   ContainerRestored, vars, report

(***************************************************************************)
(* A gate_only service that the Compose files do not declare is out of     *)
(* reach of every command on the host: of deploys, of auto-rollbacks and   *)
(* of `c2quay rollback` with any snapshot these have left, or an earlier   *)
(* one that does not list it either.                                       *)
(***************************************************************************)
THEOREM HostGateOnlyCorrect ==
  ASSUME NotInFiles, \A images \in OldSnapshots : ListsDeclared(images)
  PROVE  HostSpec => [](/\ GateOnlyUntouched
                        /\ \A r \in Others : \A s \in GateOnly[EnvOf[r]] : undo[r][s] = None)
<1> DEFINE Inv == (\A p \in Procs : KeepsOff(p)) /\ RestoresDeclared
<1>1. HostInit => Inv
  <2>1. HostInit => \A p \in Procs : KeepsOff(p)
    BY DeployAssumption DEF HostInit, Init, KeepsOff, Nothing, Env
  <2> QED
    BY <2>1, NothingIsDeclared DEF HostInit, RestoresDeclared
<1>2. HostTypeOK /\ Inv /\ [HostNext]_hostVars => Inv'
  <2> SUFFICES ASSUME HostTypeOK, Inv, [HostNext]_hostVars
               PROVE  Inv'
    OBVIOUS
  <2>1. \A p \in Procs : KeepsOff(p)'
    BY HostMoves, KeepsOffStep, RestoreKeepsOff DEF DeployMoves, HostTypeOK
  <2> QED
    BY <2>1, RestoresDeclaredStep
<1>3. Inv => /\ GateOnlyUntouched
             /\ \A r \in Others : \A s \in GateOnly[EnvOf[r]] : undo[r][s] = None
  BY DeployAssumption DEF KeepsOff, GateOnlyUntouched, RestoresDeclared, ListsDeclared, NotInFiles
<1> QED
  BY <1>1, <1>2, <1>3, HostTypeCorrect, PTL DEF HostSpec

(***************************************************************************)
(* Nor do rollback commands change what an auto-rollback lists: with files *)
(* nobody edits, the images of the release it is to undo.                  *)
(***************************************************************************)
THEOREM HostRollbackRepeats ==
  HostSpec /\ [][UNCHANGED head]_hostVars => []RepeatsRelease
<1> DEFINE Inv == \A p \in Procs : SameFiles(p)
<1>1. HostInit => Inv
  BY DEF HostInit, Init, SameFiles, BeforeSnapshot, Setup, Outside, Nothing
<1>2. ASSUME HostTypeOK, Inv, DeployMoves, UNCHANGED head
      PROVE  Inv'
  BY <1>2, SameFilesStep DEF DeployMoves, HostTypeOK
<1>3. ASSUME Inv, NEW r \in Others, Moves(r)
      PROVE  Inv'
  <2>1. UNCHANGED <<head, pc, opt, plan, pre, restore>>
    BY <1>3 DEF Moves, Restores, LoadSnapshot, RestoreLocks, RestoreDenied, RestoreSkips,
       RestoreStarts, RestoreEnds, RestoreExits, RestoreKilled, LeftoverStops,
       ContainerRestored, vars, shared, report
  <2> QED
    BY <1>3, <2>1 DEF SameFiles, RenderedImages, Scope, Only
<1>4. HostTypeOK /\ Inv /\ [HostNext]_hostVars /\ [UNCHANGED head]_hostVars => Inv'
  BY <1>2, <1>3, HostMoves DEF hostVars, vars, shared
<1>5. Inv => RepeatsRelease
  BY SameFilesRepeat
<1> QED
  BY <1>1, <1>4, <1>5, HostTypeCorrect, PTL DEF HostSpec

-------------------------------------------------------------------------------
\* How many steps a rollback command is from its end.
StagesLeft(stage) ==
  CASE stage = "start"     -> 5
    [] stage = "loaded"    -> 4
    [] stage = "plan"      -> 3
    [] stage = "restoring" -> 2
    [] stage = "exit"      -> 1
    [] OTHER               -> 0

LeftOf(r) == StagesLeft(at[r])

LEMMA RestoreGoesOn ==
  ASSUME HostTypeOK, NEW r \in Others, Moves(r)
  PROVE  /\ Restores(r) => LeftOf(r)' < LeftOf(r)
         /\ LeftOf(r)' = LeftOf(r) \/ LeftOf(r)' < LeftOf(r)
<1> USE DEF HostTypeOK, At, LeftOf
<1>1. CASE Restores(r)
  BY <1>1 DEF Restores, LoadSnapshot, RestoreLocks, RestoreDenied, RestoreSkips,
     RestoreStarts, RestoreEnds, RestoreExits, StagesLeft
<1>2. CASE RestoreKilled(r)
  <2>1. at[r] \in {"plan", "restoring", "exit"} /\ at'[r] = "dead"
    BY <1>2 DEF RestoreKilled, Stages, Idle
  <2>2. LeftOf(r)' < LeftOf(r)
    BY <2>1 DEF StagesLeft
  <2>3. ~ Restores(r)
    BY <2>1 DEF Restores, LoadSnapshot, RestoreLocks, RestoreDenied, RestoreSkips,
       RestoreStarts, RestoreEnds, RestoreExits
  <2> QED
    BY <2>2, <2>3
<1>3. CASE ~ Restores(r) /\ UNCHANGED at
  BY <1>3
<1> QED
  BY <1>1, <1>2, <1>3 DEF Moves, LeftoverStops, ContainerRestored

(***************************************************************************)
(* Nor do the two commands keep each other going: each step of a deploy or *)
(* of a rollback command brings it nearer to its end, and no step of any   *)
(* other, of an operator or of Compose takes it back.                      *)
(***************************************************************************)
THEOREM HostRunsDown ==
  ASSUME IsFiniteSet(Services)
  PROVE  HostSpec =>
           [][/\ \A p \in Procs : /\ Left(p)' = Left(p) \/ Left(p)' < Left(p)
                                  /\ Deploys(p) => Left(p)' < Left(p)
              /\ \A r \in Others : /\ LeftOf(r)' = LeftOf(r) \/ LeftOf(r)' < LeftOf(r)
                                   /\ Restores(r) => LeftOf(r)' < LeftOf(r)]_hostVars
<1>1. ASSUME HostTypeOK, HostTypeOK', [HostNext]_hostVars, NEW p \in Procs
      PROVE  /\ Left(p)' = Left(p) \/ Left(p)' < Left(p)
             /\ Deploys(p) => Left(p)' < Left(p)
  <2>1. TypeOK /\ TypeOK'
    BY <1>1 DEF HostTypeOK
  <2>2. ASSUME NEW r \in Others, Moves(r)
        PROVE  Left(p)' = Left(p)
    <3>1. UNCHANGED <<pc, opt, result>>
      BY <2>2 DEF Moves, Restores, LoadSnapshot, RestoreLocks, RestoreDenied, RestoreSkips,
         RestoreStarts, RestoreEnds, RestoreExits, RestoreKilled, LeftoverStops,
         ContainerRestored, vars, shared, report
    <3> QED
      BY <3>1 DEF Left, Pending, Scope
  <2>3. Left(p)' = Left(p) \/ Left(p)' < Left(p)
    BY <1>1, <2>1, <2>2, HostMoves, NothingGoesBack DEF DeployMoves
  <2>4. Deploys(p) => Left(p)' < Left(p)
    BY <2>1, StepGoesOn, LeftFalls DEF Deploys
  <2> QED
    BY <2>3, <2>4
<1>2. ASSUME HostTypeOK, [HostNext]_hostVars, NEW r \in Others
      PROVE  /\ LeftOf(r)' = LeftOf(r) \/ LeftOf(r)' < LeftOf(r)
             /\ Restores(r) => LeftOf(r)' < LeftOf(r)
  <2>1. CASE UNCHANGED at
    <3>1. ~ Restores(r)
      BY <1>2, <2>1 DEF HostTypeOK, At, Restores, LoadSnapshot, RestoreLocks, RestoreDenied,
         RestoreSkips, RestoreStarts, RestoreEnds, RestoreExits
    <3> QED
      BY <2>1, <3>1 DEF LeftOf
  <2>2. ASSUME NEW q \in Others, Moves(q), q # r
        PROVE  LeftOf(r)' = LeftOf(r) /\ ~ Restores(r)
    <3>1. at'[r] = at[r]
      BY <1>2, <2>2, RestoreAndLock
    <3>2. ~ Restores(r)
      BY <1>2, <3>1 DEF HostTypeOK, At, Restores, LoadSnapshot, RestoreLocks, RestoreDenied,
         RestoreSkips, RestoreStarts, RestoreEnds, RestoreExits
    <3> QED
      BY <3>1, <3>2 DEF LeftOf
  <2>3. CASE Moves(r)
    BY <1>2, <2>3, RestoreGoesOn
  <2> QED
    BY <1>2, <2>1, <2>2, <2>3, HostMoves DEF DeployMoves, command
<1>3. HostTypeOK /\ HostTypeOK' /\ [HostNext]_hostVars
        => [/\ \A p \in Procs : /\ Left(p)' = Left(p) \/ Left(p)' < Left(p)
                                /\ Deploys(p) => Left(p)' < Left(p)
            /\ \A r \in Others : /\ LeftOf(r)' = LeftOf(r) \/ LeftOf(r)' < LeftOf(r)
                                 /\ Restores(r) => LeftOf(r)' < LeftOf(r)]_hostVars
  BY <1>1, <1>2
<1> QED
  BY <1>3, HostTypeCorrect, PTL DEF HostSpec
=================================================================================
