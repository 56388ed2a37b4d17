------------------------------ MODULE DeployProofs ------------------------------
(***************************************************************************)
(* What the checked instances of Deploy show of two services, two versions *)
(* and two invocations, proved for any number of each: the invariants that *)
(* make the environment lock and the ordering of the pipeline enough for   *)
(* the broker's view of an environment to be a verified one.               *)
(***************************************************************************)
EXTENDS Deploy, FiniteSetTheorems, TLAPS

-------------------------------------------------------------------------------
\* The views the pipeline computes are views.

LEMMA NothingIsView == Nothing \in Views
BY DEF Nothing, Views

LEMMA OnlyIsView ==
  ASSUME NEW S, NEW view, \A s \in S \cap Services : view[s] \in Versions \cup {None}
  PROVE  Only(S, view) \in Views
BY DEF Only, Views

LEMMA RollbackImagesIsView ==
  ASSUME NEW a \in Views, NEW b
  PROVE  RollbackImages(a, b) \in Views
BY DEF RollbackImages, Views

LEMMA OutdatedIsView ==
  ASSUME NEW a \in Views
  PROVE  Outdated(a) \in Views
BY DEF Outdated, Views

-------------------------------------------------------------------------------
\* Type correctness.

LEMMA InitTyped == Init => TypeOK
<1> SUFFICES ASSUME Init PROVE TypeOK
  OBVIOUS
<1> QED
  BY DeployAssumption, NothingIsView
     DEF Init, TypeOK, Views, Steps, Outside, Results, FailedSteps, Rollbacks, Codes

\* An invocation's own steps up to the gate.
LEMMA SetupTyped ==
  ASSUME TypeOK, NEW p \in Procs,
         \/ Acquire(p) \/ LockDenied(p) \/ Exit(p)
         \/ BuildPlan(p) \/ ValidateComposeCoverage(p) \/ PreSnapshot(p) \/ SetupFails(p)
         \/ GatePasses(p) \/ GateFails(p)
  PROVE  TypeOK'
<1> USE DEF TypeOK, Steps, Outside, Gated, Goto, shared, report, Env
<1>1. CASE Acquire(p)
  <2>1. opt' \in [Procs -> Flags \cup {NoFlags}]
    <3>1. PICK o \in Flags : opt' = [opt EXCEPT ![p] = o]
      BY <1>1, DeployAssumption DEF Acquire
    <3> QED
      BY <3>1
  <2>2. lock' \in [Envs -> Procs \cup Others \cup {Free}]
    BY <1>1 DEF Acquire
  <2>3. pc' \in [Procs -> Steps]
    BY <1>1 DEF Acquire
  <2> QED
    BY <1>1, <2>1, <2>2, <2>3 DEF Acquire
<1>2. CASE LockDenied(p)
  BY <1>2 DEF LockDenied, Codes
<1>3. CASE Exit(p)
  BY <1>3, NothingIsView DEF Exit, Forget, Results, FailedSteps, Rollbacks
<1>4. CASE BuildPlan(p)
  <2>1. Only(Scope(p), head) \in Views
    BY OnlyIsView
  <2> QED
    BY <1>4, <2>1 DEF BuildPlan
<1>5. CASE ValidateComposeCoverage(p)
  BY <1>5 DEF ValidateComposeCoverage
<1>6. CASE PreSnapshot(p)
  <2>1. RenderedImages \in Views
    BY OnlyIsView DEF RenderedImages
  <2> QED
    BY <1>6, <2>1, NothingIsView DEF PreSnapshot
<1>7. CASE SetupFails(p)
  BY <1>7 DEF SetupFails, Codes
<1>8. CASE GatePasses(p)
  BY <1>8 DEF GatePasses, Codes
<1>9. CASE GateFails(p)
  BY <1>9 DEF GateFails, Codes, FailedSteps
<1> QED
  BY <1>1, <1>2, <1>3, <1>4, <1>5, <1>6, <1>7, <1>8, <1>9

\* Its steps with Compose and the smoke command.
LEMMA ComposeTyped ==
  ASSUME TypeOK, NEW p \in Procs,
         \/ Pull(p) \/ PullFails(p) \/ UpStarts(p) \/ UpSucceeds(p) \/ UpFails(p)
         \/ SmokePasses(p) \/ SmokeFails(p) \/ Compensate(p) \/ RollbackEnds(p)
  PROVE  TypeOK'
<1> USE DEF TypeOK, Steps, Outside, Gated, Goto, shared, report
<1>1. CASE Pull(p)
  BY <1>1 DEF Pull
<1>2. CASE PullFails(p)
  BY <1>2 DEF PullFails, Codes, FailedSteps
<1>3. CASE UpStarts(p)
  <2>1. Only(DeployServices(p), head) \in Views
    BY OnlyIsView
  <2>2. Outdated(Only(DeployServices(p), head)) \in Views
    BY <2>1, OutdatedIsView
  <2> QED
    BY <1>3, <2>2 DEF UpStarts
<1>4. CASE UpSucceeds(p)
  BY <1>4, NothingIsView DEF UpSucceeds
<1>5. CASE UpFails(p)
  BY <1>5, NothingIsView DEF UpFails, FailedSteps
<1>6. CASE SmokePasses(p)
  BY <1>6 DEF SmokePasses
<1>7. CASE SmokeFails(p)
  BY <1>7 DEF SmokeFails, FailedSteps
<1>8. CASE Compensate(p)
  <2>1. PICK post \in {RenderedImages, Nothing} :
          /\ \/ UNCHANGED rollback
             \/ rollback' = [rollback EXCEPT ![p] = "skipped"]
             \/ rollback' = [rollback EXCEPT ![p] = "dry-run"]
          /\ \/ UNCHANGED restore
             \/ restore' = [restore EXCEPT ![p] = RollbackImages(pre[p], post)]
          /\ \/ UNCHANGED child
             \/ child' = [child EXCEPT ![p] = Outdated(RollbackImages(pre[p], post))]
    BY <1>8 DEF Compensate
  <2>2. RollbackImages(pre[p], post) \in Views
    BY RollbackImagesIsView
  <2>3. Outdated(RollbackImages(pre[p], post)) \in Views
    BY <2>2, OutdatedIsView
  <2>4. restore' \in [Procs -> Views]
    BY <2>1, <2>2
  <2>5. rollback' \in [Procs -> Rollbacks]
    BY <2>1 DEF Rollbacks
  <2>6. child' \in [Procs -> Views]
    BY <2>1, <2>3
  <2>7. pc' \in [Procs -> Steps]
    <3>1. \E step \in {"exit", "rollingBack"} : pc' = [pc EXCEPT ![p] = step]
      BY <1>8 DEF Compensate
    <3> QED
      BY <3>1
  <2>8. code' \in [Procs -> Codes]
    BY <1>8 DEF Compensate, Codes
  <2> QED
    BY <1>8, <2>4, <2>5, <2>6, <2>7, <2>8 DEF Compensate
<1>9. CASE RollbackEnds(p)
  BY <1>9, NothingIsView DEF RollbackEnds, Rollbacks
<1> QED
  BY <1>1, <1>2, <1>3, <1>4, <1>5, <1>6, <1>7, <1>8, <1>9

\* Its steps with record-deployment: what it posts of a service in scope is planned.
LEMMA RecordTyped ==
  ASSUME TypeOK, NEW p \in Procs,
         \/ \E s \in Services : Recorded(p, s) \/ RecordFails(p, s) \/ NotAttempted(p, s)
         \/ RecordingEnds(p)
  PROVE  TypeOK'
<1> USE DEF TypeOK, shared
<1>1. ASSUME NEW s \in Services
      PROVE  LET posted == [broker EXCEPT ![Env(p)][s] = plan[p][s]]
             IN  posted \in [Envs -> Views]
  BY DeployAssumption DEF Env, Views
<1>2. ASSUME NEW s \in Services, NEW r \in Results, SetResult(p, s, r)
      PROVE  result' \in [Procs -> [Services -> Results]]
  BY <1>2 DEF SetResult
<1>3. ASSUME NEW s \in Services, Recorded(p, s)
      PROVE  TypeOK'
  BY <1>1, <1>2, <1>3 DEF Recorded, Results
<1>4. ASSUME NEW s \in Services, RecordFails(p, s)
      PROVE  TypeOK'
  <2>1. broker' \in [Envs -> Views]
    BY <1>1, <1>4 DEF RecordFails
  <2> QED
    BY <1>2, <1>4, <2>1 DEF RecordFails, Results
<1>5. ASSUME NEW s \in Services, NotAttempted(p, s)
      PROVE  TypeOK'
  BY <1>2, <1>5 DEF NotAttempted, Results
<1>6. CASE RecordingEnds(p)
  <2>1. torn' \subseteq Envs
    BY <1>6, DeployAssumption DEF RecordingEnds, TornAfter, Env
  <2>2. pc' \in [Procs -> Steps]
    BY <1>6 DEF RecordingEnds, Goto, Steps
  <2>3. failedAt' \in [Procs -> FailedSteps]
    BY <1>6 DEF RecordingEnds, FailedSteps
  <2>4. code' \in [Procs -> Codes]
    BY <1>6 DEF RecordingEnds, Codes
  <2> QED
    BY <1>6, <2>1, <2>2, <2>3, <2>4 DEF RecordingEnds
<1> QED
  BY <1>3, <1>4, <1>5, <1>6

\* The steps c2quay does not control.
LEMMA EnvironmentTyped ==
  ASSUME TypeOK, Environment
  PROVE  TypeOK'
<1> USE DEF TypeOK, shared, report
<1>1. ASSUME NEW p \in Procs, Cancel(p)
      PROVE  TypeOK'
  BY <1>1 DEF Cancel
<1>2. ASSUME NEW p \in Procs, Crash(p)
      PROVE  TypeOK'
  <2>1. torn' \subseteq Envs
    BY <1>2, DeployAssumption DEF Crash, TornAfter, Env
  <2> QED
    BY <1>2, <2>1, NothingIsView
       DEF Crash, Forget, Goto, Steps, Outside, Results, FailedSteps, Rollbacks
<1>3. ASSUME NEW p \in Procs, OrphanStops(p)
      PROVE  TypeOK'
  BY <1>3, NothingIsView DEF OrphanStops
<1>4. ASSUME NEW p \in Procs, NEW s \in Services, ContainerReplaced(p, s)
      PROVE  TypeOK'
  BY <1>4 DEF ContainerReplaced, Views
<1>5. ASSUME NEW s \in Services, NEW v \in Versions, Edit(s, v)
      PROVE  TypeOK'
  BY <1>5, DeployAssumption DEF Edit
<1> QED
  BY <1>1, <1>2, <1>3, <1>4, <1>5 DEF Environment

LEMMA NextTyped == TypeOK /\ [Next]_vars => TypeOK'
<1> SUFFICES ASSUME TypeOK, [Next]_vars
             PROVE  TypeOK'
  OBVIOUS
<1>1. ASSUME NEW p \in Procs, Step(p)
      PROVE  TypeOK'
  BY <1>1, SetupTyped, ComposeTyped, RecordTyped DEF Step
<1>2. CASE Environment
  BY <1>2, EnvironmentTyped
<1>3. CASE UNCHANGED vars
  BY <1>3 DEF vars, shared, report, TypeOK
<1> QED
  BY <1>1, <1>2, <1>3 DEF Next, Terminated

(***************************************************************************)
(* Every variable stays in its domain, for any services, versions,         *)
(* environments and invocations.                                           *)
(***************************************************************************)
THEOREM TypeCorrect == Spec => []TypeOK
BY InitTyped, NextTyped, PTL DEF Spec

-------------------------------------------------------------------------------
(***************************************************************************)
(* An invocation changes its own variables and what its environment has;   *)
(* the other invocations and environments keep theirs.                     *)
(***************************************************************************)
Local(p) ==
  /\ \A q \in Procs \ {p} :
       /\ pc'[q] = pc[q] /\ opt'[q] = opt[q]
       /\ plan'[q] = plan[q] /\ result'[q] = result[q]
       /\ failedAt'[q] = failedAt[q] /\ rollback'[q] = rollback[q]
  /\ \A e \in Envs \ {Env(p)} :
       /\ lock'[e] = lock[e] /\ broker'[e] = broker[e]
       /\ e \in torn' <=> e \in torn

\* What an invocation or a signal to it does.
Act(p) == Step(p) \/ Cancel(p) \/ Crash(p) \/ OrphanStops(p)

\* Containers are replaced and files are edited without the invocations taking part.
Aside ==
  UNCHANGED <<broker, torn, lock, pc, opt, plan, result, failedAt, rollback>>

LEMMA StepIsLocal ==
  ASSUME TypeOK, NEW p \in Procs, Act(p)
  PROVE  Local(p)
<1> USE DEF Local, TypeOK, Goto, shared, report, Env
<1>1. CASE \/ Acquire(p) \/ LockDenied(p) \/ BuildPlan(p) \/ ValidateComposeCoverage(p)
           \/ PreSnapshot(p) \/ SetupFails(p) \/ GatePasses(p) \/ GateFails(p)
  BY <1>1 DEF Acquire, LockDenied, BuildPlan, ValidateComposeCoverage, PreSnapshot,
              SetupFails, GatePasses, GateFails
<1>2. CASE \/ Pull(p) \/ PullFails(p) \/ UpStarts(p) \/ UpSucceeds(p) \/ UpFails(p)
           \/ SmokePasses(p) \/ SmokeFails(p) \/ RollbackEnds(p)
  BY <1>2 DEF Pull, PullFails, UpStarts, UpSucceeds, UpFails, SmokePasses, SmokeFails,
              RollbackEnds
<1>3. CASE Compensate(p)
  BY <1>3 DEF Compensate
<1>4. ASSUME NEW s \in Services,
             Recorded(p, s) \/ RecordFails(p, s) \/ NotAttempted(p, s)
      PROVE  Local(p)
  BY <1>4 DEF Recorded, RecordFails, NotAttempted, SetResult
<1>5. CASE RecordingEnds(p)
  BY <1>5 DEF RecordingEnds, TornAfter
<1>6. CASE Exit(p)
  BY <1>6 DEF Exit, Forget
<1>7. CASE Cancel(p) \/ OrphanStops(p)
  BY <1>7 DEF Cancel, OrphanStops
<1>8. CASE Crash(p)
  BY <1>8 DEF Crash, Forget, TornAfter
<1> QED
  BY <1>1, <1>2, <1>3, <1>4, <1>5, <1>6, <1>7, <1>8 DEF Act, Step

LEMMA NextActs ==
  ASSUME [Next]_vars
  PROVE  (\E p \in Procs : Act(p)) \/ Aside
BY DEF Next, Environment, Act, Aside, ContainerReplaced, Edit, Terminated,
       vars, shared, report

(***************************************************************************)
(* The three things a step of an invocation can mean to the lock.          *)
(***************************************************************************)
Enters(p) ==
  /\ pc[p] \in Outside /\ pc'[p] \notin Outside
  /\ lock[Env(p)] = Free /\ lock'[Env(p)] = p

Leaves(p) ==
  /\ pc[p] \notin Outside /\ pc'[p] \in Outside
  /\ lock'[Env(p)] = Free

Stays(p) ==
  /\ pc[p] \in Outside <=> pc'[p] \in Outside
  /\ lock'[Env(p)] = lock[Env(p)]

LEMMA StepAndLock ==
  ASSUME TypeOK, NEW p \in Procs, Act(p)
  PROVE  Enters(p) \/ Leaves(p) \/ Stays(p)
<1> USE DEF TypeOK, Goto, shared, report, Env, Outside, Stays
<1>1. CASE Acquire(p)
  BY <1>1, DeployAssumption DEF Acquire, Enters
<1>2. CASE Exit(p)
  BY <1>2, DeployAssumption DEF Exit, Leaves
<1>3. CASE Crash(p)
  BY <1>3, DeployAssumption DEF Crash, Leaves
<1>4. CASE \/ LockDenied(p) \/ BuildPlan(p) \/ ValidateComposeCoverage(p)
           \/ PreSnapshot(p) \/ SetupFails(p) \/ GatePasses(p) \/ GateFails(p)
  BY <1>4 DEF LockDenied, BuildPlan, ValidateComposeCoverage, PreSnapshot,
              SetupFails, GatePasses, GateFails
<1>5. CASE \/ Pull(p) \/ PullFails(p) \/ UpStarts(p) \/ UpSucceeds(p) \/ UpFails(p)
           \/ SmokePasses(p) \/ SmokeFails(p) \/ RollbackEnds(p)
  BY <1>5 DEF Pull, PullFails, UpStarts, UpSucceeds, UpFails, SmokePasses, SmokeFails,
              RollbackEnds
<1>6. CASE Compensate(p)
  BY <1>6 DEF Compensate
<1>7. ASSUME NEW s \in Services,
             Recorded(p, s) \/ RecordFails(p, s) \/ NotAttempted(p, s)
      PROVE  Stays(p)
  BY <1>7 DEF Recorded, RecordFails, NotAttempted
<1>8. CASE RecordingEnds(p) \/ Cancel(p) \/ OrphanStops(p)
  BY <1>8 DEF RecordingEnds, Cancel, OrphanStops
<1> QED
  BY <1>1, <1>2, <1>3, <1>4, <1>5, <1>6, <1>7, <1>8 DEF Act, Step

LEMMA LockStep ==
  ASSUME TypeOK, LockHeld, [Next]_vars
  PROVE  LockHeld'
<1>1. ASSUME NEW p \in Procs, Act(p)
      PROVE  LockHeld'
  <2> SUFFICES ASSUME NEW q \in Procs
               PROVE  lock'[Env(q)] = q <=> pc'[q] \notin Outside
    BY DEF LockHeld, Env
  <2>1. Local(p) /\ (Enters(p) \/ Leaves(p) \/ Stays(p))
    BY <1>1, StepIsLocal, StepAndLock
  <2>2. Env(p) \in Envs /\ Env(q) \in Envs /\ p # Free /\ q # Free
    BY DeployAssumption DEF Env
  <2>3. /\ lock[Env(p)] = p <=> pc[p] \notin Outside
        /\ lock[Env(q)] = q <=> pc[q] \notin Outside
    BY DEF LockHeld
  <2>4. CASE q = p
    BY <2>1, <2>2, <2>3, <2>4 DEF Enters, Leaves, Stays
  <2>5. CASE q # p
    BY <2>1, <2>2, <2>3, <2>5 DEF Local, Enters, Leaves, Stays
  <2> QED
    BY <2>4, <2>5
<1>2. CASE Aside
  BY <1>2 DEF Aside, LockHeld, Env
<1> QED
  BY <1>1, <1>2, NextActs

LEMMA InitLock == Init => LockHeld
BY DeployAssumption DEF Init, LockHeld, Outside, Env

(***************************************************************************)
(* Whatever invocations there are, however they fail, are interrupted or   *)
(* are killed: the lock of an environment is held by exactly the           *)
(* invocation of it that is past the lock.                                 *)
(***************************************************************************)
THEOREM LockCorrect == Spec => []LockHeld
<1>1. TypeOK /\ LockHeld /\ [Next]_vars => LockHeld'
  BY LockStep
<1> QED
  BY <1>1, InitLock, TypeCorrect, PTL DEF Spec

-------------------------------------------------------------------------------
\* A Compose process has its c2quay waiting for it, or has lost it.
Waiting == {"upping", "rollingBack", "dead"}

ComposeInv == \A p \in Procs : child[p] # Nothing => pc[p] \in Waiting

LEMMA ComposeStep ==
  ASSUME TypeOK, ComposeInv, [Next]_vars
  PROVE  ComposeInv'
<1> USE DEF TypeOK, ComposeInv, Waiting, Goto, shared, report
<1>1. ASSUME NEW p \in Procs,
             \/ Acquire(p) \/ LockDenied(p) \/ BuildPlan(p)
             \/ ValidateComposeCoverage(p) \/ PreSnapshot(p) \/ SetupFails(p)
             \/ GatePasses(p) \/ GateFails(p) \/ Exit(p) \/ Crash(p) \/ Cancel(p)
      PROVE  ComposeInv'
  BY <1>1 DEF Acquire, LockDenied, BuildPlan, ValidateComposeCoverage, PreSnapshot,
              SetupFails, GatePasses, GateFails, Exit, Crash, Cancel
<1>2. ASSUME NEW p \in Procs,
             \/ Pull(p) \/ PullFails(p) \/ UpStarts(p) \/ UpSucceeds(p) \/ UpFails(p)
             \/ SmokePasses(p) \/ SmokeFails(p) \/ RollbackEnds(p) \/ OrphanStops(p)
      PROVE  ComposeInv'
  BY <1>2 DEF Pull, PullFails, UpStarts, UpSucceeds, UpFails, SmokePasses, SmokeFails,
              RollbackEnds, OrphanStops
<1>3. ASSUME NEW p \in Procs, Compensate(p)
      PROVE  ComposeInv'
  BY <1>3 DEF Compensate
<1>4. ASSUME NEW p \in Procs,
             \/ RecordingEnds(p)
             \/ \E s \in Services : Recorded(p, s) \/ RecordFails(p, s) \/ NotAttempted(p, s)
      PROVE  ComposeInv'
  BY <1>4 DEF RecordingEnds, Recorded, RecordFails, NotAttempted
<1>5. ASSUME NEW p \in Procs, NEW s \in Services, ContainerReplaced(p, s)
      PROVE  ComposeInv'
  BY <1>5 DEF ContainerReplaced, Nothing
<1>6. CASE UNCHANGED <<child, pc>>
  BY <1>6
<1> QED
  BY <1>1, <1>2, <1>3, <1>4, <1>5, <1>6 DEF Next, Step, Environment, Edit, Terminated, vars

(***************************************************************************)
(* Two Compose runs of one environment overlap only if one of them has     *)
(* outlived a killed c2quay: its lock is free although it is at work.      *)
(***************************************************************************)
THEOREM OneComposeRunCorrect == Spec => []OneComposeRun
<1>1. Init => ComposeInv
  BY DEF Init, ComposeInv
<1>2. TypeOK /\ ComposeInv /\ [Next]_vars => ComposeInv'
  BY ComposeStep
<1>3. LockHeld /\ ComposeInv => OneComposeRun
  BY DEF LockHeld, ComposeInv, OneComposeRun, Waiting, Outside
<1> QED
  BY <1>1, <1>2, <1>3, TypeCorrect, LockCorrect, PTL DEF Spec
-------------------------------------------------------------------------------
(***************************************************************************)
(* What an auto-rollback re-applies.  A pre-snapshot's image map is what   *)
(* the Compose files name when it is taken, not what the containers run,   *)
(* so as long as nobody edits the files it is the map of the very release  *)
(* that is to be undone.                                                   *)
(***************************************************************************)
RepeatsRelease ==
  \A p \in Procs : \A s \in Services :
    restore[p][s] # None =>
      /\ restore[p][s] = head[s]
      /\ s \in Scope(p) => restore[p][s] = plan[p][s]

\* No pre-snapshot yet, or no longer.
Setup == Outside \cup {"plan"}
BeforeSnapshot == Setup \cup {"coverage", "pre"}

SameFiles(p) ==
  /\ pre[p] \in {Nothing, RenderedImages}
  /\ \A s \in Services : restore[p][s] \in {None, pre[p][s]}
  /\ pc[p] \in BeforeSnapshot => pre[p] = Nothing
  /\ \/ plan[p] = Only(Scope(p), head)
     \/ pc[p] \in Setup \cup {"exit"} /\ pre[p] = Nothing

\* A rollback plan lists a service with its pre-deploy image or not at all.
LEMMA RollbackImagesArePre ==
  ASSUME NEW a, NEW b, NEW s \in Services
  PROVE  RollbackImages(a, b)[s] \in {None, a[s]}
BY DEF RollbackImages

LEMMA SameFilesStep ==
  ASSUME TypeOK, \A p \in Procs : SameFiles(p), [Next]_vars, UNCHANGED head
  PROVE  \A p \in Procs : SameFiles(p)'
<1> SUFFICES ASSUME NEW q \in Procs
             PROVE  SameFiles(q)'
  OBVIOUS
<1> USE DEF TypeOK, Setup, BeforeSnapshot, Outside, Goto, shared, report, SameFiles, Scope
<1>1. RenderedImages' = RenderedImages /\ \A S : Only(S, head)' = Only(S, head)
  BY DEF RenderedImages, Only
<1>2. ASSUME NEW p \in Procs,
             \/ Acquire(p) \/ LockDenied(p) \/ ValidateComposeCoverage(p)
             \/ SetupFails(p) \/ GatePasses(p) \/ GateFails(p)
             \/ Cancel(p) \/ OrphanStops(p)
      PROVE  SameFiles(q)'
  BY <1>1, <1>2 DEF Acquire, LockDenied, ValidateComposeCoverage, SetupFails, GatePasses,
                    GateFails, Cancel, OrphanStops
<1>3. ASSUME NEW p \in Procs, BuildPlan(p)
      PROVE  SameFiles(q)'
  BY <1>1, <1>3 DEF BuildPlan
<1>4. ASSUME NEW p \in Procs, PreSnapshot(p)
      PROVE  SameFiles(q)'
  <2>1. /\ pc[p] = "pre" /\ pc' = [pc EXCEPT ![p] = "gate"]
        /\ UNCHANGED <<opt, plan, restore>>
        /\ \E images \in {RenderedImages, Nothing} : pre' = [pre EXCEPT ![p] = images]
    BY <1>4 DEF PreSnapshot
  <2>2. \A s \in Services : restore[p][s] = None
    BY <2>1 DEF Nothing
  <2> QED
    BY <1>1, <2>1, <2>2
<1>5. ASSUME NEW p \in Procs, Exit(p) \/ Crash(p)
      PROVE  SameFiles(q)'
  <2>1. /\ pc'[p] \in Outside /\ UNCHANGED head
        /\ \A r \in Procs \ {p} : pc'[r] = pc[r]
        /\ Forget(p)
    BY <1>5 DEF Exit, Crash
  <2>2. CASE q = p
    <3>1. pre'[p] = Nothing /\ restore'[p] = Nothing
      BY <2>1 DEF Forget
    <3> QED
      BY <2>1, <2>2, <3>1 DEF Nothing
  <2>3. CASE q # p
    BY <1>1, <2>1, <2>3 DEF Forget
  <2> QED
    BY <2>2, <2>3
<1>6. ASSUME NEW p \in Procs,
             \/ Pull(p) \/ PullFails(p) \/ UpStarts(p) \/ UpSucceeds(p) \/ UpFails(p)
             \/ SmokePasses(p) \/ SmokeFails(p) \/ RollbackEnds(p)
      PROVE  SameFiles(q)'
  BY <1>1, <1>6 DEF Pull, PullFails, UpStarts, UpSucceeds, UpFails, SmokePasses, SmokeFails,
                    RollbackEnds
<1>7. ASSUME NEW p \in Procs, Compensate(p)
      PROVE  SameFiles(q)'
  <2>1. PICK post : UNCHANGED restore
                    \/ restore' = [restore EXCEPT ![p] = RollbackImages(pre[p], post)]
    BY <1>7 DEF Compensate
  <2>2. \A s \in Services : restore'[q][s] \in {None, pre[q][s]}
    <3>1. CASE q = p /\ restore' # restore
      <4>1. restore'[q] = RollbackImages(pre[q], post)
        BY <2>1, <3>1
      <4> QED
        BY <4>1, RollbackImagesArePre
    <3>2. CASE q # p \/ restore' = restore
      BY <2>1, <3>2
    <3> QED
      BY <3>1, <3>2
  <2>3. /\ pc[p] \notin BeforeSnapshot /\ pc'[p] \notin BeforeSnapshot /\ pc[p] # "exit"
        /\ \A r \in Procs \ {p} : pc'[r] = pc[r]
        /\ UNCHANGED <<opt, plan, pre>>
    BY <1>7 DEF Compensate
  <2> QED
    BY <1>1, <2>2, <2>3
<1>8. ASSUME NEW p \in Procs,
             \/ RecordingEnds(p)
             \/ \E s \in Services : Recorded(p, s) \/ RecordFails(p, s) \/ NotAttempted(p, s)
      PROVE  SameFiles(q)'
  <2>1. /\ pc[p] = "record" /\ pc'[p] \in {"record", "exit"}
        /\ \A r \in Procs \ {p} : pc'[r] = pc[r]
        /\ UNCHANGED <<opt, plan, pre, restore>>
    BY <1>8 DEF RecordingEnds, Recorded, RecordFails, NotAttempted, Turn
  <2> QED
    BY <1>1, <2>1
<1>9. CASE UNCHANGED <<pc, opt, plan, pre, restore>>
  BY <1>1, <1>9
<1> QED
  BY <1>2, <1>3, <1>4, <1>5, <1>6, <1>7, <1>8, <1>9
     DEF Next, Step, Environment, ContainerReplaced, Edit, Terminated, vars

LEMMA SameFilesRepeat == (\A p \in Procs : SameFiles(p)) => RepeatsRelease
<1> SUFFICES ASSUME \A p \in Procs : SameFiles(p),
                    NEW p \in Procs, NEW s \in Services, restore[p][s] # None
             PROVE  /\ restore[p][s] = head[s]
                    /\ s \in Scope(p) => restore[p][s] = plan[p][s]
  BY DEF RepeatsRelease
<1>1. SameFiles(p)
  OBVIOUS
<1>2. pre[p][s] = restore[p][s] /\ pre[p] # Nothing
  BY <1>1 DEF SameFiles, Nothing
<1> QED
  BY <1>1, <1>2 DEF SameFiles, RenderedImages, Only

(***************************************************************************)
(* The rollback of a failed release whose files nobody edits meanwhile     *)
(* lists nothing but images of that release: it brings the failed version  *)
(* up once more instead of the one before, whatever the services, the      *)
(* flags and the failures.                                                 *)
(***************************************************************************)
THEOREM RollbackRepeatsRelease ==
  Spec /\ [][UNCHANGED head]_vars => []RepeatsRelease
<1> DEFINE Inv == \A p \in Procs : SameFiles(p)
<1>1. Init => Inv
  BY DEF Init, SameFiles, BeforeSnapshot, Setup, Outside, Nothing
<1>2. TypeOK /\ Inv /\ [Next]_vars /\ [UNCHANGED head]_vars => Inv'
  BY SameFilesStep DEF vars, shared
<1>3. Inv => RepeatsRelease
  BY SameFilesRepeat
<1> QED
  BY <1>1, <1>2, <1>3, TypeCorrect, PTL DEF Spec

\* Nobody edits a file more often than MaxEdits.
LEMMA StepLeavesFiles ==
  ASSUME NEW p \in Procs, Act(p)
  PROVE  UNCHANGED head
<1> USE DEF shared
<1>1. CASE \/ Acquire(p) \/ LockDenied(p) \/ BuildPlan(p) \/ ValidateComposeCoverage(p)
           \/ PreSnapshot(p) \/ SetupFails(p) \/ GatePasses(p) \/ GateFails(p)
           \/ Cancel(p) \/ OrphanStops(p) \/ Exit(p) \/ Crash(p)
  BY <1>1 DEF Acquire, LockDenied, BuildPlan, ValidateComposeCoverage, PreSnapshot,
              SetupFails, GatePasses, GateFails, Cancel, OrphanStops, Exit, Crash
<1>2. CASE \/ Pull(p) \/ PullFails(p) \/ UpStarts(p) \/ UpSucceeds(p) \/ UpFails(p)
           \/ SmokePasses(p) \/ SmokeFails(p) \/ RollbackEnds(p) \/ Compensate(p)
  BY <1>2 DEF Pull, PullFails, UpStarts, UpSucceeds, UpFails, SmokePasses, SmokeFails,
              RollbackEnds, Compensate
<1>3. CASE \/ RecordingEnds(p)
           \/ \E s \in Services : Recorded(p, s) \/ RecordFails(p, s) \/ NotAttempted(p, s)
  BY <1>3 DEF RecordingEnds, Recorded, RecordFails, NotAttempted
<1> QED
  BY <1>1, <1>2, <1>3 DEF Act, Step

(***************************************************************************)
(* So the README's promise to go back to the image before is not kept by   *)
(* any rollback of a run during which nobody edits the checkout at all.    *)
(***************************************************************************)
THEOREM UneditedRollbackRepeats ==
  ASSUME MaxEdits = 0
  PROVE  Spec => []RepeatsRelease
<1>1. TypeOK /\ [Next]_vars => [UNCHANGED head]_vars
  <2> SUFFICES ASSUME TypeOK, [Next]_vars
               PROVE  UNCHANGED head
    OBVIOUS
  <2>1. edits = 0
    BY DEF TypeOK
  <2>2. \A s \in Services, v \in Versions : ~ Edit(s, v)
    BY <2>1 DEF Edit
  <2>3. CASE \E p \in Procs, s \in Services : ContainerReplaced(p, s)
    BY <2>3 DEF ContainerReplaced
  <2> QED
    BY <2>2, <2>3, StepLeavesFiles DEF Next, Environment, Act, Terminated, vars, shared
<1> QED
  BY <1>1, TypeCorrect, RollbackRepeatsRelease, PTL DEF Spec

-------------------------------------------------------------------------------
(***************************************************************************)
(* Which way Compose gets to a gate_only service: a rollback plan is made  *)
(* from the whole image map, not from the services of the deploy.          *)
(***************************************************************************)
NeverRollsBack == \A o \in Options : o.mode # "on"

NotInFiles == \A e \in Envs : GateOnly[e] \cap ComposeServices = {}

KeepsOff(p) ==
  /\ opt[p] \in Options \cup {NoFlags}
  /\ \A s \in Services \ ComposeServices : pre[p][s] = None
  /\ \A s \in GateOnly[Env(p)] : child[p][s] = None

LEMMA OutdatedOnly ==
  ASSUME NEW images, NEW s \in Services, images[s] = None
  PROVE  Outdated(images)[s] = None
BY DEF Outdated

LEMMA KeepsOffStep ==
  ASSUME NeverRollsBack \/ NotInFiles,
         TypeOK, \A p \in Procs : KeepsOff(p), [Next]_vars
  PROVE  \A p \in Procs : KeepsOff(p)'
<1> SUFFICES ASSUME NEW q \in Procs
             PROVE  KeepsOff(q)'
  OBVIOUS
<1> USE DEF TypeOK, Goto, shared, report, KeepsOff, Env
<1>1. GateOnly[Env(q)] \subseteq Services
  BY DeployAssumption
<1>2. ASSUME NEW p \in Procs,
             \/ Acquire(p) \/ LockDenied(p) \/ BuildPlan(p) \/ ValidateComposeCoverage(p)
             \/ SetupFails(p) \/ GatePasses(p) \/ GateFails(p) \/ Cancel(p)
             \/ Pull(p) \/ PullFails(p) \/ SmokePasses(p) \/ SmokeFails(p)
      PROVE  KeepsOff(q)'
  BY <1>2 DEF Acquire, LockDenied, BuildPlan, ValidateComposeCoverage, SetupFails,
              GatePasses, GateFails, Cancel, Pull, PullFails, SmokePasses, SmokeFails
<1>3. ASSUME NEW p \in Procs, PreSnapshot(p)
      PROVE  KeepsOff(q)'
  BY <1>3 DEF PreSnapshot, RenderedImages, Only, Nothing
<1>4. ASSUME NEW p \in Procs, Exit(p) \/ Crash(p)
      PROVE  KeepsOff(q)'
  <2>1. UNCHANGED child /\ Forget(p)
    BY <1>4 DEF Exit, Crash
  <2>2. CASE q = p
    <3>1. opt'[p] = NoFlags /\ pre'[p] = Nothing
      BY <2>1 DEF Forget
    <3> QED
      BY <2>1, <2>2, <3>1 DEF Nothing
  <2>3. CASE q # p
    BY <2>1, <2>3 DEF Forget
  <2> QED
    BY <2>2, <2>3
<1>5. ASSUME NEW p \in Procs, UpStarts(p)
      PROVE  KeepsOff(q)'
  <2>1. \A s \in GateOnly[Env(p)] : Only(DeployServices(p), head)[s] = None
    BY DeployAssumption DEF Only, DeployServices
  <2>2. \A s \in GateOnly[Env(p)] : Outdated(Only(DeployServices(p), head))[s] = None
    BY <2>1, OutdatedOnly, DeployAssumption
  <2> QED
    BY <1>5, <2>2 DEF UpStarts
<1>6. ASSUME NEW p \in Procs, UpSucceeds(p) \/ UpFails(p) \/ RollbackEnds(p) \/ OrphanStops(p)
      PROVE  KeepsOff(q)'
  BY <1>1, <1>6 DEF UpSucceeds, UpFails, RollbackEnds, OrphanStops, Nothing
<1>7. ASSUME NEW p \in Procs, Compensate(p)
      PROVE  KeepsOff(q)'
  <2>1. UNCHANGED <<opt, pre>>
    BY <1>7 DEF Compensate
  <2>2. CASE UNCHANGED child
    BY <2>1, <2>2
  <2>3. ASSUME NEW post, opt[p].mode = "on",
               child' = [child EXCEPT ![p] = Outdated(RollbackImages(pre[p], post))]
        PROVE  KeepsOff(q)'
    <3>1. NotInFiles
      BY <2>3 DEF NeverRollsBack, NoFlags
    <3>2. \A s \in GateOnly[Env(p)] : s \in Services /\ pre[p][s] = None
      BY <3>1, DeployAssumption DEF NotInFiles
    <3>3. \A s \in GateOnly[Env(p)] : RollbackImages(pre[p], post)[s] = None
      BY SMTT(30), <3>2, RollbackImagesArePre
    <3>4. \A s \in GateOnly[Env(p)] : Outdated(RollbackImages(pre[p], post))[s] = None
      BY <3>2, <3>3, OutdatedOnly
    <3> QED
      BY <2>1, <2>3, <3>4
  <2> QED
    BY <1>7, <2>2, <2>3 DEF Compensate
<1>8. ASSUME NEW p \in Procs,
             \/ RecordingEnds(p)
             \/ \E s \in Services : Recorded(p, s) \/ RecordFails(p, s) \/ NotAttempted(p, s)
      PROVE  KeepsOff(q)'
  BY <1>8 DEF RecordingEnds, Recorded, RecordFails, NotAttempted
<1>9. ASSUME NEW p \in Procs, NEW s \in Services, ContainerReplaced(p, s)
      PROVE  KeepsOff(q)'
  BY <1>9 DEF ContainerReplaced, Views
<1>10. CASE UNCHANGED <<opt, pre, child>>
  BY <1>10
<1> QED
  BY <1>2, <1>3, <1>4, <1>5, <1>6, <1>7, <1>8, <1>9, <1>10
     DEF Next, Step, Environment, Edit, Terminated, vars

(***************************************************************************)
(* ADR 0013's promise for gate_only services, which a run refutes, is kept *)
(* where auto-rollback is not on, and where the Compose files do not       *)
(* declare them.                                                           *)
(***************************************************************************)
THEOREM GateOnlyCorrect ==
  ASSUME NeverRollsBack \/ NotInFiles
  PROVE  Spec => []GateOnlyUntouched
<1> DEFINE Inv == \A p \in Procs : KeepsOff(p)
<1>1. Init => Inv
  BY DeployAssumption DEF Init, KeepsOff, Nothing, Env
<1>2. TypeOK /\ Inv /\ [Next]_vars => Inv'
  BY KeepsOffStep
<1>3. Inv => GateOnlyUntouched
  BY DEF KeepsOff, GateOnlyUntouched
<1> QED
  BY <1>1, <1>2, <1>3, TypeCorrect, PTL DEF Spec

-------------------------------------------------------------------------------
(***************************************************************************)
(* How far a run is from its end: how many steps the pipeline has left,    *)
(* and within record-deployment how many services have still to be told.   *)
(***************************************************************************)
StepsLeft(step) ==
  CASE step = "start"       -> 13
    [] step = "plan"        -> 12
    [] step = "coverage"    -> 11
    [] step = "pre"         -> 10
    [] step = "gate"        -> 9
    [] step = "pull"        -> 8
    [] step = "up"          -> 7
    [] step = "upping"      -> 6
    [] step = "smoke"       -> 5
    [] step = "record"      -> 4
    [] step = "compensate"  -> 3
    [] step = "rollingBack" -> 2
    [] step = "exit"        -> 1
    [] OTHER                -> 0

Left(p) == StepsLeft(pc[p]) * (Cardinality(Services) + 1) + Cardinality(Pending(p))

LEMMA StepsLeftType == \A step : StepsLeft(step) \in 0..13
BY DEF StepsLeft

\* A step further outweighs any number of services.
LEMMA FurtherIsLess ==
  ASSUME NEW a \in Nat, NEW b \in Nat, a < b, NEW n \in Nat, NEW i \in 0..n, NEW j \in Nat
  PROVE  a * (n + 1) + i < b * (n + 1) + j
<1>1. (a + 1) * (n + 1) = a * (n + 1) + (n + 1)
  OBVIOUS
<1>2. PICK d \in Nat : b = (a + 1) + d
  <2>1. b - (a + 1) \in Nat
    OBVIOUS
  <2> QED
    BY <2>1
<1>3. b * (n + 1) = (a + 1) * (n + 1) + d * (n + 1) /\ d * (n + 1) \in Nat
  BY <1>2
<1> QED
  BY <1>1, <1>3

LEMMA PendingAreServices ==
  /\ TypeOK => \A p \in Procs : Pending(p) \subseteq Services
  /\ TypeOK' => \A p \in Procs : Pending(p)' \subseteq Services
<1>1. \A o \in Flags \cup {NoFlags} : o.scope \subseteq Services
  BY DEF Flags, Scopes, NoFlags
<1> QED
  BY <1>1 DEF TypeOK, Pending, Scope

LEMMA StepGoesOn ==
  ASSUME TypeOK, NEW p \in Procs, Step(p)
  PROVE  \/ StepsLeft(pc'[p]) < StepsLeft(pc[p])
         \/ /\ pc'[p] = pc[p]
            /\ \E s \in Pending(p) : Pending(p)' = Pending(p) \ {s}
<1> USE DEF TypeOK, Goto
<1>1. CASE \/ Acquire(p) \/ LockDenied(p) \/ BuildPlan(p) \/ ValidateComposeCoverage(p)
           \/ PreSnapshot(p) \/ SetupFails(p) \/ GatePasses(p) \/ GateFails(p)
  BY <1>1 DEF Acquire, LockDenied, BuildPlan, ValidateComposeCoverage, PreSnapshot,
              SetupFails, GatePasses, GateFails, StepsLeft
<1>2. CASE \/ Pull(p) \/ PullFails(p) \/ UpStarts(p) \/ UpSucceeds(p) \/ UpFails(p)
           \/ SmokePasses(p) \/ SmokeFails(p) \/ RollbackEnds(p)
  BY <1>2 DEF Pull, PullFails, UpStarts, UpSucceeds, UpFails, SmokePasses, SmokeFails,
              RollbackEnds, StepsLeft
<1>3. CASE Compensate(p)
  BY <1>3 DEF Compensate, StepsLeft
<1>4. ASSUME NEW s \in Services,
             Recorded(p, s) \/ RecordFails(p, s) \/ NotAttempted(p, s)
      PROVE  /\ pc'[p] = pc[p]
             /\ s \in Pending(p)
             /\ Pending(p)' = Pending(p) \ {s}
  <2>1. /\ UNCHANGED <<pc, opt>> /\ s \in Pending(p)
        /\ \E r \in {"recorded", "failed", "skipped"} :
             result' = [result EXCEPT ![p][s] = r]
    BY <1>4 DEF Recorded, RecordFails, NotAttempted, Turn, SetResult
  <2>2. /\ result'[p][s] # "pending"
        /\ \A t \in Services \ {s} : result'[p][t] = result[p][t]
    BY <2>1
  <2>3. Pending(p) \subseteq Services /\ Scope(p) = Scope(p)'
    BY <2>1, PendingAreServices DEF TypeOK, Scope
  <2>4. Scope(p) \subseteq Services
    BY SMTT(30) DEF Scope, Flags, Scopes, NoFlags
  <2>5. Pending(p)' = Pending(p) \ {s}
    BY <2>2, <2>3, <2>4 DEF Pending
  <2> QED
    BY <2>1, <2>5
<1>5. CASE RecordingEnds(p) \/ Exit(p)
  BY <1>5 DEF RecordingEnds, Exit, StepsLeft
<1> QED
  BY <1>1, <1>2, <1>3, <1>4, <1>5 DEF Step

LEMMA LeftFalls ==
  ASSUME TypeOK, TypeOK', IsFiniteSet(Services), NEW p \in Procs,
         \/ StepsLeft(pc'[p]) < StepsLeft(pc[p])
         \/ /\ pc'[p] = pc[p]
            /\ \E s \in Pending(p) : Pending(p)' = Pending(p) \ {s}
  PROVE  Left(p)' < Left(p)
<1> DEFINE n == Cardinality(Services)
           i == Cardinality(Pending(p))'
           j == Cardinality(Pending(p))
<1>1. /\ IsFiniteSet(Pending(p)) /\ j \in 0..n
      /\ i \in 0..n /\ n \in Nat
  BY PendingAreServices, FS_Subset, FS_CardinalityType
<1>2. /\ StepsLeft(pc[p]) \in Nat /\ StepsLeft(pc'[p]) \in Nat
      /\ Left(p) = StepsLeft(pc[p]) * (n + 1) + j
      /\ Left(p)' = StepsLeft(pc'[p]) * (n + 1) + i
  BY StepsLeftType DEF Left
<1>3. CASE StepsLeft(pc'[p]) < StepsLeft(pc[p])
  <2> HIDE DEF n, i, j
  <2> QED
    BY <1>1, <1>2, <1>3, FurtherIsLess
<1>4. ASSUME pc'[p] = pc[p], NEW s \in Pending(p), Pending(p)' = Pending(p) \ {s}
      PROVE  Left(p)' < Left(p)
  <2>1. i = j - 1
    BY <1>1, <1>4, FS_RemoveElement
  <2> HIDE DEF n, i, j
  <2>2. StepsLeft(pc[p]) * (n + 1) \in Nat
    BY <1>1, <1>2
  <2> QED
    BY <1>1, <1>2, <1>4, <2>1, <2>2
<1> QED
  BY <1>3, <1>4

\* A signal changes nothing of it, a kill ends the run, and the rest is another's.
LEMMA NothingGoesBack ==
  ASSUME TypeOK, TypeOK', IsFiniteSet(Services), [Next]_vars, NEW p \in Procs
  PROVE  Left(p)' = Left(p) \/ Left(p)' < Left(p)
<1>1. ASSUME NEW q \in Procs, Act(q)
      PROVE  Left(p)' = Left(p) \/ Left(p)' < Left(p)
  <2>1. CASE q # p
    BY <1>1, <2>1, StepIsLocal DEF Local, Left, Pending, Scope
  <2>2. CASE Step(p)
    BY <2>2, StepGoesOn, LeftFalls
  <2>3. CASE Crash(p)
    <3>1. pc[p] \in Steps \ Outside /\ pc'[p] = "dead"
      BY <2>3 DEF Crash, Goto, TypeOK
    <3>2. StepsLeft(pc'[p]) < StepsLeft(pc[p])
      BY <3>1 DEF Steps, Outside, Gated, StepsLeft
    <3> QED
      BY <3>2, LeftFalls
  <2>4. CASE Cancel(p) \/ OrphanStops(p)
    BY <2>4 DEF Cancel, OrphanStops, report, Left, Pending, Scope
  <2> QED
    BY <1>1, <2>1, <2>2, <2>3, <2>4 DEF Act
<1>2. CASE Aside
  BY <1>2 DEF Aside, Left, Pending, Scope
<1> QED
  BY <1>1, <1>2, NextActs

(***************************************************************************)
(* No run goes round in circles: every step a deploy takes brings it       *)
(* nearer to its end, whatever fails, and nothing the operator, the kernel *)
(* or another invocation does takes it back.  So a run has ended after     *)
(* Left of its first state many steps, and it takes no more than fairness  *)
(* to it to end.                                                           *)
(***************************************************************************)
THEOREM DeployRunsDown ==
  ASSUME IsFiniteSet(Services)
  PROVE  Spec => [][\A p \in Procs : /\ Left(p)' = Left(p) \/ Left(p)' < Left(p)
                                     /\ Step(p) => Left(p)' < Left(p)]_vars
<1>1. TypeOK /\ TypeOK' /\ [Next]_vars
        => [\A p \in Procs : /\ Left(p)' = Left(p) \/ Left(p)' < Left(p)
                             /\ Step(p) => Left(p)' < Left(p)]_vars
  BY NothingGoesBack, StepGoesOn, LeftFalls
<1> QED
  BY <1>1, TypeCorrect, PTL DEF Spec
================================================================================
