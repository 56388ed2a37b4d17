------------------------------ MODULE ProtocolProofs ------------------------------
(***************************************************************************)
(* The deploy pipeline implements the release protocol: every step of it   *)
(* is a step of the protocol or none at all.  The one that clears a        *)
(* release is the last step before record-deployment, although the broker  *)
(* was asked before Compose was run: that is the invariant VerdictHolds.   *)
(***************************************************************************)
EXTENDS ReleaseProofs

phaseOf == [p \in Procs |-> Phase(p)]

candOf == [p \in Procs |-> Candidates(p)]

\* What they say of an invocation, wherever they are expanded.
USE DEF Phase, Candidates

-------------------------------------------------------------------------------
LEMMA InitMaps == Init => Protocol!Init
<1> SUFFICES ASSUME Init PROVE Protocol!Init
  OBVIOUS
<1>1. \A p \in Procs : pc[p] \in Outside /\ ~ Recording(p)
  BY DEF Init, Recording, Outside
<1>2. broker \in [Envs -> Views]
  BY DeployAssumption DEF Init
<1> QED
  BY <1>1, <1>2 DEF Init, Protocol!Init, Protocol!Views, Views, Protocol!Nothing, Nothing

\* The protocol's copies of what PactMatrix defines.
LEMMA SameMatrix ==
  /\ Protocol!Views = Views
  /\ Protocol!Nothing = Nothing
  /\ \A a, scope, cand, view :
       Protocol!GateAll(a, scope, cand, view) <=> GateAll(a, scope, cand, view)
BY DEF Protocol!Views, Views, Protocol!Nothing, Nothing, Protocol!GateAll, GateAll,
       Protocol!ClearedAgainst, ClearedAgainst, Protocol!Overlay, Overlay,
       Protocol!Compatible, Compatible

LEMMA MapFrame ==
  ASSUME NEW p \in Procs, Local(p), NEW q \in Procs, q # p
  PROVE  phaseOf'[q] = phaseOf[q] /\ candOf'[q] = candOf[q]
BY DEF Local, phaseOf, candOf, Recording

\* What an invocation leaves alone of itself it leaves alone altogether.
LEMMA MapOwn ==
  ASSUME NEW p \in Procs, Local(p), NEW ph, NEW c
  PROVE  /\ phaseOf'[p] = ph => phaseOf' = [phaseOf EXCEPT ![p] = ph]
         /\ candOf'[p] = c => candOf' = [candOf EXCEPT ![p] = c]
<1>1. \A q \in Procs : q # p => phaseOf'[q] = phaseOf[q] /\ candOf'[q] = candOf[q]
  BY MapFrame
<1>2. /\ phaseOf = [q \in Procs |-> phaseOf[q]] /\ phaseOf' = [q \in Procs |-> phaseOf'[q]]
      /\ candOf = [q \in Procs |-> candOf[q]] /\ candOf' = [q \in Procs |-> candOf'[q]]
  BY DEF phaseOf, candOf
<1>3. ASSUME phaseOf'[p] = ph
      PROVE  phaseOf' = [phaseOf EXCEPT ![p] = ph]
  BY <1>1, <1>2, <1>3
<1>4. ASSUME candOf'[p] = c
      PROVE  candOf' = [candOf EXCEPT ![p] = c]
  BY <1>1, <1>2, <1>4
<1> QED
  BY <1>3, <1>4

MapStep == Protocol!Next \/ UNCHANGED <<lock, phaseOf, candOf, broker>>

-------------------------------------------------------------------------------
\* Who has not begun to record has no result to report.
LEMMA NotRecording ==
  ASSUME NEW p \in Procs, RunInv(p), pc[p] # "record"
  PROVE  /\ pc[p] # "exit" => ~ Recording(p)
         /\ (UNCHANGED result /\ pc[p] # "exit" /\ pc'[p] # "record") => ~ Recording(p)'
BY DEF RunInv, PostsLast, Recording

LEMMA QuietMaps ==
  ASSUME NEW p \in Procs, Local(p), UNCHANGED <<lock, broker>>,
         pc[p] \in Outside <=> pc'[p] \in Outside,
         \/ ~ Recording(p) /\ ~ Recording(p)'
         \/ Recording(p) /\ Recording(p)' /\ plan'[p] = plan[p]
  PROVE  MapStep
<1>1. phaseOf'[p] = phaseOf[p] /\ candOf'[p] = candOf[p]
  BY DEF phaseOf, candOf
<1>2. \A q \in Procs : phaseOf'[q] = phaseOf[q] /\ candOf'[q] = candOf[q]
  BY <1>1, MapFrame
<1>3. phaseOf' = phaseOf
  BY <1>2 DEF phaseOf
<1>4. candOf' = candOf
  BY <1>2 DEF candOf
<1> QED
  BY <1>3, <1>4 DEF MapStep

LEMMA AcquireMaps ==
  ASSUME TypeOK, ReleaseInv, NEW p \in Procs, Acquire(p)
  PROVE  MapStep
<1>1. Local(p) /\ RunInv(p)
  BY StepIsLocal DEF Act, Step, ReleaseInv
<1>2. pc[p] = "start" /\ pc'[p] = "plan" /\ UNCHANGED <<broker, result>>
  BY DEF Acquire, Goto, TypeOK, shared, report
<1>3. ~ Recording(p) /\ ~ Recording(p)'
  BY <1>1, <1>2, NotRecording
<1>4. /\ phaseOf[p] = "out" /\ phaseOf'[p] = "in" /\ candOf'[p] = candOf[p]
  BY <1>2, <1>3 DEF phaseOf, candOf, Outside
<1>5. phaseOf' = [phaseOf EXCEPT ![p] = "in"]
  BY <1>1, <1>4, MapOwn
<1>6. candOf' = candOf
  <2>1. candOf' = [candOf EXCEPT ![p] = candOf[p]]
    BY <1>1, <1>4, MapOwn
  <2> QED
    BY <2>1 DEF candOf
<1>7. Protocol!Enter(p)
  BY <1>2, <1>4, <1>5, <1>6 DEF Protocol!Enter, Acquire, Env, phaseOf, candOf
<1> QED
  BY <1>7 DEF MapStep, Protocol!Next

(***************************************************************************)
(* The turn to recording is the protocol's Clear: the verdict of the gate  *)
(* still holds of what the broker shows at this instant.                   *)
(***************************************************************************)
LEMMA ClearMaps ==
  ASSUME TypeOK, ReleaseInv, NEW p \in Procs, SmokePasses(p)
  PROVE  MapStep
<1>1. Local(p) /\ RunInv(p)
  BY StepIsLocal DEF Act, Step, ReleaseInv
<1>2. pc[p] = "smoke" /\ pc'[p] = "record" /\ UNCHANGED <<lock, broker, result, plan>>
  BY DEF SmokePasses, Goto, TypeOK, shared, report
<1>3. ~ Recording(p) /\ Recording(p)'
  BY <1>1, <1>2, NotRecording DEF Recording
<1>4. /\ phaseOf[p] = "in" /\ phaseOf'[p] = "cleared" /\ candOf'[p] = plan[p]
  BY <1>2, <1>3 DEF phaseOf, candOf, Outside
<1>5. /\ phaseOf' = [phaseOf EXCEPT ![p] = "cleared"]
      /\ candOf' = [candOf EXCEPT ![p] = plan[p]]
  BY <1>1, <1>4, MapOwn
<1>6. Deployable(p)
  BY <1>1, <1>2 DEF RunInv, PostsLast, VerdictHolds, Posted, Gated
<1>7. {s \in Services : plan[p][s] # None} = Scope(p)
  <2>1. opt[p] \in Flags
    BY <1>1, <1>2 DEF RunInv, HasFlags, Outside
  <2>2. Scope(p) \subseteq Services
    BY <2>1, ScopesAreSets DEF Scope, Flags
  <2> QED
    BY <1>1, <1>2, <2>2 DEF RunInv, PlansScope, Gated
<1>8. GateAll(AllOrNothing[EnvOf[p]], Protocol!ScopeOf(plan[p]), plan[p], broker[EnvOf[p]])
  BY <1>6, <1>7 DEF Deployable, Env, Protocol!ScopeOf
<1>9. plan[p] \in Views
  BY DEF TypeOK
<1>10. Protocol!Clear(p)
  BY <1>2, <1>4, <1>5, <1>8, <1>9, SameMatrix DEF Protocol!Clear, phaseOf, candOf
<1> QED
  BY <1>10 DEF MapStep, Protocol!Next

LEMMA PostMaps ==
  ASSUME TypeOK, ReleaseInv, NEW p \in Procs, NEW s \in Services,
         Recorded(p, s) \/ RecordFails(p, s)
  PROVE  MapStep
<1>1. Local(p) /\ RunInv(p)
  BY StepIsLocal DEF Act, Step, ReleaseInv
<1>2. pc[p] = "record" /\ s \in Scope(p) /\ UNCHANGED <<pc, lock, plan>>
  BY DEF Recorded, RecordFails, Turn, Pending
<1>3. Recording(p) /\ Recording(p)'
  BY <1>2 DEF Recording
<1>4. CASE UNCHANGED broker
  BY <1>1, <1>2, <1>3, <1>4, QuietMaps
<1>5. CASE broker' = [broker EXCEPT ![Env(p)][s] = plan[p][s]]
  <2>1. phaseOf[p] = "cleared" /\ candOf[p] = plan[p]
    BY <1>2, <1>3 DEF phaseOf, candOf, Outside
  <2>2. phaseOf'[p] = phaseOf[p] /\ candOf'[p] = candOf[p]
    BY <1>2, <1>3 DEF phaseOf, candOf
  <2>3. \A q \in Procs : phaseOf'[q] = phaseOf[q] /\ candOf'[q] = candOf[q]
    BY <1>1, <2>2, MapFrame
  <2>4. phaseOf' = phaseOf /\ candOf' = candOf
    BY <2>3 DEF phaseOf, candOf
  <2>5. plan[p][s] # None
    BY <1>1, <1>2 DEF RunInv, PlansScope, Gated
  <2>6. Protocol!Post(p, s)
    BY <1>2, <1>5, <2>1, <2>4, <2>5 DEF Protocol!Post, phaseOf, candOf, Env
  <2> QED
    BY <2>6 DEF MapStep, Protocol!Next
<1> QED
  BY <1>4, <1>5 DEF Recorded, RecordFails

LEMMA LeaveMaps ==
  ASSUME TypeOK, ReleaseInv, NEW p \in Procs, Exit(p) \/ Crash(p)
  PROVE  MapStep
<1>1. Local(p) /\ pc[p] \notin Outside
  BY StepIsLocal DEF Act, Step, Exit, Crash, Outside
<1>2. /\ pc'[p] \in Outside
      /\ \A s \in Services : result'[p][s] = "pending"
      /\ lock' = [lock EXCEPT ![EnvOf[p]] = Free]
      /\ UNCHANGED broker
  BY DEF Exit, Crash, Forget, Goto, Outside, TypeOK, Env, shared
<1>3. ~ Recording(p)'
  BY <1>2 DEF Recording, Outside
<1>4. phaseOf[p] # "out" /\ phaseOf'[p] = "out" /\ candOf'[p] = Nothing
  BY <1>1, <1>2, <1>3 DEF phaseOf, candOf
<1>5. /\ phaseOf' = [phaseOf EXCEPT ![p] = "out"]
      /\ candOf' = [candOf EXCEPT ![p] = Nothing]
  BY <1>1, <1>4, MapOwn
<1>6. Protocol!Leave(p)
  BY <1>2, <1>4, <1>5, SameMatrix DEF Protocol!Leave, phaseOf, candOf
<1> QED
  BY <1>6 DEF MapStep, Protocol!Next

\* The steps that do not concern the protocol: of the setup and of Compose,
LEMMA SilentMaps ==
  ASSUME TypeOK, ReleaseInv, NEW p \in Procs,
         \/ LockDenied(p) \/ BuildPlan(p) \/ ValidateComposeCoverage(p)
         \/ PreSnapshot(p) \/ SetupFails(p) \/ GatePasses(p) \/ GateFails(p)
         \/ Pull(p) \/ PullFails(p) \/ UpStarts(p) \/ UpSucceeds(p) \/ UpFails(p)
         \/ SmokeFails(p) \/ Compensate(p) \/ RollbackEnds(p)
  PROVE  MapStep
<1> USE DEF Goto, TypeOK, Outside, shared, report
<1>1. Local(p) /\ RunInv(p)
  BY StepIsLocal DEF Act, Step, ReleaseInv
<1>2. /\ pc[p] \notin {"record", "exit"} /\ pc'[p] # "record"
      /\ pc[p] \in Outside <=> pc'[p] \in Outside
      /\ UNCHANGED <<lock, broker, result>>
  <2>1. CASE \/ LockDenied(p) \/ BuildPlan(p) \/ ValidateComposeCoverage(p)
             \/ PreSnapshot(p) \/ SetupFails(p) \/ GatePasses(p) \/ GateFails(p)
    BY <2>1 DEF LockDenied, BuildPlan, ValidateComposeCoverage, PreSnapshot,
                SetupFails, GatePasses, GateFails
  <2>2. CASE \/ Pull(p) \/ PullFails(p) \/ UpStarts(p) \/ UpSucceeds(p) \/ UpFails(p)
             \/ SmokeFails(p) \/ RollbackEnds(p)
    BY <2>2 DEF Pull, PullFails, UpStarts, UpSucceeds, UpFails, SmokeFails, RollbackEnds
  <2>3. CASE Compensate(p)
    BY <2>3 DEF Compensate
  <2> QED
    BY <2>1, <2>2, <2>3
<1>3. ~ Recording(p) /\ ~ Recording(p)'
  BY <1>1, <1>2, NotRecording
<1> QED
  BY <1>1, <1>2, <1>3, QuietMaps

\* and the ends of a recording.
LEMMA ReportMaps ==
  ASSUME TypeOK, ReleaseInv, NEW p \in Procs,
         RecordingEnds(p) \/ \E s \in Services : NotAttempted(p, s)
  PROVE  MapStep
<1>1. Local(p) /\ RunInv(p)
  BY StepIsLocal DEF Act, Step, ReleaseInv
<1>2. /\ pc[p] = "record" /\ pc'[p] \in {"record", "exit"}
      /\ UNCHANGED <<lock, broker, plan>>
  BY DEF RecordingEnds, NotAttempted, Goto, TypeOK, shared
<1>3. Recording(p)'
  <2>1. CASE pc'[p] = "record"
    BY <2>1 DEF Recording
  <2>2. CASE RecordingEnds(p)
    <3>1. opt[p] \in Flags
      BY <1>1, <1>2 DEF RunInv, HasFlags, Outside
    <3>2. PICK s \in Services : s \in Scope(p)
      BY <3>1, ScopesAreSets DEF Scope, Flags
    <3>3. result'[p][s] # "pending"
      BY <2>2, <3>2 DEF RecordingEnds, Pending
    <3> QED
      BY <2>2, <3>3 DEF RecordingEnds, Recording, Goto, TypeOK
  <2> QED
    BY <1>2, <2>1, <2>2 DEF NotAttempted
<1> QED
  BY <1>1, <1>2, <1>3, QuietMaps DEF Recording, Outside

\* A signal to an invocation that is not reporting yet, or a Compose process's end.
LEMMA SignalMaps ==
  ASSUME TypeOK, ReleaseInv, NEW p \in Procs, Cancel(p) \/ OrphanStops(p)
  PROVE  MapStep
<1>1. Local(p)
  BY StepIsLocal DEF Act
<1>2. UNCHANGED <<lock, broker, plan, pc, result>>
  BY DEF Cancel, OrphanStops, shared, report
<1>3. Recording(p)' <=> Recording(p)
  BY <1>2 DEF Recording
<1> QED
  BY <1>1, <1>2, <1>3, QuietMaps

-------------------------------------------------------------------------------
LEMMA NextMaps ==
  ASSUME TypeOK, ReleaseInv, [Next]_vars
  PROVE  MapStep
<1>1. ASSUME NEW p \in Procs, Act(p)
      PROVE  MapStep
  BY <1>1, AcquireMaps, ClearMaps, PostMaps, LeaveMaps, SilentMaps, ReportMaps, SignalMaps
     DEF Act, Step
<1>2. CASE Aside
  BY <1>2 DEF Aside, MapStep, phaseOf, candOf, Recording
<1> QED
  BY <1>1, <1>2, NextActs

(***************************************************************************)
(* A deploy, however it fails, is interrupted or is killed, keeps the      *)
(* release protocol: it excludes the others of its environment, clears a   *)
(* candidate set against the view it then posts to, and posts no other.    *)
(***************************************************************************)
THEOREM DeployImplementsProtocol == Spec => ImplementsProtocol
<1>1. TypeOK /\ ReleaseInv /\ [Next]_vars => [Protocol!Next]_(Protocol!vars)
  BY NextMaps DEF MapStep, phaseOf, candOf, Protocol!vars
<1> QED
  BY <1>1, InitMaps, TypeCorrect, ReleaseInvariant, PTL
     DEF Spec, ImplementsProtocol, Protocol!Spec
==================================================================================
