------------------------------ MODULE ReleaseProofs ------------------------------
(***************************************************************************)
(* Why the broker's view of an all_or_nothing environment stays verified.  *)
(*                                                                         *)
(* The gate is asked early and acted upon late.  The inductive invariant   *)
(* says what carries its verdict across: while an invocation is past its   *)
(* gate nobody else of the environment is past the lock, so the view it    *)
(* asked about is the view it posts to; what it has posted so far is in    *)
(* its results; and the view it is on the way to is a coherent one.        *)
(***************************************************************************)
EXTENDS DeployProofs

-------------------------------------------------------------------------------
(***************************************************************************)
(* The gate itself.  If it lets a candidate set pass in an all_or_nothing  *)
(* environment, the view that results is verified as a whole, provided the *)
(* present one is or the candidates replace all of it.  That the gate asks *)
(* nothing of two services that both stay is why the premise is needed.    *)
(***************************************************************************)
THEOREM GateKeepsCoherence ==
  ASSUME NEW view, NEW cand, NEW scope \in SUBSET Services,
         GateAll(TRUE, scope, cand, view),
         Coherent(view) \/ scope = Services
  PROVE  Coherent(Overlay(view, scope, cand))
<1> DEFINE next == Overlay(view, scope, cand)
<1>1. ASSUME NEW s \in Services, NEW t \in Services,
             Compatible(s, next[s], t, next[t])
      PROVE  Compatible(t, next[t], s, next[s])
  <2>1. {<<s, next[s]>>, <<t, next[t]>>} = {<<t, next[t]>>, <<s, next[s]>>}
    OBVIOUS
  <2> QED
    BY <1>1, <2>1 DEF Compatible
<1>2. ASSUME NEW s \in scope, NEW t \in Services \ {s}
      PROVE  Compatible(s, next[s], t, next[t])
  <2>1. CASE \E a, b \in scope : a # b
    BY <2>1 DEF GateAll, ClearedAgainst, Overlay
  <2>2. CASE t \notin scope
    BY <2>2 DEF GateAll, ClearedAgainst, Overlay
  <2> QED
    BY <2>1, <2>2
<1>3. ASSUME NEW s \in Services \ scope, NEW t \in Services \ scope, s # t
      PROVE  Compatible(s, next[s], t, next[t])
  BY <1>3 DEF Coherent, Overlay
<1> QED
  <2> HIDE DEF next
  <2>1. ASSUME NEW s \in Services, NEW t \in Services, s # t
        PROVE  Compatible(s, next[s], t, next[t])
    BY <2>1, <1>1, <1>2, <1>3
  <2> QED
    BY <2>1 DEF Coherent, next

-------------------------------------------------------------------------------
LEMMA ScopesAreSets == \A scope \in Scopes : scope \subseteq Services /\ scope # {}
BY DeployAssumption DEF Scopes

\* The invariant of one invocation.

HasFlags(p) == pc[p] \notin Outside => opt[p] \in Flags

PostsLast(p) ==
  pc[p] \notin {"record", "exit"} => \A s \in Services : result[p][s] = "pending"

PostsScope(p) ==
  \A s \in Services : result[p][s] # "pending" => s \in Scope(p)

PlansScope(p) ==
  pc[p] \in Gated \cup {"coverage", "pre", "gate"}
    => \A s \in Services : plan[p][s] # None <=> s \in Scope(p)

RecordsPlan(p) ==
  \A s \in Services : result[p][s] = "recorded" => broker[Env(p)][s] = plan[p][s]

VerdictHolds(p) == (pc[p] \in Gated /\ ~ Posted(p)) => Deployable(p)

\* The environment is on the way to a coherent view.
Destined(p) ==
  (/\ pc[p] \in Gated
   /\ AllOrNothing[Env(p)]
   /\ Env(p) \notin torn \/ Scope(p) = Services)
    => Coherent(Overlay(broker[Env(p)], Scope(p), plan[p]))

\* It has arrived there.
Arrived(p) ==
  (/\ pc[p] = "exit"
   /\ Posted(p)
   /\ AllOrNothing[Env(p)]
   /\ Env(p) \notin torn)
    => Coherent(broker[Env(p)])

RunInv(p) ==
  /\ HasFlags(p)
  /\ PostsLast(p)
  /\ PostsScope(p)
  /\ PlansScope(p)
  /\ RecordsPlan(p)
  /\ VerdictHolds(p)
  /\ Destined(p)
  /\ Arrived(p)

ReleaseInv == (\A p \in Procs : RunInv(p)) /\ VerifiedTogether

-------------------------------------------------------------------------------
\* What an invocation does is nothing to the invariant of another one.

LEMMA AsideFrame ==
  ASSUME TypeOK, NEW q \in Procs, RunInv(q), Aside
  PROVE  RunInv(q)'
BY DEF Aside, RunInv, HasFlags, PostsLast, PostsScope, PlansScope, RecordsPlan,
       VerdictHolds, Destined, Arrived, Posted, Scope, Env, Deployable

\* What invocations outside do is not seen in the broker.
LEMMA OutsideIsQuiet ==
  ASSUME TypeOK, NEW p \in Procs, Act(p), pc[p] \in Outside
  PROVE  UNCHANGED <<broker, torn, result>>
<1> USE DEF Outside, shared, report
<1>1. CASE Acquire(p) \/ LockDenied(p) \/ OrphanStops(p)
  BY <1>1 DEF Acquire, LockDenied, OrphanStops
<1> QED
  BY <1>1 DEF Act, Step, Exit, BuildPlan, ValidateComposeCoverage, PreSnapshot,
     SetupFails, GatePasses, GateFails, Pull, PullFails, UpStarts, UpSucceeds, UpFails,
     SmokePasses, SmokeFails, Compensate, RollbackEnds, Recorded, RecordFails,
     NotAttempted, RecordingEnds, Cancel, Crash

LEMMA OthersFrame ==
  ASSUME TypeOK, LockHeld, NEW p \in Procs, NEW q \in Procs, p # q,
         Act(p), RunInv(q)
  PROVE  RunInv(q)'
<1>1. Local(p)
  BY StepIsLocal
<1>2. /\ pc'[q] = pc[q] /\ opt'[q] = opt[q]
      /\ plan'[q] = plan[q] /\ result'[q] = result[q]
  BY <1>1 DEF Local
<1>3. Env(q) \in Envs /\ Env(p) \in Envs
  BY DeployAssumption DEF Env
<1> USE DEF RunInv, HasFlags, PostsLast, PostsScope, PlansScope, RecordsPlan,
            VerdictHolds, Destined, Arrived, Posted, Scope, Env, Deployable
<1>4. CASE broker'[Env(q)] = broker[Env(q)] /\ (Env(q) \in torn' <=> Env(q) \in torn)
  BY <1>2, <1>4
<1>5. CASE Env(q) # Env(p)
  BY <1>1, <1>3, <1>4, <1>5 DEF Local
<1>6. CASE Env(q) = Env(p) /\ pc[p] \in Outside
  BY <1>4, <1>6, OutsideIsQuiet
<1>7. CASE Env(q) = Env(p) /\ pc[p] \notin Outside
  <2>1. pc[q] \in Outside
    BY <1>7 DEF LockHeld
  <2> QED
    BY <1>2, <2>1 DEF Outside, Gated
<1> QED
  BY <1>5, <1>6, <1>7

-------------------------------------------------------------------------------
\* The steps before the candidate versions are cleared.
LEMMA SetupKeeps ==
  ASSUME TypeOK, LockHeld, ReleaseInv, NEW p \in Procs,
         \/ Acquire(p) \/ LockDenied(p) \/ Exit(p)
         \/ BuildPlan(p) \/ ValidateComposeCoverage(p) \/ PreSnapshot(p) \/ SetupFails(p)
         \/ GateFails(p)
  PROVE  RunInv(p)'
<1> USE DEF TypeOK, ReleaseInv, RunInv, HasFlags, PostsLast, PostsScope, PlansScope,
            RecordsPlan, VerdictHolds, Destined, Arrived, Posted, Scope, Env, Deployable,
            Outside, Gated, Goto, shared, report
<1>1. CASE Acquire(p)
  <2>1. /\ pc[p] = "start" /\ pc'[p] = "plan" /\ opt'[p] \in Flags
        /\ UNCHANGED result
    BY <1>1, DeployAssumption DEF Acquire, Flags
  <2>2. \A s \in Services : result[p][s] = "pending"
    BY <2>1
  <2> QED
    BY <2>1, <2>2
<1>2. CASE LockDenied(p)
  BY <1>2 DEF LockDenied
<1>3. CASE Exit(p)
  BY <1>3 DEF Exit, Forget
<1>4. CASE BuildPlan(p)
  <2>1. \A s \in Services : Only(Scope(p), head)[s] # None <=> s \in Scope(p)
    <3>1. \A s \in Services : head[s] # None
      BY MatrixAssumption
    <3> QED
      BY <3>1 DEF Only
  <2>2. /\ pc[p] = "plan" /\ pc'[p] = "coverage"
        /\ plan'[p] = Only(Scope(p), head)
        /\ UNCHANGED <<opt, result, broker, torn>>
    BY <1>4 DEF BuildPlan
  <2>3. PlansScope(p)' /\ HasFlags(p)' /\ PostsScope(p)' /\ PostsLast(p)'
    BY <2>1, <2>2
  <2>4. \A s \in Services : result[p][s] = "pending"
    BY <2>2
  <2> QED
    BY <2>2, <2>3, <2>4
<1>5. CASE ValidateComposeCoverage(p)
  BY <1>5 DEF ValidateComposeCoverage
<1>6. CASE PreSnapshot(p)
  BY <1>6 DEF PreSnapshot
<1>7. CASE SetupFails(p)
  BY <1>7 DEF SetupFails
<1>8. CASE GateFails(p)
  BY <1>8 DEF GateFails
<1> QED
  BY <1>1, <1>2, <1>3, <1>4, <1>5, <1>6, <1>7, <1>8

(***************************************************************************)
(* The gate: nobody else of the environment is past the lock, so nobody is *)
(* posting, so VerifiedTogether says what the view is worth.               *)
(***************************************************************************)
LEMMA GateKeeps ==
  ASSUME TypeOK, LockHeld, ReleaseInv, NEW p \in Procs, GatePasses(p)
  PROVE  RunInv(p)'
<1> DEFINE e == Env(p)
<1>1. RunInv(p) /\ pc[p] = "gate" /\ Deployable(p)
  BY DEF ReleaseInv, GatePasses
<1>2. \A q \in Procs : Env(q) = e => ~ Posted(q)
  <2> SUFFICES ASSUME NEW q \in Procs, Env(q) = e
               PROVE  pc[q] \notin {"record", "exit"}
    BY DEF ReleaseInv, RunInv, PostsLast, Posted
  <2> QED
    BY <1>1 DEF LockHeld, Outside
<1>3. e \in Envs /\ Scope(p) \in SUBSET Services
  BY <1>1, DeployAssumption, ScopesAreSets DEF Env, RunInv, HasFlags, Outside, Flags, Scope
<1>4. ASSUME AllOrNothing[e], e \notin torn \/ Scope(p) = Services
      PROVE  Coherent(Overlay(broker[e], Scope(p), plan[p]))
  <2>1. Coherent(broker[e]) \/ Scope(p) = Services
    BY <1>2, <1>3, <1>4 DEF ReleaseInv, VerifiedTogether
  <2>2. GateAll(TRUE, Scope(p), plan[p], broker[e])
    BY <1>1, <1>3, <1>4, DeployAssumption DEF Deployable
  <2> QED
    BY <1>3, <2>1, <2>2, GateKeepsCoherence
<1>5. Destined(p)'
  BY <1>4 DEF GatePasses, Destined, shared, Scope, Env
<1>6. VerdictHolds(p)'
  BY <1>1 DEF GatePasses, VerdictHolds, Deployable, shared, Scope, Env
<1>7. Arrived(p)'
  BY <1>2 DEF Arrived, Posted, GatePasses, Env
<1> QED
  BY <1>1, <1>5, <1>6, <1>7
     DEF TypeOK, GatePasses, RunInv, HasFlags, PostsLast, PostsScope, PlansScope,
         RecordsPlan, Scope, Env, Outside, Gated, Goto, shared

\* The steps between the gate and the first record-deployment.
LEMMA ComposeKeeps ==
  ASSUME TypeOK, ReleaseInv, NEW p \in Procs,
         \/ Pull(p) \/ PullFails(p) \/ UpStarts(p) \/ UpSucceeds(p) \/ UpFails(p)
         \/ SmokePasses(p) \/ SmokeFails(p) \/ Compensate(p) \/ RollbackEnds(p)
         \/ Cancel(p) \/ OrphanStops(p)
  PROVE  RunInv(p)'
<1> USE DEF TypeOK, ReleaseInv, RunInv, HasFlags, PostsLast, PostsScope, PlansScope,
            RecordsPlan, VerdictHolds, Destined, Arrived, Posted, Scope, Env, Deployable,
            Outside, Gated, Goto, shared, report
<1>1. CASE Pull(p)
  BY <1>1 DEF Pull
<1>2. CASE PullFails(p)
  BY <1>2 DEF PullFails
<1>3. CASE UpStarts(p)
  BY <1>3 DEF UpStarts
<1>4. CASE UpSucceeds(p)
  BY <1>4 DEF UpSucceeds
<1>5. CASE UpFails(p)
  BY <1>5 DEF UpFails
<1>6. CASE SmokePasses(p)
  BY <1>6 DEF SmokePasses
<1>7. CASE SmokeFails(p)
  BY <1>7 DEF SmokeFails
<1>8. CASE Compensate(p)
  <2>1. /\ pc[p] = "compensate" /\ pc'[p] \notin Gated \cup {"coverage", "pre", "gate"}
        /\ pc'[p] \in {"exit", "rollingBack"}
        /\ UNCHANGED <<opt, plan, result, broker, torn>>
    BY <1>8 DEF Compensate
  <2>2. pc'[p] # "exit" => \A s \in Services : result[p][s] = "pending"
    BY <2>1
  <2> QED
    BY <2>1, <2>2
<1>9. CASE RollbackEnds(p)
  BY <1>9 DEF RollbackEnds
<1>10. CASE Cancel(p) \/ OrphanStops(p)
  <2>1. UNCHANGED <<pc, opt, plan, result, broker, torn>>
    BY <1>10 DEF Cancel, OrphanStops
  <2> QED
    BY <2>1
<1> QED
  BY <1>1, <1>2, <1>3, <1>4, <1>5, <1>6, <1>7, <1>8, <1>9, <1>10

-------------------------------------------------------------------------------
(***************************************************************************)
(* Posting.  A version of the candidate set that is posted changes the     *)
(* view, but not the view the environment is on the way to.                *)
(***************************************************************************)
LEMMA PostKeepsDestination ==
  ASSUME NEW view \in Views, NEW cand, NEW scope, NEW s \in scope
  PROVE  Overlay([view EXCEPT ![s] = cand[s]], scope, cand) = Overlay(view, scope, cand)
BY DEF Overlay, Views

LEMMA PostKeeps ==
  ASSUME TypeOK, ReleaseInv, NEW p \in Procs, NEW s \in Services,
         Recorded(p, s) \/ RecordFails(p, s)
  PROVE  RunInv(p)'
<1> DEFINE e == Env(p)
<1>1. e \in Envs /\ RunInv(p) /\ s \in Scope(p) /\ pc[p] = "record"
  BY DeployAssumption DEF Env, ReleaseInv, Recorded, RecordFails, Turn, Pending
<1>2. UNCHANGED <<pc, opt, plan, torn>>
  BY DEF Recorded, RecordFails
<1>3. PICK r \in {"recorded", "failed"} :
        /\ result' = [result EXCEPT ![p][s] = r]
        /\ \/ broker' = [broker EXCEPT ![e][s] = plan[p][s]]
           \/ r = "failed" /\ UNCHANGED broker
  BY DEF Recorded, RecordFails, SetResult
<1>4. Posted(p)'
  BY <1>3 DEF Posted, TypeOK
<1>5. Overlay(broker'[e], Scope(p), plan[p]) = Overlay(broker[e], Scope(p), plan[p])
  BY <1>1, <1>3, PostKeepsDestination DEF TypeOK
<1>6. Destined(p)'
  BY <1>1, <1>2, <1>5 DEF RunInv, Destined, Scope, Env
<1>7. RecordsPlan(p)'
  BY <1>1, <1>2, <1>3 DEF RunInv, RecordsPlan, TypeOK, Views, Env
<1>8. PostsScope(p)'
  BY <1>1, <1>2, <1>3 DEF RunInv, PostsScope, TypeOK, Scope
<1> QED
  BY <1>1, <1>2, <1>4, <1>6, <1>7, <1>8
     DEF RunInv, HasFlags, PostsLast, PlansScope, VerdictHolds, Arrived, Scope

LEMMA NotAttemptedKeeps ==
  ASSUME TypeOK, ReleaseInv, NEW p \in Procs, NEW s \in Services, NotAttempted(p, s)
  PROVE  RunInv(p)' /\ \A q \in Procs : Posted(q)' <=> Posted(q)
<1>1. /\ RunInv(p) /\ s \in Scope(p) /\ pc[p] = "record" /\ result[p][s] = "pending"
      /\ result' = [result EXCEPT ![p][s] = "skipped"]
      /\ UNCHANGED <<pc, opt, plan, torn, broker>>
  BY DEF ReleaseInv, NotAttempted, Turn, Pending, SetResult, shared
<1>2. \A q \in Procs : Posted(q)' <=> Posted(q)
  BY <1>1 DEF Posted, TypeOK
<1> QED
  BY <1>1, <1>2
     DEF TypeOK, RunInv, HasFlags, PostsLast, PostsScope, PlansScope, RecordsPlan,
         VerdictHolds, Destined, Arrived, Deployable, Scope, Env

(***************************************************************************)
(* The end of a recording, in order or by a crash: either the environment  *)
(* is itemized as torn or its view is coherent.                            *)
(***************************************************************************)
LEMMA RecordingArrives ==
  ASSUME TypeOK, ReleaseInv, NEW p \in Procs, pc[p] = "record", Posted(p),
         AllOrNothing[Env(p)], Env(p) \notin TornAfter(p)
  PROVE  Coherent(broker[Env(p)])
<1> DEFINE e == Env(p)
<1>1. e \in Envs /\ RunInv(p)
  BY DeployAssumption DEF Env, ReleaseInv
<1>2. AllRecorded(p) /\ (e \notin torn \/ Scope(p) = Services)
  BY <1>1 DEF TornAfter
<1>3. Overlay(broker[e], Scope(p), plan[p]) = broker[e]
  <2>1. broker[e] \in [Services -> Versions \cup {None}]
    BY <1>1 DEF TypeOK, Views
  <2>2. \A s \in Services : s \in Scope(p) => plan[p][s] = broker[e][s]
    BY <1>1, <1>2 DEF AllRecorded, RunInv, RecordsPlan
  <2> QED
    BY <2>1, <2>2 DEF Overlay
<1>4. Coherent(Overlay(broker[e], Scope(p), plan[p]))
  BY <1>1, <1>2 DEF RunInv, Destined, Gated
<1> QED
  BY <1>3, <1>4

\* A run that recorded everything posted something: its scope is not empty.
LEMMA UnpostedIsUnrecorded ==
  ASSUME TypeOK, ReleaseInv, NEW p \in Procs, pc[p] = "record", ~ Posted(p)
  PROVE  TornAfter(p) = torn
<1>1. opt[p] \in Flags
  BY DEF ReleaseInv, RunInv, HasFlags, Outside
<1>2. Scope(p) # {} /\ Scope(p) \subseteq Services
  BY <1>1, ScopesAreSets DEF Scope, Flags
<1>3. ~ AllRecorded(p)
  BY <1>2 DEF AllRecorded, Posted
<1> QED
  BY <1>3 DEF TornAfter

LEMMA EndKeeps ==
  ASSUME TypeOK, ReleaseInv, NEW p \in Procs, RecordingEnds(p)
  PROVE  RunInv(p)'
<1>1. /\ RunInv(p) /\ pc[p] = "record" /\ torn' = TornAfter(p)
      /\ pc'[p] = "exit"
      /\ UNCHANGED <<opt, plan, result, broker>>
  BY DEF ReleaseInv, RecordingEnds, Goto, TypeOK
<1>2. Arrived(p)'
  BY <1>1, RecordingArrives DEF Arrived, Posted, Env
<1> QED
  BY <1>1, <1>2
     DEF RunInv, HasFlags, PostsLast, PostsScope, PlansScope, RecordsPlan,
         VerdictHolds, Destined, Scope, Env, Outside, Gated

LEMMA CrashKeeps ==
  ASSUME TypeOK, ReleaseInv, NEW p \in Procs, Crash(p)
  PROVE  RunInv(p)'
BY DEF Crash, Forget, Goto, TypeOK, RunInv, HasFlags, PostsLast, PostsScope, PlansScope,
       RecordsPlan, VerdictHolds, Destined, Arrived, Posted, Scope, Env, Outside, Gated

LEMMA RunKeeps ==
  ASSUME TypeOK, LockHeld, ReleaseInv, NEW p \in Procs, Act(p)
  PROVE  RunInv(p)'
BY SetupKeeps, GateKeeps, ComposeKeeps, PostKeeps, NotAttemptedKeeps, EndKeeps, CrashKeeps
   DEF Act, Step

-------------------------------------------------------------------------------
\* The environment's view.

\* Nothing is posted, so whatever is coherent or itemized as torn remains so.
LEMMA QuietKeepsView ==
  ASSUME TypeOK, ReleaseInv, UNCHANGED <<broker, torn>>,
         \A q \in Procs : Posted(q)' <=> Posted(q)
  PROVE  VerifiedTogether'
BY DEF ReleaseInv, VerifiedTogether, Env

\* An invocation that forgets what it posted leaves a coherent or a torn view.
LEMMA LeavingKeepsView ==
  ASSUME TypeOK, LockHeld, ReleaseInv, NEW p \in Procs, Exit(p) \/ Crash(p)
  PROVE  VerifiedTogether'
<1> SUFFICES ASSUME NEW e \in Envs,
                    AllOrNothing[e], e \notin torn',
                    \A q \in Procs : Env(q) = e => ~ Posted(q)'
             PROVE  Coherent(broker'[e])
  BY DEF VerifiedTogether, Env
<1>1. Local(p) /\ UNCHANGED broker
  BY StepIsLocal DEF Act, Step, Exit, Crash, shared
<1>2. \A q \in Procs : q # p => (Posted(q)' <=> Posted(q))
  BY <1>1 DEF Local, Posted
<1>3. CASE e # Env(p)
  <2>1. e \notin torn
    BY <1>1, <1>3 DEF Local
  <2>2. \A q \in Procs : Env(q) = e => ~ Posted(q)
    BY <1>2, <1>3
  <2> QED
    BY <1>1, <2>1, <2>2 DEF ReleaseInv, VerifiedTogether
<1>4. CASE e = Env(p) /\ ~ Posted(p)
  <2>1. e \notin torn
    BY <1>4, UnpostedIsUnrecorded DEF Exit, Crash, shared
  <2>2. \A q \in Procs : Env(q) = e => ~ Posted(q)
    BY <1>2, <1>4
  <2> QED
    BY <1>1, <2>1, <2>2 DEF ReleaseInv, VerifiedTogether
<1>5. CASE e = Env(p) /\ Posted(p)
  <2>1. pc[p] \in {"record", "exit"}
    BY <1>5 DEF ReleaseInv, RunInv, PostsLast, Posted
  <2>2. CASE pc[p] = "exit"
    BY <1>1, <1>5, <2>2 DEF ReleaseInv, RunInv, Arrived, Exit, Crash, shared
  <2>3. CASE pc[p] = "record"
    BY <1>1, <1>5, <2>3, RecordingArrives DEF Exit, Crash
  <2> QED
    BY <2>1, <2>2, <2>3
<1> QED
  BY <1>3, <1>4, <1>5

\* While an invocation posts, its environment is exempt; when it ends recording, too.
LEMMA PostingKeepsView ==
  ASSUME TypeOK, ReleaseInv, NEW p \in Procs, Local(p), Posted(p)'
  PROVE  VerifiedTogether'
<1> SUFFICES ASSUME NEW e \in Envs, e # Env(p),
                    AllOrNothing[e], e \notin torn',
                    \A q \in Procs : Env(q) = e => ~ Posted(q)'
             PROVE  Coherent(broker'[e])
  BY DEF VerifiedTogether, Env
<1>1. /\ broker'[e] = broker[e] /\ e \notin torn
      /\ \A q \in Procs : Env(q) = e => ~ Posted(q)
  BY DEF Local, Posted, Env
<1> QED
  BY <1>1 DEF ReleaseInv, VerifiedTogether

LEMMA ViewKeeps ==
  ASSUME TypeOK, LockHeld, ReleaseInv, NEW p \in Procs, Act(p)
  PROVE  VerifiedTogether'
<1>1. CASE Exit(p) \/ Crash(p)
  BY <1>1, LeavingKeepsView
<1>2. ASSUME NEW s \in Services, Recorded(p, s) \/ RecordFails(p, s)
      PROVE  VerifiedTogether'
  <2>1. Posted(p)'
    BY <1>2 DEF Recorded, RecordFails, SetResult, Posted, TypeOK
  <2> QED
    BY <2>1, StepIsLocal, PostingKeepsView
<1>3. ASSUME NEW s \in Services, NotAttempted(p, s)
      PROVE  VerifiedTogether'
  BY <1>3, NotAttemptedKeeps, QuietKeepsView DEF NotAttempted, shared
<1>4. CASE RecordingEnds(p)
  <2>1. CASE Posted(p)
    <3>1. Posted(p)'
      BY <1>4, <2>1 DEF RecordingEnds, Posted
    <3> QED
      BY <3>1, StepIsLocal, PostingKeepsView
  <2>2. CASE ~ Posted(p)
    <3>1. UNCHANGED <<broker, torn, result>>
      BY <1>4, <2>2, UnpostedIsUnrecorded DEF RecordingEnds
    <3> QED
      BY <3>1, QuietKeepsView DEF Posted
  <2> QED
    BY <2>1, <2>2
<1>5. CASE UNCHANGED <<broker, torn, result>>
  BY <1>5, QuietKeepsView DEF Posted
<1> QED
  BY <1>1, <1>2, <1>3, <1>4, <1>5
     DEF Act, Step, Acquire, LockDenied, BuildPlan, ValidateComposeCoverage, PreSnapshot,
         SetupFails, GatePasses, GateFails, Pull, PullFails, UpStarts, UpSucceeds, UpFails,
         SmokePasses, SmokeFails, Compensate, RollbackEnds, Cancel, OrphanStops,
         shared, report

-------------------------------------------------------------------------------
LEMMA InitRelease == Init => ReleaseInv
<1> SUFFICES ASSUME Init PROVE ReleaseInv
  OBVIOUS
<1>1. ASSUME NEW p \in Procs PROVE RunInv(p)
  BY DEF Init, RunInv, HasFlags, PostsLast, PostsScope, PlansScope, RecordsPlan,
         VerdictHolds, Destined, Arrived, Posted, Outside, Gated
<1>2. VerifiedTogether
  BY DEF Init, VerifiedTogether
<1> QED
  BY <1>1, <1>2 DEF ReleaseInv

LEMMA ReleaseStep ==
  ASSUME TypeOK, LockHeld, ReleaseInv, [Next]_vars
  PROVE  ReleaseInv'
<1>1. ASSUME NEW p \in Procs, Act(p)
      PROVE  ReleaseInv'
  <2>1. RunInv(p)' /\ VerifiedTogether'
    BY <1>1, RunKeeps, ViewKeeps
  <2>2. ASSUME NEW q \in Procs, q # p
        PROVE  RunInv(q)'
    BY <1>1, <2>2, OthersFrame DEF ReleaseInv
  <2> QED
    BY <2>1, <2>2 DEF ReleaseInv
<1>2. CASE Aside
  <2>1. \A q \in Procs : RunInv(q)'
    BY <1>2, AsideFrame DEF ReleaseInv
  <2>2. VerifiedTogether'
    BY <1>2, QuietKeepsView DEF Aside, Posted
  <2> QED
    BY <2>1, <2>2 DEF ReleaseInv
<1> QED
  BY <1>1, <1>2, NextActs

LEMMA ReleaseInvariant == Spec => []ReleaseInv
<1>1. TypeOK /\ LockHeld /\ ReleaseInv /\ [Next]_vars => ReleaseInv'
  BY ReleaseStep
<1> QED
  BY <1>1, InitRelease, TypeCorrect, LockCorrect, PTL DEF Spec

(***************************************************************************)
(* In every all_or_nothing environment, every two deployed versions have   *)
(* been verified together, unless the last recording of it was itemized as *)
(* partial or is under way.                                                *)
(***************************************************************************)
THEOREM VerifiedTogetherCorrect == Spec => []VerifiedTogether
<1>1. ReleaseInv => VerifiedTogether
  BY DEF ReleaseInv
<1> QED
  BY <1>1, ReleaseInvariant, PTL

(***************************************************************************)
(* Until a run posts its first version the broker would give the answer    *)
(* again that let the run pass its gate.                                   *)
(***************************************************************************)
THEOREM VerdictCorrect == Spec => []VerdictStillHolds
<1>1. ReleaseInv => VerdictStillHolds
  BY DEF ReleaseInv, RunInv, VerdictHolds, VerdictStillHolds
<1> QED
  BY <1>1, ReleaseInvariant, PTL

(***************************************************************************)
(* What a run reports as recorded is what the broker shows.                *)
(***************************************************************************)
THEOREM ReportedRecordsCorrect == Spec => []ReportedRecordsShown
<1>1. ReleaseInv => ReportedRecordsShown
  BY DEF ReleaseInv, RunInv, RecordsPlan, ReportedRecordsShown
<1> QED
  BY <1>1, ReleaseInvariant, PTL

-------------------------------------------------------------------------------
(***************************************************************************)
(* Why the hint of a failed run is true.  Nothing is reported as failed,   *)
(* and nothing rolled back, before the step that failed; a rollback comes  *)
(* of a step before the recording; and the gate's verdict outlives the     *)
(* posts of the run it let pass.                                           *)
(***************************************************************************)
Unhinted(p) ==
  pc[p] \notin {"compensate", "rollingBack", "exit"}
    => failedAt[p] = "none" /\ rollback[p] = "none"

Compensating(p) ==
  pc[p] \in {"compensate", "rollingBack"} => failedAt[p] \in {"compose-up", "smoke"}

HintedEarly(p) ==
  (pc[p] = "exit" /\ (rollback[p] = "ok" \/ failedAt[p] \notin {"none", "record-deployment"}))
    => \A s \in Services : result[p][s] = "pending"

FailedLast(p) == pc[p] = "exit" /\ failedAt[p] = "record-deployment"

HintedLast(p) ==
  FailedLast(p) => Pending(p) = {} /\ ~ AllRecorded(p) /\ rollback[p] # "ok"

OneQuery(p) == AllOrNothing[Env(p)] \/ \A s, t \in Scope(p) : s = t

Repeatable(p) == (OneQuery(p) /\ (pc[p] \in Gated \/ FailedLast(p))) => Deployable(p)

HintInv(p) ==
  /\ Unhinted(p)
  /\ Compensating(p)
  /\ HintedEarly(p)
  /\ HintedLast(p)
  /\ Repeatable(p)

\* A gate that asks one question gives the answer again when part of what it
\* cleared is deployed.
LEMMA GateAnswersAgain ==
  ASSUME NEW view \in Views, NEW cand, NEW scope, NEW s \in scope,
         NEW aon \in BOOLEAN, aon \/ \A a, b \in scope : a = b,
         GateAll(aon, scope, cand, view)
  PROVE  GateAll(aon, scope, cand, [view EXCEPT ![s] = cand[s]])
<1> DEFINE next == [view EXCEPT ![s] = cand[s]]
<1>1. CASE \E a, b \in scope : a # b
  <2>1. Overlay(next, scope, cand) = Overlay(view, scope, cand)
    BY PostKeepsDestination
  <2> QED
    BY <1>1, <2>1 DEF GateAll
<1>2. CASE \A a, b \in scope : a = b
  <2>1. \A a \in scope : \A t \in Services \ {a} : next[t] = view[t]
    BY <1>2 DEF Views
  <2> QED
    BY <1>2, <2>1 DEF GateAll, ClearedAgainst
<1> QED
  BY <1>1, <1>2

\* What happens elsewhere.
LEMMA HintFrame ==
  ASSUME TypeOK, LockHeld, NEW p \in Procs, NEW q \in Procs, p # q, Act(p), HintInv(q)
  PROVE  HintInv(q)'
<1>1. Local(p)
  BY StepIsLocal
<1>2. /\ pc'[q] = pc[q] /\ opt'[q] = opt[q] /\ plan'[q] = plan[q]
      /\ result'[q] = result[q] /\ failedAt'[q] = failedAt[q] /\ rollback'[q] = rollback[q]
  BY <1>1 DEF Local
<1>3. Env(q) \in Envs /\ Env(p) \in Envs
  BY DeployAssumption DEF Env
<1> USE DEF HintInv, Unhinted, Compensating, HintedEarly, FailedLast, HintedLast, OneQuery,
            Repeatable, Deployable, Pending, AllRecorded, Scope, Env
<1>4. CASE broker'[Env(q)] = broker[Env(q)]
  BY <1>2, <1>4
<1>5. CASE Env(q) # Env(p)
  BY <1>1, <1>3, <1>4, <1>5 DEF Local
<1>6. CASE Env(q) = Env(p) /\ pc[p] \in Outside
  BY <1>4, <1>6, OutsideIsQuiet
<1>7. CASE Env(q) = Env(p) /\ pc[p] \notin Outside
  <2>1. pc[q] \in Outside
    BY <1>7 DEF LockHeld
  <2> QED
    BY <1>2, <2>1 DEF Outside, Gated
<1> QED
  BY <1>5, <1>6, <1>7

LEMMA HintAside ==
  ASSUME NEW q \in Procs, HintInv(q), Aside
  PROVE  HintInv(q)'
BY DEF Aside, HintInv, Unhinted, Compensating, HintedEarly, FailedLast, HintedLast,
       OneQuery, Repeatable, Deployable, Pending, AllRecorded, Scope, Env

\* Every step of the run but a post and the last one.
LEMMA HintBefore ==
  ASSUME TypeOK, ReleaseInv, NEW p \in Procs, HintInv(p), Act(p),
         \A s \in Services : ~ (Recorded(p, s) \/ RecordFails(p, s)),
         ~ RecordingEnds(p)
  PROVE  HintInv(p)'
<1>1. RunInv(p)
  BY DEF ReleaseInv
<1> USE <1>1 DEF TypeOK, HintInv, Unhinted, Compensating, HintedEarly, FailedLast,
            HintedLast, OneQuery, Repeatable, Deployable, RunInv, PostsLast, Scope, Env,
            Outside, Gated, Goto, shared, report
<1>2. CASE Acquire(p) \/ LockDenied(p)
  BY <1>2 DEF Acquire, LockDenied
<1>3. CASE Exit(p) \/ Crash(p)
  BY <1>3 DEF Exit, Crash, Forget
<1>4. CASE \/ BuildPlan(p) \/ ValidateComposeCoverage(p) \/ PreSnapshot(p)
           \/ SetupFails(p) \/ GatePasses(p) \/ GateFails(p)
  BY <1>4 DEF BuildPlan, ValidateComposeCoverage, PreSnapshot, SetupFails, GatePasses,
     GateFails
<1>5. CASE \/ Pull(p) \/ PullFails(p) \/ UpStarts(p) \/ UpSucceeds(p) \/ UpFails(p)
           \/ SmokePasses(p) \/ SmokeFails(p)
  BY <1>5 DEF Pull, PullFails, UpStarts, UpSucceeds, UpFails, SmokePasses, SmokeFails
<1>6. CASE Compensate(p)
  BY <1>6 DEF Compensate
<1>7. CASE RollbackEnds(p)
  BY <1>7 DEF RollbackEnds
<1>8. ASSUME NEW s \in Services, NotAttempted(p, s)
      PROVE  HintInv(p)'
  BY <1>8 DEF NotAttempted, SetResult
<1>9. CASE Cancel(p) \/ OrphanStops(p)
  BY <1>9 DEF Cancel, OrphanStops, Pending, AllRecorded
<1> QED
  BY <1>2, <1>3, <1>4, <1>5, <1>6, <1>7, <1>8, <1>9 DEF Act, Step

\* A post.
LEMMA HintPost ==
  ASSUME TypeOK, NEW p \in Procs, HintInv(p), NEW s \in Services,
         Recorded(p, s) \/ RecordFails(p, s)
  PROVE  HintInv(p)'
<1>1. /\ pc[p] = "record" /\ s \in Scope(p) /\ Env(p) \in Envs
      /\ UNCHANGED <<pc, opt, plan, failedAt, rollback>>
      /\ \/ broker' = [broker EXCEPT ![Env(p)][s] = plan[p][s]]
         \/ UNCHANGED broker
  BY DeployAssumption DEF Recorded, RecordFails, Turn, Pending, Env
<1>2. /\ broker[Env(p)] \in Views /\ AllOrNothing[Env(p)] \in BOOLEAN
      /\ \/ broker'[Env(p)] = [broker[Env(p)] EXCEPT ![s] = plan[p][s]]
         \/ broker'[Env(p)] = broker[Env(p)]
  BY <1>1, DeployAssumption DEF TypeOK
<1>3. Repeatable(p)'
  <2> SUFFICES ASSUME OneQuery(p) PROVE Deployable(p)'
    BY <1>1 DEF Repeatable, OneQuery, Scope, Env
  <2>1. GateAll(AllOrNothing[Env(p)], Scope(p), plan[p], broker[Env(p)])
    BY <1>1 DEF HintInv, Repeatable, Gated, Deployable
  <2>2. GateAll(AllOrNothing[Env(p)], Scope(p), plan[p], broker'[Env(p)])
    BY <1>1, <1>2, <2>1, GateAnswersAgain DEF OneQuery
  <2> QED
    BY <1>1, <2>2 DEF Deployable, Scope, Env
<1> QED
  BY <1>1, <1>3
     DEF HintInv, Unhinted, Compensating, HintedEarly, FailedLast, HintedLast

\* The end of the recording.
LEMMA HintLast ==
  ASSUME TypeOK, NEW p \in Procs, HintInv(p), RecordingEnds(p)
  PROVE  HintInv(p)'
<1>1. /\ pc[p] = "record" /\ pc'[p] = "exit" /\ Pending(p) = {}
      /\ UNCHANGED <<opt, plan, broker, result, rollback>>
      /\ failedAt'[p] = IF AllRecorded(p) THEN failedAt[p] ELSE "record-deployment"
  BY DEF RecordingEnds, Goto, TypeOK
<1>2. failedAt[p] = "none" /\ rollback[p] = "none"
  BY <1>1 DEF HintInv, Unhinted
<1>3. OneQuery(p) => Deployable(p)
  BY <1>1 DEF HintInv, Repeatable, Gated
<1> QED
  BY <1>1, <1>2, <1>3
     DEF HintInv, Unhinted, Compensating, HintedEarly, FailedLast, HintedLast, OneQuery,
         Repeatable, Deployable, Pending, AllRecorded, Scope, Env, Gated

HintsInv == \A p \in Procs : HintInv(p)

LEMMA InitHints == Init => HintsInv
BY DEF Init, HintsInv, HintInv, Unhinted, Compensating, HintedEarly, FailedLast, HintedLast,
       Repeatable, Gated

LEMMA HintsStep ==
  ASSUME TypeOK, LockHeld, ReleaseInv, HintsInv, [Next]_vars
  PROVE  HintsInv'
<1> SUFFICES ASSUME NEW q \in Procs
             PROVE  HintInv(q)'
  BY DEF HintsInv
<1>1. ASSUME NEW p \in Procs, Act(p)
      PROVE  HintInv(q)'
  BY <1>1, HintFrame, HintBefore, HintPost, HintLast DEF HintsInv
<1> QED
  BY <1>1, NextActs, HintAside DEF HintsInv

LEMMA HintsAreTrue == HintsInv => HintTrue
BY DEF HintsInv, HintInv, Unhinted, HintedEarly, FailedLast, HintedLast, OneQuery, Repeatable,
       HintTrue, Advice

LEMMA HintInvariant == Spec => []HintsInv
<1>1. TypeOK /\ LockHeld /\ ReleaseInv /\ HintsInv /\ [Next]_vars => HintsInv'
  BY HintsStep
<1> QED
  BY <1>1, InitHints, TypeCorrect, LockCorrect, ReleaseInvariant, PTL DEF Spec

(***************************************************************************)
(* The hint a failed run ends with is true: of the broker, of what it      *)
(* itemizes, and of the repetition it advises.                             *)
(***************************************************************************)
THEOREM HintCorrect == Spec => []HintTrue
BY HintsAreTrue, HintInvariant, PTL
=================================================================================
