--------------------------------- MODULE Deploy ---------------------------------
(***************************************************************************)
(* The `c2quay deploy` pipeline (internal/cli/deploy.go around             *)
(* internal/release/deploy.go), run by several invocations on one host.    *)
(*                                                                         *)
(* Shared by the invocations: one lock file per environment, the Compose   *)
(* files of the checkout, the containers of one Compose project, and the   *)
(* broker.  The operator may edit the checkout, press Ctrl-C or kill an    *)
(* invocation at any moment; a `docker compose up` whose c2quay was killed *)
(* goes on without it.                                                     *)
(*                                                                         *)
(* One action per step of the pipeline that touches something shared.  An  *)
(* invocation runs once: pc is the next step it takes.                     *)
(***************************************************************************)
EXTENDS RollbackPlan

CONSTANTS
  Procs, Envs, EnvOf, AllOrNothing, Free,  \* as in ReleaseProtocol
  Others,            \* other commands that take an environment's lock
  GateOnly,          \* per environment, the services mapped gate_only
  ComposeServices,   \* the services the Compose files declare
  PullAlways,        \* deploy.pull is "always"
  SmokeConfigured,   \* deploy.smoke.command is not empty
  Options,           \* the flags an invocation may be given
  InitialViews,      \* what containers and broker may show at the outset
  StaleMask,         \* containers `up` failed to replace can look healthy
  MayCancel,         \* SIGINT and SIGTERM are considered
  MayCrash,          \* SIGKILL is considered
  MaxEdits           \* bound on edits of the checkout

\* --service (every service when it is absent), --dry-run and --auto-rollback
Scopes == {Services} \cup {{s} : s \in Services}
Flags == [scope : Scopes, dryRun : BOOLEAN, mode : RollbackModes]

ASSUME DeployAssumption ==
  /\ Services # {}
  /\ EnvOf \in [Procs \cup Others -> Envs]
  /\ Procs \cap Others = {}
  /\ Free \notin Procs \cup Others
  /\ AllOrNothing \in [Envs -> BOOLEAN]
  /\ GateOnly \in [Envs -> SUBSET Services]
  /\ ComposeServices \subseteq Services
  /\ Options \subseteq Flags
  /\ InitialViews \subseteq Views
  /\ PullAlways \in BOOLEAN /\ SmokeConfigured \in BOOLEAN
  /\ StaleMask \in BOOLEAN /\ MayCancel \in BOOLEAN /\ MayCrash \in BOOLEAN
  /\ MaxEdits \in Nat

VARIABLES
  head,      \* the version the checkout's Compose files name, per service
  edits,     \* how often the checkout was edited
  running,   \* the version each service's containers run
  broker,    \* per environment, the versions the broker shows as deployed
  torn,      \* environments whose last recording was partial (history)
  lock,      \* per environment, the invocation whose descriptor holds the flock
  pc,        \* per invocation, the next step
  opt,       \* its flags
  cancelled, \* its context was cancelled by a signal
  plan,      \* Plan.Releases: the version it releases of each service in scope
  pre,       \* its pre-snapshot's image map
  atPre,     \* what the containers ran when that was captured (history)
  child,     \* what its `docker compose up` still has to replace, and with what
  result,    \* its RecordResults
  failedAt,  \* DeployReport.FailedAtStep
  rollback,  \* the outcome of its RollbackReport
  restore,   \* RollbackReport.Plan.Images: what the rollback is to restore
  code       \* its exit status

shared == <<head, edits, running, broker, torn>>
report == <<plan, pre, atPre, result, failedAt, rollback, restore, code>>
vars == <<shared, lock, pc, opt, cancelled, child, report>>

Outside == {"start", "done", "dead"}
Gated == {"pull", "up", "upping", "smoke", "record"}
Steps == Outside \cup Gated \cup
         {"plan", "coverage", "pre", "gate", "compensate", "rollingBack", "exit"}
Results == {"pending", "recorded", "failed", "skipped"}
Rollbacks == {"none", "skipped", "dry-run", "ok", "failed"}
Codes == {"none", "ok", "gateFailed", "operatorError"}

Env(p) == EnvOf[p]
Scope(p) == opt[p].scope
DeployServices(p) == Scope(p) \ GateOnly[Env(p)]
Pending(p) == {s \in Scope(p) : result[p][s] = "pending"}
AllRecorded(p) == \A s \in Scope(p) : result[p][s] = "recorded"
Posted(p) == \E s \in Services : result[p][s] \in {"recorded", "failed"}

\* ImagesByService of `docker compose config --format json`.
RenderedImages == Only(ComposeServices, head)

\* What `docker compose up` has to replace for these services to run these images.
Outdated(images) ==
  [s \in Services |-> IF running[s] # images[s] THEN images[s] ELSE None]

Goto(p, step) == pc' = [pc EXCEPT ![p] = step]

NoFlags == [scope |-> {}, dryRun |-> FALSE, mode |-> "off"]

\* The memory of an invocation is gone when its process is.
Forget(p) ==
  /\ opt' = [opt EXCEPT ![p] = NoFlags]
  /\ cancelled' = [cancelled EXCEPT ![p] = FALSE]
  /\ plan' = [plan EXCEPT ![p] = Nothing]
  /\ pre' = [pre EXCEPT ![p] = Nothing]
  /\ atPre' = [atPre EXCEPT ![p] = Nothing]
  /\ result' = [result EXCEPT ![p] = [s \in Services |-> "pending"]]
  /\ failedAt' = [failedAt EXCEPT ![p] = "none"]
  /\ rollback' = [rollback EXCEPT ![p] = "none"]
  /\ restore' = [restore EXCEPT ![p] = Nothing]

-------------------------------------------------------------------------------
(***************************************************************************)
(* Any checkout may be about to be released over any containers, and the   *)
(* broker may already hold a view that was never verified as a whole.      *)
(***************************************************************************)
Init ==
  /\ head \in [Services -> Versions]
  /\ edits = 0
  /\ running \in InitialViews
  /\ \A s \in Services \ ComposeServices : running[s] = None
  /\ broker \in [Envs -> InitialViews]
  /\ torn = {e \in Envs : ~ Coherent(broker[e])}
  /\ lock = [e \in Envs |-> Free]
  /\ pc = [p \in Procs |-> "start"]
  /\ opt = [p \in Procs |-> NoFlags]
  /\ cancelled = [p \in Procs |-> FALSE]
  /\ plan = [p \in Procs |-> Nothing]
  /\ pre = [p \in Procs |-> Nothing]
  /\ atPre = [p \in Procs |-> Nothing]
  /\ child = [p \in Procs |-> Nothing]
  /\ result = [p \in Procs |-> [s \in Services |-> "pending"]]
  /\ failedAt = [p \in Procs |-> "none"]
  /\ rollback = [p \in Procs |-> "none"]
  /\ restore = [p \in Procs |-> Nothing]
  /\ code = [p \in Procs |-> "none"]

-------------------------------------------------------------------------------
\* The lock: taken before any side effect, never waited for.

Acquire(p) ==
  /\ pc[p] = "start"
  /\ lock[Env(p)] = Free
  /\ lock' = [lock EXCEPT ![Env(p)] = p]
  /\ \E o \in Options : opt' = [opt EXCEPT ![p] = o]
  /\ Goto(p, "plan")
  /\ UNCHANGED <<shared, cancelled, child, report>>

\* Mutant: a lock that is held is only warned about.
LockIgnored(p) ==
  /\ pc[p] = "start"
  /\ lock[Env(p)] # Free
  /\ \E o \in Options : opt' = [opt EXCEPT ![p] = o]
  /\ Goto(p, "plan")
  /\ UNCHANGED <<shared, lock, cancelled, child, report>>

\* LOCK_NB: another descriptor has the lock, so this invocation gives up.
LockDenied(p) ==
  /\ pc[p] = "start"
  /\ lock[Env(p)] # Free
  /\ code' = [code EXCEPT ![p] = "operatorError"]
  /\ Goto(p, "done")
  /\ UNCHANGED <<shared, lock, opt, cancelled, child,
                 plan, pre, atPre, result, failedAt, rollback, restore>>

\* Release runs deferred, whatever the outcome; then the process ends.
Exit(p) ==
  /\ pc[p] = "exit"
  /\ lock' = [lock EXCEPT ![Env(p)] = Free]
  /\ Forget(p)
  /\ Goto(p, "done")
  /\ UNCHANGED <<shared, child, code>>

-------------------------------------------------------------------------------
\* Before anything is changed: plan, coverage, snapshot, gate.

\* The broker index is fetched and the versions are resolved from the checkout.
BuildPlan(p) ==
  /\ pc[p] = "plan"
  /\ ~ cancelled[p]
  /\ plan' = [plan EXCEPT ![p] = Only(Scope(p), head)]
  /\ Goto(p, "coverage")
  /\ UNCHANGED <<shared, lock, opt, cancelled, child,
                 pre, atPre, result, failedAt, rollback, restore, code>>

\* A dry run goes on when the service list cannot be read; nothing else does.
ValidateComposeCoverage(p) ==
  /\ pc[p] = "coverage"
  /\ \/ opt[p].dryRun
     \/ ~ cancelled[p] /\ DeployServices(p) \subseteq ComposeServices
  /\ Goto(p, "pre")
  /\ UNCHANGED <<shared, lock, opt, cancelled, child, report>>

\* `ps` has to succeed; when the render fails the snapshot has no images.
PreSnapshot(p) ==
  /\ pc[p] = "pre"
  /\ ~ cancelled[p]
  /\ \E images \in {RenderedImages, Nothing} : pre' = [pre EXCEPT ![p] = images]
  /\ atPre' = [atPre EXCEPT ![p] = running]
  /\ Goto(p, "gate")
  /\ UNCHANGED <<shared, lock, opt, cancelled, child,
                 plan, result, failedAt, rollback, restore, code>>

\* An error before the gate, from whichever call, ends the run with no hint.
SetupFails(p) ==
  /\ pc[p] \in {"plan", "coverage", "pre"}
  /\ code' = [code EXCEPT ![p] = "operatorError"]
  /\ Goto(p, "exit")
  /\ UNCHANGED <<shared, lock, opt, cancelled, child,
                 plan, pre, atPre, result, failedAt, rollback, restore>>

Deployable(p) == GateAll(AllOrNothing[Env(p)], Scope(p), plan[p], broker[Env(p)])

\* Mutant: what is not deployable is only warned about.
GateWarns(p) ==
  /\ pc[p] = "gate"
  /\ ~ cancelled[p]
  /\ Goto(p, IF opt[p].dryRun THEN "exit" ELSE "up")
  /\ UNCHANGED <<shared, lock, opt, cancelled, child, report>>

\* A run all of whose services are gate_only skips Compose altogether.
GatePasses(p) ==
  /\ pc[p] = "gate"
  /\ ~ cancelled[p]
  /\ Deployable(p)
  /\ Goto(p, IF opt[p].dryRun THEN "exit"
             ELSE IF DeployServices(p) = {} THEN "smoke"
             ELSE IF PullAlways THEN "pull" ELSE "up")
  /\ code' = [code EXCEPT ![p] = IF opt[p].dryRun THEN "ok" ELSE @]
  /\ UNCHANGED <<shared, lock, opt, cancelled, child,
                 plan, pre, atPre, result, failedAt, rollback, restore>>

\* Some candidate is not deployable, or some call to the broker failed.
GateFails(p) ==
  /\ pc[p] = "gate"
  /\ \/ /\ ~ cancelled[p]
        /\ ~ Deployable(p)
        /\ code' = [code EXCEPT ![p] = "gateFailed"]
     \/ code' = [code EXCEPT ![p] = "operatorError"]
  /\ failedAt' = [failedAt EXCEPT ![p] = "gate"]
  /\ Goto(p, "exit")
  /\ UNCHANGED <<shared, lock, opt, cancelled, child,
                 plan, pre, atPre, result, rollback, restore>>

-------------------------------------------------------------------------------
\* Compose: pull, then `up`, which replaces containers one after the other.

Pull(p) ==
  /\ pc[p] = "pull"
  /\ ~ cancelled[p]
  /\ Goto(p, "up")
  /\ UNCHANGED <<shared, lock, opt, cancelled, child, report>>

\* Reported as a compose-up failure, but nothing was replaced: no rollback.
PullFails(p) ==
  /\ pc[p] = "pull"
  /\ failedAt' = [failedAt EXCEPT ![p] = "compose-up"]
  /\ code' = [code EXCEPT ![p] = "operatorError"]
  /\ Goto(p, "exit")
  /\ UNCHANGED <<shared, lock, opt, cancelled, child,
                 plan, pre, atPre, result, rollback, restore>>

\* Mutant: the plan is brought up to date with the files Compose reads.
UpReplans(p) ==
  /\ pc[p] = "up"
  /\ ~ cancelled[p]
  /\ child' = [child EXCEPT ![p] = Outdated(Only(DeployServices(p), head))]
  /\ plan' = [plan EXCEPT ![p] = Only(Scope(p), head)]
  /\ Goto(p, "upping")
  /\ UNCHANGED <<shared, lock, opt, cancelled,
                 pre, atPre, result, failedAt, rollback, restore, code>>

\* Compose reads the checkout's files when it starts.
UpStarts(p) ==
  /\ pc[p] = "up"
  /\ ~ cancelled[p]
  /\ child' = [child EXCEPT ![p] = Outdated(Only(DeployServices(p), head))]
  /\ Goto(p, "upping")
  /\ UNCHANGED <<shared, lock, opt, cancelled, report>>

\* The Compose process at work, its c2quay waiting for it or killed.
ContainerReplaced(p, s) ==
  /\ child[p][s] # None
  /\ running' = [running EXCEPT ![s] = child[p][s]]
  /\ child' = [child EXCEPT ![p][s] = None]
  /\ UNCHANGED <<head, edits, broker, torn, lock, pc, opt, cancelled, report>>

\* A Compose process without its c2quay stops, having done all of it or not.
OrphanStops(p) ==
  /\ pc[p] = "dead"
  /\ child[p] # Nothing
  /\ child' = [child EXCEPT ![p] = Nothing]
  /\ UNCHANGED <<shared, lock, pc, opt, cancelled, report>>

(***************************************************************************)
(* The adapter calls an `up` successful when `ps` shows every container    *)
(* healthy: once after an exit status of 0, twice after any other.         *)
(***************************************************************************)
SeemsApplied(p) == child[p] = Nothing \/ StaleMask

\* Mutant: whatever `up` left undone, the exit status is taken for a false alarm.
UpTrusted(p) ==
  /\ pc[p] = "upping"
  /\ ~ cancelled[p]
  /\ child' = [child EXCEPT ![p] = Nothing]
  /\ Goto(p, "smoke")
  /\ UNCHANGED <<shared, lock, opt, cancelled, report>>

UpSucceeds(p) ==
  /\ pc[p] = "upping"
  /\ ~ cancelled[p]
  /\ SeemsApplied(p)
  /\ child' = [child EXCEPT ![p] = Nothing]
  /\ Goto(p, "smoke")
  /\ UNCHANGED <<shared, lock, opt, cancelled, report>>

UpFails(p) ==
  /\ \/ pc[p] = "upping"
     \/ pc[p] = "up" /\ cancelled[p]
  /\ child' = [child EXCEPT ![p] = Nothing]
  /\ failedAt' = [failedAt EXCEPT ![p] = "compose-up"]
  /\ Goto(p, "compensate")
  /\ UNCHANGED <<shared, lock, opt, cancelled,
                 plan, pre, atPre, result, rollback, restore, code>>

\* Mutant: the lock is given back once the containers are up.
SmokeUnlocks(p) ==
  /\ pc[p] = "smoke"
  /\ SmokeConfigured => ~ cancelled[p]
  /\ lock' = [lock EXCEPT ![Env(p)] = Free]
  /\ Goto(p, "record")
  /\ UNCHANGED <<shared, opt, cancelled, child, report>>

SmokePasses(p) ==
  /\ pc[p] = "smoke"
  /\ SmokeConfigured => ~ cancelled[p]
  /\ Goto(p, "record")
  /\ UNCHANGED <<shared, lock, opt, cancelled, child, report>>

SmokeFails(p) ==
  /\ pc[p] = "smoke"
  /\ SmokeConfigured
  /\ failedAt' = [failedAt EXCEPT ![p] = "smoke"]
  /\ Goto(p, "compensate")
  /\ UNCHANGED <<shared, lock, opt, cancelled, child,
                 plan, pre, atPre, result, rollback, restore, code>>

-------------------------------------------------------------------------------
(***************************************************************************)
(* The compensation of a failed `up` or smoke: the post-snapshot, whose    *)
(* images are missing when `ps` or the render fails, and maybeRollback.    *)
(***************************************************************************)
MayRollBack(p) == opt[p].mode # "off" /\ PolicyFor(failedAt[p])

Compensate(p) ==
  /\ pc[p] = "compensate"
  /\ code' = [code EXCEPT ![p] = "operatorError"]
  /\ \E post \in {RenderedImages, Nothing} :
       LET images == RollbackImages(pre[p], post) IN
       /\ cancelled[p] => post = Nothing
       /\ \/ /\ ~ MayRollBack(p)
             /\ Goto(p, "exit")
             /\ UNCHANGED <<rollback, restore, child>>
          \/ /\ MayRollBack(p)
             /\ images = Nothing
             /\ rollback' = [rollback EXCEPT ![p] = "skipped"]
             /\ Goto(p, "exit")
             /\ UNCHANGED <<restore, child>>
          \/ /\ MayRollBack(p)
             /\ images # Nothing
             /\ restore' = [restore EXCEPT ![p] = images]
             /\ \/ /\ opt[p].mode = "dry-run"
                   /\ rollback' = [rollback EXCEPT ![p] = "dry-run"]
                   /\ Goto(p, "exit")
                   /\ UNCHANGED child
                \/ /\ opt[p].mode = "on"
                   /\ child' = [child EXCEPT ![p] = Outdated(images)]
                   /\ Goto(p, "rollingBack")
                   /\ UNCHANGED rollback
  /\ UNCHANGED <<shared, lock, opt, cancelled, plan, pre, atPre, result, failedAt>>

\* Mutant: the rollback's `up` is reported as successful whatever it returns.
RollbackAssumed(p) ==
  /\ pc[p] = "rollingBack"
  /\ rollback' = [rollback EXCEPT ![p] = "ok"]
  /\ child' = [child EXCEPT ![p] = Nothing]
  /\ Goto(p, "exit")
  /\ UNCHANGED <<shared, lock, opt, cancelled,
                 plan, pre, atPre, result, failedAt, restore, code>>

\* ExecuteRollback's `up` returns; it may also never have started.
RollbackEnds(p) ==
  /\ pc[p] = "rollingBack"
  /\ \/ /\ SeemsApplied(p)
        /\ rollback' = [rollback EXCEPT ![p] = "ok"]
     \/ rollback' = [rollback EXCEPT ![p] = "failed"]
  /\ child' = [child EXCEPT ![p] = Nothing]
  /\ Goto(p, "exit")
  /\ UNCHANGED <<shared, lock, opt, cancelled,
                 plan, pre, atPre, result, failedAt, restore, code>>

-------------------------------------------------------------------------------
\* record-deployment: every service of the plan, in order, whatever became of
\* the ones before it.

Turn(p, s) == s \in Pending(p) /\ \A t \in Pending(p) : s <= t

SetResult(p, s, r) == result' = [result EXCEPT ![p][s] = r]

\* Mutant: the version is resolved again when it is recorded.
RecordedAnew(p, s) ==
  /\ pc[p] = "record"
  /\ Turn(p, s)
  /\ ~ cancelled[p]
  /\ broker' = [broker EXCEPT ![Env(p)][s] = head[s]]
  /\ SetResult(p, s, "recorded")
  /\ UNCHANGED <<head, edits, running, torn, lock, pc, opt, cancelled, child,
                 plan, pre, atPre, failedAt, rollback, restore, code>>

Recorded(p, s) ==
  /\ pc[p] = "record"
  /\ Turn(p, s)
  /\ ~ cancelled[p]
  /\ broker' = [broker EXCEPT ![Env(p)][s] = plan[p][s]]
  /\ SetResult(p, s, "recorded")
  /\ UNCHANGED <<head, edits, running, torn, lock, pc, opt, cancelled, child,
                 plan, pre, atPre, failedAt, rollback, restore, code>>

\* Mutant: an error of the last attempt is not looked at.
RecordFailsUnnoticed(p, s) ==
  /\ pc[p] = "record"
  /\ Turn(p, s)
  /\ ~ cancelled[p]
  /\ SetResult(p, s, "recorded")
  /\ UNCHANGED <<shared, lock, pc, opt, cancelled, child,
                 plan, pre, atPre, failedAt, rollback, restore, code>>

\* The call returns an error: the broker refused it, or did what it was asked
\* and the answer was lost.
RecordFails(p, s) ==
  /\ pc[p] = "record"
  /\ Turn(p, s)
  /\ ~ cancelled[p]
  /\ \/ broker' = [broker EXCEPT ![Env(p)][s] = plan[p][s]]
     \/ UNCHANGED broker
  /\ SetResult(p, s, "failed")
  /\ UNCHANGED <<head, edits, running, torn, lock, pc, opt, cancelled, child,
                 plan, pre, atPre, failedAt, rollback, restore, code>>

\* Mutant: a cancelled call is tried again, for ever.
NotAttemptedYet(p, s) ==
  /\ pc[p] = "record"
  /\ Turn(p, s)
  /\ cancelled[p]
  /\ UNCHANGED vars

NotAttempted(p, s) ==
  /\ pc[p] = "record"
  /\ Turn(p, s)
  /\ cancelled[p]
  /\ SetResult(p, s, "skipped")
  /\ UNCHANGED <<shared, lock, pc, opt, cancelled, child,
                 plan, pre, atPre, failedAt, rollback, restore, code>>

\* Mutant: the old blanket note, whatever the step that failed.
BlanketAdvice(p) == IF rollback[p] = "ok" THEN "restored" ELSE "unchanged"

(***************************************************************************)
(* What RollbackHint.Write ends with: services and broker are as before,   *)
(* record again, or only the broker is as before.                          *)
(***************************************************************************)
Advice(p) ==
  IF rollback[p] = "ok" THEN "restored"
  ELSE IF failedAt[p] = "record-deployment" THEN "recordAgain" ELSE "unchanged"

(***************************************************************************)
(* An environment is torn from a recording that posted something and did   *)
(* not record everything, until every service of it is recorded by one run.*)
(***************************************************************************)
TornAfter(p) ==
  IF AllRecorded(p)
  THEN IF Scope(p) = Services /\ AllOrNothing[Env(p)] THEN torn \ {Env(p)} ELSE torn
  ELSE IF Posted(p) THEN torn \cup {Env(p)} ELSE torn

\* The post-snapshot that follows is for the audit trail and changes no outcome.
RecordingEnds(p) ==
  /\ pc[p] = "record"
  /\ Pending(p) = {}
  /\ failedAt' = [failedAt EXCEPT ![p] = IF AllRecorded(p) THEN @ ELSE "record-deployment"]
  /\ code' = [code EXCEPT ![p] = IF AllRecorded(p) THEN "ok" ELSE "operatorError"]
  /\ torn' = TornAfter(p)
  /\ Goto(p, "exit")
  /\ UNCHANGED <<head, edits, running, broker, lock, opt, cancelled, child,
                 plan, pre, atPre, result, rollback, restore>>

-------------------------------------------------------------------------------
\* What c2quay does not control.

\* SIGINT and SIGTERM cancel the context every later call is given.
Cancel(p) ==
  /\ MayCancel
  /\ pc[p] \notin Outside \cup {"exit"}
  /\ ~ cancelled[p]
  /\ cancelled' = [cancelled EXCEPT ![p] = TRUE]
  /\ UNCHANGED <<shared, lock, pc, opt, child, report>>

\* The kernel drops the flock with the descriptor; Compose is not told.
Crash(p) ==
  /\ MayCrash
  /\ pc[p] \notin Outside
  /\ lock' = [lock EXCEPT ![Env(p)] = Free]
  /\ torn' = IF pc[p] = "record" THEN TornAfter(p) ELSE torn
  /\ Forget(p)
  /\ Goto(p, "dead")
  /\ UNCHANGED <<head, edits, running, broker, child, code>>

\* A pull, a checkout or an editor changes the files under a running release.
Edit(s, v) ==
  /\ edits < MaxEdits
  /\ head[s] # v
  /\ head' = [head EXCEPT ![s] = v]
  /\ edits' = edits + 1
  /\ UNCHANGED <<running, broker, torn, lock, pc, opt, cancelled, child, report>>

\* Every invocation has ended and no Compose process is left.
Terminated ==
  /\ \A p \in Procs : pc[p] \in {"done", "dead"} /\ child[p] = Nothing
  /\ UNCHANGED vars

-------------------------------------------------------------------------------
Step(p) ==
  \/ Acquire(p) \/ LockDenied(p) \/ Exit(p)
  \/ BuildPlan(p) \/ ValidateComposeCoverage(p) \/ PreSnapshot(p) \/ SetupFails(p)
  \/ GatePasses(p) \/ GateFails(p)
  \/ Pull(p) \/ PullFails(p) \/ UpStarts(p) \/ UpSucceeds(p) \/ UpFails(p)
  \/ SmokePasses(p) \/ SmokeFails(p)
  \/ Compensate(p) \/ RollbackEnds(p)
  \/ \E s \in Services : Recorded(p, s) \/ RecordFails(p, s) \/ NotAttempted(p, s)
  \/ RecordingEnds(p)

Environment ==
  \/ \E p \in Procs : Cancel(p) \/ Crash(p) \/ OrphanStops(p)
  \/ \E p \in Procs, s \in Services : ContainerReplaced(p, s)
  \/ \E s \in Services, v \in Versions : Edit(s, v)

Next ==
  \/ \E p \in Procs : Step(p)
  \/ Environment
  \/ Terminated

Spec == Init /\ [][Next]_vars

(***************************************************************************)
(* Every step of the pipeline is a bounded wait: HTTP attempts, `up        *)
(* --wait-timeout`, the smoke command and the rollback have timeouts, and  *)
(* the other docker commands are taken to return.  The operator and the    *)
(* containers owe nothing.                                                 *)
(***************************************************************************)
FairSpec == Spec /\ \A p \in Procs : WF_vars(Step(p))

-------------------------------------------------------------------------------
\* The declared domain of every variable.
TypeOK ==
  /\ head \in [Services -> Versions]
  /\ edits \in 0..MaxEdits
  /\ running \in Views
  /\ broker \in [Envs -> Views]
  /\ torn \subseteq Envs
  /\ lock \in [Envs -> Procs \cup Others \cup {Free}]
  /\ pc \in [Procs -> Steps]
  /\ opt \in [Procs -> Flags \cup {NoFlags}]
  /\ cancelled \in [Procs -> BOOLEAN]
  /\ plan \in [Procs -> Views]
  /\ pre \in [Procs -> Views]
  /\ atPre \in [Procs -> Views]
  /\ child \in [Procs -> Views]
  /\ result \in [Procs -> [Services -> Results]]
  /\ failedAt \in [Procs -> FailedSteps]
  /\ rollback \in [Procs -> Rollbacks]
  /\ restore \in [Procs -> Views]
  /\ code \in [Procs -> Codes]

(***************************************************************************)
(* From the first side effect to the last, deferred one, an invocation     *)
(* holds the flock of its environment, and whoever else is in the          *)
(* environment is not past the lock: cli/deploy.go acquires it first and   *)
(* releases it last, on every path, and the kernel releases it for a       *)
(* killed process.                                                         *)
(***************************************************************************)
LockHeld == \A p \in Procs : lock[Env(p)] = p <=> pc[p] \notin Outside

(***************************************************************************)
(* Two `docker compose up` of one environment run at the same time only if *)
(* one of them has outlived a killed c2quay.                               *)
(***************************************************************************)
OneComposeRun ==
  \A p, q \in Procs :
    (p # q /\ Env(p) = Env(q) /\ child[p] # Nothing /\ child[q] # Nothing)
      => "dead" \in {pc[p], pc[q]}

(***************************************************************************)
(* The gate's answer is old by the time it is acted upon: pull, up and     *)
(* smoke lie between.  It still is the answer the broker would give when   *)
(* the first version is posted, whatever the other invocations did.        *)
(***************************************************************************)
VerdictStillHolds ==
  \A p \in Procs : (pc[p] \in Gated /\ ~ Posted(p)) => Deployable(p)

(***************************************************************************)
(* What the gate is for: in an all_or_nothing environment every two        *)
(* deployed versions have been verified together, unless the last          *)
(* recording was itemized as partial or is under way.                      *)
(***************************************************************************)
VerifiedTogether ==
  \A e \in Envs :
    (/\ AllOrNothing[e]
     /\ e \notin torn
     /\ \A p \in Procs : Env(p) = e => ~ Posted(p))
      => Coherent(broker[e])

(***************************************************************************)
(* "Recorded (broker now shows these as deployed)" of the hint             *)
(* (rollback_hint.go:118) is true when it is printed: no other invocation  *)
(* has posted another version over it.                                     *)
(***************************************************************************)
ReportedRecordsShown ==
  \A p \in Procs : \A s \in Services :
    result[p][s] = "recorded" => broker[Env(p)][s] = plan[p][s]

(***************************************************************************)
(* The hint of a failed run is true (rollback_hint.go:78-91).  Unless it   *)
(* says to record again, no version was posted.  If it does, every service *)
(* was attempted or is listed as not attempted, not all are recorded, and  *)
(* the repetition it advises is not turned away by a gate that now sees    *)
(* half of the release: the same versions are still deployable, when one   *)
(* query asked about all of them or there is but one.                      *)
(***************************************************************************)
HintTrue ==
  \A p \in Procs :
    (pc[p] = "exit" /\ failedAt[p] # "none") =>
      IF Advice(p) = "recordAgain"
      THEN /\ Pending(p) = {} /\ ~ AllRecorded(p)
           /\ (AllOrNothing[Env(p)] \/ \A s, t \in Scope(p) : s = t) => Deployable(p)
      ELSE \A s \in Services : result[p][s] = "pending"

(***************************************************************************)
(* ADR 0004: record-deployment never marks a version deployed that did not *)
(* come up.  The version was named by the checkout when the run planned;   *)
(* the claim is about runs during which nobody edited it.                  *)
(***************************************************************************)
RecordsOnlyWhatRuns ==
  [][\A p \in Procs : \A s \in Services :
       (/\ result[p][s] = "pending" /\ result'[p][s] = "recorded"
        /\ s \in DeployServices(p)
        /\ head[s] = plan[p][s])
         => running[s] = plan[p][s]]_vars

(***************************************************************************)
(* The "NOT recorded (broker still shows the previous version deployed)"   *)
(* of the hint: a record-deployment that is reported as failed left the    *)
(* broker's view of that service alone.                                    *)
(***************************************************************************)
FailedRecordsUnseen ==
  [][\A p \in Procs : \A s \in Services :
       (result[p][s] = "pending" /\ result'[p][s] = "failed")
         => broker'[Env(p)][s] = broker[Env(p)][s]]_vars

(***************************************************************************)
(* README: a failed `up` or smoke pins "each service back to the image it  *)
(* had in the pre-deploy snapshot".  After a rollback reported as          *)
(* successful, or skipped because "current images already match pre-deploy *)
(* snapshot", every service runs what it ran when that snapshot was taken. *)
(***************************************************************************)
RollbackRestores ==
  \A p \in Procs :
    (pc[p] = "exit" /\ rollback[p] \in {"ok", "skipped"})
      => \A s \in Services : (pre[p][s] # None /\ atPre[p][s] # None)
                               => running[s] = atPre[p][s]

(***************************************************************************)
(* ADR 0013: a gate_only service is excluded from every docker compose     *)
(* operation, even when it does exist in the Compose files.                *)
(***************************************************************************)
GateOnlyUntouched ==
  \A p \in Procs : \A s \in GateOnly[Env(p)] : child[p][s] = None

(***************************************************************************)
(* A rollback reported as successful did what its report says: the         *)
(* services of its plan run the images of its plan.                        *)
(***************************************************************************)
RollbackReportTrue ==
  \A p \in Procs :
    (pc[p] = "exit" /\ rollback[p] = "ok")
      => \A s \in Services : restore[p][s] # None => running[s] = restore[p][s]

(***************************************************************************)
(* Every invocation ends, with its lock released, whatever fails and       *)
(* whenever it is interrupted.                                             *)
(***************************************************************************)
EveryRunEnds ==
  \A p \in Procs : <>[](pc[p] \in {"done", "dead"} /\ lock[Env(p)] # p)

-------------------------------------------------------------------------------
(***************************************************************************)
(* The protocol the pipeline implements.  An invocation is cleared when it *)
(* turns to recording, and stays so while it reports what it recorded.     *)
(***************************************************************************)
Recording(p) ==
  \/ pc[p] = "record"
  \/ pc[p] = "exit" /\ \E s \in Services : result[p][s] # "pending"

Phase(p) ==
  IF pc[p] \in Outside THEN "out" ELSE IF Recording(p) THEN "cleared" ELSE "in"

Candidates(p) == IF Recording(p) THEN plan[p] ELSE Nothing

Protocol == INSTANCE ReleaseProtocol WITH
  holder <- lock,
  phase <- [p \in Procs |-> Phase(p)],
  cand <- [p \in Procs |-> Candidates(p)]

\* The pipeline, its interruptions and its failures keep the release protocol.
ImplementsProtocol == Protocol!Spec
===============================================================================
