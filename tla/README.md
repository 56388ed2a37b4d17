# A verification of c2quay

c2quay releases services of a Docker Compose project: it asks a Pact Broker
whether the candidate versions may be deployed, runs `docker compose up`, runs a
smoke command, and tells the broker what it deployed. This directory holds TLA+
models of that release, the runs that model-check them on small instances, and
machine-checked proofs of the most important properties for every instance.

Every definition is translated from the Go code; `PROJECT.json` maps each of them
to its lines. Where code and documentation disagree the models follow the code,
and a run exhibits the disagreement (see [Findings](#findings)).

## 1. The system

| Component | State it keeps | Operations |
|---|---|---|
| deploy command (`internal/cli/deploy.go`) | the lock's descriptor, the flags | acquire the lock, fetch the broker index, run the pipeline, report, release the lock deferred |
| deploy pipeline (`internal/release/deploy.go`) | the `DeployReport`: step that failed, gate outcomes, snapshots, record results, rollback report | plan, coverage check, pre-snapshot, gate, pull, up, smoke, record, post-snapshot, auto-rollback |
| environment lock (`internal/lock`) | one lock file per environment; an flock on an open descriptor | non-blocking acquire, release; the kernel releases it with the process |
| gate (`internal/release/gate.go`, `pipeline.go`) | a plan: versions resolved from the checkout | one aggregate query or a fan-out of per-service queries, and their verdict |
| compose coverage (`composecoverage.go`) | none | every service to deploy has to be declared in the Compose files |
| snapshots (`snapshot.go`) | a JSON file: containers of `ps`, image map of `config`; files under `.c2quay` shared by every environment of a checkout | capture, save, load |
| auto-rollback (`rollback.go`) | policy, plan, override file, report | decide, plan, `up` with the override under a fresh context, record the outcome |
| rollback hint (`rollback_hint.go`) | none | what the operator is told about a failed release: what the broker shows, what to do next, which snapshot to start a rollback from |
| compose adapter (`internal/composeadapter`) | none of its own; the containers of one Compose project | `up` with its exit status and one or two health checks, `pull`, `ps`, `config` |
| broker client (`internal/broker`) | the index's links, the number of attempts | HAL resolution, can-i-deploy, matrix query, record-deployment; three attempts with backoff |
| manual rollback (`internal/cli/rollback.go`) | reads a snapshot file | load, diff, lock, `up` |
| verify (`cli/verify.go`, `release/verify.go`) | none | plan, coverage where the files can be read, gate, exit status |
| status, doctor | none | read-only reports |
| versioning, configuration | none | resolve a release identity; decode and validate the settings |

How they interact: the command calls the pipeline, the pipeline calls Compose
(child processes), the smoke command (a child process) and the broker (HTTP), each
with the context that SIGINT and SIGTERM cancel. What invocations *share* is the
lock file of an environment, the checkout's Compose files, the containers of the
Compose project, the broker's view of each environment, and the files under
`.c2quay`: snapshots, which the hint names and `c2quay rollback` reads, overrides, which
Compose reads, and the reports of rollbacks. The lock is per environment, these
files are per checkout.

What makes it hard: the broker's answer is used minutes after it was given; the
release takes many externally visible steps and can stop between any two; errors
of calls do not say whether the call took effect; a killed c2quay leaves a Compose
process at work and no lock; the compensation of a failure is itself a
release that can fail or be interrupted.

What makes each component correct:

- *lock*: an invocation has it from its first side effect to its last, and only then;
- *gate*: in an `all_or_nothing` environment every two deployed versions have been
  verified together; the verdict is still true when it is used;
- *pipeline*: record-deployment comes last, records what was planned, gated and
  started, and its report says of every service what became of it;
- *compose*: an `up` counts as successful only if the services run what it was to start
  and nothing of the project is dead; a cancelled one is a failure and returns;
- *files*: a rollback's Compose reads the override of that rollback; a rollback leaves its report;
  a hint leads to the snapshot of the deploy it is about;
- *hint*: what it says of the broker is true and what it advises works;
- *verify*: what it says of a deploy is so when the deploy comes;
- *rollback*: a rollback reported as successful was one, and puts back what ran before;
- *broker client*: a call that returns success took effect, once;
- *command*: every run ends and leaves no lock behind.

## 2. Modules

| Module | What it is |
|---|---|
| `PactMatrix` | versions, views of an environment, which pairs are verified, and the gate's verdict as an operator (`GateAll`) |
| `RollbackPlan` | rollback policy and plan as operators on image maps |
| `ReleaseProtocol` | the abstract specification: exclusive releases, cleared at one instant against the broker's present view, posting what was cleared and nothing else |
| `Deploy` | the detailed model: any number of invocations of `c2quay deploy` on one host |
| `Host` | deploys with `c2quay rollback` commands beside them: what shares the lock, the snapshot files and the containers |
| `Gate` | how the verdict of a deploy, of a dry run or of a `c2quay verify` comes about: the coverage check before it, then goroutines or one matrix query, over a matrix that builds go on filling |
| `RecordCall` | the abstract record-deployment call: it may take effect while it lasts, and its success is true |
| `BrokerClient` | the detailed call: HAL resolution, attempts, pauses, and a network that loses and delays |
| `ComposeRun` | the abstract `up`: what `Deploy` takes it for |
| `ComposeUp` | the detailed `up`: Compose's exit status, the `ps` checks and the pause, over containers that change meanwhile |
| `Files` | the files under `.c2quay`: named by the second, emptied before they are filled, shared by environments |
| `MCDeploy`, `MCHost`, `MCGate`, `MCBrokerClient`, `MCComposeUp`, `MCFiles` | the instances the runs check |
| `DeployProofs`, `ReleaseProofs`, `ProtocolProofs`, `HostProofs`, `GateProofs`, `BrokerClientProofs`, `ComposeUpProofs`, `FilesProofs` | the theorems of section 5 |

`ReleaseProtocol` and `Deploy` extend `PactMatrix`; `Deploy` instantiates
`ReleaseProtocol` as `Protocol`, with the refinement mapping at its end. `Host` extends
`Deploy` and joins its steps with those of the rollback commands. `Gate`
instantiates `PactMatrix` with the verification results it has so far,
`BrokerClient` instantiates `RecordCall`, and `ComposeUp` instantiates `ComposeRun`.
`Files` stands alone.

What joins the modules: `Deploy` takes the gate's verdict in one step
(`GatePasses` with `GateAll`), and `Gate` shows that a verdict assembled from answers
given at different times is one that holds when the pipeline reads it. `Deploy` records in one
step (`Recorded`, `RecordFails`), and `BrokerClient` shows that two requests of up to
three attempts each are such a call as long as no attempt outlives it. `Deploy` starts a
Compose run, has its containers replaced one by one and ends it with `SeemsApplied`
(`UpStarts`, `ContainerReplaced`, `UpSucceeds`, `UpFails`): these are the steps of
`ComposeRun`, and `ComposeUp` shows that a Compose process followed by one or two health
checks is such a run. Where Compose, when it fails, may leave a container it did not come to
(`Strands`), success says nothing, which is `StaleMask` in `Deploy`. What `Deploy` and `Host` say
of snapshots supposes that a file is read as it was written; `Files` shows when it is.

### Deploy and the code

`pc[p]` is the next step of invocation `p`. The steps follow `cli/deploy.go`
and `Deploy` in `release/deploy.go`:

| Step | Actions | Code |
|---|---|---|
| `start` | `Acquire`, `LockDenied` | the non-blocking flock |
| `plan`, `coverage`, `pre` | `BuildPlan`, `ValidateComposeCoverage`, `PreSnapshot`, `SetupFails` | index, plan, coverage, pre-snapshot; any error ends the run |
| `gate` | `GatePasses`, `GateFails` | the verdict, the end of a dry run, the choice of the next step |
| `pull` | `Pull`, `PullFails` | `deploy.pull: always` |
| `up`, `upping` | `UpStarts`, `ContainerReplaced`, `UpSucceeds`, `UpFails` | `ShellAdapter.Up`, the Compose process and the health checks |
| `smoke` | `SmokePasses`, `SmokeFails` | the smoke command |
| `record` | `Recorded`, `RecordFails`, `NotAttempted`, `RecordingEnds` | `recordAllDeployments`, services in sorted order |
| `compensate`, `rollingBack` | `Compensate`, `RollbackEnds` | post-snapshot and `maybeRollback` |
| `exit` | `Exit` | the deferred release of the lock |

Around them: `Cancel` (a signal cancels the context at any moment), `Crash` (a kill
at any moment: the kernel frees the lock, a running Compose process goes on as
`child[p]` of a dead invocation until it is done or `OrphanStops`), and `Edit` (the
operator changes the checkout's files under a running release). An external call
has an outcome action for each way it can end, failures included, and a cancelled
context disables success.

Three variables are history, read by properties only: `atPre` (what ran when the
pre-snapshot was taken), `torn` (environments whose last recording was partial),
and `code` (the exit status). `child` holds what a Compose process still has
to replace.

### Host and the code

`Others` are the commands of `Host` that take an environment's lock and are no deploys: `c2quay
rollback --from-snapshot` (`cli/rollback.go`). `at[r]` is the next step of command `r`:

| Step | Actions | Code |
|---|---|---|
| `start` | `LoadSnapshot`, `RestoreDenied` | `LoadSnapshot`, *before* the lock |
| `loaded` | `RestoreLocks`, `RestoreDenied` | the lock of `--env` |
| `plan` | `RestoreSkips`, `RestoreStarts` | the files rendered (or not), `BuildRollbackPlan`, the dry run, the override file and `up` |
| `restoring` | `ContainerRestored`, `RestoreEnds` | the Compose process, and what `ExecuteRollback` returns |
| `exit` | `RestoreExits` | the deferred release |

`files` are the image maps of the pre-snapshots that lie on the disk: those of earlier deploys (`OldSnapshots`,
any set of them) and the one every deploy of the model writes (`Written`). A command may load any of them, also one another environment's
deploy wrote, for the code only warns of that. `RestoreKilled` and `LeftoverStops` are `Crash`
and `OrphanStops` again. A signal needs no action of its own: it makes a call fail, and
every call of the command can fail at any time.

### Gate and the code

`CheckStarts`, `CheckAnswered` and `CheckEnds` are the life of a goroutine of
`gateIndividual`: started in the order of the plan while fewer than `Limit` run, answered by the
broker's own summary at some instant, ended by storing that answer or an error. `SetAnswered` is `gateAggregate`: one
response, or one error for all. `RowsFor` and `Verdict` are the attribution of
rows in `PerPacticipantVerdicts`; `Decide` is the loop of `Deploy` over the outcomes.
`Publish` is the world: verification results appear at any time. `Pacts` says which
pairs have a row, `Known` which pairs are in no need of a (new) verification.

`command` says whose gate it is. Each command first compares its plan with the services of the Compose files
(`CheckCoverage`, once and before the first question), and what it makes of the answer is `GoesOn`. When
the files cannot be read (`coverage = "unknown"`) a deploy ends in an error, while a dry run and verify
go on; when a service is missing (`"missing"`) a deploy and a dry run end, while verify goes on, for its report.
`c2quay verify` then asks for the same verdict (`release.Verify`). `DeployOutcome` and `VerifyOutcome` are what
each makes of the answers: a deploy stops at the first bad service in the order of the plan, verify looks at all
of them. `DeployFollows` is the operator who runs the deploy, or its dry run, that the verify was
about: everything is read and asked again, over whatever has been published since. `foreseen` keeps what the verify
found and said (history). The checkout and the environment are taken to stay as they are in between.

### ComposeUp and the code

`at` is where `ShellAdapter.Up` is: `composing` while the child runs, `first` and `second` at the
health checks, `pause` between them.

| Step | Actions | Code |
|---|---|---|
| `idle` | `Start` | the options and the command; under a cancelled context none is run |
| `composing` | `Replace`, `StartFails`, `ComposeExitsZero`, `ComposeExitsNonZero`, `ComposeKilled` | `docker compose up -d --wait` and its exit status, or its end by `exec.CommandContext` |
| `first` | `FirstCheck`, `PsFails` | `ps` and `AllServicesHealthy`; returns unless Compose had failed and all looks well |
| `pause` | `PauseEnds`, `PauseCancelled` | the `select` on the timer and the context |
| `second` | `SecondCheck`, `PsFails` | the second check decides |

The containers go their own way in `Probed`, `Finishes`, `Crashes` and `Restarted`, at every
step of the call. `LooksHealthy` is the switch of `AllServicesHealthy`, which looks at every
container of the project (`Listed`), the ones the call does not concern included, and does not look
for the ones it does. `died` and `paused` are history: which containers crashed after Compose had
failed and before the pause was over, whether or not Docker started them again. `--wait` is always given, for
`deploy.wait_timeout` has a default. `--no-deps` is never given (`shell.go:214-232`), so Compose may start or recreate
dependencies of the services it is asked for; `Replace` and `StartFails` are about the services of the scope only, and
a dependency is a neighbour here, whose container comes and goes on its own.

### Files and the code

| Step | Actions | Code |
|---|---|---|
| `start`, `loaded` | `LoadSnapshot`, `LoadOlder`, `Acquire` | `LoadSnapshot` with the file of a hint or another; the lock of the environment |
| `capture`, `pre` | `Capture`, `Empty`, `Fill`, `WriteFails` | `CaptureSnapshot` stamps, `Snapshot.Write` writes |
| `deploying`, `plan` | `EndsEarly`, `StartsRollback` | the rest of a deploy up to `maybeRollback`; the plan of `c2quay rollback` |
| `override`, `up`, `report` | `Empty`, `Fill`, `WriteFails`, `UpStarts`, `ComposeReads`, `UpReturns` | `ExecuteRollback`: override, `up`, report; a dry run leaves a report only |

`stamp` holds the second each file of a command is named by. `Empty` and `Fill` are the two halves of
`os.WriteFile`, and two commands that write one file at a time may leave it in a state nobody
wrote. `Tick` is the clock. `follows` and `ioError` are history.

### BrokerClient and the code

`at` is what `Client.do` is about to do (send, await, back off) and `stage` which
request of the call it does it for: the GET of the pacticipant-version resource or the POST.
`Start` picks the stage as the index has the direct link or the link to the
resource; `RelationMissing` is an index with neither. `RetryOrFail` is the loop's bound,
and every way an attempt can end has its action (`Posted`, `ToldLater`, `Refused`, `BodyLost`,
`Unreachable`, `GiveUp`), classified as `isRetryable` does. `wire` holds the posts that
were sent and not served; `Serve` applies one or does not, and answers. With `LateDelivery` a post
stays in `wire` after its attempt was given up. `calls` serves the bound.

### What is abstracted

- A version stands for the release identity of a service and for the image that
  carries it. A service stands for its pacticipant.
- In `Deploy` the broker's verdict is computed at one instant, from complete rows: the
  matrix has a row for every pair of deployed partners. `Gate` takes this apart: it needs
  the rows to be complete (`RowsComplete`), and results not to be retracted.
- In `Deploy` attempts, backoff and HAL resolution are inside one call, whose failure
  may have taken effect. `BrokerClient` takes this apart: it needs attempts not to
  outlive their call (`LateDelivery = FALSE`).
- The broker's answers are of three kinds: 2xx, 429 or 5xx, and any other 4xx. An
  attempt told to come later may have taken effect; a refused one has not. How long a
  pause is does not matter, only that it ends.
- An I/O error on the lock file is the same exit as a held lock.
- The health checks of `Up` are summed up in `SeemsApplied`: with `StaleMask` the
  containers `up` has not replaced look healthy, which is what `ps` shows of the
  previous release's containers; without it only replaced containers do.
- The cancellation of a rollback's own context (a watcher goroutine) is covered by
  `RollbackEnds` being able to fail at any time.
- The post-snapshot after recording changes no outcome. `--force-recreate` has no
  visible effect on which versions run.
- `Files` says of a file who wrote it last and whether it is whole, not what is in it; what
  a deploy does between its pre-snapshot and its end is in `Deploy`.
- A release identity read from a manifest file or from git is not tied to the image: that the
  recorded version is the version that runs is, for these strategies, an assumption about the checkout.

## 3. What the runs check

The runs of the pipeline use `MCDeploy`: services 1 and 2, versions `v1` and `v2`, with every pair
verified but (service 1 at `v1`, service 2 at `v2`). This is the smallest instance in
which releasing a service alone can be wrong although releasing both is right.

| Run | Instance | Shows |
|---|---|---|
| `contention` | two invocations of one `all_or_nothing` environment, any scope, pull, signals, kills, one edit, coherent or torn start | `TypeOK`, `LockHeld`, `OneComposeRun`, `VerdictStillHolds`, `VerifiedTogether`, `ReportedRecordsShown`, `HintTrue`, `ImplementsProtocol` |
| `compose` | `Host`: two deploys, each of both services or of the first alone, and a rollback command, signals, one edit, auto-rollback on, honest health checks | `RecordsOnlyWhatRuns`, `RollbackReportTrue`, `RestoreTrue`, `HostImplementsProtocol` |
| `termination` | `Host`: two deploys of a per-service environment with a `gate_only` service and a rollback command, pull, every combination of `--dry-run`, `--auto-rollback` and `--service` that makes a difference, masked failures, signals, kills | `HostTypeOK`, `OneComposeRunOnHost`, `EveryRunEnds`, `EveryRestoreEnds` |
| `gates` | a deploy, a dry run, or a verify and the deploy or dry run after it, of three services, each a partner of the others, of which service 2 was verified with some partners only; any scope, with and without `all_or_nothing`, two goroutines at a time, results published at any time, Compose files that are complete or not, and can be read or not, anew for each command | `TypeOK`, `PassedIsDue`, `NoFalseAlarm`, `VerifyForesees`, `EveryGateEnds` |
| `calls` | two calls for any two versions, three attempts per request, every answer and loss, a context cancelled at any time | `TypeOK`, `ImplementsRecordCall`, `EveryCallReturns` |
| `compose_up` | one `up` of any of three services: an init job, one that Docker restarts, one that it does not; any containers before it, a context cancelled at any time, Compose without `Strands` | `TypeOK`, `CrashNotMasked`, `CancelledIsNotSuccess`, `CancelledUpReturns`, `UpReturns`, `ImplementsComposeRun` |
| `files` | a deploy and a `c2quay rollback` of one environment and a deploy of another in one checkout, over two seconds, with kills and failing writes | `TypeOK`, `OverrideIsOwn`, `AuditTrail`, `HintLeadsBack` |
| `masked_up`, `rollback_images`, `lost_answer`, `gate_only_rollback` | one invocation | the findings of section 4 |
| `missing_row` | `gates` with one pact fewer | a finding |

The properties, in words:

- `LockHeld`: between its first and last step an invocation holds its environment's lock, and whoever waits or is gone does not.
- `OneComposeRun`: two `up`s of one environment overlap only if one has outlived its killed c2quay.
- `VerdictStillHolds`: from the gate to the first post, the broker would still give the gate the same answer.
- `VerifiedTogether`: the deployed versions of an `all_or_nothing` environment are pairwise verified, except after a recording that was itemized as partial and while one is under way.
- `ReportedRecordsShown`: what a run lists as recorded is what the broker shows.
- `HintTrue`: when a run ends in a failure, the hint's advice is right: "record again" only when every service has a result, something is unrecorded, and the broker would pass the gate of that repetition; otherwise nothing was posted.
- `ImplementsProtocol`: the pipeline refines `ReleaseProtocol`. The mapping places the abstract clearance where the pipeline *turns to recording*, long after the gate was asked; that this is possible is the point.
- `HostImplementsProtocol`: deploys and rollback commands together refine `ReleaseProtocol`; a rollback command is in its environment without ever being cleared.
- `RecordsOnlyWhatRuns`: a version is recorded only while the service runs it, as long as nobody edited the service's files meanwhile.
- `RollbackReportTrue`: after a rollback reported as successful the services of its plan run the plan's images.
- `RestoreTrue`: a rollback command that ends in success leaves the services of its plan at the images of the snapshot, whatever deploys did between its reading the file and its taking the lock.
- `OneComposeRunOnHost`: `OneComposeRun` for deploys, their compensations and rollback commands together.
- `EveryRestoreEnds`: every rollback command ends, its lock released.
- `EveryRunEnds`: every invocation ends, its lock released.
- `PassedIsDue`: if the gate passed, the verdict over the whole scope holds now.
- `NoFalseAlarm`: a release that was due when the gate was asked, and in a set has a row for each candidate, is not blocked (it may end in an error).
- `VerifyForesees`: after a verify that passed, the deploy or dry run that follows is not blocked, and no service turns out to be missing from Compose unless verify could not read the Compose files; after a verify that found one missing no deploy passes its gate. That the deploy ends in an error is not excluded: where verify goes on without the Compose files a deploy does not (ADR 0013, Verify parity), and any query may fail.
- `EveryGateEnds`, `EveryCallReturns`: goroutines, attempts and pauses come to an end.
- `CrashNotMasked`: when Compose failed and `up` succeeds all the same, every container of the project that crashed between the end of Compose and the end of the pause is one Docker starts again. (What crashes and stays dead keeps `up` from its success; a container in a crash loop need not, see section 4.)
- `CancelledIsNotSuccess`: once the context is cancelled, `up` does not succeed.
- `CancelledUpReturns`: a cancelled `up` returns, even if docker hangs.
- `UpReturns`: as long as docker answers, an `up` returns.
- `ImplementsComposeRun`: an `up` is a Compose run as `Deploy` has it: success means that nothing was left to replace.
- `OverrideIsOwn`: the override a rollback's Compose reads is the one its c2quay wrote, all of it, unless another environment's rollback began within the same second.
- `AuditTrail`: a rollback that came to its end has left its own report, unless the disk failed or another began within that second.
- `HintLeadsBack`: the snapshot that a rollback started from a hint loads is of the deploy that failed, or of one that captured its own within the same second.
- `ImplementsRecordCall`: the broker shows a version only because of a call that is under way, and a call that returns success leaves its version shown.

**Bounds.** Two invocations: every interference is between one that is in the
pipeline and another that is or was; a third only repeats it. One rollback command beside
them: it never reads what another one wrote. In `compose` two snapshots of earlier deploys lie on the disk, one that
was not rendered and one with another image of one service; in `termination`, where it does not matter what is restored,
the first. A deploy of service 2 alone, which the gate blocks before
the first is at `v2`, is left to `contention`. `contention` and `compose` use the symmetry of
their two deploys, which differ in no constant: the properties of these runs are invariants and step properties
that treat them alike. `RollbackImages` is compared with the same rendered
files as in a deploy, so it restores something when these could not be rendered, or were edited since. Each invocation runs
once. `MaxEdits = 1` edit: one suffices to make the files differ from the plan, and
a second only selects another difference. Two services give a recording its
"some but not all", and an `up` its "part of the way".

For the gate, three services are the fewest with `Limit = 2` below their number (the code's
limit is 4), and the fewest in which a candidate without a row for one partner has
a row for another. For the client, the attempts are the code's three, and two calls
show what one leaves behind for the next.

For `up`, a container is one of three kinds: it ends by itself, Docker restarts it, or neither;
one of each, and every subset of them deployed, gives each kind as what is deployed and as a
neighbour. For the files, two commands of one environment (one that a lock orders) and
one of another (one that it does not), and two seconds: what matters of two commands is whether their
seconds are the same.

**What stays outside a run.** `RecordsOnlyWhatRuns`, `RollbackReportTrue` and `RestoreTrue` are checked without
kills: with them they do not hold, because an orphaned Compose process can replace
a container between a later invocation's `up` and its recording. c2quay cannot know of
it; `OneComposeRun` names this exception. Nor do they hold of two environments over one Compose project, or
when masked failures are considered. What each of these may do, and that nothing else can make the three
properties untrue, is proved and not run (section 5).

**Fairness.** `FairSpec` requires that an invocation that can take a step takes one
(`WF_vars(Step(p))`), and nothing of the operator, the containers or the orphans. The
code justifies it by its timeouts: HTTP attempts have one each and are at most three,
`up` has `--wait-timeout`, the smoke command and the rollback have a deadline. `ps`,
`pull` and `config` have none: that these return is an assumption, and a hanging
docker daemon is listed under "hazards". Fairness of the whole `Step(p)` does not
force success: a step that fails is always an alternative. `FairHostSpec` is fair to
each deploy (`Deploys(p)`) and each rollback command (`Restores(r)`) in the same way; a
rollback command's `up` has a timeout, its `config` has none.

`Gate` and `BrokerClient` have one fair process each, the gate and the client: a goroutine
waits for nothing but its call, and an attempt is ended by an answer or by the timeout
`http.Client` gives it (`Unreachable` is possible whether or not the broker does
anything). Broker, builds and signals are not fair.

`ComposeUp` is fair to what ends without docker's help (`Unaided`): a killed child, the timer
of the pause, and a `ps` under a cancelled context. It is not
fair to docker, so `CancelledUpReturns` covers a daemon that hangs; `UpReturns` takes the
fairness of docker as its hypothesis, and `--wait-timeout` is what justifies it.

`CHECK_DEADLOCK` is on in the runs of `Deploy`, `Host`, `Gate` and `BrokerClient`: the only state with
nothing left to do is the one in which every invocation (the gate, every call) has ended, and
`Terminated` names it. An `up` that returned over containers that are all at rest, and commands that
are all over at the end of the clock, have nothing left to do either: `compose_up`
and `files` are run without it.

## 4. Findings

- **`masked_up`**. A failed `up` that replaced nothing is overridden by two health checks
  that look at the previous release's containers, and the version that never started is recorded
  (`shell.go:255`, against ADR 0004). The same masking makes a failed rollback
  `up` a reported success.
- **`rollback_images`**. The pre-snapshot takes its images from the Compose files, which
  already name the new release (`snapshot.go:67`, against README and ADR 0006), so the
  auto-rollback finds nothing to do.
- **`lost_answer`**. A failed record-deployment may have taken effect; the hint says the broker
  still shows the previous version (`rollback_hint.go:124`).
- **`gate_only_rollback`**. A rollback plan made from an unrendered post-snapshot
  includes `gate_only` services (`rollback.go:144`, against ADR 0013).

- **`missing_row`**. The aggregate gate reads the rows and ignores the broker's summary. Two candidates whose
  pair has no row pass if each has a good row with another partner (`pipeline.go:91`,
  against ADR 0009).

Further disagreements, seen while modelling and not exhibited by a run:

- `client.go:179` says network-level errors are retried; an error while the body of an answer is read
  is returned without the type `isRetryable` looks for (`client.go:264`), so it is not. `BodyLost` follows the
  code.
- `client.go:190` calls repeating a record-deployment a no-op. It is one only while nothing else is
  recorded in between: an attempt given up and served late marks an older version as deployed
  again. `ImplementsRecordCall` is claimed without late delivery.
- The report of a rollback is written before its `FinishedAt` and `Duration` are set, so both are zero in the
  file; a rollback that is skipped leaves no report though `rollback.go:88` says it is written.
- ADR 0006 says "Every rollback writes" its three files. The files of two rollbacks of one checkout
  that begin in one second are the same files; the exceptions in `OverrideIsOwn`, `AuditTrail` and
  `HintLeadsBack` are needed, and TLC finds each of them when it is left out.
- The pre-snapshot is captured with an empty map of releases (`deploy.go:202`), so the hint's "was"
  is "(none)" for every service, and its list of services not yet replaced is empty.
- The health check asks whether what `ps` lists is healthy, not whether the requested services are
  listed; and a container in a crash loop can be up at both checks, before a crash and after a restart, although
  README.md:155 has the second check guard "against a transient healthy blip or a container that crashes moments later".
  `CrashNotMasked` excepts it: without `Restarting` in it TLC finds such an `up`.
- The configuration accepts two services with the same pacticipant.

## 5. What is proved

For all services (integers, at least one), versions, sets of verified pairs, invocations,
environments, settings and options, under the assumptions `MatrixAssumption` and
`DeployAssumption`, and for all snapshots of earlier deploys under `HostAssumption`; for all pacts, candidates, views and limits under `GateAssumption`; for all
versions and numbers of attempts and calls under `ClientAssumption`; for all services, init jobs and
restart policies under `UpAssumption`; for all commands, environments and clocks under
`FilesAssumption`:

| Theorem | States |
|---|---|
| `TypeCorrect` | `Spec => []TypeOK` |
| `LockCorrect` | `Spec => []LockHeld` |
| `OneComposeRunCorrect` | `Spec => []OneComposeRun` |
| `RollbackRepeatsRelease` | if nobody edits the files (`[][UNCHANGED head]_vars`), an auto-rollback's plan lists only images of the release it is to undo (`RepeatsRelease`) |
| `UneditedRollbackRepeats` | `Spec => []RepeatsRelease`, if `MaxEdits = 0` |
| `GateOnlyCorrect` | `Spec => []GateOnlyUntouched`, if no invocation has `--auto-rollback on` (`NeverRollsBack`) or no `gate_only` service is in the Compose files (`NotInFiles`) |
| `DeployRunsDown` | `Step(p)` lowers `Left(p)`, and nothing raises it, if `Services` is finite |
| `GateKeepsCoherence` | a release the gate cleared leaves a coherent view coherent, and a complete release makes any view coherent |
| `VerdictCorrect` | `Spec => []VerdictStillHolds` |
| `VerifiedTogetherCorrect` | `Spec => []VerifiedTogether` |
| `ReportedRecordsCorrect` | `Spec => []ReportedRecordsShown` |
| `HintCorrect` | `Spec => []HintTrue` |
| `DeployImplementsProtocol` | `Spec => ImplementsProtocol` |
| `HostTypeCorrect` | `HostSpec => []HostTypeOK` |
| `HostLockCorrect` | `HostSpec => []HostLockHeld` |
| `HostComposeCorrect` | `HostSpec => []OneComposeRunOnHost` |
| `HostReleaseCorrect` | `HostSpec => [](VerifiedTogether /\ VerdictStillHolds)` |
| `HostReportCorrect` | `HostSpec => [](ReportedRecordsShown /\ HintTrue)` |
| `HostImplementsProtocolCorrect` | `HostSpec => HostImplementsProtocol` |
| `RollbackReportHolds` | `HostSpec /\ [][Apart /\ Candid]_hostVars => []RollbackReportTrue` |
| `RestoreHolds` | `HostSpec /\ [][Apart /\ Candid]_hostVars => []RestoreTrue` |
| `RecordsHold` | `HostSpec /\ [][Apart /\ Candid /\ NoEditBack]_hostVars => RecordsOnlyWhatRuns` |
| `LockKeepsApart` | `HostSpec => [][Apart]_hostVars`, if nobody is killed and there is one environment |
| `NothingMasked` | `HostSpec => [][Candid]_hostVars`, if `~ StaleMask` |
| `OneEditTakesNothingBack` | `HostSpec => [][NoEditBack]_hostVars`, if `MaxEdits <= 1` |
| `RollbackReportCorrect`, `RestoreCorrect`, `RecordsCorrect` | the three properties from the settings alone: `Undisturbed`, the last also with `MaxEdits <= 1` |
| `HostGateOnlyCorrect` | `HostSpec => []GateOnlyUntouched`, and the same of rollback commands, if `NotInFiles` and no earlier snapshot lists what the files do not declare |
| `HostRollbackRepeats` | `HostSpec /\ [][UNCHANGED head]_hostVars => []RepeatsRelease` |
| `HostRunsDown` | `Deploys(p)` lowers `Left(p)`, `Restores(r)` lowers `LeftOf(r)`, and nothing raises either, if `Services` is finite |
| `GateTypeCorrect` | `Spec => []TypeOK` of `Gate` |
| `PassedExactly` | `Spec => [](outcome = "passed" => (Due <=> (Aggregated => NoRowMissing)))` |
| `PassedCorrect` | `Spec => []PassedIsDue`, if `RowsComplete` |
| `NoFalseAlarmCorrect` | `Spec => NoFalseAlarm` |
| `VerifyCorrect` | `Spec => []VerifyForesees` |
| `GateRunsDown` | `Step` lowers `GateLeft`, and nothing but the next command changes it |
| `ClientTypeCorrect` | `Spec => []TypeOK` of `BrokerClient` |
| `OnTimeImplementsRecordCall` | `Spec /\ [][OnTime]_vars => ImplementsRecordCall` |
| `ClientImplementsRecordCall` | `Spec => ImplementsRecordCall`, if `~ LateDelivery` |
| `ClientRunsDown` | `Client` lowers `ClientLeft`, at most `6 * MaxAttempts`, and nothing raises it within a call |
| `UpTypeCorrect` | `Spec => []TypeOK` of `ComposeUp` |
| `CrashNotMaskedCorrect` | `Spec => []CrashNotMasked` |
| `CancelledCorrect` | `Spec => CancelledIsNotSuccess` |
| `UpImplementsComposeRun` | `Spec => ImplementsComposeRun` |
| `UpRunsDown` | `CallStep` lowers `UpLeft`, and nothing else changes it, if `Services` is finite |
| `FilesTypeCorrect` | `Spec => []TypeOK` of `Files` |
| `OverrideCorrect` | `Spec => []OverrideIsOwn` |
| `AuditTrailCorrect` | `Spec => []AuditTrail` |
| `HintLeadsBackCorrect` | `Spec => []HintLeadsBack` |

The argument. `LockHeld` is inductive with `TypeOK`, and gives mutual exclusion: two
invocations of one environment that are both past the lock are one. Each step is of one
invocation (`StepIsLocal`) and touches the broker only in the environment it holds.

`VerdictStillHolds` and `VerifiedTogether` are not inductive: that a verdict survives
the posts of *this* invocation needs to know which services were posted, and that a finished recording
leaves a coherent view needs to know that the view differs from the gated one exactly in
the services recorded. `ReleaseInv` adds what is missing, one named part each: posts come
only once recording has begun (`PostsLast`), concern the scope and only the scope
(`PostsScope`, `PlansScope`), and carry the planned versions (`RecordsPlan`); the verdict is
true of the broker's view with this run's own posts taken back (`VerdictHolds`); and
once everything is recorded the view is the gated one (`Destined`, `Arrived`).
`GateKeepsCoherence` is the step from verdict to coherence, a fact about the
matrix alone.

`HintTrue` adds two things to `ReleaseInv`: that nothing has failed or is rolled back before the step that
fails, and that a rollback comes of a step before recording, so that whoever is told that
nothing was recorded posted nothing; and that a verdict outlives the run's own posts (`GateAnswersAgain`, a
fact about the matrix), so that after a partial recording the same gate passes again.

The refinement theorem uses `ReleaseInv` where the mapping places an abstract `Clear`:
the step to recording is an abstract `Clear` because `VerdictHolds` says that the verdict
holds *then*; every other step is an abstract step of its own or a stutter.

A step of `Host` is a step of one deploy, a step of its environment, or a step of one rollback
command, which is a stutter of everything `ReleaseInv` speaks of except the lock; and it takes only a
lock that is free and frees only its own. Hence `HostLockHeld` is inductive with `HostTypeOK`
and `OneComposeRunOnHost` follows from it as before, and `ReleaseInv` is
preserved by the deploys' steps by the same lemmas as in `ReleaseProofs`.

`HostImplementsProtocol` maps a rollback command to a participant that enters and leaves and is never
cleared. The steps of the deploys map as in `ProtocolProofs`; that a rollback command's enter and
leave are the protocol's, with its one holder, is `HostLockHeld`.

What the containers run is not in any of these invariants, and it is not up to c2quay alone. `Host` names what
a step may do to make the three properties about containers untrue:

- `Apart` is what a step must not do to containers: replace one for a command while *another* is past its
  lock. An orphaned Compose process at work beside a later command does this, and so do two environments over
  one Compose project, whose locks are two.
- `Candid` is what the adapter must not do: take an `up` that left something undone for a success (the
  finding `masked_up`).
- `NoEditBack` is what an operator must not do: edit a file so that it names again what a release in
  progress has planned. `RecordsOnlyWhatRuns` tells an edited service by its files, and an edit that is
  taken back after `up` has read it leaves the files as planned and the containers not.

The theorems `RollbackReportHolds`, `RestoreHolds` and `RecordsHold` say that these are all: kills, any number of environments,
edits, signals and failures are harmless as long as each step meets the conditions. They are conditions on steps and
not settings, so they exclude the harmful step and not the kill before it. None of them can
be left out: without `Apart` TLC refutes `RestoreTrue`, without `Candid` `RollbackReportTrue`, and without
`NoEditBack` `RecordsOnlyWhatRuns`, on the instance of `compose` with `StaleMask`, kills and two edits. The invariant is
`ContainerInv`: what the `up` of whoever is past the lock was to bring up is up already or still to come (`Applies`),
so that an `up` that leaves nothing to come has brought up all of it. This is what a compensation and a
rollback command report (`RollsBack`, `Undoes`). For a deploy it is what the files said when `up` began
(`BringsUp`), and that is the plan for the services nobody edited. `LockKeepsApart`, `NothingMasked` and `OneEditTakesNothingBack`
then derive the conditions from settings: without kills every Compose run belongs to a living command
past its lock (`Alive`, `ComposeInv`), and there is one such.

Two theorems are about findings. `RollbackRepeatsRelease`: the pre-snapshot's image map is what the files name, so with files nobody
edits it is what the release itself brings up (`SameFiles`); `rollback_images` shows one such run, the theorem that
there is no other kind, whatever the flags and failures. `GateOnlyCorrect`: Compose gets at a `gate_only` service
only through a rollback plan, and only if the rendered files list the service (`KeepsOff`); the two alternatives of its assumption are the
two ways to keep ADR 0013's promise with the code as it is. With rollback commands beside the deploys only the second is one
(`HostGateOnlyCorrect`), for these bring up whatever a snapshot lists.

Termination. That a run ends is liveness and is not proved; that it cannot go on for ever is. `Left(p)` weighs the step an
invocation is at and, within recording, the services that have no result yet. `LeftOf(r)` is the same for a rollback
command, `ClientLeft` for a call with its attempts and pauses, `GateLeft` for goroutines to start, answers and
results, `UpLeft` for the checks of an `up` and the containers Compose has still to replace. Each step of the process lowers its
measure, and nothing else raises it: no signal, kill or edit, no other command, no published
result (`DeployFollows` is another command, which begins anew), no container that crashes and is restarted for ever. What remains for
fairness is that a process which can take a step takes one.

`PassedExactly` rests on an invariant that ties every stored answer to the verdict: an answer
"pass" means that its service is cleared now, which publications cannot undo; if every pair of a candidate and a
partner in the resulting view has a row or needs none (`NoRowMissing`), the services' verdicts together are the verdict of
the set, and a pair that needs a row and has none is not verified. So the missing row of `missing_row` is the only way to a release
that is not due, and always one. `NoFalseAlarmCorrect` is about a
condition on the initial state: a set that is due stays due (`DueStays`), so no answer and no row says "block"
(`DueRows`), and of services that failed only, the first in the plan is one that failed. That there is a first
one (`FirstOfAny`) is where the finiteness of `Services` enters.
`VerifyCorrect` carries what a verify found over to the next command (`Foreseen`): a verify that passed leaves
every service `Clear`, cleared against the view if services are asked about one by one and with verified rows only
if the set is; publications leave it so (`ClearStays`), so the deploy's own answers contain no "block". What was
found of Compose was so (`AsFound`), and still is.
`OnTimeImplementsRecordCall` supposes that the broker serves no post of a call that is over (`OnTime`); a post
its attempt gave up on may still be served while the call goes on, for it carries the call's own version (`OwnPosts`). The other fact is
that an answer "done" in stage "post" means that the broker shows the version of the call (`AnswerTrue`).
Without `OnTime` TLC refutes the refinement. A network that drops what was given up on meets it (`NothingLate`), since then only the
attempt that is awaited is on the wire (`NoStrangers`).

`CrashNotMaskedCorrect` and `UpImplementsComposeRun` follow the call from the exit status to the verdict: a
success was looked at by `AllServicesHealthy` in its last step; what crashed and is not restarted stays dead until
then (`DeadUntilChecked`), and after a failed exit that look comes after the pause (`CrashShows`); and what Compose left
outdated is in sight of it as a container that did not start (`LeftoverShows`). The last is where `Strands` enters.

In `Files` the invariant follows one file from its stamp to its reader: the override of a rollback
that has come to its `up` is its own and whole, unless a rollback that does not hold
the same lock has the same stamp; a lock is held by whoever is past it (`LockHeld`); a file has its
name before it is written and keeps it (`Stamped`); and a pre-snapshot is of a deploy that captured
it in the second of its name (`OfItsSecond`).

The implications above need a condition on steps where the settings do not rule the harmful step out; each is stated as
`Spec /\ [][condition]_vars`, and has a theorem beside it that derives the condition from settings the runs use, so
none of them is vacuous.

Only model-checked: `EveryRunEnds`, `EveryRestoreEnds`, `EveryGateEnds`, `EveryCallReturns`, `CancelledUpReturns`
and `UpReturns`, for fairness and what is enabled are beyond the prover: the measures are proved. Every safety property of a passing run is
a theorem, some under the conditions the table names.

## 6. Plan

Done: the pipeline with its lock, gate, Compose runs, recording, rollback and hint; the manual rollback
beside it; the gate's goroutines and rows, for deploys and for verify; the record-deployment call; the
`up` with its health checks; the files commands leave to each other. Next, in the order of importance:

1. Two environments over one Compose project in a run of `Host`, with `Apart` as the line between what the locks, one
   each, keep apart and what they do not.
2. A pipeline that takes its images from the containers, as ADR 0006 has it: which of the findings' theorems
   then turn into the properties the documentation states.
3. Pure definitions: digest and option syntax of `versioning`, template expansion of links, the verdicts of
   `doctor`, the validation of the configuration.

## 7. Not modelled

Formatting, logging and output, `init`, `version`, `status`: they change nothing. The
configuration is a constant of the models, and is not derived from the rules by which it is
validated. `doctor` only reads. Verification results
that are retracted, services whose containers are not listed by `ps` when the health check
looks, dependencies that Compose starts along with the services it was asked for, the quoting of the override's YAML, and the contents of snapshot and report files
beyond what a later step reads. Of the broker client, the queries are one step each in
`Deploy` and `Gate`, without the attempts that `BrokerClient` has for recording.

## Running

`tlc -config Contention.cfg MCDeploy.tla` checks a run (`PROJECT.json` names the module of each), `tlapm
ProtocolProofs.tla` a module's proofs (`ProtocolProofs` and `HostProofs` extend `ReleaseProofs`, and
that `DeployProofs`).
