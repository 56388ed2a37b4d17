-------------------------------- MODULE ComposeUp --------------------------------
(***************************************************************************)
(* internal/composeadapter: one call of ShellAdapter.Up.                   *)
(*                                                                         *)
(* Up runs `docker compose up -d --wait` and then judges by what `ps` says *)
(* of every container of the project, once when Compose exited 0, twice    *)
(* with a pause in between when it did not (docker/compose#10596).         *)
(* Meanwhile containers become healthy or not, crash, and are restarted by *)
(* Docker; the docker command may hang until it is killed, which happens   *)
(* when the context is cancelled.                                          *)
(***************************************************************************)
EXTENDS Naturals

CONSTANTS
  Services,    \* the services that have or will have a container in the project
  InitJobs,    \* the services whose container exits when its work is done
  Restarting,  \* the services whose container Docker starts again
  Strands      \* a failing Compose may leave a container it did not come to

ASSUME UpAssumption ==
  /\ InitJobs \subseteq Services
  /\ Restarting \subseteq Services
  /\ Strands \in BOOLEAN

VARIABLES
  container,  \* per service, the container `ps --all` lists
  scope,      \* UpOptions.Services
  at,         \* where Up is
  exit,       \* the exit status of `docker compose up`
  verdict,    \* what Up returned
  cancelled,  \* the context was cancelled
  paused,     \* the pause between the checks is over (history)
  died        \* the services whose container crashed after Compose had
              \* failed and before that (history)

call == <<scope, at, exit, verdict>>
seen == <<paused, died>>
vars == <<container, call, cancelled, seen>>

(***************************************************************************)
(* The part of a ContainerStatus that is looked at, and whether the        *)
(* container is of the release to be brought up.  A container that was     *)
(* created and could not be started is "created".                          *)
(***************************************************************************)
Container(new, state, health, code) ==
  [new |-> new, state |-> state, health |-> health, code |-> code]

Absent == Container(FALSE, "absent", "", 0)

Healths == {"", "starting", "healthy", "unhealthy"}

Containers ==
  {c \in [new : BOOLEAN, state : {"absent", "running", "exited", "created"},
          health : Healths, code : {0, 1}] :
     /\ c.state # "running" => c.health = ""
     /\ c.state # "exited" => c.code = 0
     /\ c.state = "absent" => ~ c.new}

Listed == {s \in Services : container[s] # Absent}
Unstarted == {s \in Services : container[s].state = "created"}
Outdated == {s \in scope : ~ container[s].new \/ s \in Unstarted}

\* Mutant: a state that is not known does no harm.
UnknownIsFine(c) ==
  \/ c.state = "running" /\ c.health \in {"", "none", "healthy"}
  \/ c.state = "exited" /\ c.code = 0
  \/ c.state \notin {"running", "exited"}

\* The cases of the switch in AllServicesHealthy that do not return.
LooksHealthy(c) ==
  \/ c.state = "running" /\ c.health \in {"", "none", "healthy"}
  \/ c.state = "exited" /\ c.code = 0

AllServicesHealthy == Listed # {} /\ \A s \in Listed : LooksHealthy(container[s])

Become(s, c) == container' = [container EXCEPT ![s] = c]

\* Mutant: Up hands on what Compose returned.
ReturnExit(result) ==
  /\ at' = "returned"
  /\ verdict' = exit

Return(result) ==
  /\ at' = "returned"
  /\ verdict' = result

Init ==
  /\ container \in [Services -> {c \in Containers : ~ c.new} \cup
                                {Container(TRUE, "running", "healthy", 0)}]
  /\ scope = {}
  /\ at = "idle"
  /\ exit = "none"
  /\ verdict = "none"
  /\ cancelled = FALSE
  /\ paused = FALSE /\ died = {}

\* No command is run under a context that is cancelled already.
Start(services) ==
  /\ at = "idle"
  /\ scope' = services
  /\ IF cancelled
     THEN at' = "first" /\ exit' = "failed"
     ELSE at' = "composing" /\ UNCHANGED exit
  /\ UNCHANGED <<container, verdict, cancelled, seen>>

-------------------------------------------------------------------------------
\* Docker Compose.

\* The new container takes the place of the old one.
Replace(s) ==
  /\ at = "composing"
  /\ s \in scope
  /\ ~ container[s].new
  /\ \E health \in {"", "starting"} : Become(s, Container(TRUE, "running", health, 0))
  /\ UNCHANGED <<call, cancelled, seen>>

\* It was created, and its start failed.
StartFails(s) ==
  /\ at = "composing"
  /\ s \in scope
  /\ ~ container[s].new
  /\ Become(s, Container(TRUE, "created", "", 0))
  /\ UNCHANGED <<call, cancelled, seen>>

\* --wait: whatever it was asked to bring up is up, for a moment at least.
ComposeExitsZero ==
  /\ at = "composing"
  /\ Outdated = {}
  /\ \A s \in scope : LooksHealthy(container[s])
  /\ exit' = "zero"
  /\ at' = "first"
  /\ UNCHANGED <<container, scope, verdict, cancelled, seen>>

(***************************************************************************)
(* A failure, the end of --wait-timeout, or a false alarm.  Unless         *)
(* Strands, what was not replaced was left to a container that did not     *)
(* start.                                                                  *)
(***************************************************************************)
ComposeExitsNonZero ==
  /\ at = "composing"
  /\ Strands \/ Outdated = {} \/ Unstarted # {}
  /\ exit' = "failed"
  /\ at' = "first"
  /\ UNCHANGED <<container, scope, verdict, cancelled, seen>>

\* Mutant: the process was started without the context.
ComposeOutlives == at = "composing" /\ cancelled /\ ComposeExitsZero

\* exec.CommandContext kills the process it waits for.
ComposeKilled ==
  /\ at = "composing"
  /\ cancelled
  /\ exit' = "failed"
  /\ at' = "first"
  /\ UNCHANGED <<container, scope, verdict, cancelled, seen>>

-------------------------------------------------------------------------------
\* The health checks.

\* Mutant: one check that shows everything healthy is enough.
OneCheckIsEnough ==
  /\ at = "first"
  /\ ~ cancelled
  /\ Return(IF AllServicesHealthy THEN "ok" ELSE "failed")
  /\ UNCHANGED <<container, scope, exit, cancelled, seen>>

FirstCheck ==
  /\ at = "first"
  /\ ~ cancelled
  /\ IF AllServicesHealthy /\ exit # "zero"
     THEN at' = "pause" /\ UNCHANGED verdict
     ELSE Return(IF AllServicesHealthy THEN "ok" ELSE "failed")
  /\ UNCHANGED <<container, scope, exit, cancelled, seen>>

\* Mutant: a `ps` that fails after an exit status of 0 is let pass.
PsFailureIgnored ==
  /\ at \in {"first", "second"}
  /\ Return(IF exit = "zero" \/ at = "second" THEN "ok" ELSE "failed")
  /\ UNCHANGED <<container, scope, exit, cancelled, seen>>

\* `ps` fails, or what it prints cannot be decoded.
PsFails ==
  /\ at \in {"first", "second"}
  /\ Return("failed")
  /\ UNCHANGED <<container, scope, exit, cancelled, seen>>

\* Mutant: after the pause the checks begin anew.
PauseStartsAnew ==
  /\ at = "pause"
  /\ at' = "first"
  /\ UNCHANGED <<container, scope, exit, verdict, cancelled, seen>>

\* A context that is cancelled meanwhile need not be noticed before the timer.
PauseEnds ==
  /\ at = "pause"
  /\ at' = "second"
  /\ paused' = TRUE
  /\ UNCHANGED <<container, scope, exit, verdict, cancelled, died>>

PauseCancelled ==
  /\ at = "pause"
  /\ cancelled
  /\ Return("failed")
  /\ UNCHANGED <<container, scope, exit, cancelled, seen>>

SecondCheck ==
  /\ at = "second"
  /\ ~ cancelled
  /\ Return(IF AllServicesHealthy THEN "ok" ELSE "failed")
  /\ UNCHANGED <<container, scope, exit, cancelled, seen>>

-------------------------------------------------------------------------------
\* The containers, and the operator.

Probed(s) ==
  /\ container[s].state = "running"
  /\ container[s].health # ""
  /\ \E health \in {"healthy", "unhealthy"} :
       Become(s, [container[s] EXCEPT !.health = health])
  /\ UNCHANGED <<call, cancelled, seen>>

Finishes(s) ==
  /\ s \in InitJobs
  /\ container[s].state = "running"
  /\ Become(s, Container(container[s].new, "exited", "", 0))
  /\ UNCHANGED <<call, cancelled, seen>>

Crashes(s) ==
  /\ container[s].state = "running"
  /\ Become(s, Container(container[s].new, "exited", "", 1))
  /\ died' = IF exit = "failed" /\ ~ paused THEN died \cup {s} ELSE died
  /\ UNCHANGED <<call, cancelled, paused>>

Restarted(s) ==
  /\ s \in Restarting
  /\ container[s].state = "exited"
  /\ container[s].code # 0
  /\ \E health \in {"", "starting"} :
       Become(s, Container(container[s].new, "running", health, 0))
  /\ UNCHANGED <<call, cancelled, seen>>

Cancel ==
  /\ at # "returned"
  /\ ~ cancelled
  /\ cancelled' = TRUE
  /\ UNCHANGED <<container, call, seen>>

-------------------------------------------------------------------------------
\* What ends by itself, and what needs a docker that answers.
Unaided ==
  \/ ComposeKilled
  \/ PauseEnds
  \/ PauseCancelled
  \/ cancelled /\ PsFails

Docker ==
  \/ \E s \in Services : Replace(s) \/ StartFails(s)
  \/ ComposeExitsZero \/ ComposeExitsNonZero
  \/ FirstCheck \/ SecondCheck \/ PsFails

Next ==
  \/ \E services \in (SUBSET Services) \ {{}} : Start(services)
  \/ Docker
  \/ Unaided
  \/ \E s \in Services : Probed(s) \/ Finishes(s) \/ Crashes(s) \/ Restarted(s)
  \/ Cancel

Spec == Init /\ [][Next]_vars

FairSpec == Spec /\ WF_vars(Unaided)

-------------------------------------------------------------------------------
\* The declared domain of every variable.
TypeOK ==
  /\ container \in [Services -> Containers]
  /\ scope \subseteq Services
  /\ at \in {"idle", "composing", "first", "pause", "second", "returned"}
  /\ exit \in {"none", "zero", "failed"}
  /\ verdict \in {"none", "ok", "failed"}
  /\ cancelled \in BOOLEAN
  /\ paused \in BOOLEAN
  /\ died \subseteq Services

(***************************************************************************)
(* README: "a container that crashes moments later" keeps an Up whose      *)
(* Compose failed from its success.  Of such an Up that succeeded every    *)
(* container that crashed since Compose ended, of whatever service and     *)
(* though the first check saw it healthy, until the pause was over, is one *)
(* that Docker starts again.  Those are let pass: a container in a crash   *)
(* loop may be up at both checks.                                          *)
(***************************************************************************)
CrashNotMasked == verdict = "ok" /\ exit = "failed" => died \subseteq Restarting

Succeeds == verdict = "none" /\ verdict' = "ok"

(***************************************************************************)
(* shell.go: "the context being cancelled/expiring before the second check *)
(* [...] surfaces the original compose error instead of masking it".       *)
(***************************************************************************)
CancelledIsNotSuccess == [][cancelled => ~ Succeeds]_vars

\* Ctrl-C ends an Up whose docker hangs: nothing is waited for without the
\* context.
CancelledUpReturns == (cancelled /\ at # "idle") ~> (at = "returned")

\* As long as docker answers, Up returns without being cancelled.
UpReturns == WF_vars(Docker) => ((at # "idle") ~> (at = "returned"))

\* A call is what the pipeline takes it for.
Run == INSTANCE ComposeRun WITH
         left <- IF at = "returned" THEN {} ELSE Outdated,
         verdict <- IF at = "idle" THEN "none"
                    ELSE IF at = "returned" THEN verdict ELSE "running",
         StaleMask <- Strands
ImplementsComposeRun == Run!Spec
===============================================================================
