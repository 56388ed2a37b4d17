---------------------------- MODULE ComposeUpProofs ----------------------------
(***************************************************************************)
(* A call of Up is the call the pipeline takes it for, and its success is  *)
(* not over a dead container, for any services and any scope.              *)
(***************************************************************************)
EXTENDS ComposeUp, FiniteSetTheorems, TLAPS

\* The containers that replacements, probes and crashes leave are of the kinds
\* AllServicesHealthy tells apart.
LEMMA ContainerKinds ==
  ASSUME NEW new \in BOOLEAN
  PROVE  /\ \A health \in Healths : Container(new, "running", health, 0) \in Containers
         /\ \A code \in {0, 1} : Container(new, "exited", "", code) \in Containers
         /\ Container(new, "created", "", 0) \in Containers
BY DEF Containers, Container, Healths

LEMMA ProbedKind ==
  ASSUME NEW c \in Containers, c.state = "running", NEW health \in Healths,
         NEW d, d = [c EXCEPT !.health = health]
  PROVE  d \in Containers /\ d.new = c.new /\ d.state = "running"
BY DEF Containers

-------------------------------------------------------------------------------
\* Before the call no service is concerned by it.
NotCalledYet == at = "idle" => scope = {}

(***************************************************************************)
(* What crashed and is not restarted is dead for every check to come.  So  *)
(* a success that rests on the second one, which comes after the pause, is *)
(* over nothing that crashed but what Docker starts again.                 *)
(***************************************************************************)
DeadUntilChecked ==
  \A s \in died \ Restarting : container[s].state = "exited" /\ container[s].code = 1

CrashShows ==
  /\ at \in {"idle", "composing"} => exit = "none" /\ died = {}
  /\ at # "returned" => verdict = "none"
  /\ at = "second" => paused
  /\ at \in {"first", "pause", "second"} => DeadUntilChecked
  /\ verdict = "ok" /\ exit = "failed" => paused /\ died \subseteq Restarting

(***************************************************************************)
(* What the checks rest on: what Compose did not replace was left to a     *)
(* container that did not start, unless it was killed, or may strand one.  *)
(***************************************************************************)
LeftoverShows ==
  at \in {"first", "pause", "second"}
    => Strands \/ cancelled \/ Outdated = {} \/ Unstarted # {}

UpInv == TypeOK /\ NotCalledYet /\ CrashShows /\ LeftoverShows

LEMMA UpInit == Init => UpInv
<1> SUFFICES ASSUME Init PROVE UpInv
  OBVIOUS
<1>1. Container(TRUE, "running", "healthy", 0) \in Containers
  BY ContainerKinds DEF Healths
<1>2. container \in [Services -> Containers]
  BY <1>1 DEF Init
<1> QED BY <1>2 DEF Init, UpInv, TypeOK, NotCalledYet, CrashShows, LeftoverShows

\* A container that becomes another one, while Compose is at work or of its own.
LEMMA BecomeStep ==
  ASSUME UpInv, NEW s \in Services, NEW c \in Containers, Become(s, c),
         UNCHANGED call, UNCHANGED cancelled,
         UNCHANGED paused,
         died' = died \/ (died' = died \cup {s} /\ exit = "failed" /\ ~ paused),
         \/ at = "composing" \/ s \in Restarting
         \/ died' = died /\ container[s].state = "running"
         \/ c.state = "exited" /\ c.code = 1,
         at \in {"first", "pause", "second"}
           => c.new = container[s].new /\ c.state # "created" /\ s \notin Unstarted
  PROVE  UpInv'
<1> USE DEF UpInv, TypeOK, call
<1>1. container' \in [Services -> Containers]
  BY DEF Become
<1>2. died' \subseteq Services
  OBVIOUS
<1>3. ASSUME at \in {"first", "pause", "second"}
      PROVE  Outdated' = Outdated /\ Unstarted' = Unstarted
  <2>1. Unstarted' = Unstarted
    BY <1>3 DEF Become, Unstarted
  <2>2. \A t \in scope : container'[t].new = container[t].new
    BY <1>3 DEF Become
  <2> QED BY <2>1, <2>2 DEF Outdated
<1>4. ASSUME at \in {"first", "pause", "second"}, DeadUntilChecked
      PROVE  DeadUntilChecked'
  BY <1>4 DEF DeadUntilChecked, Become
<1>5. CrashShows'
  BY <1>4 DEF CrashShows
<1> QED BY <1>1, <1>2, <1>3, <1>5 DEF NotCalledYet, LeftoverShows

(***************************************************************************)
(* Of containers that all look healthy none is unstarted, nor dead, for a  *)
(* container that is either is listed.                                     *)
(***************************************************************************)
LEMMA HealthyIsAlive ==
  ASSUME AllServicesHealthy, NEW s \in Services
  PROVE  /\ container[s].state \in {"running", "exited", "absent"}
         /\ container[s].state = "exited" => container[s].code = 0
<1>1. CASE s \in Listed
  BY <1>1 DEF AllServicesHealthy, LooksHealthy
<1>2. CASE s \notin Listed
  <2>1. container[s] = Absent
    BY <1>2 DEF Listed
  <2>2. Absent.state = "absent"
    BY DEF Absent, Container
  <2> QED BY <2>1, <2>2
<1> QED BY <1>1, <1>2

LEMMA UpStep == UpInv /\ [Next]_vars => UpInv'
<1> SUFFICES ASSUME UpInv, [Next]_vars PROVE UpInv'
  OBVIOUS
<1>1. ASSUME NEW services \in (SUBSET Services) \ {{}}, Start(services)
      PROVE  UpInv'
  BY <1>1 DEF UpInv, Start, seen, TypeOK, NotCalledYet, CrashShows, DeadUntilChecked,
              LeftoverShows
<1>2. ASSUME NEW s \in Services, Replace(s) \/ StartFails(s) PROVE UpInv'
  <2>1. PICK c \in Containers : Become(s, c)
    <3>1. CASE Replace(s)
      <4>1. PICK health \in {"", "starting"} : Become(s, Container(TRUE, "running", health, 0))
        BY <3>1 DEF Replace
      <4> QED BY <4>1, ContainerKinds DEF Container, Healths
    <3>2. CASE StartFails(s)
      BY <3>2, ContainerKinds DEF StartFails
    <3> QED BY <1>2, <3>1, <3>2
  <2> QED BY <1>2, <2>1, BecomeStep DEF Replace, StartFails, call, seen
<1>3. CASE ComposeExitsZero \/ ComposeExitsNonZero \/ ComposeKilled
  BY <1>3 DEF ComposeExitsZero, ComposeExitsNonZero, ComposeKilled, seen, UpInv, TypeOK,
              NotCalledYet, CrashShows, DeadUntilChecked, LeftoverShows, Outdated, Unstarted
<1>4. CASE FirstCheck \/ PsFails \/ PauseCancelled
  BY <1>4 DEF FirstCheck, PsFails, PauseCancelled, Return, seen, UpInv, TypeOK,
              NotCalledYet, CrashShows, DeadUntilChecked, LeftoverShows, Outdated, Unstarted
<1>5. CASE PauseEnds \/ Cancel
  BY <1>5 DEF PauseEnds, Cancel, call, seen, UpInv, TypeOK,
              NotCalledYet, CrashShows, DeadUntilChecked, LeftoverShows, Outdated, Unstarted
<1>6. CASE SecondCheck
  <2>1. UNCHANGED <<container, scope, exit, cancelled, seen>>
    BY <1>6 DEF SecondCheck
  <2>2. at = "second" /\ at' = "returned" /\ verdict' \in {"ok", "failed"}
    BY <1>6 DEF SecondCheck, Return
  <2>3. ASSUME verdict' = "ok" PROVE died \subseteq Restarting
    <3>1. AllServicesHealthy
      BY <1>6, <2>3 DEF SecondCheck, Return
    <3> QED BY <2>2, <3>1, HealthyIsAlive DEF UpInv, CrashShows, DeadUntilChecked, TypeOK
  <2>4. CrashShows'
    BY <2>1, <2>2, <2>3 DEF UpInv, CrashShows, seen
  <2> QED BY <2>1, <2>2, <2>4 DEF UpInv, TypeOK, NotCalledYet, LeftoverShows, seen
<1>7. ASSUME NEW s \in Services, Probed(s) \/ Finishes(s) \/ Crashes(s) \/ Restarted(s)
      PROVE  UpInv'
  <2>1. container[s] \in Containers
    BY DEF UpInv, TypeOK
  <2>2. CASE Probed(s)
    <3>1. PICK health \in {"healthy", "unhealthy"} :
             Become(s, [container[s] EXCEPT !.health = health])
      BY <2>2 DEF Probed
    <3> DEFINE d == [container[s] EXCEPT !.health = health]
    <3>2. d \in Containers /\ d.new = container[s].new /\ d.state = "running"
      BY <2>1, <2>2, <3>1, ProbedKind DEF Probed, Healths
    <3>3. Become(s, d) /\ s \notin Unstarted
      BY <2>2, <3>1 DEF Probed, Unstarted
    <3> HIDE DEF d
    <3> QED BY <2>2, <3>2, <3>3, BecomeStep DEF Probed, call, seen
  <2>3. CASE Finishes(s)
    <3> DEFINE c == Container(container[s].new, "exited", "", 0)
    <3>1. c \in Containers /\ c.new = container[s].new /\ c.state = "exited"
      BY <2>1, ContainerKinds DEF Container, Containers
    <3>2. Become(s, c) /\ s \notin Unstarted
      BY <2>3 DEF Finishes, Unstarted
    <3> HIDE DEF c
    <3> QED BY <2>3, <3>1, <3>2, BecomeStep DEF Finishes, call, seen
  <2>4. CASE Crashes(s)
    <3> DEFINE c == Container(container[s].new, "exited", "", 1)
    <3>1. c \in Containers /\ c.new = container[s].new /\ c.state = "exited"
                /\ c.code = 1
      BY <2>1, ContainerKinds DEF Container, Containers
    <3>2. Become(s, c) /\ s \notin Unstarted
      BY <2>4 DEF Crashes, Unstarted
    <3> HIDE DEF c
    <3> QED BY <2>4, <3>1, <3>2, BecomeStep DEF Crashes, call
  <2>5. CASE Restarted(s)
    <3>1. PICK health \in {"", "starting"} :
             Become(s, Container(container[s].new, "running", health, 0))
      BY <2>5 DEF Restarted
    <3> DEFINE c == Container(container[s].new, "running", health, 0)
    <3>2. c \in Containers /\ c.new = container[s].new /\ c.state = "running"
      BY <2>1, ContainerKinds DEF Container, Containers, Healths
    <3>3. Become(s, c) /\ s \notin Unstarted
      BY <2>5, <3>1 DEF Restarted, Unstarted
    <3> HIDE DEF c
    <3> QED BY <2>5, <3>2, <3>3, BecomeStep DEF Restarted, call, seen
  <2> QED BY <1>7, <2>2, <2>3, <2>4, <2>5
<1>8. CASE UNCHANGED vars
  BY <1>8 DEF vars, call, seen, UpInv, TypeOK, NotCalledYet, CrashShows, DeadUntilChecked,
              LeftoverShows, Outdated, Unstarted
<1> QED BY <1>1, <1>2, <1>3, <1>4, <1>5, <1>6, <1>7, <1>8 DEF Next, Docker, Unaided

LEMMA UpInvariant == Spec => []UpInv
BY UpInit, UpStep, PTL DEF Spec

-------------------------------------------------------------------------------
\* Every variable stays in its domain.
THEOREM UpTypeCorrect == Spec => []TypeOK
<1>1. UpInv => TypeOK
  BY DEF UpInv
<1> QED BY <1>1, UpInvariant, PTL

\* Every step that reports success is one of the two checks, uncancelled.
LEMMA SuccessIsACheck ==
  ASSUME UpInv, [Next]_vars, Succeeds
  PROVE  /\ AllServicesHealthy
         /\ ~ cancelled
         /\ at \in {"first", "second"}
         /\ at = "first" => exit = "zero"
         /\ at' = "returned"
         /\ UNCHANGED container
<1>1. CASE FirstCheck \/ SecondCheck
  BY <1>1 DEF FirstCheck, SecondCheck, Return, Succeeds
<1>2. CASE PsFails \/ PauseCancelled
  BY <1>2 DEF PsFails, PauseCancelled, Return, Succeeds
<1>3. CASE verdict' = verdict
  BY <1>3 DEF Succeeds
<1>4. verdict' = verdict \/ FirstCheck \/ SecondCheck \/ PsFails \/ PauseCancelled
  BY DEF Next, Docker, Unaided, Start, Replace, StartFails, ComposeExitsZero,
         ComposeExitsNonZero, ComposeKilled, PauseEnds, Probed, Finishes, Crashes,
         Restarted, Cancel, call, vars
<1> QED BY <1>1, <1>2, <1>3, <1>4

(***************************************************************************)
(* When Compose failed, Up does not succeed over a container that crashed  *)
(* until the pause was over, and that Docker does not start again.         *)
(***************************************************************************)
THEOREM CrashNotMaskedCorrect == Spec => []CrashNotMasked
<1>1. UpInv => CrashNotMasked
  BY DEF UpInv, CrashShows, CrashNotMasked
<1> QED BY <1>1, UpInvariant, PTL

\* An Up whose context was cancelled before the check it rests on is a failure.
THEOREM CancelledCorrect == Spec => CancelledIsNotSuccess
<1>1. UpInv /\ [Next]_vars => [cancelled => ~ Succeeds]_vars
  BY SuccessIsACheck
<1> QED BY <1>1, UpInvariant, PTL DEF Spec, CancelledIsNotSuccess

-------------------------------------------------------------------------------
\* Containers that change of their own leave what is outdated alone.
LEMMA OwnChanges ==
  ASSUME UpInv, NEW s \in Services, Probed(s) \/ Finishes(s) \/ Crashes(s) \/ Restarted(s)
  PROVE  Outdated' = Outdated
<1>1. PICK c : Become(s, c) /\ c.new = container[s].new /\ c.state # "created"
               /\ container[s].state # "created"
  <2>1. container[s] \in Containers
    BY DEF UpInv, TypeOK
  <2>2. CASE Probed(s)
    <3>1. PICK health \in Healths : Become(s, [container[s] EXCEPT !.health = health])
      BY <2>2 DEF Probed, Healths
    <3> DEFINE d == [container[s] EXCEPT !.health = health]
    <3>2. d.new = container[s].new /\ d.state = "running" /\ container[s].state = "running"
      BY <2>1, <2>2, ProbedKind DEF Probed
    <3>3. Become(s, d)
      BY <3>1
    <3> HIDE DEF d
    <3> QED BY <3>2, <3>3
  <2>3. CASE Finishes(s)
    BY <2>3 DEF Finishes, Container
  <2>4. CASE Crashes(s)
    BY <2>4 DEF Crashes, Container
  <2>5. CASE Restarted(s)
    BY <2>5 DEF Restarted, Container
  <2> QED BY <2>2, <2>3, <2>4, <2>5
<1>2. scope' = scope /\ scope \subseteq Services
  BY DEF UpInv, TypeOK, Probed, Finishes, Crashes, Restarted, call
<1>3. \A t \in Services : /\ container'[t].new = container[t].new
                          /\ (container'[t].state = "created") = (container[t].state = "created")
  BY <1>1 DEF Become, UpInv, TypeOK
<1> QED BY <1>2, <1>3 DEF Outdated, Unstarted

LEMMA RunStep ==
  ASSUME UpInv, [Next]_vars
  PROVE  [Run!Next]_(Run!vars)
<1> USE DEF Run!vars
<1>1. ASSUME NEW services \in (SUBSET Services) \ {{}}, Start(services)
      PROVE  \E todo \in SUBSET Services : Run!Start(todo)
  <2>1. Outdated' \in SUBSET Services
    BY <1>1 DEF Start, Outdated
  <2>2. at' # "idle" /\ at' # "returned"
    BY <1>1 DEF Start
  <2> QED BY <1>1, <2>1, <2>2 DEF Start, Run!Start
<1>2. ASSUME NEW s \in Services, Replace(s) PROVE Run!Replace(s)
  <2>1. PICK health \in {"", "starting"} : Become(s, Container(TRUE, "running", health, 0))
    BY <1>2 DEF Replace
  <2>2. Outdated' = Outdated \ {s} /\ s \in Outdated
    BY <1>2, <2>1 DEF Replace, Become, Outdated, Unstarted, Container, call, UpInv, TypeOK
  <2> QED BY <1>2, <2>2 DEF Replace, Run!Replace, call
<1>3. ASSUME NEW s \in Services, StartFails(s) PROVE UNCHANGED Run!vars
  <2>1. Outdated' = Outdated
    BY <1>3 DEF StartFails, Become, Outdated, Unstarted, Container, call, UpInv, TypeOK
  <2> QED BY <1>3, <2>1 DEF StartFails, call
<1>4. CASE ComposeExitsZero \/ ComposeExitsNonZero \/ ComposeKilled \/ PauseEnds \/ Cancel
           \/ UNCHANGED vars
  <2>1. UNCHANGED <<Outdated, verdict>>
    BY <1>4 DEF ComposeExitsZero, ComposeExitsNonZero, ComposeKilled, PauseEnds, Cancel,
                vars, call, Outdated, Unstarted
  <2>2. (at' = "idle") = (at = "idle") /\ (at' = "returned") = (at = "returned")
    BY <1>4 DEF ComposeExitsZero, ComposeExitsNonZero, ComposeKilled, PauseEnds, Cancel,
                vars, call
  <2> QED BY <2>1, <2>2
<1>5. CASE FirstCheck \/ SecondCheck \/ PsFails \/ PauseCancelled
  <2>1. CASE at' = "pause"
    <3>1. at = "first" /\ UNCHANGED <<Outdated, verdict>>
      BY <1>5, <2>1 DEF FirstCheck, SecondCheck, PsFails, PauseCancelled, Return,
                        Outdated, Unstarted
    <3> QED BY <2>1, <3>1
  <2>2. CASE at' # "pause"
    <3>1. /\ at \in {"first", "pause", "second"}
          /\ at' = "returned"
          /\ verdict' \in {"ok", "failed"}
      BY <1>5, <2>2 DEF FirstCheck, SecondCheck, PsFails, PauseCancelled, Return
    <3>2. ASSUME verdict' = "ok" PROVE Outdated = {} \/ Strands
      <4>1. AllServicesHealthy /\ ~ cancelled
        BY <1>5, <3>2 DEF FirstCheck, SecondCheck, PsFails, PauseCancelled, Return
      <4>2. Unstarted = {}
        BY <4>1, HealthyIsAlive DEF Unstarted
      <4> QED BY <3>1, <4>1, <4>2 DEF UpInv, LeftoverShows
    <3>3. Run!Return(verdict')
      BY <3>1, <3>2 DEF Run!Return
    <3> QED BY <3>1, <3>3 DEF Run!Next
  <2> QED BY <2>1, <2>2
<1>6. ASSUME NEW s \in Services, Probed(s) \/ Finishes(s) \/ Crashes(s) \/ Restarted(s)
      PROVE  UNCHANGED Run!vars
  <2>1. Outdated' = Outdated
    BY <1>6, OwnChanges
  <2> QED BY <1>6, <2>1 DEF Probed, Finishes, Crashes, Restarted, call
<1> QED BY <1>1, <1>2, <1>3, <1>4, <1>5, <1>6
        DEF Next, Docker, Unaided, Run!Next

(***************************************************************************)
(* A call of Up is what Deploy makes of it, SeemsApplied included: success *)
(* means that nothing was left to replace, unless a failing Compose may    *)
(* strand a container.                                                     *)
(***************************************************************************)
THEOREM UpImplementsComposeRun == Spec => ImplementsComposeRun
<1>1. Init => Run!Init
  BY DEF Init, Run!Init, Outdated, Unstarted
<1>2. UpInv /\ [Next]_vars => [Run!Next]_(Run!vars)
  BY RunStep
<1> QED BY <1>1, <1>2, UpInvariant, PTL DEF Spec, ImplementsComposeRun, Run!Spec

-------------------------------------------------------------------------------
\* How far a call is from its end, and what Compose has still to replace.
ChecksLeft(stage) ==
  CASE stage = "idle"      -> 5
    [] stage = "composing" -> 4
    [] stage = "first"     -> 3
    [] stage = "pause"     -> 2
    [] stage = "second"    -> 1
    [] OTHER               -> 0

Old == {s \in scope : ~ container[s].new}

UpLeft == ChecksLeft(at) * (Cardinality(Services) + 1) + Cardinality(Old)

\* What the call does, or Compose for it.
CallStep ==
  \/ \E services \in (SUBSET Services) \ {{}} : Start(services)
  \/ Docker
  \/ ComposeKilled \/ PauseEnds \/ PauseCancelled

\* A check further outweighs any number of containers.
LEMMA CheckOutweighs ==
  ASSUME NEW a \in Nat, NEW b \in Nat, a < b, NEW n \in Nat, NEW i \in 0..n, NEW j \in Nat
  PROVE  a * (n + 1) + i < b * (n + 1) + j
<1>1. (a + 1) * (n + 1) = a * (n + 1) + (n + 1)
  OBVIOUS
<1>2. PICK d \in Nat : b = (a + 1) + d
  <2>1. \E d \in Nat : b = (a + 1) + d
    OBVIOUS
  <2> QED BY <2>1
<1>3. b * (n + 1) = (a + 1) * (n + 1) + d * (n + 1) /\ d * (n + 1) \in Nat
  BY <1>2
<1> QED BY <1>1, <1>3

LEMMA CallGoesOn ==
  ASSUME TypeOK, CallStep
  PROVE  \/ ChecksLeft(at') < ChecksLeft(at)
         \/ at' = at /\ \E s \in Old : Old' = Old \ {s}
<1> USE DEF TypeOK, ChecksLeft
<1>1. ASSUME NEW services, Start(services) PROVE ChecksLeft(at') < ChecksLeft(at)
  BY <1>1 DEF Start
<1>2. ASSUME NEW s \in Services, Replace(s) \/ StartFails(s)
      PROVE  at' = at /\ s \in Old /\ Old' = Old \ {s}
  <2>1. UNCHANGED <<at, scope>> /\ s \in scope /\ ~ container[s].new
    BY <1>2 DEF Replace, StartFails, call
  <2>2. PICK c : c.new /\ Become(s, c)
    <3>1. \A state, health : Container(TRUE, state, health, 0).new
      BY DEF Container
    <3> QED BY <1>2, <3>1 DEF Replace, StartFails
  <2>3. /\ container'[s].new
        /\ \A t \in Services \ {s} : container'[t] = container[t]
    BY <2>2 DEF Become
  <2> QED BY <2>1, <2>3 DEF Old
<1>3. CASE ComposeExitsZero \/ ComposeExitsNonZero \/ ComposeKilled
  BY <1>3 DEF ComposeExitsZero, ComposeExitsNonZero, ComposeKilled
<1>4. CASE FirstCheck \/ SecondCheck \/ PsFails \/ PauseEnds \/ PauseCancelled
  BY <1>4 DEF FirstCheck, SecondCheck, PsFails, PauseEnds, PauseCancelled, Return
<1> QED BY <1>1, <1>2, <1>3, <1>4 DEF CallStep, Docker

LEMMA UpLeftFalls ==
  ASSUME TypeOK, TypeOK', IsFiniteSet(Services),
         \/ ChecksLeft(at') < ChecksLeft(at)
         \/ at' = at /\ \E s \in Old : Old' = Old \ {s}
  PROVE  UpLeft' < UpLeft
<1> DEFINE n == Cardinality(Services)
           i == Cardinality(Old')
           j == Cardinality(Old)
<1>1. Old \subseteq Services /\ Old' \subseteq Services
  BY DEF Old, TypeOK
<1>2. /\ IsFiniteSet(Old) /\ j \in 0..n /\ i \in 0..n /\ n \in Nat
  BY <1>1, FS_Subset, FS_CardinalityType
<1>3. /\ ChecksLeft(at) \in Nat /\ ChecksLeft(at') \in Nat
      /\ UpLeft = ChecksLeft(at) * (n + 1) + j
      /\ UpLeft' = ChecksLeft(at') * (n + 1) + i
  BY DEF UpLeft, ChecksLeft
<1>4. CASE ChecksLeft(at') < ChecksLeft(at)
  <2> HIDE DEF n, i, j
  <2> QED BY <1>2, <1>3, <1>4, CheckOutweighs
<1>5. ASSUME at' = at, NEW s \in Old, Old' = Old \ {s} PROVE UpLeft' < UpLeft
  <2>1. i = j - 1
    BY <1>2, <1>5, FS_RemoveElement
  <2> HIDE DEF n, i, j
  <2>2. ChecksLeft(at) * (n + 1) \in Nat
    BY <1>2, <1>3
  <2> QED BY <1>2, <1>3, <1>5, <2>1, <2>2
<1> QED BY <1>4, <1>5

\* Containers that come and go stay of the release they are of.
LEMMA AsideLeavesCall ==
  ASSUME TypeOK, [Next]_vars, ~ CallStep
  PROVE  UpLeft' = UpLeft
<1>1. ASSUME NEW s \in Services, Probed(s) \/ Finishes(s) \/ Crashes(s) \/ Restarted(s)
      PROVE  Old' = Old /\ UNCHANGED at
  <2>1. UNCHANGED call
    BY <1>1 DEF Probed, Finishes, Crashes, Restarted
  <2>2. PICK c : c.new = container[s].new /\ Become(s, c)
    <3>1. \A new, state, health, code : Container(new, state, health, code).new = new
      BY DEF Container
    <3>2. \A health : [container[s] EXCEPT !.health = health].new = container[s].new
      BY DEF TypeOK, Containers
    <3>3. CASE Probed(s)
      BY <3>2, <3>3 DEF Probed
    <3>4. CASE Finishes(s) \/ Crashes(s)
      <4>1. \E code : Become(s, Container(container[s].new, "exited", "", code))
        BY <3>4 DEF Finishes, Crashes
      <4> QED BY <3>1, <4>1
    <3>5. CASE Restarted(s)
      <4>1. \E health : Become(s, Container(container[s].new, "running", health, 0))
        BY <3>5 DEF Restarted
      <4> QED BY <3>1, <4>1
    <3> QED BY <1>1, <3>3, <3>4, <3>5
  <2>3. \A t \in Services : container'[t].new = container[t].new
    BY <2>2 DEF Become, TypeOK
  <2> QED BY <2>1, <2>3 DEF Old, TypeOK, call
<1>2. CASE UNCHANGED <<container, call>>
  BY <1>2 DEF call, UpLeft, Old
<1> QED BY <1>1, <1>2 DEF UpLeft, Next, CallStep, Docker, Unaided, Cancel, vars, call

(***************************************************************************)
(* Two checks and a pause are all there is: every step of Up, and every    *)
(* container Compose replaces for it, brings the call nearer to its end,   *)
(* and containers that crash and are restarted for ever, or a context that *)
(* is cancelled, do not send it back to an earlier check.                  *)
(***************************************************************************)
THEOREM UpRunsDown ==
  ASSUME IsFiniteSet(Services)
  PROVE  Spec => [][/\ CallStep => UpLeft' < UpLeft
                    /\ ~ CallStep => UpLeft' = UpLeft]_vars
<1>1. TypeOK /\ TypeOK' /\ [Next]_vars
        => [/\ CallStep => UpLeft' < UpLeft
            /\ ~ CallStep => UpLeft' = UpLeft]_vars
  BY CallGoesOn, UpLeftFalls, AsideLeavesCall
<1> QED BY <1>1, UpTypeCorrect, PTL DEF Spec
===============================================================================
