---------------------------------- MODULE Gate ----------------------------------
(***************************************************************************)
(* internal/release/pipeline.go: how the gate's verdict comes about.       *)
(*                                                                         *)
(* Several services are either asked about one by one, by goroutines that  *)
(* share a result map, or by one matrix query whose rows are attributed to *)
(* the services.  Meanwhile builds elsewhere publish verification results. *)
(* PactMatrix states the verdict; Deploy uses it as if it were reached in  *)
(* one step.                                                               *)
(*                                                                         *)
(* Before it asks, a command checks that Compose has the services of the   *)
(* plan.  If the Compose files cannot be read a deploy ends there, while a *)
(* dry run and `c2quay verify` go on to ask.  A verify may be followed by  *)
(* the deploy it was made for, which does all of this again.               *)
(***************************************************************************)
EXTENDS Integers, FiniteSets

CONSTANTS
  Services, Versions, None,  \* as in PactMatrix
  Pacts,      \* the pairs of (service, version) between which there is a pact
  Known,      \* the pairs that work together: verified, or in no need of it
  Candidates, \* the versions that may be released
  Deployed,   \* what the environment may show as deployed
  Limit       \* ParallelismDefault

ASSUME GateAssumption ==
  /\ Services \subseteq Int /\ IsFiniteSet(Services)
  /\ None \notin Versions
  /\ Pacts \subseteq SUBSET (Services \X Versions)
  /\ Known \subseteq SUBSET (Services \X Versions)
  /\ Candidates \subseteq [Services -> Versions]
  /\ Deployed \subseteq [Services -> Versions \cup {None}]
  /\ Limit \in Nat \ {0}

VARIABLES
  command,    \* whose gate it is
  foreseen,   \* what a verify before it found and said
  covered,    \* Compose has the services of the plan that are not gate_only
  coverage,   \* what the command found of this
  aggregate,  \* Plan.AllOrNothing
  scope,      \* Plan.Services
  cand,       \* Plan.Releases
  view,       \* what the environment shows as deployed
  verified,   \* the pairs that are known to work together
  running,    \* the services a goroutine is at work for
  answer,     \* the broker's answers on their way to those goroutines
  result,     \* the outcome of each service
  outcome     \* what the pipeline makes of them

plan == <<covered, aggregate, scope, cand, view>>
asked == <<command, foreseen, plan, coverage>>
vars == <<asked, verified, running, answer, result, outcome>>

Matrix == INSTANCE PactMatrix WITH Verified <- verified

\* The verdict a gate is asked for, at the present instant.
Due == Matrix!GateAll(aggregate, scope, cand, view)

Aggregated == aggregate /\ \E s, t \in scope : s # t

\* The rows of the matrix response that name a service.  Pairs without a pact
\* have no row; pairs with one that was never verified have.
RowsFor(s) ==
  LET future == Matrix!Overlay(view, scope, cand) IN
  {row \in Pacts : \E t \in Services \ {s} : row = {<<s, cand[s]>>, <<t, future[t]>>}}

Commands == {"deploy", "dry-run", "verify"}
Coverages == {"none", "ok", "unknown", "missing"}

Outcomes == {"asking", "passed", "blocked", "error"}

NoVerify == [coverage |-> "none", outcome |-> "asking"]

Init ==
  /\ command \in Commands
  /\ foreseen = NoVerify
  /\ covered \in BOOLEAN
  /\ coverage = "none"
  /\ aggregate \in BOOLEAN
  /\ scope \in (SUBSET Services) \ {{}}
  /\ cand \in Candidates
  /\ view \in Deployed
  /\ \E done \in SUBSET (Pacts \ Known) : verified = Known \cup done
  /\ running = {}
  /\ answer = [s \in Services |-> "none"]
  /\ result = [s \in Services |-> "none"]
  /\ outcome = "asking"

-------------------------------------------------------------------------------
\* Mutant: an error of `config --services` is let pass by every command.
GoesOnUnread(found) == found # "missing" \/ command = "verify"

\* ValidateComposeCoverage returns no error, or verify keeps it for its report.
GoesOn(found) ==
  CASE command = "deploy"  -> found = "ok"
    [] command = "dry-run" -> found # "missing"
    [] command = "verify"  -> TRUE

CheckCoverage ==
  /\ coverage = "none"
  /\ coverage' \in {"unknown", IF covered THEN "ok" ELSE "missing"}
  /\ outcome' = IF GoesOn(coverage') THEN "asking" ELSE "error"
  /\ UNCHANGED <<command, foreseen, plan, verified, running, answer, result>>

\* The gate is asked, for a command that has come to it.
AtGate == coverage # "none" /\ outcome = "asking"

-------------------------------------------------------------------------------
\* gateIndividual: goroutines in the order of the plan, a few at a time.

\* Mutant: the filter on the services is forgotten.
UnaskedOfAll == {s \in Services \ running : result[s] = "none"}

Unasked == {s \in scope \ running : result[s] = "none"}

CheckStarts(s) ==
  /\ AtGate
  /\ ~ Aggregated
  /\ s \in Unasked
  /\ \A t \in Unasked : s <= t
  /\ Cardinality(running) < Limit
  /\ running' = running \cup {s}
  /\ UNCHANGED <<asked, verified, answer, result, outcome>>

\* CanIDeploy is answered with the broker's own summary.
CheckAnswered(s) ==
  /\ s \in running
  /\ answer[s] = "none"
  /\ answer' = [answer EXCEPT ![s] =
                  IF Matrix!ClearedAgainst({s}, cand, view) THEN "pass" ELSE "block"]
  /\ UNCHANGED <<asked, verified, running, result, outcome>>

\* Mutant: an error is not an outcome, the service is asked about again.
CheckEndsOrRepeats(s) ==
  /\ s \in running
  /\ result' = [result EXCEPT ![s] = IF answer[s] = "pass" THEN "pass" ELSE "none"]
  /\ running' = running \ {s}
  /\ UNCHANGED <<asked, verified, answer, outcome>>

\* The goroutine stores what it was told, or the error of its call.
CheckEnds(s) ==
  /\ s \in running
  /\ \E r \in {answer[s], "error"} \ {"none"} : result' = [result EXCEPT ![s] = r]
  /\ running' = running \ {s}
  /\ UNCHANGED <<asked, verified, answer, outcome>>

-------------------------------------------------------------------------------
\* gateAggregate: the rows decide, each for the services it names.

\* Mutant: a row without a verification result is not a bad row.
VerdictUnlessFailed(s) == IF RowsFor(s) # {} THEN "pass" ELSE "block"

Verdict(s) ==
  IF RowsFor(s) # {} /\ RowsFor(s) \subseteq verified THEN "pass" ELSE "block"

SetAnswered ==
  /\ AtGate
  /\ Aggregated
  /\ Unasked = scope
  /\ \/ result' = [s \in Services |-> IF s \in scope THEN Verdict(s) ELSE "none"]
     \/ result' = [s \in Services |-> IF s \in scope THEN "error" ELSE "none"]
  /\ UNCHANGED <<asked, verified, running, answer, outcome>>

-------------------------------------------------------------------------------
\* What becomes of the outcomes, once all are there.

Bad == {s \in scope : result[s] # "pass"}
Failed == {s \in scope : result[s] = "error"}

\* Deploy goes through them in the order of the plan: the first that is not a
\* pass ends it, an error as an error.
DeployOutcome ==
  IF Bad = {} THEN "passed"
  ELSE IF \E s \in Failed : \A t \in Bad : s <= t THEN "error" ELSE "blocked"

\* Mutant: AllPassed looks at the outcomes only.
GatesOnly ==
  IF Bad = {} THEN "passed"
  ELSE IF coverage = "missing" \/ Failed # {} THEN "error" ELSE "blocked"

\* For verify any error is one, a service that Compose does not have included.
VerifyOutcome ==
  IF coverage # "missing" /\ Bad = {} THEN "passed"
  ELSE IF coverage = "missing" \/ Failed # {} THEN "error" ELSE "blocked"

Outcome == IF command = "verify" THEN VerifyOutcome ELSE DeployOutcome

\* Mutant: the outcomes are read while goroutines are still at work.
DecideEarly ==
  /\ AtGate
  /\ Unasked = {}
  /\ outcome' = Outcome
  /\ UNCHANGED <<asked, verified, running, answer, result>>

Decide ==
  /\ AtGate
  /\ Unasked = {} /\ running = {}
  /\ outcome' = Outcome
  /\ UNCHANGED <<asked, verified, running, answer, result>>

\* The operator goes on to the deploy the verify was about, or to its dry run.
DeployFollows ==
  /\ command = "verify" /\ outcome # "asking"
  /\ command' \in {"deploy", "dry-run"}
  /\ foreseen' = [coverage |-> coverage, outcome |-> outcome]
  /\ coverage' = "none" /\ outcome' = "asking"
  /\ answer' = [s \in Services |-> "none"]
  /\ result' = [s \in Services |-> "none"]
  /\ UNCHANGED <<plan, verified, running>>

\* A build elsewhere verifies a pact.
Publish(pair) ==
  /\ pair \in Pacts \ verified
  /\ verified' = verified \cup {pair}
  /\ UNCHANGED <<asked, running, answer, result, outcome>>

Terminated ==
  /\ outcome # "asking"
  /\ UNCHANGED vars

Step ==
  \/ CheckCoverage
  \/ \E s \in Services : CheckStarts(s) \/ CheckAnswered(s) \/ CheckEnds(s)
  \/ SetAnswered
  \/ Decide

Next ==
  \/ Step
  \/ DeployFollows
  \/ \E pair \in Pacts : Publish(pair)
  \/ Terminated

Spec == Init /\ [][Next]_vars

\* The calls to the broker are bounded, and nothing else is waited for.
FairSpec == Spec /\ WF_vars(Step)

-------------------------------------------------------------------------------
\* The response leaves out no pair that has to be verified.
RowsComplete ==
  \A s, t \in Services, v, w \in Versions :
    s # t => {<<s, v>>, <<t, w>>} \in Pacts \cup Known

\* The declared domain of every variable.
TypeOK ==
  /\ command \in Commands
  /\ foreseen \in [coverage : Coverages, outcome : Outcomes]
  /\ covered \in BOOLEAN
  /\ coverage \in Coverages
  /\ aggregate \in BOOLEAN
  /\ scope \subseteq Services
  /\ cand \in Candidates
  /\ view \in Deployed
  /\ verified \subseteq Pacts \cup Known
  /\ running \subseteq scope
  /\ answer \in [Services -> {"none", "pass", "block"}]
  /\ result \in [Services -> {"none", "pass", "block", "error"}]
  /\ outcome \in Outcomes

(***************************************************************************)
(* ADR 0009: the broker's summary "is the deploy-the-set verdict".  A gate *)
(* that passed is one the verdict of which holds, though its answers were  *)
(* given at different times.  It holds where RowsComplete does.            *)
(***************************************************************************)
PassedIsDue == outcome = "passed" => Due

(***************************************************************************)
(* A release that could be made when the gate was asked is not refused,    *)
(* unless a candidate of a set has no row at all, which ADR 0009 gates.    *)
(***************************************************************************)
NoFalseAlarm ==
  (Due /\ (Aggregated => \A s \in scope : RowsFor(s) # {}))
    => [](outcome # "blocked")

(***************************************************************************)
(* verify.go: verify "fails the same way a doomed `c2quay deploy`          *)
(* eventually would" (ADR 0013, Verify parity).  The deploy that follows   *)
(* it asks anew, in another order, while results are published.  After a   *)
(* verify that passed it is not blocked, and no service turns out to be    *)
(* missing from Compose unless verify could not read the Compose files; a  *)
(* service that verify did find missing keeps every deploy from its gate.  *)
(* That a deploy ends in an error is not excluded: it must read the files. *)
(***************************************************************************)
VerifyForesees ==
  command # "verify" =>
    /\ foreseen.outcome = "passed"
         => /\ outcome # "blocked"
            /\ coverage = "missing" => foreseen.coverage = "unknown"
    /\ foreseen.coverage = "missing" /\ command = "deploy"
         => outcome # "passed"

\* Every gate comes to an outcome.
EveryGateEnds == outcome = "asking" ~> outcome # "asking"
===============================================================================
