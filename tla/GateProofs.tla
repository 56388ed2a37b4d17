------------------------------- MODULE GateProofs -------------------------------
(***************************************************************************)
(* The gate's verdict, for any services, versions, pacts and parallelism.  *)
(***************************************************************************)
EXTENDS Gate, FiniteSetTheorems, TLAPS

LEMMA GateTypeStep == TypeOK /\ [Next]_vars => TypeOK'
<1> SUFFICES ASSUME TypeOK, [Next]_vars PROVE TypeOK'
  OBVIOUS
<1> USE DEF TypeOK, asked, plan
<1>1. ASSUME NEW s \in Services, CheckStarts(s) PROVE TypeOK'
  BY <1>1 DEF CheckStarts, Unasked
<1>2. ASSUME NEW s \in Services, CheckAnswered(s) PROVE TypeOK'
  BY <1>2 DEF CheckAnswered
<1>3. ASSUME NEW s \in Services, CheckEnds(s) PROVE TypeOK'
  BY <1>3 DEF CheckEnds
<1>4. CASE SetAnswered
  BY <1>4 DEF SetAnswered, Verdict
<1>5. CASE Decide
  BY <1>5 DEF Decide, Outcome, DeployOutcome, VerifyOutcome, Outcomes
<1>6. ASSUME NEW pair \in Pacts, Publish(pair) PROVE TypeOK'
  BY <1>6 DEF Publish
<1>7. CASE Terminated \/ UNCHANGED vars
  BY <1>7 DEF Terminated, vars
<1>8. CASE CheckCoverage
  BY <1>8 DEF CheckCoverage, Coverages, Outcomes
<1>9. CASE DeployFollows
  BY <1>9 DEF DeployFollows, Commands, Coverages, Outcomes
<1> QED BY <1>1, <1>2, <1>3, <1>4, <1>5, <1>6, <1>7, <1>8, <1>9 DEF Next, Step

\* Every variable of the gate stays in its domain.
THEOREM GateTypeCorrect == Spec => []TypeOK
<1>1. Init => TypeOK
  BY DEF Init, TypeOK, NoVerify, Coverages, Outcomes
<1> QED BY <1>1, GateTypeStep, PTL DEF Spec

-------------------------------------------------------------------------------
(***************************************************************************)
(* What was verified stays so: a verdict that was given for some services  *)
(* is still the verdict when others are asked about.                       *)
(***************************************************************************)
LEMMA VerdictsStay ==
  ASSUME verified \subseteq verified', UNCHANGED plan, NEW services,
         Matrix!ClearedAgainst(services, cand, view)
  PROVE  Matrix!ClearedAgainst(services, cand, view)'
BY DEF plan, Matrix!ClearedAgainst, Matrix!Compatible

(***************************************************************************)
(* Each answer is a verdict about one service that still holds, each row   *)
(* that decided is still verified, and an outcome that is no error is that *)
(* of the results, which are final then.                                   *)
(***************************************************************************)
Cleared(s) == Matrix!ClearedAgainst({s}, cand, view)

AnswersHold ==
  \A s \in scope : (answer[s] = "pass" \/ (~ Aggregated /\ result[s] = "pass")) => Cleared(s)

RowsHold ==
  Aggregated => running = {} /\ \A s \in scope : result[s] = "pass" => Verdict(s) = "pass"

Settled ==
  /\ outcome # "asking" => running = {}
  /\ coverage = "none" => running = {} /\ outcome = "asking"
  /\ outcome = "passed" => Bad = {}

GateInv ==
  /\ TypeOK
  /\ scope # {}
  /\ Known \subseteq verified
  /\ AnswersHold
  /\ RowsHold
  /\ Settled

LEMMA GateInit == Init => GateInv
<1> SUFFICES ASSUME Init PROVE GateInv
  OBVIOUS
<1>1. TypeOK
  BY DEF Init, TypeOK, NoVerify, Coverages, Outcomes
<1>2. scope # {} /\ Known \subseteq verified
  BY DEF Init
<1>3. \A s \in scope : answer[s] = "none" /\ result[s] = "none"
  BY <1>1 DEF Init, TypeOK
<1>4. running = {} /\ outcome = "asking"
  BY DEF Init
<1>5. AnswersHold /\ RowsHold /\ Settled
  BY <1>3, <1>4 DEF AnswersHold, RowsHold, Settled
<1> QED BY <1>1, <1>2, <1>5 DEF GateInv

\* A command keeps its plan, and the next one has the same; what is published
\* stays so.
LEMMA PlanStays == [Next]_vars => UNCHANGED plan /\ verified \subseteq verified'
BY DEF Next, Step, CheckCoverage, CheckStarts, CheckAnswered, CheckEnds, SetAnswered, Decide,
       DeployFollows, Publish, Terminated, asked, plan, vars

\* Whatever the command, it is the results that let it pass.
LEMMA PassedResults == Outcome = "passed" => Bad = {}
BY DEF Outcome, DeployOutcome, VerifyOutcome

LEMMA GateStep == GateInv /\ [Next]_vars => GateInv'
<1> SUFFICES ASSUME GateInv, [Next]_vars PROVE GateInv'
  OBVIOUS
<1>1. UNCHANGED plan /\ verified \subseteq verified'
  BY PlanStays
<1>2. /\ TypeOK /\ TypeOK'
      /\ scope' # {}
      /\ (Known \subseteq verified)'
  BY <1>1, GateTypeStep DEF GateInv, plan
<1>3. \A s \in scope : Cleared(s) => Cleared(s)'
  BY <1>1, VerdictsStay DEF Cleared
<1>4. /\ scope' = scope
      /\ Aggregated' = Aggregated
      /\ \A s \in scope : Verdict(s) = "pass" => Verdict(s)' = "pass"
  BY <1>1 DEF plan, Aggregated, Verdict, RowsFor, Matrix!Overlay
<1> SUFFICES AnswersHold' /\ RowsHold' /\ Settled'
  BY <1>2 DEF GateInv
<1>5. ASSUME NEW s \in Services, CheckStarts(s)
      PROVE  AnswersHold' /\ RowsHold' /\ Settled'
  BY <1>2, <1>3, <1>4, <1>5
     DEF CheckStarts, AtGate, GateInv, AnswersHold, RowsHold, Settled, asked
<1>6. ASSUME NEW s \in Services, CheckAnswered(s)
      PROVE  AnswersHold' /\ RowsHold' /\ Settled'
  <2>1. answer'[s] = "pass" => Cleared(s)
    BY <1>2, <1>6 DEF CheckAnswered, Cleared, TypeOK
  <2>2. \A t \in Services \ {s} : answer'[t] = answer[t]
    BY <1>2, <1>6 DEF CheckAnswered, TypeOK
  <2>3. UNCHANGED <<running, result, outcome, coverage>>
    BY <1>6 DEF CheckAnswered, asked
  <2>4. AnswersHold'
    BY <1>2, <1>3, <1>4, <2>1, <2>2, <2>3 DEF GateInv, AnswersHold, TypeOK
  <2>5. RowsHold' /\ Settled'
    BY <1>1, <1>4, <2>3 DEF GateInv, RowsHold, Settled, Bad
  <2> QED BY <2>4, <2>5
<1>7. ASSUME NEW s \in Services, CheckEnds(s)
      PROVE  AnswersHold' /\ RowsHold' /\ Settled'
  <2>1. s \in running /\ ~ Aggregated /\ outcome = "asking" /\ coverage # "none"
    BY <1>7 DEF CheckEnds, GateInv, RowsHold, Settled
  <2>2. result'[s] = "pass" => answer[s] = "pass"
    BY <1>2, <1>7 DEF CheckEnds, TypeOK
  <2>3. \A t \in Services \ {s} : result'[t] = result[t]
    BY <1>2, <1>7 DEF CheckEnds, TypeOK
  <2>4. UNCHANGED <<answer, outcome, coverage>>
    BY <1>7 DEF CheckEnds, asked
  <2>5. AnswersHold'
    BY <1>2, <1>3, <1>4, <2>2, <2>3, <2>4 DEF GateInv, AnswersHold, TypeOK
  <2> QED BY <1>4, <2>1, <2>4, <2>5 DEF RowsHold, Settled
<1>8. CASE SetAnswered
  <2>1. Aggregated
    BY <1>8 DEF SetAnswered
  <2>2. outcome = "asking" /\ coverage # "none"
    BY <1>8 DEF SetAnswered, AtGate
  <2>3. UNCHANGED <<answer, outcome, running, verified, coverage>>
    BY <1>8 DEF SetAnswered, asked
  <2>4. \A s \in scope : result'[s] = "pass" => Verdict(s) = "pass"
    BY <1>2, <1>8 DEF SetAnswered, TypeOK
  <2>5. AnswersHold'
    BY <1>3, <1>4, <2>1, <2>3 DEF GateInv, AnswersHold
  <2>6. RowsHold'
    BY <1>4, <2>1, <2>3, <2>4 DEF GateInv, RowsHold
  <2> QED BY <2>2, <2>3, <2>5, <2>6 DEF Settled
<1>9. CASE Decide
  <2>1. UNCHANGED <<answer, result, running, coverage>> /\ running = {} /\ Unasked = {}
    BY <1>9 DEF Decide, asked
  <2>2. coverage # "none"
    BY <1>9 DEF Decide, AtGate
  <2>3. outcome' = "passed" => Bad' = {}
    BY <1>4, <1>9, <2>1, PassedResults DEF Decide, Bad
  <2> QED BY <1>1, <1>3, <1>4, <2>1, <2>2, <2>3 DEF GateInv, AnswersHold, RowsHold, Settled
<1>10. CASE CheckCoverage
  <2>1. UNCHANGED <<running, answer, result>> /\ running = {} /\ outcome' # "passed"
    BY <1>10 DEF CheckCoverage, GateInv, Settled
  <2>2. coverage' # "none"
    BY <1>10 DEF CheckCoverage
  <2> QED BY <1>1, <1>3, <1>4, <2>1, <2>2 DEF GateInv, AnswersHold, RowsHold, Settled
<1>11. CASE DeployFollows
  <2>1. /\ running' = {} /\ outcome' = "asking"
        /\ \A s \in scope : answer'[s] = "none" /\ result'[s] = "none"
    BY <1>2, <1>11 DEF DeployFollows, GateInv, Settled, TypeOK
  <2> QED BY <1>4, <2>1 DEF AnswersHold, RowsHold, Settled
<1>12. ASSUME UNCHANGED <<running, answer, result, outcome, coverage>>
       PROVE  AnswersHold' /\ RowsHold' /\ Settled'
  BY <1>1, <1>3, <1>4, <1>12
     DEF GateInv, AnswersHold, RowsHold, Settled, Bad
<1> QED BY <1>5, <1>6, <1>7, <1>8, <1>9, <1>10, <1>11, <1>12
        DEF Next, Step, Publish, Terminated, vars, asked

\* No pair the release would bring together is left out of the response though
\* it has to be verified.
NoRowMissing ==
  LET future == Matrix!Overlay(view, scope, cand) IN
  \A s \in scope : \A t \in Services \ {s} :
    future[t] # None => {<<s, cand[s]>>, <<t, future[t]>>} \in Pacts \cup Known

LEMMA PassedCases ==
  ASSUME GateInv, outcome = "passed"
  PROVE  Due <=> (Aggregated => NoRowMissing)
<1> DEFINE future == Matrix!Overlay(view, scope, cand)
           Pair(s, t) == {<<s, cand[s]>>, <<t, future[t]>>}
<1>1. \A s \in scope : result[s] = "pass"
  BY DEF GateInv, Settled, Bad
<1>2. CASE Aggregated
  <2>1. \A s \in scope : /\ s \in Services /\ cand[s] # None /\ future[s] = cand[s]
    BY GateAssumption DEF GateInv, TypeOK, Matrix!Overlay
  <2>2. Due <=> \A s \in scope : \A t \in Services \ {s} :
                  future[t] # None => Pair(s, t) \in verified
    BY <1>2, <2>1 DEF Due, Aggregated, Matrix!GateAll, Matrix!ClearedAgainst, Matrix!Compatible
  <2>3. \A s \in scope : RowsFor(s) \subseteq verified
    BY <1>1, <1>2 DEF GateInv, RowsHold, Verdict
  <2>4. Known \subseteq verified /\ verified \subseteq Pacts \cup Known
    BY DEF GateInv, TypeOK
  <2>5. \A s \in scope : \A t \in Services \ {s} :
          Pair(s, t) \in verified <=> Pair(s, t) \in Pacts \cup Known
    BY <2>3, <2>4 DEF RowsFor
  <2> QED BY <1>2, <2>2, <2>5 DEF NoRowMissing
<1>3. CASE ~ Aggregated
  <2>1. \A s \in scope : Cleared(s)
    BY <1>1, <1>3 DEF GateInv, AnswersHold
  <2> QED BY <1>3, <2>1
          DEF Cleared, Due, Aggregated, Matrix!GateAll, Matrix!ClearedAgainst
<1> QED BY <1>2, <1>3

(***************************************************************************)
(* Exactly when a gate that passed is due, however its goroutines          *)
(* interleave with each other and with newly published results: always if  *)
(* the services were asked about one by one, and for a set if the response *)
(* has a row for every pair that has to be verified.  A missing row is the *)
(* only way to a release whose verdict does not hold, and always one.      *)
(***************************************************************************)
THEOREM PassedExactly ==
  Spec => [](outcome = "passed" => (Due <=> (Aggregated => NoRowMissing)))
<1>1. GateInv => (outcome = "passed" => (Due <=> (Aggregated => NoRowMissing)))
  BY PassedCases
<1> QED BY <1>1, GateInit, GateStep, PTL DEF Spec

(***************************************************************************)
(* So what Deploy takes for one step of the gate is one, with a broker     *)
(* whose responses are complete.                                           *)
(***************************************************************************)
THEOREM PassedCorrect ==
  ASSUME RowsComplete
  PROVE  Spec => []PassedIsDue
<1>1. GateInv => NoRowMissing
  <2> SUFFICES ASSUME GateInv PROVE NoRowMissing
    OBVIOUS
  <2> DEFINE future == Matrix!Overlay(view, scope, cand)
  <2>1. \A s \in scope : s \in Services /\ cand[s] \in Versions
    BY GateAssumption DEF GateInv, TypeOK
  <2>2. \A t \in Services : future[t] # None => future[t] \in Versions
    BY <2>1, GateAssumption DEF GateInv, TypeOK, Matrix!Overlay
  <2> QED BY <2>1, <2>2 DEF NoRowMissing, RowsComplete
<1>2. GateInv => PassedIsDue
  BY <1>1, PassedCases DEF PassedIsDue
<1> QED BY <1>2, GateInit, GateStep, PTL DEF Spec

-------------------------------------------------------------------------------
\* Among finitely many services there is one that comes first in the plan.
LEMMA FirstOfAny ==
  ASSUME NEW T \in SUBSET Services, T # {}
  PROVE  \E s \in T : \A t \in T : s <= t
<1> DEFINE First(U) == \E s \in U : \A t \in U : s <= t
           Unfounded == {U \in FiniteSubsetsOf(Services) : U # {} /\ ~ First(U)}
           Smaller == StrictSubsetOrdering(Services)
<1>1. IsWellFoundedOn(Smaller, FiniteSubsetsOf(Services))
  BY FS_StrictSubsetOrderingWellFounded
<1>2. ASSUME Unfounded # {}
      PROVE  FALSE
  <2>1. PICK U \in Unfounded : \A W \in Unfounded : <<W, U>> \notin Smaller
    <3> HIDE DEF Smaller
    <3> QED BY <1>1, <1>2, WFMin
  <2>2. PICK s \in U : TRUE
    OBVIOUS
  <2>3. s \in Int /\ U \subseteq Int
    BY <2>2, GateAssumption DEF FiniteSubsetsOf
  <2>4. U \ {s} \notin Unfounded
    <3>1. U \in SUBSET Services /\ U \ {s} \in SUBSET Services /\ U \ {s} # U
      BY <2>2 DEF FiniteSubsetsOf
    <3>2. <<U \ {s}, U>> \in Smaller
      BY <3>1 DEF StrictSubsetOrdering
    <3> HIDE DEF Smaller, Unfounded
    <3> QED BY <2>1, <3>2
  <2>5. U \ {s} \in FiniteSubsetsOf(Services)
    BY FS_RemoveElement DEF FiniteSubsetsOf
  <2>6. CASE U \ {s} = {}
    BY <2>2, <2>3, <2>6
  <2>7. CASE First(U \ {s})
    <3>1. PICK t \in U \ {s} : \A u \in U \ {s} : t <= u
      BY <2>7
    <3> QED BY <2>2, <2>3, <3>1
  <2> QED BY <2>4, <2>5, <2>6, <2>7
<1>3. T \in FiniteSubsetsOf(Services)
  BY GateAssumption, FS_Subset DEF FiniteSubsetsOf
<1> QED BY <1>2, <1>3

(***************************************************************************)
(* Once a set is due no answer says otherwise: publications only add to    *)
(* it, and every row of a set that is due is a verified one.               *)
(***************************************************************************)
DueInFull == Due /\ (Aggregated => \A s \in scope : RowsFor(s) # {})

Unopposed ==
  /\ DueInFull
  /\ \A s \in scope : answer[s] # "block" /\ result[s] # "block"
  /\ outcome # "blocked"

LEMMA DueStays ==
  ASSUME UNCHANGED plan, verified \subseteq verified', DueInFull
  PROVE  DueInFull'
<1>1. /\ scope' = scope /\ aggregate' = aggregate
      /\ Aggregated' = Aggregated
      /\ \A s \in scope : RowsFor(s)' = RowsFor(s)
  BY DEF plan, Aggregated, RowsFor, Matrix!Overlay
<1>2. Due'
  BY <1>1 DEF DueInFull, Due, plan, Matrix!GateAll, Matrix!ClearedAgainst, Matrix!Overlay,
              Matrix!Compatible
<1> QED BY <1>1, <1>2 DEF DueInFull

\* The verdict of a set that is due, row by row.
LEMMA DueRows ==
  ASSUME TypeOK, DueInFull, Aggregated, NEW s \in scope
  PROVE  Verdict(s) = "pass"
<1> DEFINE future == Matrix!Overlay(view, scope, cand)
<1>1. ASSUME NEW t \in Services \ {s}, {<<s, cand[s]>>, <<t, future[t]>>} \in Pacts
      PROVE  {<<s, cand[s]>>, <<t, future[t]>>} \in verified
  <2>1. cand[s] # None /\ future[t] # None
    <3>1. /\ <<s, cand[s]>> \in Services \X Versions
          /\ <<t, future[t]>> \in Services \X Versions
      BY <1>1, GateAssumption
    <3>2. cand[s] \in Versions /\ future[t] \in Versions
      BY <3>1
    <3> QED BY <3>2, GateAssumption
  <2>2. Matrix!Compatible(s, cand[s], t, future[t])
    BY DEF DueInFull, Due, Aggregated, Matrix!GateAll, Matrix!ClearedAgainst
  <2> QED BY <2>1, <2>2 DEF Matrix!Compatible
<1>2. RowsFor(s) # {}
  BY DEF DueInFull
<1> QED BY <1>1, <1>2 DEF Verdict, RowsFor

\* With nothing but passes and errors, what is not passed is an error.
LEMMA NothingBlocked ==
  ASSUME TypeOK, \A s \in scope : result[s] # "block", Decide
  PROVE  outcome' # "blocked"
<1>1. Bad = Failed
  BY DEF Decide, TypeOK, Bad, Failed, Unasked
<1>2. Bad # {} => \E s \in Failed : \A t \in Bad : s <= t
  BY <1>1, FirstOfAny DEF TypeOK, Bad
<1> QED BY <1>1, <1>2 DEF Decide, Outcome, DeployOutcome, VerifyOutcome

LEMMA UnopposedStep == GateInv /\ Unopposed /\ [Next]_vars => Unopposed'
<1> SUFFICES ASSUME GateInv, Unopposed, [Next]_vars PROVE Unopposed'
  OBVIOUS
<1>1. UNCHANGED plan /\ verified \subseteq verified'
  BY PlanStays
<1>2. DueInFull' /\ scope' = scope /\ TypeOK
  BY <1>1, DueStays DEF Unopposed, GateInv, plan
<1>3. ASSUME NEW s \in Services, CheckAnswered(s)
      PROVE  Unopposed'
  <2>1. s \in scope /\ ~ Aggregated
    BY <1>3 DEF CheckAnswered, GateInv, TypeOK, RowsHold
  <2>2. Matrix!ClearedAgainst({s}, cand, view)
    BY <2>1 DEF Unopposed, DueInFull, Due, Aggregated, Matrix!GateAll, Matrix!ClearedAgainst
  <2> QED BY <1>2, <1>3, <2>2 DEF CheckAnswered, Unopposed, TypeOK
<1>4. ASSUME NEW s \in Services, CheckEnds(s)
      PROVE  Unopposed'
  BY <1>2, <1>4 DEF CheckEnds, Unopposed, TypeOK
<1>5. CASE SetAnswered
  <2>1. \A s \in scope : Verdict(s) = "pass"
    BY <1>2, <1>5, DueRows DEF SetAnswered, Unopposed
  <2>2. \A s \in scope : result'[s] \in {"pass", "error"}
    BY <1>2, <1>5, <2>1 DEF SetAnswered, TypeOK
  <2>3. UNCHANGED <<answer, outcome>>
    BY <1>5 DEF SetAnswered
  <2> QED BY <1>2, <2>2, <2>3 DEF Unopposed
<1>6. CASE Decide
  BY <1>2, <1>6, NothingBlocked DEF Decide, Unopposed
<1>7. CASE CheckCoverage
  BY <1>2, <1>7 DEF CheckCoverage, Unopposed
<1>8. CASE DeployFollows
  BY <1>2, <1>8 DEF DeployFollows, Unopposed, TypeOK
<1>9. ASSUME UNCHANGED <<answer, result, outcome>>
      PROVE  Unopposed'
  BY <1>2, <1>9 DEF Unopposed
<1> QED BY <1>3, <1>4, <1>5, <1>6, <1>7, <1>8, <1>9
        DEF Next, Step, CheckStarts, Publish, Terminated, vars

(***************************************************************************)
(* A release that could be made when the gate was asked is not refused,    *)
(* whatever is answered first, fails or is published meanwhile.            *)
(***************************************************************************)
THEOREM NoFalseAlarmCorrect == Spec => NoFalseAlarm
<1>1. Init /\ DueInFull => Unopposed
  BY GateInit DEF Init, Unopposed, GateInv, TypeOK
<1>2. GateInv /\ Unopposed /\ [Next]_vars => Unopposed'
  BY UnopposedStep
<1>3. Unopposed => outcome # "blocked"
  BY DEF Unopposed
<1> QED BY <1>1, <1>2, <1>3, GateInit, GateStep, PTL DEF Spec, NoFalseAlarm, DueInFull

-------------------------------------------------------------------------------
(***************************************************************************)
(* What a verify that passed has found out stays so until the deploy asks: *)
(* what is not in Compose stays out of it, and a service that was cleared, *)
(* or had verified rows only, is and has them still.                       *)
(***************************************************************************)
Clear(s) == IF Aggregated THEN Verdict(s) = "pass" ELSE Cleared(s)

AsFound(found) ==
  /\ found = "missing" => ~ covered
  /\ found = "ok" => covered

Passed == foreseen.outcome = "passed"

Foreseen ==
  /\ AsFound(coverage) /\ AsFound(foreseen.coverage)
  /\ command = "verify" => foreseen = NoVerify
  /\ command = "verify" /\ outcome = "passed" => coverage # "missing"
  /\ command = "deploy" /\ outcome = "passed" => coverage = "ok"
  /\ command = "deploy" /\ coverage \in {"unknown", "missing"} => outcome = "error"
  /\ Passed => /\ foreseen.coverage \in {"ok", "unknown"}
               /\ \A s \in scope : Clear(s) /\ answer[s] # "block" /\ result[s] # "block"
               /\ outcome # "blocked"

LEMMA ForeseenInit == Init => Foreseen
BY DEF Init, Foreseen, AsFound, Passed, NoVerify

\* A gate that passed leaves its services clear.
LEMMA PassedClear ==
  ASSUME GateInv, outcome = "passed", NEW s \in scope
  PROVE  Clear(s)
<1>1. result[s] = "pass"
  BY DEF GateInv, Settled, Bad
<1> QED BY <1>1 DEF GateInv, AnswersHold, RowsHold, Clear

LEMMA ClearStays ==
  ASSUME UNCHANGED plan, verified \subseteq verified', NEW s \in scope, Clear(s)
  PROVE  Clear(s)'
<1>1. Aggregated' = Aggregated /\ RowsFor(s)' = RowsFor(s)
  BY DEF plan, Aggregated, RowsFor, Matrix!Overlay
<1>2. Cleared(s) => Cleared(s)'
  BY VerdictsStay DEF Cleared
<1> QED BY <1>1, <1>2 DEF Clear, Verdict

\* What the deploy is told agrees with that.
LEMMA ForeseenStep == GateInv /\ Foreseen /\ [Next]_vars => Foreseen'
<1> SUFFICES ASSUME GateInv, Foreseen, [Next]_vars PROVE Foreseen'
  OBVIOUS
<1>1. UNCHANGED plan /\ verified \subseteq verified'
  BY PlanStays
<1>2. /\ TypeOK /\ covered' = covered /\ scope' = scope /\ scope \subseteq Services
      /\ \A s \in scope : Clear(s) => Clear(s)'
  BY <1>1, ClearStays DEF GateInv, TypeOK, plan
<1> USE DEF Foreseen, AsFound, Passed
<1>3. CASE CheckCoverage
  <2>1. UNCHANGED <<command, foreseen, answer, result>>
    BY <1>3 DEF CheckCoverage
  <2>2. /\ coverage' = "missing" => ~ covered
        /\ coverage' = "ok" => covered
        /\ outcome' \in {"asking", "error"}
        /\ command = "deploy" /\ coverage' # "ok" => outcome' = "error"
    BY <1>3 DEF CheckCoverage, GoesOn
  <2> QED BY <1>2, <2>1, <2>2
<1>4. ASSUME NEW s \in Services, CheckAnswered(s)
      PROVE  Foreseen'
  <2>1. s \in scope /\ ~ Aggregated
    BY <1>4 DEF CheckAnswered, GateInv, TypeOK, RowsHold
  <2>2. UNCHANGED <<asked, result, outcome>>
    BY <1>4 DEF CheckAnswered
  <2>3. Passed => answer'[s] # "block"
    BY <1>2, <1>4, <2>1 DEF CheckAnswered, Clear, Cleared, TypeOK
  <2>4. \A t \in Services \ {s} : answer'[t] = answer[t]
    BY <1>2, <1>4 DEF CheckAnswered, TypeOK
  <2> QED BY <1>2, <2>2, <2>3, <2>4 DEF asked
<1>5. ASSUME NEW s \in Services, CheckEnds(s)
      PROVE  Foreseen'
  <2>1. UNCHANGED <<asked, answer, outcome>>
    BY <1>5 DEF CheckEnds
  <2>2. s \in scope /\ \A t \in scope : result'[t] \in {result[t], answer[t], "error"}
    BY <1>2, <1>5 DEF CheckEnds, TypeOK
  <2> QED BY <1>2, <2>1, <2>2 DEF asked
<1>6. CASE SetAnswered
  <2>1. UNCHANGED <<asked, answer, outcome>> /\ Aggregated
    BY <1>6 DEF SetAnswered
  <2>2. \A s \in scope : result'[s] \in {Verdict(s), "error"}
    BY <1>2, <1>6 DEF SetAnswered
  <2> QED BY <1>2, <2>1, <2>2 DEF asked, Clear
<1>7. CASE Decide
  <2>1. UNCHANGED <<asked, answer, result>> /\ outcome = "asking" /\ coverage # "none"
    BY <1>7 DEF Decide, AtGate
  <2>2. Passed => outcome' # "blocked"
    BY <1>2, <1>7, NothingBlocked
  <2>3. command = "verify" /\ outcome' = "passed" => coverage # "missing"
    BY <1>7 DEF Decide, Outcome, VerifyOutcome
  <2>4. command = "deploy" => coverage = "ok"
    BY <1>2, <2>1 DEF TypeOK, Coverages
  <2> QED BY <1>2, <2>1, <2>2, <2>3, <2>4 DEF asked
<1>8. CASE DeployFollows
  <2>1. /\ command' \in {"deploy", "dry-run"}
        /\ foreseen' = [coverage |-> coverage, outcome |-> outcome]
        /\ coverage' = "none" /\ outcome' = "asking"
        /\ command = "verify" /\ outcome # "asking"
    BY <1>8 DEF DeployFollows
  <2>2. \A s \in scope : answer'[s] = "none" /\ result'[s] = "none"
    BY <1>2, <1>8 DEF DeployFollows
  <2>3. outcome = "passed" => coverage \in {"ok", "unknown"}
    BY <1>2, <2>1 DEF GateInv, Settled, TypeOK, Coverages
  <2>4. outcome = "passed" => \A s \in scope : Clear(s)
    BY PassedClear
  <2> QED BY <1>2, <2>1, <2>2, <2>3, <2>4
<1>9. ASSUME UNCHANGED <<asked, answer, result, outcome>>
      PROVE  Foreseen'
  BY <1>2, <1>9 DEF asked
<1> QED BY <1>3, <1>4, <1>5, <1>6, <1>7, <1>8, <1>9
        DEF Next, Step, CheckStarts, Publish, Terminated, vars

(***************************************************************************)
(* ADR 0013, Verify parity, for any plan, pacts and parallelism, and       *)
(* whatever fails or is published from the verify to the deploy's verdict: *)
(* a deploy that follows a verify that passed is not blocked, nor is it    *)
(* told that Compose lacks a service, unless verify could not read the     *)
(* Compose files; and where verify found one lacking no deploy passes.     *)
(***************************************************************************)
THEOREM VerifyCorrect == Spec => []VerifyForesees
<1>1. Foreseen => VerifyForesees
  <2> SUFFICES ASSUME Foreseen, command # "verify" PROVE VerifyForesees
    BY DEF VerifyForesees
  <2>1. Passed /\ coverage = "missing" => foreseen.coverage = "unknown"
    BY DEF Foreseen, AsFound
  <2>2. foreseen.coverage = "missing" /\ command = "deploy" => outcome # "passed"
    BY DEF Foreseen, AsFound
  <2> QED BY <2>1, <2>2 DEF VerifyForesees, Foreseen, Passed
<1> QED BY <1>1, GateInit, GateStep, ForeseenInit, ForeseenStep, PTL DEF Spec

-------------------------------------------------------------------------------
(***************************************************************************)
(* How much is left to do: the Compose files to be read, a goroutine to    *)
(* start, an answer to wait for and a result to store of each service, and *)
(* the outcome to be made of them.                                         *)
(***************************************************************************)
ToStore == {s \in scope : result[s] = "none"}
ToAnswer == {s \in ToStore : answer[s] = "none"}

GateLeft ==
  Cardinality(Unasked) + Cardinality(ToAnswer) + Cardinality(ToStore)
    + (IF outcome = "asking" THEN 1 ELSE 0) + (IF coverage = "none" THEN 1 ELSE 0)

\* A goroutine has not stored its result yet.
AtWork == \A s \in running : result[s] = "none"

LEMMA AtWorkStep == TypeOK /\ AtWork /\ [Next]_vars => AtWork'
<1> SUFFICES ASSUME TypeOK, AtWork, [Next]_vars PROVE AtWork'
  OBVIOUS
<1> USE DEF TypeOK, AtWork
<1>1. ASSUME NEW s \in Services, CheckStarts(s) \/ CheckAnswered(s) \/ CheckEnds(s)
      PROVE  AtWork'
  BY <1>1 DEF CheckStarts, CheckAnswered, CheckEnds, Unasked
<1>2. CASE SetAnswered
  <2>1. running = {}
    BY <1>2 DEF SetAnswered, Unasked
  <2> QED BY <1>2, <2>1 DEF SetAnswered
<1>3. CASE UNCHANGED <<running, result>>
  BY <1>3
<1>4. CASE DeployFollows
  BY <1>4 DEF DeployFollows
<1> QED BY <1>1, <1>2, <1>3, <1>4
        DEF Next, Step, CheckCoverage, Decide, Publish, Terminated, vars

\* No service is taken up again, and a step is done with something of one.
Shrinks(S, T) == T \subseteq S
Loses(S, T) == \E s \in S : T \subseteq S \ {s}

LEMMA StepShrinks ==
  ASSUME TypeOK, Settled, AtWork, scope # {}, Step
  PROVE  /\ Shrinks(Unasked, Unasked') /\ Shrinks(ToAnswer, ToAnswer')
         /\ Shrinks(ToStore, ToStore')
         /\ outcome' = "asking" => outcome = "asking"
         /\ coverage' = "none" => coverage = "none"
         /\ \/ Loses(Unasked, Unasked') \/ Loses(ToAnswer, ToAnswer')
            \/ Loses(ToStore, ToStore')
            \/ outcome = "asking" /\ outcome' # "asking"
            \/ coverage = "none" /\ coverage' # "none"
<1> USE DEF TypeOK, AtWork, Shrinks, Loses, Unasked, ToAnswer, ToStore, asked, plan
<1>1. ASSUME NEW s \in Services, CheckStarts(s)
      PROVE  /\ Unasked' \subseteq Unasked \ {s} /\ s \in Unasked
             /\ UNCHANGED <<ToAnswer, ToStore, outcome, coverage>>
  BY <1>1 DEF CheckStarts
<1>2. ASSUME NEW s \in Services, CheckAnswered(s)
      PROVE  /\ ToAnswer' \subseteq ToAnswer \ {s} /\ s \in ToAnswer
             /\ UNCHANGED <<Unasked, ToStore, outcome, coverage>>
  BY <1>2 DEF CheckAnswered
<1>3. ASSUME NEW s \in Services, CheckEnds(s)
      PROVE  /\ ToStore' \subseteq ToStore \ {s} /\ s \in ToStore
             /\ Unasked' \subseteq Unasked /\ ToAnswer' \subseteq ToAnswer
             /\ UNCHANGED <<outcome, coverage>>
  BY <1>3 DEF CheckEnds
<1>4. CASE SetAnswered
  <2>1. \A s \in scope : result'[s] # "none" /\ result[s] = "none"
    BY <1>4 DEF SetAnswered, Verdict
  <2>2. Unasked' = {} /\ ToAnswer' = {} /\ ToStore' = {} /\ ToStore = scope
    BY <1>4, <2>1 DEF SetAnswered
  <2> QED BY <1>4, <2>2 DEF SetAnswered
<1>5. CASE Decide
  BY <1>5 DEF Decide, AtGate, Outcome, DeployOutcome, VerifyOutcome
<1>6. CASE CheckCoverage
  <2>1. UNCHANGED <<Unasked, ToAnswer, ToStore>>
    BY <1>6 DEF CheckCoverage
  <2>2. coverage = "none" /\ coverage' # "none"
    BY <1>6 DEF CheckCoverage
  <2>3. outcome = "asking"
    BY <2>2 DEF Settled
  <2> QED BY <2>1, <2>2, <2>3
<1> QED BY <1>1, <1>2, <1>3, <1>4, <1>5, <1>6 DEF Step

LEMMA ShrinksIsNoMore ==
  ASSUME NEW S, NEW T, IsFiniteSet(S), Shrinks(S, T)
  PROVE  /\ Cardinality(S) \in Nat /\ Cardinality(T) \in Nat
         /\ Cardinality(T) <= Cardinality(S)
         /\ Loses(S, T) => Cardinality(T) < Cardinality(S)
<1>1. IsFiniteSet(T) /\ Cardinality(T) <= Cardinality(S)
  BY FS_Subset DEF Shrinks
<1>2. Cardinality(S) \in Nat /\ Cardinality(T) \in Nat
  BY <1>1, FS_CardinalityType
<1>3. ASSUME NEW s \in S, T \subseteq S \ {s}
      PROVE  Cardinality(T) < Cardinality(S)
  <2>1. IsFiniteSet(S \ {s}) /\ Cardinality(S \ {s}) = Cardinality(S) - 1
    BY FS_RemoveElement
  <2>2. Cardinality(T) <= Cardinality(S \ {s})
    BY <1>3, <2>1, FS_Subset
  <2> QED BY <1>2, <2>1, <2>2
<1> QED BY <1>1, <1>2, <1>3 DEF Loses

\* Publications are no step of the gate, and cost it nothing.
LEMMA LeftUnchanged ==
  ASSUME UNCHANGED <<asked, running, answer, result, outcome>>
  PROVE  GateLeft' = GateLeft
BY DEF asked, plan, GateLeft, Unasked, ToAnswer, ToStore

LEMMA GateLeftFalls ==
  ASSUME TypeOK, Settled, AtWork, scope # {}, Step
  PROVE  GateLeft' < GateLeft
<1>1. IsFiniteSet(scope)
  BY FS_Subset, GateAssumption DEF TypeOK
<1>2. /\ IsFiniteSet(Unasked) /\ IsFiniteSet(ToAnswer) /\ IsFiniteSet(ToStore)
  BY <1>1, FS_Subset DEF Unasked, ToAnswer, ToStore
<1> DEFINE a == Cardinality(Unasked)   x == Cardinality(Unasked')
           b == Cardinality(ToAnswer)  y == Cardinality(ToAnswer')
           c == Cardinality(ToStore)   z == Cardinality(ToStore')
<1>3. /\ a \in Nat /\ b \in Nat /\ c \in Nat /\ x \in Nat /\ y \in Nat /\ z \in Nat
      /\ x <= a /\ y <= b /\ z <= c
      /\ \/ x < a \/ y < b \/ z < c
         \/ outcome = "asking" /\ outcome' # "asking"
         \/ coverage = "none" /\ coverage' # "none"
  <2>1. /\ a \in Nat /\ x \in Nat /\ x <= a
        /\ Loses(Unasked, Unasked') => x < a
    BY <1>2, StepShrinks, ShrinksIsNoMore
  <2>2. /\ b \in Nat /\ y \in Nat /\ y <= b
        /\ Loses(ToAnswer, ToAnswer') => y < b
    BY <1>2, StepShrinks, ShrinksIsNoMore
  <2>3. /\ c \in Nat /\ z \in Nat /\ z <= c
        /\ Loses(ToStore, ToStore') => z < c
    BY <1>2, StepShrinks, ShrinksIsNoMore
  <2>4. \/ Loses(Unasked, Unasked') \/ Loses(ToAnswer, ToAnswer')
        \/ Loses(ToStore, ToStore')
        \/ outcome = "asking" /\ outcome' # "asking"
        \/ coverage = "none" /\ coverage' # "none"
    BY StepShrinks
  <2> HIDE DEF a, b, c, x, y, z
  <2> QED BY <2>1, <2>2, <2>3, <2>4
<1>4. /\ outcome' = "asking" => outcome = "asking"
      /\ coverage' = "none" => coverage = "none"
  BY StepShrinks
<1>5. /\ GateLeft = a + b + c + (IF outcome = "asking" THEN 1 ELSE 0)
                    + (IF coverage = "none" THEN 1 ELSE 0)
      /\ GateLeft' = x + y + z + (IF outcome' = "asking" THEN 1 ELSE 0)
                     + (IF coverage' = "none" THEN 1 ELSE 0)
  BY DEF GateLeft
<1> HIDE DEF a, b, c, x, y, z
<1> QED BY <1>3, <1>4, <1>5

(***************************************************************************)
(* The gate does not go on for ever: each step of it, of a goroutine or of *)
(* the pipeline that waits for them, brings it nearer to its outcome, and  *)
(* no result that is published meanwhile makes it ask again: only another  *)
(* command does.                                                           *)
(***************************************************************************)
THEOREM GateRunsDown ==
  Spec => [][/\ Step => GateLeft' < GateLeft
             /\ ~ Step /\ ~ DeployFollows => GateLeft' = GateLeft]_vars
<1>1. Init => AtWork
  BY DEF Init, AtWork
<1>2. GateInv /\ AtWork /\ [Next]_vars
        => [/\ Step => GateLeft' < GateLeft
            /\ ~ Step /\ ~ DeployFollows => GateLeft' = GateLeft]_vars
  BY GateLeftFalls, LeftUnchanged DEF GateInv, Next, Publish, Terminated, vars
<1>3. GateInv /\ AtWork /\ [Next]_vars => AtWork'
  BY AtWorkStep DEF GateInv
<1> QED BY <1>1, <1>2, <1>3, GateInit, GateStep, PTL DEF Spec
===============================================================================
