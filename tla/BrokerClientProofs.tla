--------------------------- MODULE BrokerClientProofs ---------------------------
(***************************************************************************)
(* Without late deliveries a record-deployment over HTTP is the call the   *)
(* pipeline takes it for, for any versions and any number of attempts.     *)
(***************************************************************************)
EXTENDS BrokerClient, TLAPS

\* A request that returns or is retried stays within its types.
LEMMA ReturnTypes ==
  ASSUME TypeOK, NEW result \in {"ok", "error"}, Return(result)
  PROVE  /\ call' \in Versions \cup {None}
         /\ verdict' \in {"none", "ok", "error"}
         /\ at' \in {"idle", "send", "await", "backoff"}
BY DEF TypeOK, Return

LEMMA RetryTypes ==
  ASSUME TypeOK, RetryOrFail, call # None
  PROVE  /\ call' \in Versions \cup {None}
         /\ verdict' \in {"none", "ok", "error"}
         /\ at' \in {"idle", "send", "await", "backoff"}
         /\ at' = "backoff" => attempt < MaxAttempts
         /\ at' = "idle" <=> call' = None
BY ReturnTypes DEF TypeOK, RetryOrFail, Return

LEMMA AbandonTypes ==
  ASSUME TypeOK, Abandon
  PROVE  wire' \subseteq Requests
BY DEF TypeOK, Abandon

(***************************************************************************)
(* A pause is only made when there is an attempt left.  That the attempts  *)
(* stay within their bound needs it: BackoffEnds has no guard.             *)
(***************************************************************************)
AttemptLeft == at = "backoff" => attempt < MaxAttempts

\* A call is under way exactly when Client.do has something to do.
CallUnderWay == at = "idle" <=> call = None

TypeInv == TypeOK /\ AttemptLeft /\ CallUnderWay

LEMMA TypeInit == Init => TypeInv
<1> SUFFICES ASSUME Init PROVE TypeInv
  OBVIOUS
<1>1. cancelled \in BOOLEAN
  BY DEF Init
<1>2. wire \subseteq Requests
  BY DEF Init
<1>3. calls \in 0..MaxCalls /\ attempt \in 1..MaxAttempts
  BY ClientAssumption DEF Init
<1> QED BY <1>1, <1>2, <1>3 DEF Init, TypeInv, TypeOK, AttemptLeft, CallUnderWay, Stages

LEMMA TypeStep == TypeInv /\ [Next]_vars => TypeInv'
<1> SUFFICES ASSUME TypeInv, [Next]_vars PROVE TypeInv'
  OBVIOUS
<1> USE ClientAssumption DEF TypeInv, AttemptLeft, CallUnderWay, vars, broker, request
<1>1. ASSUME NEW v \in Versions, Start(v) PROVE TypeInv'
  <2>1. cancelled' \in BOOLEAN
    BY <1>1 DEF Start
  <2>2. attempt' \in 1..MaxAttempts /\ calls' \in 0..MaxCalls
    BY <1>1 DEF Start, TypeOK
  <2> QED BY <1>1, <2>1, <2>2 DEF Start, TypeOK, Stages
<1>2. CASE RelationMissing
  BY <1>2, ReturnTypes DEF RelationMissing, Return, TypeOK
<1>3. CASE Send
  <2>1. wire' \subseteq Requests
    <3>1. CASE stage = "post"
      <4>1. call \in Versions
        BY <1>3 DEF Send, TypeOK
      <4> QED BY <1>3, <3>1, <4>1 DEF Send, TypeOK, Request, Requests
    <3>2. CASE stage # "post"
      BY <1>3, <3>2 DEF Send, TypeOK
    <3> QED BY <3>1, <3>2
  <2> QED BY <1>3, <2>1 DEF Send, TypeOK
<1>4. CASE GiveUp
  BY <1>4, ReturnTypes, AbandonTypes DEF GiveUp, Return, TypeOK
<1>5. CASE BackoffEnds
  BY <1>5 DEF BackoffEnds, TypeOK
<1>6. CASE Resolved
  <2>1. attempt' \in 1..MaxAttempts
    BY <1>6 DEF Resolved, TypeOK
  <2>2. CASE Return("error")
    BY <1>6, <2>1, <2>2, ReturnTypes DEF Resolved, Return, TypeOK, Stages
  <2>3. CASE ~ Return("error")
    BY <1>6, <2>1, <2>3 DEF Resolved, TypeOK, Stages
  <2> QED BY <2>2, <2>3
<1>7. CASE Posted
  BY <1>7, ReturnTypes, AbandonTypes DEF Posted, Return, TypeOK
<1>8. CASE ToldLater
  BY <1>8, RetryTypes, AbandonTypes DEF ToldLater, TypeOK
<1>9. CASE Refused
  BY <1>9, ReturnTypes, AbandonTypes DEF Refused, Return, TypeOK
<1>10. CASE BodyLost
  BY <1>10, ReturnTypes, AbandonTypes DEF BodyLost, Return, TypeOK
<1>11. CASE Unreachable
  BY <1>11, RetryTypes, AbandonTypes DEF Unreachable, TypeOK
<1>12. ASSUME NEW r \in wire, Serve(r) PROVE TypeInv'
  <2>1. r.version \in Versions
    BY DEF TypeOK, Requests
  <2> QED BY <1>12, <2>1 DEF Serve, TypeOK, Answers
<1>13. CASE ServeResource
  BY <1>13 DEF ServeResource, TypeOK
<1>14. CASE Cancel
  BY <1>14 DEF Cancel, TypeOK
<1>15. CASE Terminated \/ UNCHANGED vars
  BY <1>15 DEF Terminated, TypeOK
<1> QED BY <1>1, <1>2, <1>3, <1>4, <1>5, <1>6, <1>7, <1>8, <1>9, <1>10, <1>11,
           <1>12, <1>13, <1>14, <1>15 DEF Next, Client

\* Every variable of the client, the network and the broker stays in its domain.
THEOREM ClientTypeCorrect == Spec => []TypeOK
<1>1. TypeInv => TypeOK
  BY DEF TypeInv
<1> QED BY <1>1, TypeInit, TypeStep, PTL DEF Spec

-------------------------------------------------------------------------------
(***************************************************************************)
(* What a request does to the calls after its own is the one thing that    *)
(* keeps RecordDeployment from being the call the pipeline takes it for.   *)
(* An attempt may be served late, after the client gave up on it, as long  *)
(* as its call is still being made: it posts what the retry posts.         *)
(***************************************************************************)
OnTime == \A r \in wire : Serve(r) => r.call = calls /\ call # None

\* The posts of a call are about its version, and no call is numbered ahead.
OwnPosts ==
  \A r \in wire : /\ r.call <= calls
                  /\ (r.call = calls /\ call # None) => r.version = call

\* An answer of success is about the version of this call: that is why a
\* returning call may claim what the broker shows.
AnswerTrue ==
  (at = "await" /\ stage = "post" /\ answer = "done") => shown = call

CallInv == TypeInv /\ OwnPosts /\ AnswerTrue

LEMMA CallStep ==
  ASSUME CallInv, OnTime, [Next]_vars
  PROVE  CallInv'
<1> USE DEF CallInv, OwnPosts, AnswerTrue
<1>1. TypeInv'
  BY TypeStep
<1>2. calls \in Nat /\ \A r \in wire : r.call \in Nat
  BY ClientAssumption DEF TypeInv, TypeOK, Requests
<1> SUFFICES OwnPosts' /\ AnswerTrue'
  BY <1>1
<1>3. ASSUME NEW v \in Versions, Start(v) PROVE OwnPosts' /\ AnswerTrue'
  BY <1>2, <1>3 DEF Start, broker
<1>4. CASE RelationMissing
  BY <1>2, <1>4 DEF RelationMissing, Return, broker
<1>5. CASE Send
  BY <1>2, <1>5 DEF Send, Request, request
<1>6. CASE GiveUp
  BY <1>6 DEF GiveUp, Return, Abandon
<1>7. CASE BackoffEnds
  BY <1>7 DEF BackoffEnds, broker, request
<1>8. CASE Resolved
  BY <1>8 DEF Resolved, Return, broker
<1>9. CASE Posted \/ Refused \/ BodyLost
  BY <1>9 DEF Posted, Refused, BodyLost, Return, Abandon
<1>10. CASE ToldLater \/ Unreachable
  BY <1>10 DEF ToldLater, Unreachable, RetryOrFail, Return, Abandon
<1>11. ASSUME NEW r \in wire, Serve(r) PROVE OwnPosts' /\ AnswerTrue'
  <2>1. r.version = call
    BY <1>11 DEF OnTime
  <2> QED
    BY <1>11, <2>1 DEF Serve, request, Request
<1>12. CASE ServeResource
  BY <1>12 DEF ServeResource, request
<1>13. CASE Cancel \/ Terminated \/ UNCHANGED vars
  BY <1>13 DEF Cancel, Terminated, vars, broker, request
<1> QED BY <1>3, <1>4, <1>5, <1>6, <1>7, <1>8, <1>9, <1>10, <1>11, <1>12, <1>13
        DEF Next, Client

LEMMA RefinementStep ==
  ASSUME CallInv, OnTime, [Next]_vars
  PROVE  [Call!Next]_(Call!vars)
<1> USE DEF CallInv, TypeInv, CallUnderWay, Call!Next, Call!vars
<1>1. ASSUME NEW v \in Versions, Start(v) PROVE Call!Start(v)
  BY <1>1 DEF Start, broker, Call!Start
<1>2. CASE RelationMissing
  BY <1>2 DEF RelationMissing, Return, broker, Call!Fail
<1>3. CASE GiveUp \/ Refused \/ BodyLost
  BY <1>3 DEF GiveUp, Refused, BodyLost, Return, Call!Fail
<1>4. CASE Resolved
  BY <1>4 DEF Resolved, Return, broker, Call!Fail
<1>5. CASE Posted
  BY <1>5 DEF Posted, Return, AnswerTrue, Call!Succeed
<1>6. CASE ToldLater \/ Unreachable
  BY <1>6 DEF ToldLater, Unreachable, RetryOrFail, Return, Call!Fail
<1>7. ASSUME NEW r \in wire, Serve(r) PROVE [Call!Next]_(Call!vars)
  <2>1. r.version = call /\ call # None
    BY <1>7 DEF OnTime, OwnPosts
  <2> QED
    BY <1>7, <2>1 DEF Serve, request, Call!Apply
<1>8. CASE Send \/ BackoffEnds \/ ServeResource \/ Cancel \/ Terminated \/ UNCHANGED vars
  BY <1>8 DEF Send, BackoffEnds, ServeResource, Cancel, Terminated, vars, broker, request
<1> QED BY <1>1, <1>2, <1>3, <1>4, <1>5, <1>6, <1>7, <1>8 DEF Next, Client

(***************************************************************************)
(* If no request is served after its call is over, RecordDeployment with   *)
(* its retries is the call the deploy pipeline takes it for: it takes      *)
(* effect while it lasts, and its success is the broker's state.           *)
(***************************************************************************)
THEOREM OnTimeImplementsRecordCall == Spec /\ [][OnTime]_vars => ImplementsRecordCall
<1>1. Init => CallInv
  BY TypeInit DEF Init, CallInv, OwnPosts, AnswerTrue
<1>2. CallInv /\ [Next]_vars /\ [OnTime]_vars => CallInv'
  <2>1. CallInv /\ UNCHANGED vars => CallInv'
    BY TypeStep DEF CallInv, OwnPosts, AnswerTrue, vars, broker, request
  <2> QED
    BY <2>1, CallStep
<1>3. Init => Call!Init
  BY DEF Init, Call!Init
<1>4. CallInv /\ [Next]_vars /\ [OnTime]_vars => [Call!Next]_(Call!vars)
  BY RefinementStep DEF vars, broker, request, Call!vars
<1> QED BY <1>1, <1>2, <1>3, <1>4, PTL DEF Spec, ImplementsRecordCall, Call!Spec

\* Where nothing is delivered late, the attempt on the wire is the one awaited.
NoStrangers == \A r \in wire : at = "await" /\ stage = "post" /\ r.call = calls

LEMMA NoStrangersStep ==
  ASSUME ~ LateDelivery, TypeInv, NoStrangers, [Next]_vars
  PROVE  NoStrangers'
<1> USE DEF NoStrangers
<1>1. ASSUME NEW v \in Versions, Start(v) PROVE NoStrangers'
  BY <1>1 DEF Start, broker
<1>2. CASE RelationMissing
  BY <1>2 DEF RelationMissing, Return, broker
<1>3. CASE Send
  BY <1>3 DEF Send, Request, request
<1>4. CASE GiveUp \/ Posted \/ Refused \/ BodyLost \/ ToldLater \/ Unreachable
  BY <1>4 DEF GiveUp, Posted, Refused, BodyLost, ToldLater, Unreachable, Abandon
<1>5. CASE BackoffEnds
  BY <1>5 DEF BackoffEnds, broker, request
<1>6. CASE Resolved
  <2>1. wire = {}
    BY <1>6 DEF Resolved
  <2> QED
    BY <1>6, <2>1 DEF Resolved, broker
<1>7. ASSUME NEW r \in wire, Serve(r) PROVE NoStrangers'
  BY <1>7 DEF Serve, request
<1>8. CASE ServeResource \/ Cancel \/ Terminated \/ UNCHANGED vars
  BY <1>8 DEF ServeResource, Cancel, Terminated, vars, broker, request
<1> QED BY <1>1, <1>2, <1>3, <1>4, <1>5, <1>6, <1>7, <1>8 DEF Next, Client

\* A network that drops what the client gave up on serves everything on time.
THEOREM NothingLate ==
  ASSUME ~ LateDelivery
  PROVE  Spec => [][OnTime]_vars
<1>1. Init => NoStrangers
  BY DEF Init, NoStrangers
<1>2. TypeInv /\ NoStrangers /\ [Next]_vars => NoStrangers'
  BY NoStrangersStep
<1>3. TypeInv /\ NoStrangers => OnTime
  BY DEF TypeInv, CallUnderWay, NoStrangers, OnTime
<1> QED BY <1>1, <1>2, <1>3, TypeInit, TypeStep, PTL DEF Spec

(***************************************************************************)
(* So on such a network the client is the abstract call, whatever is lost, *)
(* refused, cut off or repeated.                                           *)
(***************************************************************************)
THEOREM ClientImplementsRecordCall ==
  ASSUME ~ LateDelivery
  PROVE  Spec => ImplementsRecordCall
BY OnTimeImplementsRecordCall, NothingLate, PTL

-------------------------------------------------------------------------------
\* How many steps the client is from the end of its call: of both requests, of
\* the attempts of each, and of an attempt to be sent, awaited or slept upon.
AttemptSteps == IF at = "send" THEN 3 ELSE IF at = "await" THEN 2 ELSE 1

ClientLeft ==
  IF at = "idle" THEN 0
  ELSE (IF stage = "resolve" THEN 3 * MaxAttempts ELSE 0)
         + 3 * (MaxAttempts - attempt) + AttemptSteps

LEMMA ClientGoesOn ==
  ASSUME TypeInv, Client
  PROVE  ClientLeft' < ClientLeft
<1> USE ClientAssumption DEF TypeInv, TypeOK, AttemptLeft, ClientLeft, AttemptSteps
<1>1. CASE Send
  BY <1>1 DEF Send, request
<1>2. CASE GiveUp \/ Posted \/ Refused \/ BodyLost
  BY <1>2 DEF GiveUp, Posted, Refused, BodyLost, Return
<1>3. CASE BackoffEnds
  BY <1>3 DEF BackoffEnds, request
<1>4. CASE Resolved
  BY <1>4 DEF Resolved, Return
<1>5. CASE ToldLater \/ Unreachable
  BY <1>5 DEF ToldLater, Unreachable, RetryOrFail, Return
<1> QED BY <1>1, <1>2, <1>3, <1>4, <1>5 DEF Client

(***************************************************************************)
(* The retries are bounded: every step the client takes in a call brings   *)
(* it nearer to the end of it, never more than six per attempt there may   *)
(* be away, and neither the broker nor the network nor a signal takes it   *)
(* back.                                                                   *)
(***************************************************************************)
THEOREM ClientRunsDown ==
  Spec => /\ [](ClientLeft \in 0 .. 6 * MaxAttempts)
          /\ [][/\ Client => ClientLeft' < ClientLeft
                /\ call # None => ClientLeft' <= ClientLeft]_vars
<1>1. TypeInv => ClientLeft \in 0 .. 6 * MaxAttempts
  BY ClientAssumption DEF TypeInv, TypeOK, ClientLeft, AttemptSteps
<1>2. TypeInv' => ClientLeft' \in Nat
  <2> SUFFICES ASSUME TypeInv' PROVE ClientLeft' \in Nat
    OBVIOUS
  <2>1. MaxAttempts \in Nat \ {0} /\ attempt' \in 1..MaxAttempts
    BY ClientAssumption DEF TypeInv, TypeOK
  <2>2. AttemptSteps' \in Nat
    BY DEF AttemptSteps
  <2>3. (IF stage = "resolve" THEN 3 * MaxAttempts ELSE 0)' \in Nat
    BY <2>1
  <2>4. \A a \in 1..MaxAttempts : MaxAttempts - a \in Nat
    BY ClientAssumption
  <2>5. \A a, b, c \in Nat : a + 3 * b + c \in Nat
    OBVIOUS
  <2>6. PICK left \in Nat : left = MaxAttempts - attempt'
    BY <2>1, <2>4
  <2> QED
    BY <2>2, <2>3, <2>5, <2>6 DEF ClientLeft
<1>3. ASSUME TypeInv, TypeInv', [Next]_vars, call # None
      PROVE  ClientLeft' <= ClientLeft
  <2>1. ClientLeft \in Nat /\ ClientLeft' \in Nat
    BY <1>1, <1>2, <1>3, ClientAssumption
  <2>2. CASE Client
    <3>1. ClientLeft' < ClientLeft
      BY <1>3, <2>2, ClientGoesOn
    <3> QED
      BY <2>1, <3>1
  <2>3. CASE ~ Client
    <3>1. UNCHANGED <<at, stage, attempt>>
      BY <1>3, <2>3 DEF Next, Start, RelationMissing, Serve, ServeResource, Cancel, Terminated,
             TypeInv, CallUnderWay, vars, broker, request
    <3>2. ClientLeft' = ClientLeft
      BY <3>1 DEF ClientLeft, AttemptSteps
    <3> QED
      BY <2>1, <3>2
  <2> QED
    BY <2>2, <2>3
<1>4. TypeInv /\ TypeInv' /\ [Next]_vars
        => [/\ Client => ClientLeft' < ClientLeft
            /\ call # None => ClientLeft' <= ClientLeft]_vars
  BY <1>3, ClientGoesOn
<1> QED BY <1>1, <1>4, TypeInit, TypeStep, PTL DEF Spec
===============================================================================
