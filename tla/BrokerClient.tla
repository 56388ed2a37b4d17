------------------------------ MODULE BrokerClient ------------------------------
(***************************************************************************)
(* internal/broker: RecordDeployment over HTTP.                            *)
(*                                                                         *)
(* A call follows the link to the resource of the version unless the index *)
(* has the link it wants, and then posts.  Each of the two requests goes   *)
(* through Client.do: some attempts, each sent on its own, with a pause    *)
(* in between.  The network loses requests and answers, and the broker may *)
(* get to a request long after the client has given up on it.              *)
(*                                                                         *)
(* The calls modelled are those of successive releases of one service to   *)
(* one environment: the pipeline makes them one at a time.                 *)
(***************************************************************************)
EXTENDS Naturals

CONSTANTS
  Versions, None,
  MaxAttempts,   \* maxAttempts
  LateDelivery,  \* a request the client gave up on may still be served
  MaxCalls       \* bound on the number of calls

ASSUME ClientAssumption ==
  /\ None \notin Versions
  /\ MaxAttempts \in Nat \ {0}
  /\ LateDelivery \in BOOLEAN
  /\ MaxCalls \in Nat

VARIABLES
  shown,      \* the version the broker shows as deployed
  wire,       \* posts that were sent and not served
  answer,     \* the broker's answer to the attempt that is waited for
  call,       \* the version being recorded, or None between calls
  verdict,    \* what the last call returned
  calls,      \* the number of calls made
  at,         \* what Client.do is about to do
  stage,      \* which request of the call it is doing
  attempt,    \* and for which time
  cancelled   \* the context was cancelled

broker == <<shown, wire, answer>>
request == <<call, verdict, calls, stage>>
vars == <<broker, request, at, attempt, cancelled>>

Stages == {"resolve", "post"}

\* 2xx; 429 and 5xx; any other 4xx
Answers == {"done", "later", "refused"}

Request(v) == [version |-> v, call |-> calls, attempt |-> attempt]

Requests == [version : Versions, call : 0..MaxCalls, attempt : 1..MaxAttempts]

Init ==
  /\ shown \in Versions \cup {None}
  /\ wire = {}
  /\ answer = "none"
  /\ call = None
  /\ verdict = "none"
  /\ calls = 0
  /\ at = "idle"
  /\ stage = "post"
  /\ attempt = 1
  /\ cancelled = FALSE

\* What becomes of the request of an attempt that is over.
Abandon == wire' = IF LateDelivery THEN wire ELSE {}

Return(result) ==
  /\ call' = None
  /\ verdict' = result
  /\ at' = "idle"

-------------------------------------------------------------------------------
\* resolveRecordDeploymentURL: the index has the link, or the link to the
\* resource that has it, or neither.
Start(v) ==
  /\ at = "idle"
  /\ calls < MaxCalls
  /\ calls' = calls + 1
  /\ stage' \in Stages
  /\ call' = v
  /\ at' = "send"
  /\ attempt' = 1
  /\ cancelled' = FALSE
  /\ UNCHANGED <<broker, verdict>>

RelationMissing ==
  /\ at = "idle"
  /\ calls < MaxCalls
  /\ calls' = calls + 1
  /\ Return("error")
  /\ UNCHANGED <<broker, stage, attempt, cancelled>>

\* doOnce sends; nothing is sent under a cancelled context.
Send ==
  /\ at = "send"
  /\ ~ cancelled
  /\ wire' = IF stage = "post" THEN wire \cup {Request(call)} ELSE wire
  /\ answer' = "none"
  /\ at' = "await"
  /\ UNCHANGED <<shown, request, attempt, cancelled>>

\* A cancelled context ends the call wherever it is.
GiveUp ==
  /\ at \in {"send", "await", "backoff"}
  /\ cancelled
  /\ Return("error")
  /\ Abandon
  /\ UNCHANGED <<shown, answer, calls, stage, attempt, cancelled>>

\* Mutant: one attempt more than there may be.
RetryOnceMore ==
  \/ /\ attempt <= MaxAttempts
     /\ at' = "backoff"
     /\ UNCHANGED <<call, verdict>>
  \/ /\ attempt > MaxAttempts
     /\ Return("error")

\* isRetryable said yes: pause, or return the last attempt's error.
RetryOrFail ==
  \/ /\ attempt < MaxAttempts
     /\ at' = "backoff"
     /\ UNCHANGED <<call, verdict>>
  \/ /\ attempt = MaxAttempts
     /\ Return("error")

\* Mutant: the attempts of a request are not counted.
BackoffForgets ==
  /\ at = "backoff"
  /\ at' = "send"
  /\ UNCHANGED <<broker, request, attempt, cancelled>>

BackoffEnds ==
  /\ at = "backoff"
  /\ attempt' = attempt + 1
  /\ at' = "send"
  /\ UNCHANGED <<broker, request, cancelled>>

-------------------------------------------------------------------------------
\* Resolved: the resource is there; whether it has the link is seen only now.
Resolved ==
  /\ at = "await"
  /\ stage = "resolve"
  /\ answer = "done"
  /\ \/ /\ stage' = "post"
        /\ attempt' = 1
        /\ at' = "send"
        /\ UNCHANGED <<call, verdict>>
     \/ /\ Return("error")
        /\ UNCHANGED <<stage, attempt>>
  /\ UNCHANGED <<broker, calls, cancelled>>

\* Mutant: any status below 500 is taken for success.
PostedUnless5xx ==
  /\ at = "await"
  /\ stage = "post"
  /\ answer \in {"done", "refused"}
  /\ Return("ok")
  /\ Abandon
  /\ UNCHANGED <<shown, answer, calls, stage, attempt, cancelled>>

Posted ==
  /\ at = "await"
  /\ stage = "post"
  /\ answer = "done"
  /\ Return("ok")
  /\ Abandon
  /\ UNCHANGED <<shown, answer, calls, stage, attempt, cancelled>>

\* The status is retryable, whether or not the body can be read.
ToldLater ==
  /\ at = "await"
  /\ answer = "later"
  /\ RetryOrFail
  /\ Abandon
  /\ UNCHANGED <<shown, answer, calls, stage, attempt, cancelled>>

Refused ==
  /\ at = "await"
  /\ answer = "refused"
  /\ Return("error")
  /\ Abandon
  /\ UNCHANGED <<shown, answer, calls, stage, attempt, cancelled>>

(***************************************************************************)
(* The status line arrived and the rest did not.  The error of ReadAll     *)
(* is neither ErrBrokerUnreachable nor, with its status, retryable.        *)
(***************************************************************************)
BodyLost ==
  /\ at = "await"
  /\ answer = "done"
  /\ Return("error")
  /\ Abandon
  /\ UNCHANGED <<shown, answer, calls, stage, attempt, cancelled>>

\* No connection, a connection that breaks, or no answer within the timeout.
Unreachable ==
  /\ at = "await"
  /\ ~ cancelled
  /\ RetryOrFail
  /\ Abandon
  /\ UNCHANGED <<shown, answer, calls, stage, attempt, cancelled>>

-------------------------------------------------------------------------------
\* The broker, and what stands between.

\* A post is applied or not; the answer is for the attempt that waits for it.
Serve(r) ==
  /\ r \in wire
  /\ wire' = wire \ {r}
  /\ \E a \in Answers :
       /\ \/ a # "refused" /\ shown' = r.version
          \/ a # "done" /\ UNCHANGED shown
       /\ answer' = IF at = "await" /\ r = Request(call) THEN a ELSE answer
  /\ UNCHANGED <<request, at, attempt, cancelled>>

ServeResource ==
  /\ at = "await"
  /\ stage = "resolve"
  /\ answer = "none"
  /\ answer' \in Answers
  /\ UNCHANGED <<shown, wire, request, at, attempt, cancelled>>

Cancel ==
  /\ at # "idle"
  /\ ~ cancelled
  /\ cancelled' = TRUE
  /\ UNCHANGED <<broker, request, at, attempt>>

Terminated ==
  /\ at = "idle"
  /\ calls = MaxCalls
  /\ wire = {}
  /\ UNCHANGED vars

-------------------------------------------------------------------------------
Client ==
  \/ Send \/ GiveUp \/ BackoffEnds
  \/ Resolved \/ Posted \/ ToldLater \/ Refused \/ BodyLost \/ Unreachable

Next ==
  \/ \E v \in Versions : Start(v)
  \/ RelationMissing
  \/ Client
  \/ \E r \in wire : Serve(r)
  \/ ServeResource
  \/ Cancel
  \/ Terminated

Spec == Init /\ [][Next]_vars

\* Every attempt has the timeout of the HTTP client, and every pause its end.
FairSpec == Spec /\ WF_vars(Client)

-------------------------------------------------------------------------------
\* The declared domain of every variable.
TypeOK ==
  /\ shown \in Versions \cup {None}
  /\ wire \subseteq Requests
  /\ answer \in Answers \cup {"none"}
  /\ call \in Versions \cup {None}
  /\ verdict \in {"none", "ok", "error"}
  /\ calls \in 0..MaxCalls
  /\ at \in {"idle", "send", "await", "backoff"}
  /\ stage \in Stages
  /\ attempt \in 1..MaxAttempts
  /\ cancelled \in BOOLEAN

\* A call is over within its attempts, whatever the network does.
EveryCallReturns == (call # None) ~> (call = None)

\* The calls are what the pipeline takes them for.
Call == INSTANCE RecordCall
ImplementsRecordCall == Call!Spec
===============================================================================
