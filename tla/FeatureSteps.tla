---------------------------- MODULE FeatureSteps ---------------------------
(***************************************************************************)
(* The feature runner: the steps with which the features of the repository *)
(* use a tracker, the table of historical data and the HTTP APIs of a      *)
(* deployed system.  Steps run one after the other; the callbacks they     *)
(* leave behind, AWS IoT, the Lambda and the services behind the APIs run  *)
(* at the same time.                                                       *)
(*                                                                         *)
(* The steps of one tracker are modelled, in any order: connection and     *)
(* messages are kept from one scenario to the next.  Time is left out; a   *)
(* timer may end when what it waits for does not happen.                   *)
(***************************************************************************)
EXTENDS HistoricalData

CONSTANTS
  NoEvent,
  Tries,        \* tries of retry(): 10
  RetryTries,   \* tries of retryCheck(): 3 unless the step says otherwise
  MaxSteps,     \* bound: steps
  MaxMessages   \* bound: messages published to the tracker's topic

\* With a single try, retryCheck() would pass although its check has failed.
ASSUME StepAssumption ==
  /\ NoEvent \notin Events
  /\ Tries \in Nat \ {0}
  /\ RetryTries \in Nat /\ RetryTries >= 2
  /\ MaxSteps \in Nat /\ MaxMessages \in Nat

VARIABLES
  step,         \* the step that is running
  phase,        \* how far it is
  event,        \* the event it sends or expects
  attempts,     \* tries it has made
  verdict,      \* how the last step ended
  requested,    \* has the scenario made a request?
  stepsLeft,
  certificate,  \* has a certificate been generated for the tracker?
  connection,   \* the cached promise of its connection
  triesLeft,    \* tries left of the retry around it
  provisioned,  \* has AWS IoT provisioned it?
  outbox,       \* events on their way to AWS IoT
  subscription, \* its subscription to the topic
  sent,         \* messages published to the topic
  messages,     \* messages it has received
  service,      \* what a request would be answered with
  reqStatus,    \* status of the last answer
  response,     \* the answer in the context
  result        \* records the last query has found

runnerVars == <<step, phase, event, attempts, verdict, requested>>
connectionVars == <<connection, triesLeft>>
topicVars == <<subscription, sent, messages>>
restVars == <<reqStatus, response>>
trackerVars == <<certificate, connectionVars, provisioned, outbox, topicVars>>

vars == <<historicalVars, runnerVars, stepsLeft, trackerVars, service, restVars, result>>

\* Steps with a connection, which wait for the cached promise first
TrackerSteps == {"connect", "disconnect", "report", "publish", "job", "subscribe"}

OtherSteps == {"generate", "receive", "request", "status", "query", "match"}

Phases == {"none", "connection", "act", "wait", "asking", "hung", "check", "retry"}

\* A step that fails ends its scenario.
EndStep(v) ==
  /\ step' = "none" /\ phase' = "none" /\ event' = NoEvent /\ attempts' = 0
  /\ verdict' = v
  /\ requested' = (v = "passed" /\ (requested \/ step = "request"))

-----------------------------------------------------------------------------

FeatureInit ==
  /\ HistoricalInit
  /\ step = "none" /\ phase = "none" /\ event = NoEvent /\ attempts = 0 /\ verdict = "none"
  /\ requested = FALSE
  /\ stepsLeft = MaxSteps
  /\ certificate = FALSE
  /\ connection = "none" /\ triesLeft = 0
  /\ provisioned = "no"
  /\ outbox = {}
  /\ subscription = "none" /\ sent = 0 /\ messages = 0
  /\ service = "pending"
  /\ reqStatus = "none" /\ response = "none"
  /\ result = {}

\* The event a step is about.  An event is sent only when nothing is left of
\* an earlier time.
EventFor(s) ==
  LET new == {e \in Events : e \notin outbox /\ pending[e] = 0} IN
  CASE s = "report" -> {e \in new : e.kind = "update"}
    [] s = "publish" -> {e \in new : e.kind # "update"}
    [] s = "match" -> Events
    [] OTHER -> {NoEvent}

\* The status of an answer is looked at in the scenario of the request.
Begin(s) ==
  /\ step = "none"
  /\ stepsLeft > 0
  /\ s = "status" => requested
  /\ \E e \in EventFor(s) : event' = e
  /\ step' = s
  /\ phase' = CASE s \in TrackerSteps -> "connection"
                [] s \in {"status", "match"} -> "check"
                [] OTHER -> "act"
  /\ attempts' = 0
  /\ verdict' = "none"
  /\ stepsLeft' = stepsLeft - 1
  /\ UNCHANGED <<historicalVars, requested, trackerVars, service, restVars, result>>

\* Key, CSR and certificate, signed by the current CA, for a new device
Generate ==
  /\ step = "generate"
  /\ certificate' = TRUE
  /\ EndStep("passed")
  /\ UNCHANGED <<historicalVars, stepsLeft, connectionVars, provisioned, outbox, topicVars,
                 service, restVars, result>>

-----------------------------------------------------------------------------
(* The connection                                                          *)

NoCertificate ==
  /\ phase = "connection"
  /\ ~certificate
  /\ EndStep("failed")
  /\ UNCHANGED <<historicalVars, stepsLeft, trackerVars, service, restVars, result>>

\* The first step makes the promise, with a number of tries.
OpenConnection ==
  /\ phase = "connection"
  /\ certificate
  /\ connection = "none"
  /\ connection' = "connecting"
  /\ triesLeft' = Tries
  /\ UNCHANGED <<historicalVars, runnerVars, stepsLeft, certificate, provisioned, outbox,
                 topicVars, service, restVars, result>>

\* A try that fails, and whether there is another one
Refused ==
  /\ triesLeft' = triesLeft - 1
  /\ connection' = IF triesLeft = 1 THEN "rejected" ELSE "connecting"

\* The first connection is refused and starts the provisioning; those after it
\* are refused until that is done.
TryInVain ==
  /\ connection = "connecting"
  /\ provisioned # "yes"
  /\ provisioned' = "pending"
  /\ Refused
  /\ UNCHANGED <<historicalVars, runnerVars, stepsLeft, certificate, outbox, topicVars, service,
                 restVars, result>>

TryToConnect ==
  /\ connection = "connecting"
  /\ provisioned = "yes"
  /\ connection' = "open"
  /\ UNCHANGED <<historicalVars, runnerVars, stepsLeft, certificate, triesLeft, provisioned,
                 outbox, topicVars, service, restVars, result>>

ConnectionFails ==
  /\ connection = "connecting"
  /\ provisioned = "yes"
  /\ Fail
  /\ Refused
  /\ UNCHANGED <<pending, handled, stored, table, runnerVars, stepsLeft, certificate,
                 provisioned, outbox, topicVars, service, restVars, result>>

Provision ==
  /\ provisioned = "pending"
  /\ provisioned' = "yes"
  /\ UNCHANGED <<historicalVars, runnerVars, stepsLeft, certificate, connectionVars, outbox,
                 topicVars, service, restVars, result>>

\* The promise stays what it is: a rejected one fails this step and all steps
\* after it, and one that was fulfilled is used after the connection is closed.
AwaitConnection ==
  /\ phase = "connection"
  /\ \/ connection = "rejected" /\ EndStep("failed")
     \/ /\ connection \in {"open", "closed"}
        /\ IF step = "connect"
             THEN EndStep("passed")
             ELSE phase' = "act" /\ UNCHANGED <<step, event, attempts, verdict, requested>>
  /\ UNCHANGED <<historicalVars, stepsLeft, trackerVars, service, restVars, result>>

\* Closing it a second time fails, which is logged only.
Disconnect ==
  /\ step = "disconnect" /\ phase = "act"
  /\ connection' = "closed"
  /\ EndStep("passed")
  /\ UNCHANGED <<historicalVars, stepsLeft, certificate, triesLeft, provisioned, outbox,
                 topicVars, service, restVars, result>>

-----------------------------------------------------------------------------
(* Messages                                                                *)

\* Without a connection, what is published waits for one that never comes.
Send ==
  /\ step \in {"report", "publish"} /\ phase = "act"
  /\ outbox' = IF connection = "open" THEN outbox \cup {event} ELSE outbox
  /\ phase' = "wait"
  /\ UNCHANGED <<historicalVars, step, event, attempts, verdict, requested, stepsLeft, certificate,
                 connectionVars, provisioned, topicVars, service, restVars, result>>

\* A report ends with any accepted update of the shadow, which may be an
\* earlier one; a message with its own acknowledgement.
Answers(e) == phase = "wait" /\ IF step = "report" THEN e.kind = "update" ELSE e = event

Deliver(e) ==
  /\ e \in outbox
  /\ outbox' = outbox \ {e}
  /\ Ingest(e)
  /\ IF Answers(e) THEN EndStep("passed") ELSE UNCHANGED runnerVars
  /\ UNCHANGED <<stepsLeft, certificate, connectionVars, provisioned, topicVars, service,
                 restVars, result>>

\* Variant with a fault: the timer only runs with a connection.
TimeoutIfOpen ==
  /\ phase \in {"wait", "asking"}
  /\ connection = "open"
  /\ Fail
  /\ EndStep("failed")
  /\ UNCHANGED <<pending, handled, stored, table, stepsLeft, trackerVars, service, restVars,
                 result>>

\* The timer of the step ends; with a connection only if an answer is late.
Timeout ==
  /\ phase \in {"wait", "asking"}
  /\ IF connection = "open" THEN Fail ELSE UNCHANGED faults
  /\ EndStep("failed")
  /\ UNCHANGED <<pending, handled, stored, table, stepsLeft, trackerVars, service, restVars,
                 result>>

\* The job step subscribes to both answers, and asks for the next job up to
\* four times.
SubscribeToJobs ==
  /\ step = "job" /\ phase = "act"
  /\ phase' = "asking"
  /\ UNCHANGED <<historicalVars, step, event, attempts, verdict, requested, stepsLeft,
                 trackerVars, service, restVars, result>>

AskForJob ==
  /\ phase = "asking"
  /\ connection = "open"
  /\ attempts < 4
  /\ attempts' = attempts + 1
  /\ UNCHANGED <<historicalVars, step, phase, event, verdict, requested, stepsLeft,
                 trackerVars, service, restVars, result>>

\* Every answer stops the timer, but one without a job does not end the step:
\* unless another answer is still due, the step hangs.
JobAnswer ==
  /\ phase \in {"asking", "hung"}
  /\ attempts > 0
  /\ \/ EndStep("passed")
     \/ EndStep("failed")
     \/ phase' = "hung" /\ attempts' = attempts - 1 /\ UNCHANGED <<step, event, verdict, requested>>
  /\ UNCHANGED <<historicalVars, stepsLeft, trackerVars, service, restVars, result>>

\* The step does not wait for the subscription.
Subscribe ==
  /\ step = "subscribe" /\ phase = "act"
  /\ subscription' = IF connection = "open" /\ subscription = "none" THEN "requested"
                     ELSE subscription
  /\ EndStep("passed")
  /\ UNCHANGED <<historicalVars, stepsLeft, certificate, connectionVars, provisioned, outbox,
                 sent, messages, service, restVars, result>>

Subscribed ==
  /\ subscription = "requested"
  /\ subscription' = "active"
  /\ UNCHANGED <<historicalVars, runnerVars, stepsLeft, certificate, connectionVars, provisioned,
                 outbox, sent, messages, service, restVars, result>>

\* Variant with a fault: two subscriptions get the message.
MessageTwice ==
  /\ sent < MaxMessages
  /\ sent' = sent + 1
  /\ messages' = IF subscription = "active" /\ connection = "open" THEN messages + 2 ELSE messages
  /\ UNCHANGED <<historicalVars, runnerVars, stepsLeft, certificate, connectionVars, provisioned,
                 outbox, subscription, service, restVars, result>>

\* The system publishes a message; every one received is kept for good.
MessageToTracker ==
  /\ sent < MaxMessages
  /\ sent' = sent + 1
  /\ messages' = IF subscription = "active" /\ connection = "open" THEN messages + 1 ELSE messages
  /\ UNCHANGED <<historicalVars, runnerVars, stepsLeft, certificate, connectionVars, provisioned,
                 outbox, subscription, service, restVars, result>>

\* A message is delivered at least once: its acknowledgement is lost, and the
\* tracker's callback keeps a second copy.
MessageRedelivered ==
  /\ sent < MaxMessages
  /\ subscription = "active" /\ connection = "open"
  /\ Fail
  /\ sent' = sent + 1
  /\ messages' = messages + 2
  /\ UNCHANGED <<pending, handled, stored, table, runnerVars, stepsLeft, certificate,
                 connectionVars, provisioned, outbox, subscription, service, restVars, result>>

\* A step waits for exactly one message.
Receive ==
  /\ step = "receive" /\ phase = "act"
  /\ CASE messages = 1 -> EndStep("passed")
       [] messages # 1 /\ attempts + 1 = Tries -> EndStep("failed")
       [] OTHER -> attempts' = attempts + 1 /\ UNCHANGED <<step, phase, event, verdict, requested>>
  /\ UNCHANGED <<historicalVars, stepsLeft, trackerVars, service, restVars, result>>

-----------------------------------------------------------------------------
(* HTTP APIs and historical data                                           *)

\* The service behind the API is done.
ServiceReady ==
  /\ service = "pending"
  /\ service' = "ready"
  /\ UNCHANGED <<historicalVars, runnerVars, stepsLeft, trackerVars, restVars, result>>

Request ==
  /\ step = "request"
  /\ reqStatus' = service /\ response' = service
  /\ EndStep("passed")
  /\ UNCHANGED <<historicalVars, stepsLeft, trackerVars, service, result>>

\* There is no answer, or its body cannot be read: the request has a status
\* then, but the context keeps the last answer.
RequestFails ==
  /\ step = "request"
  /\ Fail
  /\ reqStatus' \in {reqStatus, service}
  /\ EndStep("failed")
  /\ UNCHANGED <<pending, handled, stored, table, stepsLeft, trackerVars, service, response,
                 result>>

Query ==
  /\ step = "query"
  /\ result' = table
  /\ EndStep("passed")
  /\ UNCHANGED <<historicalVars, stepsLeft, trackerVars, service, restVars>>

\* What a match step expects: the values of the event the table takes
Expected(e) == Accepted(Records(e))

Finds(records, e) ==
  \A r \in Expected(e) : \E record \in records : record.reading = r.reading /\ record.name = r.name

CheckPasses(status) == IF step = "status" THEN status = "ready" ELSE Finds(result, event)

\* maxTries
MaxRetries == RetryTries - 1

\* Variant with a fault: one too many.
LastRetryAfterLoop == MaxRetries

\* The retry whose error is thrown
LastRetry == MaxRetries - 1

\* retryCheck: the first check
Check ==
  /\ phase = "check"
  /\ IF CheckPasses(reqStatus) \/ MaxRetries = 0
       THEN EndStep("passed")
       ELSE phase' = "retry" /\ UNCHANGED <<step, event, attempts, verdict, requested>>
  /\ UNCHANGED <<historicalVars, stepsLeft, trackerVars, service, restVars, result>>

\* The error of the last retry is thrown.  After the loop, the function
\* returns without an error.
RetryFailed ==
  IF attempts = LastRetry THEN EndStep("failed")
  ELSE IF attempts + 1 = MaxRetries THEN EndStep("passed")
  ELSE attempts' = attempts + 1 /\ UNCHANGED <<step, phase, event, verdict, requested>>

\* A retry: the request is sent again.  The query is not: the same result is
\* checked again.
Retry ==
  /\ phase = "retry"
  /\ IF step = "status" THEN reqStatus' = service /\ response' = service ELSE UNCHANGED restVars
  /\ IF CheckPasses(reqStatus') THEN EndStep("passed") ELSE RetryFailed
  /\ UNCHANGED <<historicalVars, stepsLeft, trackerVars, service, result>>

\* The request fails, and nothing is checked.
RetryThrows ==
  /\ phase = "retry" /\ step = "status"
  /\ Fail
  /\ reqStatus' \in {reqStatus, service}
  /\ RetryFailed
  /\ UNCHANGED <<pending, handled, stored, table, stepsLeft, trackerVars, service, response,
                 result>>

-----------------------------------------------------------------------------

RunnerStep ==
  \/ Generate
  \/ NoCertificate
  \/ OpenConnection
  \/ TryInVain
  \/ TryToConnect
  \/ AwaitConnection
  \/ Disconnect
  \/ Send
  \/ Timeout
  \/ SubscribeToJobs
  \/ AskForJob
  \/ JobAnswer
  \/ Subscribe
  \/ Receive
  \/ Request
  \/ Query
  \/ Check
  \/ Retry

CloudStep ==
  \/ Provision
  \/ \E e \in Events : Deliver(e)
  \/ Subscribed
  \/ MessageToTracker
  \/ ServiceReady
  \/ LambdaStep /\ UNCHANGED <<runnerVars, stepsLeft, trackerVars, service, restVars, result>>

Fault ==
  \/ ConnectionFails
  \/ RequestFails
  \/ RetryThrows
  \/ MessageRedelivered
  \/ LambdaFault /\ UNCHANGED <<runnerVars, stepsLeft, trackerVars, service, restVars, result>>

FeatureNext ==
  \/ \E s \in TrackerSteps \cup OtherSteps : Begin(s)
  \/ RunnerStep
  \/ CloudStep
  \/ Fault

(***************************************************************************)
(* The runner goes on with a step, and what it publishes is delivered.     *)
(* Nothing is assumed of provisioning, services and the Lambda.            *)
(***************************************************************************)
FeatureSpec ==
  /\ FeatureInit /\ [][FeatureNext]_vars
  /\ WF_vars(RunnerStep)
  /\ \A e \in Events : WF_vars(Deliver(e))

-----------------------------------------------------------------------------

FeatureTypeOK ==
  /\ HistoricalTypeOK
  /\ step \in TrackerSteps \cup OtherSteps \cup {"none"} /\ phase \in Phases
  /\ event \in Events \cup {NoEvent}
  /\ attempts \in Nat /\ (attempts < Tries \/ attempts < RetryTries \/ attempts <= 4)
  /\ verdict \in {"none", "passed", "failed"}
  /\ requested \in BOOLEAN
  /\ stepsLeft \in 0..MaxSteps
  /\ certificate \in BOOLEAN
  /\ connection \in {"none", "connecting", "open", "rejected", "closed"}
  /\ triesLeft \in 0..Tries
  /\ provisioned \in {"no", "pending", "yes"}
  /\ outbox \in SUBSET Events
  /\ subscription \in {"none", "requested", "active"}
  /\ sent \in 0..MaxMessages /\ messages \in 0..(sent + faults)
  /\ service \in {"pending", "ready"}
  /\ reqStatus \in {"none", "pending", "ready"} /\ response \in {"none", "pending", "ready"}
  /\ result \subseteq table

(***************************************************************************)
(* A step that has passed has seen what it says: the answer with the       *)
(* status, which is the one in the context for the steps after it, or all  *)
(* readings the table can have of an event.                                *)
(***************************************************************************)
PassedCheckHolds ==
  [][verdict' = "passed" /\ step' = "none" =>
       /\ step = "status" => service = "ready" /\ response' = "ready"
       /\ step = "match" => Finds(table, event)]_vars

(***************************************************************************)
(* Every step ends, on a connection that is closed or was never made too.  *)
(* The exception is a job step that was answered that there is no job:     *)
(* the answer has stopped its timer.                                       *)
(***************************************************************************)
EveryStepEnds == step # "none" ~> (step = "none" \/ phase = "hung")
=============================================================================
