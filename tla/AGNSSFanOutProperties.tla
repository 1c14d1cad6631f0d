----------------------- MODULE AGNSSFanOutProperties -----------------------
(***************************************************************************)
(* What the A-GNSS fan-out of module AGNSSFanOut promises.                 *)
(***************************************************************************)
EXTENDS AGNSSFanOut

(***************************************************************************)
(* "we do not want to hammer to third-party API with thousands of requests *)
(* for the same A-GNSS data": however many devices ask, however many       *)
(* instances find no entry at the same time, and whatever fails, the API   *)
(* is asked at most once for a cache key.                                  *)
(***************************************************************************)
OneApiCallPerKey == \A k \in Keys : apiCalls[k] <= 1

(***************************************************************************)
(* A device gets data only when an execution for its own location has      *)
(* resolved it, and a request is dropped as unresolved only when an        *)
(* execution for its own location found no data: the two steps of the      *)
(* execution, the table, the local caches of the warm instances and the    *)
(* handler agree on what the two outcomes are.                             *)
(***************************************************************************)
AnswersMatchResolution ==
  \A r \in Requests :
    LET Ended(s) == \E b \in 0..MaxBin : executions[cacheKey(LocationOf[r], b)] = s
    IN /\ fates["delivered"][r] > 0 => Ended("succeeded")
       /\ fates["rejected"][r] > 0 => Ended("failed")

(***************************************************************************)
(* Every copy of a request that the handler takes from the queue is        *)
(* answered, dropped for a logged reason, or sent again.  While nothing    *)
(* has failed a request has exactly one copy or one fate: no step loses,   *)
(* duplicates or answers it twice.  After failures it has at least one:    *)
(* an invocation that fails may repeat answers but never forgets one.      *)
(***************************************************************************)
Places == {<<"queue">>} \cup ({"group"} \X Instances) \cup ({"fate"} \X Fates)

CopiesAt(p, r) ==
  CASE p[1] = "queue" -> queue[r]
    [] p[1] = "group" -> Held(p[2], r)
    [] p[1] = "fate" -> fates[p[2]][r]

EachRequestHasOneFate ==
  \A r \in asked :
    \E p \in Places :
      /\ CopiesAt(p, r) > 0
      /\ faults = 0 =>
           CopiesAt(p, r) = 1 /\ \A other \in Places \ {p} : CopiesAt(other, r) = 0

(***************************************************************************)
(* The part of EachRequestHasOneFate that survives every failure: a        *)
(* request that was sent is in the queue, or in a group that is still      *)
(* being handled, or has a fate.                                           *)
(***************************************************************************)
NoRequestForgotten ==
  \A r \in asked :
    \/ queue[r] > 0
    \/ \E i \in Instances : Held(i, r) > 0
    \/ \E f \in Fates : fates[f][r] > 0

(***************************************************************************)
(* "Eventually, messages will be discarded from the queue": what no step   *)
(* may do.  A request that is too old returns to the queue only with a     *)
(* whole batch, or by a second delivery: the handler does not send it      *)
(* again.                                                                  *)
(***************************************************************************)
OverdueNotSentAgain ==
  [][\A r \in overdue :
       queue'[r] > queue[r] =>
         \/ faults' > faults
         \/ \E i \in Instances : batch[i][r] > 0 /\ batch'[i][r] = 0]_vars

(***************************************************************************)
(* Why OneApiCallPerKey and AnswersMatchResolution hold: an execution asks *)
(* the API once, on its way out of "invoke"; the table and the local       *)
(* caches only hold results of the one execution of the key; a group       *)
(* publishes only what its instance holds as resolved.                     *)
(***************************************************************************)
ApiCallsFollowExecution ==
  \A k \in Keys :
    /\ apiCalls[k] <= 1
    /\ executions[k] \in {"none", "fetch", "invoke"} => apiCalls[k] = 0

ResultsAreOfTheExecution ==
  \A k \in Keys :
    /\ cacheTable[k] = "resolved" => executions[k] = "succeeded"
    /\ cacheTable[k] = "unresolved" => executions[k] = "failed"
    /\ \A i \in Instances :
         /\ resolvedRequests[i][k] = "resolved" => executions[k] = "succeeded"
         /\ resolvedRequests[i][k] = "unresolved" => executions[k] = "failed"

PublishedIsResolved ==
  \A i \in Instances, l \in Locations :
    stage[i][l] = "publish" => resolvedRequests[i][KeyOf(i, l)] = "resolved"

FanOutInvariant ==
  /\ TypeOK
  /\ ApiCallsFollowExecution
  /\ ResultsAreOfTheExecution
  /\ PublishedIsResolved
  /\ AnswersMatchResolution
  /\ NoRequestForgotten

(***************************************************************************)
(* "Resolution is in progress ... put request in queue again": an entry    *)
(* of this hour without result belongs to an execution that runs, or that  *)
(* an instance is about to start.  Otherwise every request for the key     *)
(* waits in vain until it is cancelled, for the rest of the hour.          *)
(***************************************************************************)
PendingIsInProgress ==
  \A k \in Keys :
    cacheTable[k] = "pending" /\ k[2] = bin =>
      \/ executions[k] \in Running
      \/ \E i \in Instances : handlerBin[i] = k[2] /\ stage[i][k[1]] = "start"

(***************************************************************************)
(* As long as nothing fails that is so if there is one request per key, or *)
(* if no two invocations run at the same time.                             *)
(***************************************************************************)
PendingIsInProgressIfAlone == faults = 0 => PendingIsInProgress

(***************************************************************************)
(* The same comment, of the messages: what goes back to the queue is a     *)
(* request whose resolution the instance has not seen the end of.          *)
(***************************************************************************)
RequeueMeansInProgress ==
  \A i \in Instances, l \in Locations :
    stage[i][l] = "requeue" => resolvedRequests[i][KeyOf(i, l)] = "unknown"

(***************************************************************************)
(* All of this implements module ResolveOnce: the questions are the cache  *)
(* keys, the API is asked by the execution of the key, an answer is        *)
(* learned when the execution has persisted it, and a request is told when *)
(* a copy of it is delivered or rejected.                                  *)
(***************************************************************************)
Outcome(execution) ==
  CASE execution = "succeeded" -> "found"
    [] execution = "failed" -> "nothing"
    [] execution = "aborted" -> "lost"
    [] OTHER -> "open"

Resolution == INSTANCE ResolveOnce WITH
  Questions <- Keys,
  Askers <- Requests,
  QuestionsOf <- [r \in Requests |-> {k \in Keys : k[1] = LocationOf[r]}],
  put <- {k \in Keys : executions[k] # "none"},
  learned <- [k \in Keys |-> Outcome(executions[k])],
  told <- [r \in Requests |->
             {outcome \in {"found", "nothing"} :
                fates[IF outcome = "found" THEN "delivered" ELSE "rejected"][r] > 0}]

ResolvesOnce == Resolution!Spec

-----------------------------------------------------------------------------

(***************************************************************************)
(* Fairness.  The JavaScript event loop runs every continuation of an      *)
(* invocation, SQS returns or deletes the batch at its end, Step Functions *)
(* drives every execution (which times out after 5 minutes), and the event *)
(* source mapping receives a message that keeps becoming visible.  Devices *)
(* need not ask, hours need not pass, nothing has to fail.                 *)
(***************************************************************************)
HandlerFairness ==
  /\ \A i \in Instances, l \in Locations : WF_vars(Handle(i, l))
  /\ \A i \in Instances : WF_vars(InvocationEnds(i) \/ InvocationFails(i))
  /\ \A k \in Keys : WF_vars(ExecutionStep(k))

ReceiveCopyOf(r) ==
  \E i \in Instances, b \in SubBags(queue) :
    b[r] > 0 /\ Size(b) <= BatchSize /\ Receive(i, b)

QueueFairness == \A r \in Requests : SF_vars(ReceiveCopyOf(r))

LiveSpec == Spec /\ HandlerFairness /\ QueueFairness

(***************************************************************************)
(* "Eventually, messages will be discarded from the queue": every request  *)
(* that gets too old leaves the queue and all batches for good, whatever   *)
(* fails on the way.                                                       *)
(***************************************************************************)
EveryRequestSettles == \A r \in Requests : (r \in overdue) ~> [](Settled(r))

(***************************************************************************)
(* With one request and no failure, the data reaches the device without   *)
(* help from the resolution timeout: a request is settled, unless it gets  *)
(* too old first or its resolution fails.                                  *)
(***************************************************************************)
AnsweredUnlessUnresolved ==
  \A r \in Requests :
    (r \in asked) ~> (\/ Settled(r)
                      \/ r \in overdue
                      \/ faults > 0
                      \/ \E b \in 0..MaxBin :
                           executions[cacheKey(LocationOf[r], b)] = "failed")
=============================================================================
