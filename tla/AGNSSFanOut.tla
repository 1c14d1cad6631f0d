---------------------------- MODULE AGNSSFanOut ----------------------------
(***************************************************************************)
(* The A-GNSS fan-out: devices ask for assistance data over MQTT, an IoT   *)
(* rule puts each request in an SQS queue, Lambda instances take batches   *)
(* from the queue, and one Step Functions execution per cache key asks the *)
(* third-party API.  A request whose key is not resolved yet goes back to  *)
(* the queue with a longer delay until it is answered or too old.          *)
(*                                                                         *)
(* agnss/deviceRequestHandler.ts is the handler, agnss/getCache.ts its     *)
(* read of the cache table, cdk/resources/AGNSSResolver.ts the execution,  *)
(* cdk/resources/AGNSSDeviceRequestHandler.ts the queue and the rule.      *)
(*                                                                         *)
(* A bag of messages is a function from Requests to the number of copies.  *)
(* Time is abstracted: the hour bin of cacheKey.ts is the counter bin, and *)
(* overdue holds the requests older than maxResolutionTimeInSeconds; the   *)
(* numbers are the subject of module RequeueBackoff.                       *)
(***************************************************************************)
EXTENDS Integers, FiniteSets, FiniteSetsExt

CONSTANTS
  Requests,    \* device requests, one initial queue message each
  Locations,   \* what a cache key holds besides the bin: cell and types
  LocationOf,  \* the location each request asks for
  Instances,   \* Lambda execution environments
  BatchSize,   \* messages of one invocation (10 in production)
  MaxBin,      \* bound: the hour may change this often
  MaxFaults    \* bound: failing AWS calls, crashes and duplicate deliveries

ASSUME RequestsAssumption == IsFiniteSet(Requests)
ASSUME LocationAssumption == LocationOf \in [Requests -> Locations]
ASSUME BoundsAssumption ==
  /\ BatchSize \in Nat \ {0}
  /\ MaxBin \in Nat
  /\ MaxFaults \in Nat

VARIABLES
  asked,             \* requests the devices have sent
  overdue,           \* requests older than the maximum resolution time
  bin,               \* the current hour bin
  queue,             \* SQS: copies waiting (visible or delayed), per request
  batch,             \* per instance: the bag of messages being handled
  handlerBin,        \* per instance: the bin its cache keys were made with
  stage,             \* per instance and location: where that group stands
  resolvedRequests,  \* per instance and key: the warm instance's local cache
  cacheTable,        \* DynamoDB: the entry of each key
  executions,        \* Step Functions: the execution named after each key
  apiCalls,          \* how often an execution of the key asked the API
  fates,             \* how many copies of a request left the queue, and how
  faults             \* failures so far

deviceVars == <<asked, overdue, bin>>
handlerVars == <<batch, handlerBin, stage, resolvedRequests>>
executionVars == <<executions, apiCalls>>
vars == <<deviceVars, queue, handlerVars, cacheTable, executionVars, fates, faults>>

-----------------------------------------------------------------------------

Keys == Locations \X (0..MaxBin)

Entries == {"absent", "pending", "resolved", "unresolved"}

Local == {"unknown", "resolved", "unresolved"}

\* "none": the batch has no group for the location.  The other stages are the
\* await points of the handler; a group ends "done" or rejected as "failed".
Stages == {"none", "check", "put", "start", "publish", "requeue", "done", "failed"}

Running == {"fetch", "invoke", "persistResult", "persistFailure"}

ExecutionStates == Running \cup {"none", "succeeded", "failed", "aborted"}

Fates == {"delivered", "rejected", "cancelled", "retired", "publishFailed", "requeueFailed"}

Bags == [Requests -> Nat]

NoMessages == [r \in Requests |-> 0]

a (+) b == [r \in Requests |-> a[r] + b[r]]

a (-) b == [r \in Requests |-> a[r] - b[r]]

Size(b) == MapThenSumSet(LAMBDA r : b[r], Requests)

\* The bags of at most BatchSize copies of each request contained in b.
SubBags(b) == {s \in [Requests -> 0..BatchSize] : \A r \in Requests : s[r] <= b[r]}

cacheKey(l, b) == <<l, b>>

KeyOf(i, l) == cacheKey(l, handlerBin[i])

\* The messages of instance i's batch whose cache key has location l.
Group(i, l) == [r \in Requests |-> IF LocationOf[r] = l THEN batch[i][r] ELSE 0]

Idle(i) == \A l \in Locations : stage[i][l] = "none"

CanFail == faults < MaxFaults

Fail == CanFail /\ faults' = faults + 1

GoTo(i, l, s) == stage' = [stage EXCEPT ![i][l] = s]

Advance(k, s) == executions' = [executions EXCEPT ![k] = s]

-----------------------------------------------------------------------------

TypeOK ==
  /\ asked \in SUBSET Requests
  /\ overdue \in SUBSET asked
  /\ bin \in 0..MaxBin
  /\ queue \in Bags
  /\ batch \in [Instances -> Bags]
  /\ handlerBin \in [Instances -> 0..MaxBin]
  /\ stage \in [Instances -> [Locations -> Stages]]
  /\ resolvedRequests \in [Instances -> [Keys -> Local]]
  /\ cacheTable \in [Keys -> Entries]
  /\ executions \in [Keys -> ExecutionStates]
  /\ apiCalls \in [Keys -> Nat]
  /\ fates \in [Fates -> Bags]
  /\ faults \in 0..MaxFaults

Init ==
  /\ asked = {}
  /\ overdue = {}
  /\ bin = 0
  /\ queue = NoMessages
  /\ batch = [i \in Instances |-> NoMessages]
  /\ handlerBin = [i \in Instances |-> 0]
  /\ stage = [i \in Instances |-> [l \in Locations |-> "none"]]
  /\ resolvedRequests = [i \in Instances |-> [k \in Keys |-> "unknown"]]
  /\ cacheTable = [k \in Keys |-> "absent"]
  /\ executions = [k \in Keys |-> "none"]
  /\ apiCalls = [k \in Keys |-> 0]
  /\ fates = [f \in Fates |-> NoMessages]
  /\ faults = 0

-----------------------------------------------------------------------------
(* Devices, clocks and the queue                                           *)

\* The IoT rule puts the request of a device in the queue.
DeviceRequest(r) ==
  /\ r \notin asked
  /\ asked' = asked \cup {r}
  /\ queue' = [queue EXCEPT ![r] = @ + 1]
  /\ UNCHANGED <<overdue, bin, handlerVars, cacheTable, executionVars, fates, faults>>

\* The request gets older than maxResolutionTimeInSeconds.
RequestAges(r) ==
  /\ r \in asked \ overdue
  /\ overdue' = overdue \cup {r}
  /\ UNCHANGED <<asked, bin, queue, handlerVars, cacheTable, executionVars, fates, faults>>

HourPasses ==
  /\ bin < MaxBin
  /\ bin' = bin + 1
  /\ UNCHANGED <<asked, overdue, queue, handlerVars, cacheTable, executionVars, fates, faults>>

\* SQS deletes a message at the end of the retention period, which is as long
\* as the maximum resolution time and starts when the message is sent: the
\* request it carries is at least as old.
RetentionEnds(r) ==
  /\ r \in overdue
  /\ queue[r] > 0
  /\ queue' = [queue EXCEPT ![r] = @ - 1]
  /\ fates' = [fates EXCEPT !["retired"][r] = @ + 1]
  /\ UNCHANGED <<deviceVars, handlerVars, cacheTable, executionVars, faults>>

\* SQS delivers a message again that an invocation still works on: the
\* visibility timeout is as short as the Lambda timeout, and a standard queue
\* delivers at least once.
VisibilityEnds(i, r) ==
  /\ Fail
  /\ batch[i][r] > 0
  /\ queue' = [queue EXCEPT ![r] = @ + 1]
  /\ UNCHANGED <<deviceVars, handlerVars, cacheTable, executionVars, fates>>

\* The time to live of an entry is an hour from its creation, so it ends after
\* the bin of its key, and after the execution started with it (5 minutes).
EntryExpires(k) ==
  /\ k[2] < bin
  /\ cacheTable[k] # "absent"
  /\ executions[k] \notin Running
  /\ \A i \in Instances : ~(handlerBin[i] = k[2] /\ stage[i][k[1]] = "start")
  /\ cacheTable' = [cacheTable EXCEPT ![k] = "absent"]
  /\ UNCHANGED <<deviceVars, queue, handlerVars, executionVars, fates, faults>>

-----------------------------------------------------------------------------
(* The handler: one invocation per instance, one group per cache key; the  *)
(* groups run concurrently and interleave at every await.                  *)

\* An idle instance is invoked with batch b and groups it by cache key.
Receive(i, b) ==
  /\ Idle(i)
  /\ b # NoMessages
  /\ queue' = queue (-) b
  /\ batch' = [batch EXCEPT ![i] = b]
  /\ handlerBin' = [handlerBin EXCEPT ![i] = bin]
  /\ stage' = [stage EXCEPT ![i] =
        [l \in Locations |->
           IF \E r \in Requests : b[r] > 0 /\ LocationOf[r] = l THEN "check" ELSE "none"]]
  /\ UNCHANGED <<deviceVars, resolvedRequests, cacheTable, executionVars, fates, faults>>

\* Variant with a fault: any local entry counts as data.
FindLocalUnchecked(i, l) ==
  /\ stage[i][l] = "check"
  /\ resolvedRequests[i][KeyOf(i, l)] # "unknown"
  /\ GoTo(i, l, "publish")
  /\ UNCHANGED <<deviceVars, queue, batch, handlerBin, resolvedRequests, cacheTable,
                 executionVars, fates, faults>>

\* The instance has seen the end of this resolution before.  The result
\* "unresolved" is not looked at again here: the group goes to the queue.
FindLocal(i, l) ==
  /\ stage[i][l] = "check"
  /\ resolvedRequests[i][KeyOf(i, l)] # "unknown"
  /\ GoTo(i, l, IF resolvedRequests[i][KeyOf(i, l)] = "resolved" THEN "publish" ELSE "requeue")
  /\ UNCHANGED <<deviceVars, queue, batch, handlerBin, resolvedRequests, cacheTable,
                 executionVars, fates, faults>>

\* getCache answers with an error: the entry does not exist, or the read fails.
GetCacheError(i, l) ==
  /\ stage[i][l] = "check"
  /\ resolvedRequests[i][KeyOf(i, l)] = "unknown"
  /\ \/ cacheTable[KeyOf(i, l)] = "absent" /\ UNCHANGED faults
     \/ Fail
  /\ GoTo(i, l, "put")
  /\ UNCHANGED <<deviceVars, queue, batch, handlerBin, resolvedRequests, cacheTable,
                 executionVars, fates>>

\* getCache finds an entry whose resolution is still going on.
GetCachePending(i, l) ==
  /\ stage[i][l] = "check"
  /\ resolvedRequests[i][KeyOf(i, l)] = "unknown"
  /\ cacheTable[KeyOf(i, l)] = "pending"
  /\ GoTo(i, l, "requeue")
  /\ UNCHANGED <<deviceVars, queue, batch, handlerBin, resolvedRequests, cacheTable,
                 executionVars, fates, faults>>

\* getCache finds the end of the resolution: it is kept in the instance, and the
\* requests of a resolution that failed are dropped.
GetCacheFinished(i, l) ==
  LET entry == cacheTable[KeyOf(i, l)] IN
  /\ stage[i][l] = "check"
  /\ resolvedRequests[i][KeyOf(i, l)] = "unknown"
  /\ entry \in {"resolved", "unresolved"}
  /\ resolvedRequests' = [resolvedRequests EXCEPT ![i][KeyOf(i, l)] = entry]
  /\ GoTo(i, l, IF entry = "resolved" THEN "publish" ELSE "done")
  /\ fates' = IF entry = "resolved"
              THEN fates
              ELSE [fates EXCEPT !["rejected"] = @ (+) Group(i, l)]
  /\ UNCHANGED <<deviceVars, queue, batch, handlerBin, cacheTable, executionVars, faults>>

\* Variant with a fault: no execution is started for the entry.
PutEntryOnly(i, l) ==
  /\ stage[i][l] = "put"
  /\ cacheTable' = [cacheTable EXCEPT ![KeyOf(i, l)] = "pending"]
  /\ GoTo(i, l, "requeue")
  /\ UNCHANGED <<deviceVars, queue, batch, handlerBin, resolvedRequests, executionVars,
                 fates, faults>>

\* The entry is written whatever the table holds by now.
PutEntry(i, l) ==
  /\ stage[i][l] = "put"
  /\ cacheTable' = [cacheTable EXCEPT ![KeyOf(i, l)] = "pending"]
  /\ GoTo(i, l, "start")
  /\ UNCHANGED <<deviceVars, queue, batch, handlerBin, resolvedRequests, executionVars,
                 fates, faults>>

\* A failing PutItem is not caught: it rejects the whole invocation.
PutEntryFails(i, l) ==
  /\ stage[i][l] = "put"
  /\ Fail
  /\ GoTo(i, l, "failed")
  /\ UNCHANGED <<deviceVars, queue, batch, handlerBin, resolvedRequests, cacheTable,
                 executionVars, fates>>

\* Variant with a fault: the execution has no name, so every start counts.
StartExecutionUnnamed(i, l) ==
  /\ stage[i][l] = "start"
  /\ Advance(KeyOf(i, l), "fetch")
  /\ GoTo(i, l, "requeue")
  /\ UNCHANGED <<deviceVars, queue, batch, handlerBin, resolvedRequests, cacheTable,
                 apiCalls, fates, faults>>

\* The execution is named after the key: Step Functions starts it at most once.
StartExecution(i, l) ==
  /\ stage[i][l] = "start"
  /\ executions' = [executions EXCEPT ![KeyOf(i, l)] = IF @ = "none" THEN "fetch" ELSE @]
  /\ GoTo(i, l, "requeue")
  /\ UNCHANGED <<deviceVars, queue, batch, handlerBin, resolvedRequests, cacheTable,
                 apiCalls, fates, faults>>

\* Every error of StartExecution is caught and logged.
StartExecutionFails(i, l) ==
  /\ stage[i][l] = "start"
  /\ Fail
  /\ GoTo(i, l, "requeue")
  /\ UNCHANGED <<deviceVars, queue, batch, handlerBin, resolvedRequests, cacheTable,
                 executionVars, fates>>

\* The data goes to every device of the group.  A failing publish is logged; the
\* message leaves the queue all the same.
Publish(i, l, lost) ==
  /\ stage[i][l] = "publish"
  /\ IF lost = NoMessages THEN UNCHANGED faults ELSE Fail
  /\ fates' = [fates EXCEPT !["delivered"] = @ (+) (Group(i, l) (-) lost),
                            !["publishFailed"] = @ (+) lost]
  /\ GoTo(i, l, "done")
  /\ UNCHANGED <<deviceVars, queue, batch, handlerBin, resolvedRequests, cacheTable,
                 executionVars>>

\* Variant with a fault: the age of a request is not looked at.
DueAlways(i, l) == Group(i, l)

\* The requests of the group that are not too old, and those that are.
Due(i, l) == [r \in Requests |-> IF r \in overdue THEN 0 ELSE Group(i, l)[r]]

Cancelled(i, l) == Group(i, l) (-) Due(i, l)

\* Variant with a fault: the filter only logs, cancelled requests are sent again.
RequeueAll(i, l, lost) ==
  /\ stage[i][l] = "requeue"
  /\ IF lost = NoMessages THEN UNCHANGED faults ELSE Fail
  /\ queue' = queue (+) (Group(i, l) (-) lost)
  /\ fates' = [fates EXCEPT !["cancelled"] = @ (+) Cancelled(i, l),
                            !["requeueFailed"] = @ (+) lost]
  /\ GoTo(i, l, "done")
  /\ UNCHANGED <<deviceVars, batch, handlerBin, resolvedRequests, cacheTable, executionVars>>

\* The requests that are not too old are sent to the queue as new messages.  An
\* error is logged, and entries that SQS reports as failed are not looked at.
Requeue(i, l, lost) ==
  /\ stage[i][l] = "requeue"
  /\ IF lost = NoMessages THEN UNCHANGED faults ELSE Fail
  /\ queue' = queue (+) (Due(i, l) (-) lost)
  /\ fates' = [fates EXCEPT !["cancelled"] = @ (+) Cancelled(i, l),
                            !["requeueFailed"] = @ (+) lost]
  /\ GoTo(i, l, "done")
  /\ UNCHANGED <<deviceVars, batch, handlerBin, resolvedRequests, cacheTable, executionVars>>

\* The instance forgets its batch and can be invoked again.
Release(i) ==
  /\ batch' = [batch EXCEPT ![i] = NoMessages]
  /\ stage' = [stage EXCEPT ![i] = [l \in Locations |-> "none"]]
  /\ handlerBin' = [handlerBin EXCEPT ![i] = 0]

\* Promise.all is fulfilled: the batch is deleted from the queue.
InvocationEnds(i) ==
  /\ ~ Idle(i)
  /\ \A l \in Locations : stage[i][l] \in {"none", "done"}
  /\ Release(i)
  /\ UNCHANGED <<deviceVars, queue, resolvedRequests, cacheTable, executionVars, fates, faults>>

\* Variant with a fault: the rejection is swallowed and the batch is deleted.
InvocationFailsSilently(i) ==
  /\ \E l \in Locations : stage[i][l] = "failed"
  /\ Release(i)
  /\ UNCHANGED <<deviceVars, queue, resolvedRequests, cacheTable, executionVars, fates, faults>>

\* Promise.all is rejected: the whole batch comes back, the groups that were
\* done included.  The other groups may have gone on for a while.
InvocationFails(i) ==
  /\ \E l \in Locations : stage[i][l] = "failed"
  /\ queue' = queue (+) batch[i]
  /\ Release(i)
  /\ UNCHANGED <<deviceVars, resolvedRequests, cacheTable, executionVars, fates, faults>>

\* The instance dies or is timed out in the middle of an invocation.
InstanceDies(i) ==
  /\ ~ Idle(i)
  /\ Fail
  /\ queue' = queue (+) batch[i]
  /\ Release(i)
  /\ resolvedRequests' = [resolvedRequests EXCEPT ![i] = [k \in Keys |-> "unknown"]]
  /\ UNCHANGED <<deviceVars, cacheTable, executionVars, fates>>

\* An idle instance is replaced by a cold one.
InstanceRecycled(i) ==
  /\ Idle(i)
  /\ \E k \in Keys : resolvedRequests[i][k] # "unknown"
  /\ resolvedRequests' = [resolvedRequests EXCEPT ![i] = [k \in Keys |-> "unknown"]]
  /\ UNCHANGED <<deviceVars, queue, batch, handlerBin, stage, cacheTable, executionVars,
                 fates, faults>>

-----------------------------------------------------------------------------
(* The execution of a key                                                  *)

\* 'fetch cached data' and the choice 'Already resolved?'
ExecutionFetches(k) ==
  /\ executions[k] = "fetch"
  /\ Advance(k, IF cacheTable[k] = "resolved" THEN "succeeded" ELSE "invoke")
  /\ UNCHANGED <<deviceVars, queue, handlerVars, cacheTable, apiCalls, fates, faults>>

\* 'Resolve using nRF Cloud API' and the choice on its answer
ExecutionInvokes(k, resolved) ==
  /\ executions[k] = "invoke"
  /\ apiCalls' = [apiCalls EXCEPT ![k] = @ + 1]
  /\ Advance(k, IF resolved THEN "persistResult" ELSE "persistFailure")
  /\ UNCHANGED <<deviceVars, queue, handlerVars, cacheTable, fates, faults>>

\* 'Persist result from API' and 'Done (resolved using API)'
PersistResult(k) ==
  /\ executions[k] = "persistResult"
  /\ cacheTable' = [cacheTable EXCEPT ![k] = "resolved"]
  /\ Advance(k, "succeeded")
  /\ UNCHANGED <<deviceVars, queue, handlerVars, apiCalls, fates, faults>>

\* Variant with a fault: the failure is not recorded.
PersistFailureForgotten(k) ==
  /\ executions[k] = "persistFailure"
  /\ Advance(k, "failed")
  /\ UNCHANGED <<deviceVars, queue, handlerVars, cacheTable, apiCalls, fates, faults>>

\* 'Persist resolution failure' and 'Failed (no resolution)'
PersistFailure(k) ==
  /\ executions[k] = "persistFailure"
  /\ cacheTable' = [cacheTable EXCEPT ![k] = "unresolved"]
  /\ Advance(k, "failed")
  /\ UNCHANGED <<deviceVars, queue, handlerVars, apiCalls, fates, faults>>

\* A state of the execution fails or the execution times out: no state catches
\* the error, so the entry stays as it is.
ExecutionAborts(k) ==
  /\ executions[k] \in Running
  /\ Fail
  /\ Advance(k, "aborted")
  /\ UNCHANGED <<deviceVars, queue, handlerVars, cacheTable, apiCalls, fates>>

-----------------------------------------------------------------------------

\* The copies of r that the handler still has to deal with at instance i.
Held(i, r) ==
  IF stage[i][LocationOf[r]] \in {"none", "done"} THEN 0 ELSE batch[i][r]

Settled(r) ==
  /\ queue[r] = 0
  /\ \A i \in Instances : batch[i][r] = 0

\* Every request was sent and settled, and no execution runs: the system rests.
AtRest ==
  /\ asked = Requests
  /\ \A r \in Requests : Settled(r)
  /\ \A k \in Keys : executions[k] \notin Running
  /\ UNCHANGED vars

Handle(i, l) ==
  \/ FindLocal(i, l)
  \/ GetCacheError(i, l)
  \/ GetCachePending(i, l)
  \/ GetCacheFinished(i, l)
  \/ PutEntry(i, l)
  \/ PutEntryFails(i, l)
  \/ StartExecution(i, l)
  \/ StartExecutionFails(i, l)
  \/ \E lost \in SubBags(Group(i, l)) : Publish(i, l, lost)
  \/ \E lost \in SubBags(Due(i, l)) : Requeue(i, l, lost)

Invoke(i) == \E b \in SubBags(queue) : Size(b) <= BatchSize /\ Receive(i, b)

ExecutionStep(k) ==
  \/ ExecutionFetches(k)
  \/ \E resolved \in BOOLEAN : ExecutionInvokes(k, resolved)
  \/ PersistResult(k)
  \/ PersistFailure(k)
  \/ ExecutionAborts(k)

Next ==
  \/ \E r \in Requests : DeviceRequest(r) \/ RequestAges(r) \/ RetentionEnds(r)
  \/ HourPasses
  \/ \E i \in Instances, r \in Requests : VisibilityEnds(i, r)
  \/ \E k \in Keys : EntryExpires(k) \/ ExecutionStep(k)
  \/ \E i \in Instances, l \in Locations : Handle(i, l)
  \/ \E i \in Instances :
        Invoke(i) \/ InvocationEnds(i) \/ InvocationFails(i) \/ InstanceDies(i)
          \/ InstanceRecycled(i)
  \/ AtRest

Spec == Init /\ [][Next]_vars
=============================================================================
