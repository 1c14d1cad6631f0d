# Verification of nRF Asset Tracker for AWS

TLA+ models of the server side of nRF Asset Tracker for AWS (`src/`), the TLC
runs that check them, and theorems about them whose proofs TLAPS checks.

The program is serverless: CDK stacks (`cdk/`) wire IoT rules, queues, tables,
Lambda functions and Step Functions together, and the Lambda functions
(`agnss/`, `pgps/`, `cellGeolocation/`, `networkSurveyGeolocation/`,
`historicalData/`, `third-party/`) run between these services. Little of it is
hard within one function; what is hard is that several invocations, a queue
that delivers at least once, executions that go on for minutes and entries that
expire meet in the same table. Around it, an operator's command line, AWS IoT
and a custom resource create and delete devices at the same time, and a feature
runner drives the deployed system.

Contents: [modules](#modules) · [inventory](#inventory) · [correspondence](#how-the-models-correspond-to-the-code) ·
[runs](#runs) · [disagreements](#disagreements-between-code-and-documentation) · [fairness](#fairness) · [proofs](#proofs) ·
[limits](#what-is-not-modelled) · [plan](#plan)

## Modules

| Module | What it is |
| --- | --- |
| `AGNSSFanOut` | the A-GNSS fan-out: devices, queue, handler instances, cache table, executions |
| `AGNSSFanOutProperties` | its invariants, fairness and liveness properties |
| `MCAGNSSFanOut`, `FanOut*.cfg` | its small instances |
| `AGNSSFanOut_proofs` | its type correctness, invariants and action properties, for all constants, and that it implements `ResolveOnce` |
| `ResolveOnce`, `ResolveOnce_proofs` | what the fan-outs and the survey geolocation promise: a question is put once, answers are what was learned; and what follows from that |
| `ResolveWhileUnknown` | what the cell geolocation promises: a question is put while nothing is known of it, and what is known is forgotten |
| `RequeueBackoff` | the growing delay of a request that is sent again, against retention and resolution timeout |
| `EntryLifetime` | hour bins and time to live of a cache entry |
| `MCTimes`, `Times_proofs` | the instances of both, and their theorems |
| `PGPSPredictions`, `PGPSPredictionsProperties`, `MCPGPSPredictions` | P-GPS: defaults, GPS days, shared keys, schema limits of warm instances |
| `PGPSPredictions_proofs` | predictions are as requested, for any requests; it implements `ResolveOnce` |
| `CellGeolocation`, `CellGeolocationProperties`, `MCCellGeolocation` | cell geolocation: HTTP API, FIFO queue with deduplication, unnamed executions |
| `CellGeolocation_proofs` | its invariant: answers follow the API, no job is lost; it implements `ResolveWhileUnknown` |
| `NetworkSurvey`, `NetworkSurveyProperties`, `MCNetworkSurvey` | network surveys: items with a time to live, executions whose names expire |
| `NetworkSurvey_proofs` | every survey is resolved once and all users are told the same; it implements `ResolveOnce` |
| `DeviceProvisioning`, `MCDeviceProvisioning` | CAs and device certificates, just-in-time provisioning, the thing group with the stack |
| `DeviceProvisioning_proofs` | its invariant, what is left of devices when the stack is deleted, and who keeps a connection |
| `HistoricalData` | events of devices, their conversion to records, the Lambda and the table |
| `FeatureSteps`, `MCFeatureSteps` | the steps of the feature runner, composed with `HistoricalData` |
| `FeatureSteps_proofs` | what the table holds, and what a passed check has seen |

## Inventory

For every component: its state, its operations, whom it meets, what is hard
about it, and what makes it correct. `PROJECT.json` has the source files, and
under `hazards` the lines where each hard thing bites.

**A-GNSS fan-out** (`agnss/`, `cdk/resources/AGNSS*`). State: an SQS queue, a
DynamoDB table of entries by cache key (location, types and hour), Step
Functions executions named after the key, and a local cache in every warm
Lambda instance. Operations: the IoT rule queues a request; the handler groups
a batch by key, reads or creates the entry, starts the execution, publishes the
data or sends the requests to the queue again; the execution asks the API and
updates the entry. Hard: instances that find no entry at the same time, batches
that fail in part, crashes, redelivery, a changing hour, requests that go round
until they are too old. Correct if the API is asked once per key, answers follow
the resolution, and no request is forgotten or goes round for ever.

**P-GPS fan-out** (`pgps/`, `cdk/resources/PGPS*`). The same machinery for
predicted data. All fields of a request are optional; three places fill in
defaults or limits at three times (rule, cache key, resolver), and the current
GPS day is among them. Correct if a device gets the predictions it asked for
although it shares a key with others, and if the API is asked for what it has.

**Cell geolocation** (`cellGeolocation/`, `geolocation/queueJob.ts`,
`cdk/resources/CellGeolocation*`). State: a table of locations by cell, kept for
a day, a FIFO queue with a message group and a deduplication id per cell, and
unnamed executions. Operations: `GET /cellgeo` reads the entry or queues a job
and answers 409; a Lambda starts one execution per job; the execution looks in
the table, asks the API and stores the location or that there is none. Hard:
the deduplication window is all that keeps two resolutions of a cell apart;
batches fail in part; a dead execution blocks the cell until the window ends.
Correct if answers follow the API, no job is lost, resolutions do not overlap
within a window and users get an answer in the end.

**Network survey geolocation** (`networkSurveyGeolocation/`,
`cdk/resources/NetworkSurvey*`). State: a table of surveys, kept for 30 days,
that also holds their results; executions named after the survey. Operations:
a rule stores a survey; `GET /location/network/survey/{id}` answers from the
item or starts the execution; the execution updates the item. Hard: three
lifetimes (item, deletion by DynamoDB, name of the execution) and an update that
creates the item when it is gone; swallowed errors. Correct if a survey is
resolved once, all users are told the same, and it is deleted in time.

**nRF Cloud API client** (`third-party/nrfcloud.com/`). A pipeline (validate the
request, send it, parse and validate the response) without state. The resolvers
above use it as a choice between an answer and an error.

**Historical data** (`historicalData/`, `cdk/resources/HistoricalData.ts`).
State: a table of Timestream. Operations: three rules select shadow updates,
single messages and batches; one Lambda converts them to records and writes them
in one call. Hard: a message can be delivered twice and an invocation repeated
while every conversion draws new random `measureGroup`s; some nulls are skipped and
others end the conversion of the whole event; records that are too old are rejected next to others;
the error path fails itself and is swallowed. Correct if every reading the table
can take is stored, and the groups say which values belong together.

**Settings and pagination** (`util/settings.ts`, `util/paginate.ts`). SSM
parameters replaced by deletion and creation, reads in pages.

**Device certificates and JITP** (`cli/jitp/`, `cli/commands/create-*`,
`register-ca.ts`). State: files of CAs and devices, the file `currentCA`, keys and
certificates on devices, and in AWS IoT CAs, certificates and things. Operations:
create and register a CA, create keys, sign and flash certificates; AWS IoT
registers and provisions a device that connects. Hard: a command is a series of
calls and programs, any of which may fail, and the private key is replaced before
it is known that a certificate can be signed. Correct if keys and certificates
match and a device with a certificate of an active CA can connect in the end.

**Thing group custom resource** (`cdk/createThingGroup.ts`). Creates the group
and attaches the policy with the stack; deletes the things of the group and their
certificates with it, page by page, in parallel. Hard: devices are provisioned in
the meantime, an error leaves what runs in parallel between two calls, and a
failed deletion is repeated. Correct if nothing is left behind that can neither
be used nor provisioned again, and no thing once provisioning is impossible.

**Feature runner** (`feature-runner/`). Runs steps one after the other against a
deployed system: a tracker publishes, subscribes and asks for jobs, an HTTP
client and a Timestream client query. State: a cached connection per tracker,
received messages, the last answer and query result in the context. Hard:
promises and callbacks outlive their step, timers race answers, and checks are
retried by a loop that swallows errors. Correct if a passed check has seen what
it says, and every step ends.

**Command line** (`cli/commands/`). Besides the commands above: `purge-cas` (modelled with
the CAs it deletes), `retry.ts` (modelled with the connection of a tracker), purging
of buckets and policy principals, configuration of credentials, flashing of firmware.

**Mock HTTP API** (`cdk/test-resources/`), **stacks and permissions**,
**continuous deployment and web app hosting**, **Lambda packaging**: see
`PROJECT.json` for what they are and why they have no behaviour to model.

The four resolvers do not call each other. They share the API client and
settings, and the services of AWS, of which the models assume:

- SQS standard queues deliver at least once; FIFO queues deliver one job of a
  group at a time and drop duplicates within five minutes of acceptance.
- AWS IoT registers an unknown certificate if its CA is active and provisions
  it with the template of that CA; it refuses to delete a thing with principals, or an
  active certificate; the token of a listing goes on behind what was listed before.
- Timestream keeps the records of a call that it does not reject.
- Step Functions starts a named execution once, until 90 days after its end.
- DynamoDB writes are atomic per item, reads here are eventually consistent,
  expired items are deleted some time later.

## How the models correspond to the code

`PROJECT.json` maps every definition to its lines. What follows is what a
reader has to know to compare them.

### A-GNSS fan-out

An instance of the Lambda is in `batch`, `handlerBin` (the hour in which its
keys were computed) and, per group of the batch, `stage`: the await point at
which the group stands. Groups of a batch run concurrently (`Promise.all` over
the keys), so their steps interleave; the calls within a group do not, because
the code awaits each (`await` inside the inner `Promise.all` too). A message is
only known by its request; the queue and the batch are bags of requests.

- `Requests`, not devices: a device that asks twice is two requests.
- All keys of an invocation are in one bin: the handler computes them in one
  synchronous pass. A pass that straddles the hour is two invocations here.
- Age is `overdue`, the set of requests older than `maxResolutionTimeInSeconds`;
  a request may get older at any moment. `RetentionEnds` is possible for every
  such request: in the code retention starts again with every requeued message,
  so the model allows more than SQS does.
- After a failing `PutItem` rejected `Promise.all`, the other groups may go on
  in an instance that is frozen or reused; such late steps are left out once the
  batch has been returned (`InvocationFails`), they may happen before.
- `apiCalls` counts the executions' resolution steps; retries of the Lambda
  invocation inside Step Functions are part of one step.
- The branch 'Already resolved?' of `ExecutionFetches` is kept although the
  name of the execution makes it dead within one key: it is in the code.
- An eventually consistent read that misses an entry is a failing read, which
  the code treats the same (`GetCacheError`).
- `EntryExpires` waits for the hour and the execution. That is not an
  assumption about DynamoDB but a consequence of how the time to live is
  computed, which module `EntryLifetime` checks and proves.

`RequeueBackoff` follows one request through its delays, with the production
values as an instance. The cap of 900 seconds of the A-GNSS handler is never
reached because the resolution timeout is 600. The theorems need an initial
delay of two seconds or more: with `INITIAL_DELAY=1` the floor of 1.5 is 1 and
the delay would not grow. `EntryLifetime` follows the clock, a key, its entry and
its execution in ticks, `Second` of which make a second.

### P-GPS

The state of queue and handler is reduced to where a request is (`queue`, or in
a handler that has computed its key in hour `handledIn`), because their races
are those of `AGNSSFanOut`. What is kept is every time at which something is
computed from the clock: `sentIn`, `handledIn` (the key), `in` of an execution,
of a result (the question), and `loadedIn` (the limits of the schemas, computed
when the module is loaded). A request is a record with some of the fields;
`WithDefaults` fills it in. A request, a round and an execution each see the
hour change once at most (15, 1 and 5 minutes), which is a guard of `HourPasses`.
`Resolve` is the execution with its Lambda: the API may have no data, and is not
asked at all if a schema refuses (`Accepted`).

### Cell geolocation

A user is one client that asks again until it has a result; `stage` is the await
point of its request. The FIFO queue is the number of waiting `jobs` of each
cell and the set of cells whose deduplication window is open; a worker's `batch`
is a set of cells, because SQS gives out one message of a group at a time in
this configuration (a second message of the group would come in a later batch).
Executions are counted per cell and state since they have no names.
`Overlap` bounds how many resolutions of a cell may still be on the way when its
window ends. 0 is the assumption that the window outlasts them. The code does not
guarantee it: the window lasts five minutes, and an execution may take five minutes
by itself (`CellGeolocation.ts:213`), after the time in the queue. 1 drops it.
A batch is received and given back as a whole: a job that was started stays in it
until then, and `Promise.all`, which goes on with the other starts after a
rejection, is a batch that takes further steps before it is given back.
`EntryExpires` waits for the window, as the time to live is a day.

### Network surveys

Time is counted in days. `Lag` bounds how late DynamoDB deletes an expired item;
`NamesAssumption` says that an item is gone before the name of its execution is
free again (30 days and some, against 90). TLC checks it scaled down (1, 1 and
4 days, on 10 days), the theorems hold for all values that satisfy it. `expiring`
is the set of items with the attribute `ttl`: an item that an update creates
after the deletion is not in it.

### The abstract services

The abstract service has three variables: the questions put to the API, what was
learned of each (an answer, nothing, or it was lost for good), and what askers
were told. It has no queue, cache or table. `Resolution` in `AGNSSFanOutProperties`
maps a cache key to a question, put as soon as its execution is started, learned
when the execution has ended, lost when it was aborted; a request's question is
the key of any hour. In `NetworkSurveyProperties` a survey is a question. So a
pending entry that overwrites a finished one, a second delivery or a warm
instance may delay an answer, but cannot make the service ask twice or say
anything else than it learned. In `PGPSPredictionsProperties` the questions are the
keys that a device's request can have, in any hour of the run, and an execution's
result is learned at once. This refinement is proved only: TLC finds it true on the instance
of `pgps_shared` as well, but takes minutes to evaluate the mapping in every state.

`CellGeolocation` does not implement it, because its entries expire after a day and
its executions have no names. It implements `ResolveWhileUnknown`, in which a question
may be put again once its answer has been forgotten. A cell is open from the
acceptance of its job until its execution has ended (`Active`), what is known is its
entry, and what a user was told is his final answer; that he is told "in process"
before is a stutter. An abortion would leave a cell neither open nor known, which the
abstract service does not have, so `ResolvesWhileUnknown` ends with the first failure.

### Devices

A certificate is a record of device, key and CA; keys of a device are numbered,
so that "the certificate is for the key" can be said. One command runs at a time
(`command` is its next step); what it keeps in files of its own until it is done
(`csr`, `bundle`) is lost when it ends early, what it has written to the device
is not (`broken`). In the custom resource, `page[d]` is the await point of the
Lambda at a thing of the page and `purging[c]` that at a certificate: both
loops are a `Promise.all`. `NextPage` is `paginate`, which goes on with the token
of the last page; `listed` stands for what the token is behind of. `HandlerEnds`
is the first rejection, with which the Lambda answers: what runs in parallel is
left where it is. In the code these calls go on while the answer is sent, until the
instance is frozen; in the model such steps are taken before the rejection.

- `fenced` and `interrupted` are history variables that only properties read.
- `ListExisting` adds nothing: `AddExisting` is a boolean of CloudFormation, which
  arrives as "true" or "false", and is compared with '1'.
- `PurgeTargets("none")` is empty: `Object.values` of a promise has no elements.
- CAs, certificates and keys are not renewed by expiry; validity is left out.

### Historical data and feature steps

An event is its kind and a set of readings; a reading has a sensor, a type (a
number, an object, nothing but null, or a null in place of its values), named values
that may be null, and whether it is older than the memory store accepts. The readings
of a batch are the elements of its lists; a list that is null is skipped and has none.
`Records` is the whole conversion: which readings become records, when it throws
(`Breaks`), and which records share a group. A sensor of an update that is null is
skipped; a null battery, button or impact, or a null in place of the values, throws. A group is a pair of
the number of the invocation (its randomness: no two invocations draw the same)
and the set of readings that share it. Sensor names are those on which the code
branches.

`FeatureSteps` extends `HistoricalData`, so that what a tracker publishes goes
through rules and Lambda to the table that a later step queries. `phase` is where
the step stands: waiting for the cached connection, for an acknowledgement, between
two retries. Connection, subscription and messages outlive the scenario, as the
maps of `tracker.ts` do. Time is left out: a timer may end a step when its answer
is late (which is counted as a fault while there is a connection), and always when
none can come. A message of the system may reach the tracker twice
(`MessageRedelivered`, a fault), as the subscription asks for QoS 1. `Tries` and `RetryTries` are the parameters of the two retry loops;
`RetryTries >= 2` is an assumption, because with 1 `retryCheck` passes although its
check has failed (no caller does that).

## Runs

All runs are instances of the modules above with the values in the .cfg.

| Run | Checks | Instance |
| --- | --- | --- |
| `fanout_failures` | `FanOutInvariant`, `EachRequestHasOneFate`, `PendingIsInProgressIfAlone` | two devices in two cells, two instances, batches of two, any failure |
| `fanout_settles` | `OneApiCallPerKey`, `AnswersMatchResolution`, `ResolvesOnce`, `EveryRequestSettles`, `AnsweredUnlessUnresolved` | one request, two instances, a change of the hour, any failure |
| `fanout_race` | `PendingIsInProgress` (violated) | two requests for one key, two instances, no failure |
| `fanout_warm` | `RequeueMeansInProgress` (violated) | two requests for one key, one warm instance, no failure |
| `times` | `DelayInvariant`, `SeenBeforeRetention`, `AtMostTenRequeues`, `DelayIncreases`, `LifetimeInvariant`, `EntryOutlivesHour`, `EntryOutlivesExecution` | production delays, up to nine seconds of waiting per round; every tick of three bins |
| `pgps_shared` | `PGPSInvariant`, `PredictionsMatchRequest`, `QuestionsAreAvailable`, `CurrentDayIsAccepted` | three devices, two of which share keys, around the begin of a GPS day |
| `cell_window` | `CellInvariant`, `OneResolutionAtATime`, `OneStartPerDay`, `ResolvesWhileUnknown` | two users of a cell, two workers, an expiring entry, any failure |
| `cell_answers` | `EveryUserIsAnswered`, `DroppedJobIsInProcess` | one user, overlapping resolutions, an expiring entry, any two failures |
| `survey_once` | `SurveyInvariant`, `OneExecution`, `ResolvesOnce`, `ConflictMeansInProcess`, `EveryUserIsAnswered` | two users of a survey, seven days, any failure |
| `survey_leftover` | `SurveysAreDeleted` (violated) | two users of a survey, no failure |
| `devices` | `DeviceInvariant`, `KeyMatchesCertificate`, `NoCertificateLeftBehind`, `DeletedForGood`, `EveryDeviceConnects` | a device, a simulator, a CA, two keys each, one thing per page, any failure |
| `features` | `FeatureTypeOK`, `FreshReadingsAreStored`, `GroupsJoinReadings`, `PassedCheckHolds`, `EveryStepEnds` | any four steps, eight events, second deliveries, any failure |

What they show:

- **A-GNSS.** Whatever one failure does to a batch with two keys, no request is
  forgotten, and without failure none is duplicated (`fanout_failures`). The API
  is asked once per key although a message may be delivered to both instances,
  a read may fail and the hour may change; every request that gets too old leaves
  the system for good, and without failure a request is settled before, unless
  its resolution fails (`fanout_settles`).
- **Times.** With the production values a request is requeued ten times at most
  and always becomes visible before SQS deletes it; an entry lives longer than its
  hour and than its execution.
- **P-GPS.** Devices get the predictions of their own request, on the day on
  which they asked or, if a GPS day begins on the way, the next one; no warm
  instance asks for a day that the API does not have or refuses the current one.
- **Cells.** If the window outlasts resolutions, which is assumed (see above), and
  nothing fails, the deduplication id alone keeps resolutions of a cell apart and
  allows one a day.
  Users are answered in the end in spite of failures, and what they are told on
  the way is true while nothing has failed, also if resolutions overlap.
- **Surveys.** One execution per survey, also when its name is free again.
- **Abstract services.** Both the fan-out and the surveys are indistinguishable, for
  those who ask, from a service that resolves each question once. While nothing fails
  cells are so from one that resolves a question when nothing is known of it, under the
  same assumption.
- **Devices.** A command that ends early is the only way to a device whose
  certificate is not for its key. While pages are purged in parallel and devices
  are provisioned in between, a deletion that runs to its end leaves no active
  certificate without thing; if CAs were purged before, repeated deletions leave no
  thing. A device whose CA stays active connects in the end, whatever failed.
- **Historical data and features.** An event that was handled has all its readings
  in the table that the table can take (with the exceptions named at the property),
  grouped by invocation even if a message is delivered twice. Retries never let a
  check pass that does not hold. Every step ends, also on a connection that was
  refused or closed, unless AWS IoT answers that there is no job.

Why the bounds are enough to be interesting:

- Two instances and a failure (which can be the second delivery of a message) are
  the least with which two instances race for a key; two locations the least with
  which one group of a batch fails while the other is answered; two bins the least
  with which a request changes its key. Symmetry is used where no property names
  an element, and never in a run with a liveness property. Devices in two cells
  are interchangeable only together with their cells (`TwoCellsSymmetry`).
- The number of failures bounds the calls that fail, the crashes and the second
  deliveries in one behaviour. Properties of behaviours without failure say
  `faults = 0`, so that one run checks both.
- The P-GPS clock starts at 2024-10-04T22:00Z (hour 480022): the code's GPS day
  begins in the second hour of the run. The third device asks for a day that
  becomes available then.
- A survey's item lives one day or two in the run and the name of its execution
  four: the clock reaches the days in which the name is free again.
- One thing per page, and two devices: the list has two pages and changes between
  them. Two keys: a device is given a second certificate while the first is known.
  One failure is enough to end a command, or a deletion that is then repeated.
- Four steps are what it takes to generate a certificate, publish, query and match,
  or to connect, disconnect and find the connection closed. The eight events are an
  update with the battery beside other readings and a sensor that is null, one with the
  battery alone, a batch with an old reading, a button press, and four at which the
  conversion breaks: updates with a null battery and with a null in place of values, a
  message with a null impact, a batch with a null in place of values. Three tries of a
  check are the default of `retryCheck`; two of a connection (10 in the code) show a
  last one and one before it.
- Every passing property is violated by a variant of the module with a fault in
  one action; these variants are the definitions with the comment "Variant with a
  fault", used by nothing else.

`ResolvesWhileUnknown` does not hold with `Overlap` 1: a cell whose execution outlasts
its window may be put to the API again, and the failure of one execution may replace
the location that another one has found. Nothing in the repository promises the contrary.

The P-GPS and clock runs switch deadlock detection off because every device asks
once and the clock is bounded, the device and feature runs because an operator
may stop and steps are bounded. The other modules have an action `AtRest` instead,
so that a state in which something is left undone counts as a deadlock.

## Disagreements between code and documentation

Shown by a run:

| Run | What the code does | Where |
| --- | --- | --- |
| `fanout_race` | an unconditional `PutItem` puts a pending entry in place of a finished one, which nobody will resolve again this hour | `agnss/deviceRequestHandler.ts:113` |
| `fanout_warm` | a warm instance requeues requests it knows to be unresolvable | `agnss/deviceRequestHandler.ts:103` |
| `survey_leftover` | the update of a deleted item creates one that is never deleted | `cdk/resources/NetworkSurveyGeolocation.ts:86` |

Found while modelling, too simple for a run:

- `pgps/gpsTime.ts:9`: the offset 315874800000 ms is 1980-01-04T23:00Z, midnight of
  January 5 an hour east of Greenwich; the comment above says that the epoch is
  January 5. `offSetToUnixTime` is 87743 hours, an hour short of 3656 days: the
  default start day changes at 23:00 UTC.
- `cdk/helper/iotRuleSqlCheckIfDefinedAndNotZero.ts:2`: the rule drops a P-GPS request
  with `time` 0, which the schema (`pgps/types.ts:23`) allows and which is the default
  (`RuleAccepts` against `Valid`).
- `third-party/nrfcloud.com/pgps.ts:48`: "Current GPS day + 2 weeks is the upper bound":
  an instance that was loaded the day before refuses the last day of that.
- `third-party/nrfcloud.com/pgps.ts:98`: the start day is filled in again after a wait.
  A device that gives its day, but shares the key with one that does not, may get
  predictions from the next day on; `PredictionsMatchRequest` allows for that.
- `networkSurveyGeolocation/httpApi/locateSurvey.ts:52`: every error of `StartExecution`
  is swallowed, and the user is told that the calculation is in process.
  `ConflictMeansInProcess` therefore holds only without failures.
- `cli/commands/purge-cas.ts:81`: the loop iterates over the values of a promise that is
  not awaited, which has none. Line 60 says: "if left blank all CAs will be purged".
- `cli/commands/purge-cas.ts:79`: the file `currentCA` keeps naming a CA that was purged, and
  the next device certificate is signed with it. Nothing tells the operator that the
  device cannot be provisioned.
- `cdk/createThingGroup.ts:62`: `AddExisting` is compared with '1' and never equals it. If it
  did, only the first page of things would be added (line 61 does not go on).
- `cdk/createThingGroup.ts:84`: a creation that fails before the group exists is rolled back by
  listing the things of a group that does not exist, so the rollback fails too.
- `feature-runner/steps/retryCheck.ts:55`: `Math.max` with the maximum delay, whose default is
  infinite. The comment says: "The maximum number of milliseconds between two retries".
- `feature-runner/steps/timestream.ts:70`: the retry of a match does nothing, so that the same
  result is checked again (`Retry`).
- `feature-runner/steps/tracker.ts:84`: a rejected or closed connection stays in the cache, and
  every later step of that tracker fails by it or waits for its timer. Messages of a
  tracker are never cleared, so a step that waits for exactly one fails after two.
- `historicalData/storeRecordsInTimeseries.ts:41`: the request is a promise without `response`, so the
  error handler throws a `TypeError` in place of the error it wants to report
  (`WriteFails`).
- `historicalData/shadowUpdateToTimestreamRecords.ts:31`: a null in place of the values of a
  sensor ends the conversion, and the readings of all other sensors are lost. So do a null
  battery (`storeMessagesInTimestream.ts:51`: null is not `undefined`) and a null button or
  impact (`messageToTimestreamRecords.ts:8`, `:19`). A null in place of any other sensor of
  an update is skipped (line 28). A test (`shadowUpdateToTimestreamRecords.spec.ts:175`) knows
  nulls one level deeper: "null values are sent by the device to remove a property".
- `cdk/createThingGroup.ts:117`: a certificate that was detached, but not deactivated or deleted when
  the Lambda failed, is found by no repeated deletion, which lists the principals of
  things. `NoCertificateLeftBehind` exempts such deletions.
- `cli/commands/purge-buckets.ts:87`: the marker returned is the one of the request, so a try
  deletes one page of objects; the three tries are what empties more than that.

## Fairness

Resolvers: weak fairness of the handler's steps: the JavaScript event loop runs every
continuation, and Lambda's timeout ends an invocation that hangs. Weak fairness of
the executions: Step Functions drives them and they time out after 5 minutes.
Strong fairness of receiving a message: a message goes back and forth between
visible and being handled, and the event source mapping polls for ever. Weak
fairness of the end of a deduplication window: time passes. Users ask again until they have a
final answer, as the web application does. Failures, answers of the API, the
ageing of requests, changes of the hour and expirations are not fair: nothing
has to fail, succeed or expire, so `AnsweredUnlessUnresolved` cannot be had from
the resolution timeout.

Devices: weak fairness of a device that tries again to connect, of AWS IoT that
provisions what is pending, and of the Lambda of the custom resource. Nothing is
assumed of the operator: `EveryDeviceConnects` is about a device that stays
provisionable. Features: weak fairness of the runner, whose timers end, and of the
delivery of what a tracker published. Nothing is assumed of provisioning, of the
Lambda or of the services behind the APIs, on which no step depends for its end.

## Proofs

The theorems hold for every value of the constants that satisfies the named
assumptions of the modules, or of the theorem. Every one is of the form `Spec => []P` or
`Spec => [][A]_vars`, from an invariant that is shown to hold initially and to be
kept by each action; the lemmas have one step per action.

- **A-GNSS** (`AGNSSFanOut_proofs`): `FanOutInvariant` is inductive. "At most one
  call" is not inductive by itself: `ApiCallsFollowExecution` adds that an
  execution that has not left "invoke" has made no call. "Answers match" needs
  `ResultsAreOfTheExecution` (table and local caches hold nothing but results of
  the one execution of the key, whatever its entry has been overwritten with) and
  `PublishedIsResolved` (what is published was seen as resolved by that instance).
  `NoRequestForgotten` is inductive: every step that takes the last copy of a
  request away leaves it in another place. `ResolutionInvariant` collects the
  invariants about results, and with it `FanOutImplementsResolveOnce` maps every step:
  the start of an execution puts the question, its last update learns the answer,
  an abortion loses it, an answered group is told, and all else is a stutter.
  `OneFateEach` follows from `CopiesInvariant`: without failures there is `OneCopy` of a
  request, in the queue or in one group of one instance, or it has met `OneFate`;
  `HandleMovesCopies` says once for all outcomes of a group what becomes of its copies.
  `OverdueLeaves` is the safety half of `EveryRequestSettles`: what is overdue is not sent
  again, so that all that fairness has to add is that a message is received.
  `PendingInProgressIfAlone` assumes `Alone`: no two requests ask for one location, or no
  two invocations run at the same time. With either no two groups are at the opening of
  a key at once, and `EntriesInProgress` follows the entry and the execution of the
  current hour from the first PutItem to the result. `fanout_race` shows that one of
  the two is needed.
- **The abstract service** (`ResolveOnce_proofs`): who asks is told outcomes of his own
  questions, askers of one question agree, nothing is undone; from `OutcomesAreOfPut`.
  The theorems assume only that the questions of an asker are questions. Every
  implementation inherits them through its refinement (`FanOutKeepsPromises`,
  `SurveyKeepsPromises`, `PGPSKeepsPromises`): there `Promise` is the instance of the
  abstract theorems and `PromiseIsResolution` says that it is the same instance as the
  one the refinement is stated with.
- **Backoff, lifetime** (`Times_proofs`): arithmetic of the delay (a floor of 3/2) and of the time
  to live (rounded seconds against milliseconds and hours), for all values.
  `RequeuesEnd` bounds the number of rounds n for any timeout, by (n - 1)(2 `InitialDelay`
  + n) <= 2 `MaxResolutionTime`: each delay is a second longer than the last, and their
  sum (`TwiceTheSum`) is no more than the age of the request (`DelaysAddUp`).
  `AtMostTenInProduction` assumes the production values (`Production`) and follows the
  ten rounds with the least age that each of them can begin at (`RoundsAddUp`).
- **P-GPS** (`PGPSPredictions_proofs`): `HoursAreClose` (key, execution, question
  and delivery are at most an hour apart each) and `KeysAreOfRequests` (every key
  and question is that of some device's request) are inductive together;
  `QuestionsFollow` and `PredictionsFollow` derive what devices get, by cases
  on which of the two devices that share the key gave the day. `LimitsAreRecent`
  (the limits of an instance are as old as the instance) bounds the days of the
  questions; that the current day is accepted needs `LimitsAssumption`: an instance
  is not used for more than two weeks, and days have up to five digits.
  `PGPSImplementsResolveOnce` needs `KeysAreUnique`: a key has one execution or one result.
- **Cells** (`CellGeolocation_proofs`): `CellInvariant` is inductive;
  `BatchesAreDisjoint` is needed for counting jobs: a job is held once.
  `DroppedJobsAreInProcess` is proved for windows of any length. `OneAtATime`
  and `OnePerDay` assume `WindowOutlasts` (`Overlap` is 0, which the stack's five minutes for
  both window and execution do not guarantee) and follow from `WindowInvariant`: what goes on for a cell is inside its window, and as long as it
  goes on there is no entry; afterwards there is one until the window has ended; a
  request that missed the entry outside of a window misses it still. From the same and
  `RequestsLackResult` (who has a final answer does not ask again) follow the refinement
  of `ResolveWhileUnknown` up to the first failure (`CellsResolveWhileUnknown`) and, if
  there is none, all of it (`CellsImplementResolveWhileUnknown`).
- **Surveys** (`NetworkSurvey_proofs`): `SurveyInvariant` is inductive.
  `NamesAreKept` and `PendingItemsExpire` carry the argument about lifetimes: a
  user that is about to start an execution has read an item without result, such
  items carry a time to live, so the name cannot be free again.
  `ResultsAreFinal` (an item with a result is never without one or with another
  again) is what `SurveyImplementsResolveOnce` needs beside it, and
  `EndedHasPersisted` (an execution that ended without failure has left a result or
  a mark) what `ConflictIsTrue` needs. `OnlyLateResultsAreLeft` is what remains true of
  `SurveysAreDeleted`, which `survey_leftover` violates: an item that will never be
  deleted is the result of an execution that ended after the time to live.
- **Devices** (`DeviceProvisioning_proofs`): `DeviceInvariant` is inductive.
  `KeysAreBacked` says what a running command knows of a key that no file says yet;
  `HandlerIsConsistent` relates the step at a certificate to its status, its principal
  and the step at its thing, from which `NoneLeftBehind` follows; `FenceHolds` is
  what makes the end of a deletion mean something: once nobody can be provisioned, a
  thing that was listed is deleted or about to be, so what survives a page is not
  listed yet, and after the last page all are.
  `ConnectionsAreKept` is a theorem about steps: who can take a connection away from a
  device. `NoDeadEnd` is the safety half of `EveryDeviceConnects`: until the stack is
  deleted certificates keep their things and their status (`IntactUntilDeletion`), so that
  a provisionable device that may not connect has a registration or a provisioning
  ahead of it.
- **Historical data and features** (`FeatureSteps_proofs`): `TableInvariant` says of every
  record which event, reading, value and earlier invocation it is from, and that an
  invocation has one event. `OnlyFreshReadings` is the converse of `FreshReadingsAreStored`:
  nothing else is in the table, and a duplicate is the work of another invocation.
  `CheckInvariant` follows the answer in the context
  through steps and retries, and says that a query result is part of the table.
  Both theorems about the table except events that the conversion breaks at, and only those.
  `StepInvariant` adds the limits of the tries in every phase, and that an event to be
  sent waits for no invocation, for `FeatureTypesCorrect`.

Only model-checked: the liveness properties (`EveryRequestSettles`,
`AnsweredUnlessUnresolved`, `EveryUserIsAnswered`, `EveryDeviceConnects`, `EveryStepEnds`), which are
out of reach of the prover. Every invariant and action property of a run that passes is
stated by a theorem.
`WindowInvariant`, `StepInvariant`, `EndedHasPersisted`,
`OverdueNotSentAgain`, `RequeuesAreBounded`, `LeftoversCameLate`, `ConnectionIsKept`,
`ProvisioningGoesOn`, `OnlyFreshReadingsAreStored` and the promises of
`ResolveOnce` belong to no run: they were checked with TLC before they were proved. Batches of
jobs for several cells are only in the proofs of the cell geolocation: the runs have
one cell.

## What is not modelled

- Formats: JSON, MQTT topics, attribute encodings, URLs, HTTP headers except the
  status they stand for. Logging.
- The nRF Cloud API and AWS, except for what is assumed above.
- HTTP caches between the web application and the APIs (the answers carry
  cache headers), and how long DynamoDB takes to delete.
- P-GPS repeats the handler of A-GNSS; its await points, batches and failures
  are modelled once, in `AGNSSFanOut`.
- The API client: what it returns is a function of one answer, and the resolvers
  are modelled with that answer as a choice.
- Historical data: the limit of 100 records per write, versions and units of
  records, and the dimensions a record gets besides its event.
- Devices: serial ports, flashing of firmware, expiry of certificates, and several
  operators at the same time (the files of the command line are one operator's).
- Features: steps that are one call of a service, and checks of a body or header,
  which are retried like the status.
- Mock HTTP API: a stand-in with one response at a time. It reads and deletes a
  response in two calls, which matters only to requests at the same time.
- Settings: one operator writes them before a deployment reads them. With
  `deleteBeforeUpdate` there is a moment without parameter.
- `purge-buckets` and `purge-iot-user-policy-principals`: what they leave depends on
  the meaning of a marker in a list that shrinks, which this code does not tell.
- Stacks, continuous deployment, web app hosting and Lambda packaging: declarations
  and build steps.

## Plan

Done in the order of importance: the A-GNSS fan-out with its numbers, cell
geolocation, network surveys, P-GPS, the abstract services with their refinements,
devices and historical data with the feature steps. What would come next:

1. **One fan-out for both handlers.** `LocationOf` becomes a function of request and
   bin, so that a P-GPS request without a day changes its key at the GPS day;
   `PGPSPredictions` as an instance of it.
2. **The promises of `ResolveWhileUnknown`**, inherited by `CellGeolocation` as those of
   `ResolveOnce` are by its implementations.
