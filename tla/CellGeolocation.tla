-------------------------- MODULE CellGeolocation --------------------------
(***************************************************************************)
(* Geolocation of network cells.  The HTTP API (cellGeolocation/httpApi/   *)
(* cell.ts) answers from a cache table; when it finds nothing it puts a    *)
(* job in a FIFO queue and answers that the calculation is in process.  A  *)
(* Lambda (lambda/invokeStepFunctionFromSQS.ts) starts one execution per   *)
(* job, which asks the third-party API and stores the result for a day     *)
(* (cdk/resources/CellGeolocation.ts, stepFunction/).                      *)
(*                                                                         *)
(* In contrast to the A-GNSS fan-out the executions have no names: what    *)
(* keeps two resolutions of a cell apart is the deduplication window of    *)
(* the queue, which ends five minutes after a job is accepted.             *)
(***************************************************************************)
EXTENDS Integers, FiniteSets

CONSTANTS
  Cells,      \* cells, by their cellId
  Users,      \* users of the HTTP API, each asking again until it has a result
  CellOf,     \* the cell each user asks for
  Workers,    \* instances of the Lambda that takes jobs from the queue
  BatchSize,  \* jobs of one invocation (10 in production)
  Overlap,    \* bound: resolutions of a cell that outlast its window; 0 assumes
              \* that the window outlasts every resolution
  MaxDays,    \* bound: how often an entry expires
  MaxFaults   \* bound: failing AWS calls and crashes

ASSUME CellsAssumption == CellOf \in [Users -> Cells]
ASSUME UsersAssumption == IsFiniteSet(Users)
ASSUME BoundsAssumption ==
  /\ BatchSize \in Nat \ {0}
  /\ Overlap \in Nat
  /\ MaxDays \in Nat
  /\ MaxFaults \in Nat

VARIABLES
  stage,       \* per user: where the handler stands with the user's request
  answer,      \* per user: the last answer
  jobs,        \* SQS: waiting jobs of each cell (its message group)
  duplicates,  \* SQS: cells whose deduplication window is open
  batch,       \* per worker: the cells of its jobs
  todo,        \* per worker: those whose execution is not started yet
  rejected,    \* workers with a failed StartExecution
  executions,  \* Step Functions: running executions, per cell and state
  cacheTable,  \* DynamoDB: the entry of each cell
  outcomes,    \* what executions of the cell were told by the API
  accepted,    \* jobs of the cell that the queue accepted
  started,     \* executions started for the cell
  days,        \* entries expired so far
  faults       \* failures so far

userVars == <<stage, answer>>
queueVars == <<jobs, duplicates, accepted>>
workerVars == <<batch, todo, rejected>>
executionVars == <<executions, outcomes>>
vars == <<userVars, queueVars, workerVars, executionVars, started, cacheTable, days, faults>>

-----------------------------------------------------------------------------

Entries == {"absent", "located", "unresolved"}

\* The await points of the handler, after it was called and after a cache miss.
Stages == {"idle", "read", "queue"}

\* 200, 404, 409 and 500, and no answer yet
Answers == {"none", "located", "notFound", "inProcess", "error"}

Final == {"located", "notFound"}

\* The states of the execution in which it can be found running.
States == {"resolveFromCache", "resolveFromApi", "cacheResult", "cacheNoResult"}

Fail == faults < MaxFaults /\ faults' = faults + 1

RunningOf(c) ==
  executions[c]["resolveFromCache"] + executions[c]["resolveFromApi"]
    + executions[c]["cacheResult"] + executions[c]["cacheNoResult"]

HeldOf(c) == Cardinality({w \in Workers : c \in todo[w]})

\* The jobs of the cell that wait or that a worker holds, and its executions.
Active(c) == jobs[c] + HeldOf(c) + RunningOf(c)

\* With the requests that missed the entry and are about to queue a job.
Resolutions(c) == Active(c) + Cardinality({u \in Users : CellOf[u] = c /\ stage[u] = "queue"})

Move(c, from, to) ==
  /\ executions[c][from] > 0
  /\ executions' = [executions EXCEPT ![c][from] = @ - 1, ![c][to] = @ + 1]

Leave(c, from) ==
  /\ executions[c][from] > 0
  /\ executions' = [executions EXCEPT ![c][from] = @ - 1]

-----------------------------------------------------------------------------

TypeOK ==
  /\ stage \in [Users -> Stages]
  /\ answer \in [Users -> Answers]
  /\ jobs \in [Cells -> Nat]
  /\ duplicates \in SUBSET Cells
  /\ batch \in [Workers -> SUBSET Cells]
  /\ todo \in [Workers -> SUBSET Cells]
  /\ rejected \in SUBSET Workers
  /\ executions \in [Cells -> [States -> Nat]]
  /\ cacheTable \in [Cells -> Entries]
  /\ outcomes \in [Cells -> SUBSET BOOLEAN]
  /\ accepted \in [Cells -> Nat]
  /\ started \in [Cells -> Nat]
  /\ days \in 0..MaxDays
  /\ faults \in 0..MaxFaults

Init ==
  /\ stage = [u \in Users |-> "idle"]
  /\ answer = [u \in Users |-> "none"]
  /\ jobs = [c \in Cells |-> 0]
  /\ duplicates = {}
  /\ batch = [w \in Workers |-> {}]
  /\ todo = [w \in Workers |-> {}]
  /\ rejected = {}
  /\ executions = [c \in Cells |-> [s \in States |-> 0]]
  /\ cacheTable = [c \in Cells |-> "absent"]
  /\ outcomes = [c \in Cells |-> {}]
  /\ accepted = [c \in Cells |-> 0]
  /\ started = [c \in Cells |-> 0]
  /\ days = 0
  /\ faults = 0

-----------------------------------------------------------------------------
(* The HTTP API                                                            *)

\* A user without a result asks (again).
Ask(u) ==
  /\ stage[u] = "idle"
  /\ answer[u] \notin Final
  /\ stage' = [stage EXCEPT ![u] = "read"]
  /\ UNCHANGED <<answer, queueVars, workerVars, executionVars, started, cacheTable, days, faults>>

Respond(u, a) ==
  /\ stage' = [stage EXCEPT ![u] = "idle"]
  /\ answer' = [answer EXCEPT ![u] = a]

\* Variant with a fault: a cell without a location is still in process.
AnswerFromCacheUndecided(u) ==
  /\ stage[u] = "read"
  /\ cacheTable[CellOf[u]] # "absent"
  /\ Respond(u, IF cacheTable[CellOf[u]] = "unresolved" THEN "inProcess" ELSE "located")
  /\ UNCHANGED <<queueVars, workerVars, executionVars, started, cacheTable, days, faults>>

\* geolocateFromCache finds an entry.
AnswerFromCache(u) ==
  LET entry == cacheTable[CellOf[u]] IN
  /\ stage[u] = "read"
  /\ entry # "absent"
  /\ Respond(u, IF entry = "unresolved" THEN "notFound" ELSE "located")
  /\ UNCHANGED <<queueVars, workerVars, executionVars, started, cacheTable, days, faults>>

\* There is no entry, or the read fails, which is taken for the same.
MissCache(u) ==
  /\ stage[u] = "read"
  /\ \/ cacheTable[CellOf[u]] = "absent" /\ UNCHANGED faults
     \/ Fail
  /\ stage' = [stage EXCEPT ![u] = "queue"]
  /\ UNCHANGED <<answer, queueVars, workerVars, executionVars, started, cacheTable, days>>

\* Variant with a fault: the message has no deduplication id.
QueueJobUnidentified(u) ==
  LET c == CellOf[u] IN
  /\ stage[u] = "queue"
  /\ jobs' = [jobs EXCEPT ![c] = @ + 1]
  /\ accepted' = [accepted EXCEPT ![c] = @ + 1]
  /\ duplicates' = duplicates \cup {c}
  /\ Respond(u, "inProcess")
  /\ UNCHANGED <<workerVars, executionVars, started, cacheTable, days, faults>>

\* queueJob: SQS accepts the message, and drops it inside the window of an
\* earlier one.
QueueJob(u) ==
  LET c == CellOf[u] IN
  /\ stage[u] = "queue"
  /\ IF c \in duplicates
     THEN UNCHANGED queueVars
     ELSE /\ jobs' = [jobs EXCEPT ![c] = @ + 1]
          /\ accepted' = [accepted EXCEPT ![c] = @ + 1]
          /\ duplicates' = duplicates \cup {c}
  /\ Respond(u, "inProcess")
  /\ UNCHANGED <<workerVars, executionVars, started, cacheTable, days, faults>>

\* The error of SQS is the answer.
QueueJobFails(u) ==
  /\ stage[u] = "queue"
  /\ Fail
  /\ Respond(u, "error")
  /\ UNCHANGED <<queueVars, workerVars, executionVars, started, cacheTable, days>>

-----------------------------------------------------------------------------
(* The queue and the Lambda that starts executions                         *)

\* Five minutes after a job of the cell was accepted.
WindowEnds(c) ==
  /\ c \in duplicates
  /\ Resolutions(c) <= Overlap
  /\ duplicates' = duplicates \ {c}
  /\ UNCHANGED <<userVars, jobs, accepted, workerVars, executionVars, started, cacheTable, days,
                 faults>>

\* A worker gets one job of each of some cells.  SQS holds the other jobs of a
\* cell back while one is in a batch.
Receive(w, cells) ==
  /\ batch[w] = {}
  /\ cells # {} /\ Cardinality(cells) <= BatchSize
  /\ \A c \in cells : jobs[c] > 0 /\ \A v \in Workers : c \notin batch[v]
  /\ jobs' = [c \in Cells |-> IF c \in cells THEN jobs[c] - 1 ELSE jobs[c]]
  /\ batch' = [batch EXCEPT ![w] = cells]
  /\ todo' = [todo EXCEPT ![w] = cells]
  /\ UNCHANGED <<userVars, duplicates, accepted, rejected, executionVars, started, cacheTable,
                 days, faults>>

\* The calls of a batch are made at once and answered in any order.
StartExecution(w, c) ==
  /\ c \in todo[w]
  /\ todo' = [todo EXCEPT ![w] = @ \ {c}]
  /\ executions' = [executions EXCEPT ![c]["resolveFromCache"] = @ + 1]
  /\ started' = [started EXCEPT ![c] = @ + 1]
  /\ UNCHANGED <<userVars, queueVars, batch, rejected, outcomes, cacheTable, days, faults>>

StartExecutionFails(w, c) ==
  /\ c \in todo[w]
  /\ Fail
  /\ todo' = [todo EXCEPT ![w] = @ \ {c}]
  /\ rejected' = rejected \cup {w}
  /\ UNCHANGED <<userVars, queueVars, batch, executionVars, started, cacheTable, days>>

ReleaseWorker(w) ==
  /\ batch' = [batch EXCEPT ![w] = {}]
  /\ todo' = [todo EXCEPT ![w] = {}]
  /\ rejected' = rejected \ {w}

\* All executions are started: the jobs are deleted.
BatchEnds(w) ==
  /\ batch[w] # {} /\ todo[w] = {} /\ w \notin rejected
  /\ ReleaseWorker(w)
  /\ UNCHANGED <<userVars, queueVars, executionVars, started, cacheTable, days, faults>>

\* Variant with a fault: a failed start is only logged.
BatchFailsSilently(w) ==
  /\ w \in rejected
  /\ ReleaseWorker(w)
  /\ UNCHANGED <<userVars, queueVars, executionVars, started, cacheTable, days, faults>>

Redeliver(w) ==
  /\ jobs' = [c \in Cells |-> IF c \in batch[w] THEN jobs[c] + 1 ELSE jobs[c]]
  /\ ReleaseWorker(w)
  /\ UNCHANGED <<userVars, duplicates, accepted, executionVars, started, cacheTable, days>>

\* Promise.all is rejected by the first failure, without waiting for the other
\* calls: the whole batch comes back, jobs whose execution runs included.
BatchFails(w) ==
  /\ w \in rejected
  /\ Redeliver(w)
  /\ UNCHANGED faults

\* The worker dies or is timed out.
WorkerDies(w) ==
  /\ batch[w] # {}
  /\ Fail
  /\ Redeliver(w)

-----------------------------------------------------------------------------
(* The executions                                                          *)

\* 'Resolve from cache' and 'Cache found?'; a failing read is a miss.
ResolveFromCache(c) ==
  /\ \/ cacheTable[c] = "located" /\ Leave(c, "resolveFromCache") /\ UNCHANGED faults
     \/ cacheTable[c] # "located" /\ Move(c, "resolveFromCache", "resolveFromApi") /\ UNCHANGED faults
     \/ Move(c, "resolveFromCache", "resolveFromApi") /\ Fail
  /\ UNCHANGED <<userVars, queueVars, workerVars, outcomes, started, cacheTable, days>>

\* 'Resolve using nRF Cloud API' and the choice on its answer
ResolveFromApi(c, located) ==
  /\ Move(c, "resolveFromApi", IF located THEN "cacheResult" ELSE "cacheNoResult")
  /\ outcomes' = [outcomes EXCEPT ![c] = @ \cup {located}]
  /\ UNCHANGED <<userVars, queueVars, workerVars, started, cacheTable, days, faults>>

Store(c, entry) ==
  /\ cacheTable' = [cacheTable EXCEPT ![c] = entry]
  /\ UNCHANGED <<userVars, queueVars, workerVars, outcomes, started, days, faults>>

\* 'Cache result from nRF Cloud Location Services'
CacheResult(c) == Leave(c, "cacheResult") /\ Store(c, "located")

\* Variant with a fault: a failed resolution leaves no entry.
CacheNoResultForgotten(c) ==
  Leave(c, "cacheNoResult") /\ Store(c, cacheTable[c])

\* 'Cache result (not resolved)': the whole entry is replaced.
CacheNoResult(c) == Leave(c, "cacheNoResult") /\ Store(c, "unresolved")

\* A state of the execution fails or the execution times out after 5 minutes.
ExecutionAborts(c, s) ==
  /\ Leave(c, s)
  /\ Fail
  /\ UNCHANGED <<userVars, queueVars, workerVars, outcomes, started, cacheTable, days>>

\* The time to live of an entry, a day, is longer than the window.
EntryExpires(c) ==
  /\ cacheTable[c] # "absent"
  /\ c \notin duplicates
  /\ days < MaxDays
  /\ days' = days + 1
  /\ cacheTable' = [cacheTable EXCEPT ![c] = "absent"]
  /\ UNCHANGED <<userVars, queueVars, workerVars, executionVars, started, faults>>

-----------------------------------------------------------------------------

HandleRequest(u) == AnswerFromCache(u) \/ MissCache(u) \/ QueueJob(u) \/ QueueJobFails(u)

HandleBatch(w) ==
  \/ \E c \in Cells : StartExecution(w, c) \/ StartExecutionFails(w, c)
  \/ BatchEnds(w)
  \/ BatchFails(w)
  \/ WorkerDies(w)

ExecutionStep(c) ==
  \/ ResolveFromCache(c)
  \/ \E located \in BOOLEAN : ResolveFromApi(c, located)
  \/ CacheResult(c)
  \/ CacheNoResult(c)
  \/ \E s \in States : ExecutionAborts(c, s)

\* Every user has a result and nothing is on the way.
AtRest ==
  /\ \A u \in Users : answer[u] \in Final
  /\ \A c \in Cells : Resolutions(c) = 0
  /\ \A w \in Workers : batch[w] = {}
  /\ UNCHANGED vars

Next ==
  \/ \E u \in Users : Ask(u) \/ HandleRequest(u)
  \/ \E c \in Cells : WindowEnds(c) \/ EntryExpires(c) \/ ExecutionStep(c)
  \/ \E w \in Workers : HandleBatch(w) \/ \E cells \in SUBSET Cells : Receive(w, cells)
  \/ AtRest

Spec == Init /\ [][Next]_vars
=============================================================================
