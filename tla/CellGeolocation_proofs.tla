----------------------- MODULE CellGeolocation_proofs -----------------------
(***************************************************************************)
(* Proofs about the geolocation of cells, for any number of cells, users,  *)
(* workers, days and failures, and for any length of the queue's window.   *)
(***************************************************************************)
EXTENDS CellGeolocationProperties, FiniteSetTheorems, TLAPS

-----------------------------------------------------------------------------
(* Types                                                                   *)

\* Moving an execution to another state, or out, keeps the counters.
LEMMA ExecutionsTyped ==
  ASSUME TypeOK, NEW c \in Cells, NEW from \in States,
         Leave(c, from) \/ \E to \in States : to # from /\ Move(c, from, to)
  PROVE  executions' \in [Cells -> [States -> Nat]]
<1>1. executions[c] \in [States -> Nat] /\ executions[c][from] - 1 \in Nat
  BY DEF TypeOK, Leave, Move
<1>2. CASE Leave(c, from)
  BY <1>1, <1>2 DEF TypeOK, Leave
<1>3. ASSUME NEW to \in States, to # from, Move(c, from, to)
      PROVE  executions' \in [Cells -> [States -> Nat]]
  <2>1. [executions[c] EXCEPT ![from] = @ - 1, ![to] = @ + 1] \in [States -> Nat]
    BY <1>1
  <2>2. executions' = [executions EXCEPT ![c] =
                         [executions[c] EXCEPT ![from] = @ - 1, ![to] = @ + 1]]
    BY <1>3 DEF Move, TypeOK
  <2> QED
    BY <2>1, <2>2 DEF TypeOK
<1> QED
  BY <1>2, <1>3

\* Every step of a request keeps the types.
LEMMA RequestTypeOK ==
  ASSUME TypeOK, NEW u \in Users, Ask(u) \/ HandleRequest(u)
  PROVE  TypeOK'
<1> USE CellsAssumption, BoundsAssumption
    DEF TypeOK, Stages, Answers, Respond, Fail, workerVars, executionVars, queueVars
<1>1. CASE Ask(u)
  BY <1>1 DEF Ask
<1>2. CASE AnswerFromCache(u)
  BY <1>2 DEF AnswerFromCache
<1>3. CASE MissCache(u)
  BY <1>3 DEF MissCache
<1>4. CASE QueueJob(u)
  BY <1>4 DEF QueueJob
<1>5. CASE QueueJobFails(u)
  BY <1>5 DEF QueueJobFails
<1> QED
  BY <1>1, <1>2, <1>3, <1>4, <1>5 DEF HandleRequest

\* Every step of the queue and of a worker keeps the types.
LEMMA WorkerTypeOK ==
  ASSUME TypeOK, NEW w \in Workers,
         HandleBatch(w) \/ \E cells \in SUBSET Cells : Receive(w, cells)
  PROVE  TypeOK'
<1> USE CellsAssumption, BoundsAssumption
    DEF TypeOK, ReleaseWorker, Fail, userVars, executionVars, queueVars
<1>1. ASSUME NEW cells \in SUBSET Cells, Receive(w, cells) PROVE TypeOK'
  BY <1>1 DEF Receive
<1>2. ASSUME NEW c \in Cells, StartExecution(w, c) PROVE TypeOK'
  <2>1. executions' \in [Cells -> [States -> Nat]]
    BY <1>2 DEF StartExecution, States
  <2> QED
    BY <1>2, <2>1 DEF StartExecution
<1>3. ASSUME NEW c \in Cells, StartExecutionFails(w, c) PROVE TypeOK'
  BY <1>3 DEF StartExecutionFails
<1>4. CASE BatchEnds(w)
  BY <1>4 DEF BatchEnds
<1>5. CASE BatchFails(w)
  BY <1>5 DEF BatchFails, Redeliver
<1>6. CASE WorkerDies(w)
  BY <1>6 DEF WorkerDies, Redeliver
<1> QED
  BY <1>1, <1>2, <1>3, <1>4, <1>5, <1>6 DEF HandleBatch

\* Every step of an execution, of the window and of the clock keeps the types.
LEMMA ExecutionTypeOK ==
  ASSUME TypeOK, NEW c \in Cells, WindowEnds(c) \/ EntryExpires(c) \/ ExecutionStep(c)
  PROVE  TypeOK'
<1> USE BoundsAssumption DEF Store, Fail, userVars, queueVars, workerVars, executionVars
<1>1. CASE WindowEnds(c)
  BY <1>1 DEF WindowEnds, TypeOK
<1>2. CASE EntryExpires(c)
  BY <1>2 DEF EntryExpires, TypeOK, Entries
<1>3. CASE ResolveFromCache(c)
  <2>1. executions' \in [Cells -> [States -> Nat]]
    BY <1>3, ExecutionsTyped DEF ResolveFromCache, States
  <2> QED
    BY <1>3, <2>1 DEF ResolveFromCache, TypeOK
<1>4. ASSUME NEW located \in BOOLEAN, ResolveFromApi(c, located) PROVE TypeOK'
  <2>1. executions' \in [Cells -> [States -> Nat]]
    BY <1>4, ExecutionsTyped DEF ResolveFromApi, States
  <2> QED
    BY <1>4, <2>1 DEF ResolveFromApi, TypeOK
<1>5. CASE CacheResult(c)
  <2>1. executions' \in [Cells -> [States -> Nat]]
    BY <1>5, ExecutionsTyped DEF CacheResult, States
  <2> QED
    BY <1>5, <2>1 DEF CacheResult, TypeOK, Entries
<1>6. CASE CacheNoResult(c)
  <2>1. executions' \in [Cells -> [States -> Nat]]
    BY <1>6, ExecutionsTyped DEF CacheNoResult, States
  <2> QED
    BY <1>6, <2>1 DEF CacheNoResult, TypeOK, Entries
<1>7. ASSUME NEW s \in States, ExecutionAborts(c, s) PROVE TypeOK'
  <2>1. executions' \in [Cells -> [States -> Nat]]
    BY <1>7, ExecutionsTyped DEF ExecutionAborts
  <2> QED
    BY <1>7, <2>1 DEF ExecutionAborts, TypeOK
<1> QED
  BY <1>1, <1>2, <1>3, <1>4, <1>5, <1>6, <1>7 DEF ExecutionStep

\* The types hold at first and are kept by every step.
LEMMA InitTypeOK == Init => TypeOK
BY BoundsAssumption DEF Init, TypeOK, Stages, Answers, Entries

\* Every step keeps the types of the variables.
LEMMA NextTypeOK == TypeOK /\ [Next]_vars => TypeOK'
<1> SUFFICES ASSUME TypeOK, [Next]_vars PROVE TypeOK'
  OBVIOUS
<1>1. CASE UNCHANGED vars
  BY <1>1 DEF vars, userVars, queueVars, workerVars, executionVars, TypeOK
<1>2. CASE Next
  BY <1>1, <1>2, RequestTypeOK, WorkerTypeOK, ExecutionTypeOK DEF Next, AtRest
<1> QED
  BY <1>1, <1>2

\* The variables of handler, queue, workers, executions and table always have
\* values of their types.
THEOREM TypeCorrect == Spec => []TypeOK
<1>1. Init => TypeOK
  BY InitTypeOK
<1>2. TypeOK /\ [Next]_vars => TypeOK'
  BY NextTypeOK
<1> QED
  BY <1>1, <1>2, PTL DEF Spec

-----------------------------------------------------------------------------
(* Answers follow the API                                                  *)

\* A step of a user or a worker changes no entry, no outcome and no execution
\* that is about to write one.
LEMMA HandlersKeepOutcomes ==
  ASSUME TypeOK, EntriesFollowApi,
         \/ \E u \in Users : Ask(u) \/ HandleRequest(u)
         \/ \E w \in Workers : HandleBatch(w) \/ \E cells \in SUBSET Cells : Receive(w, cells)
  PROVE  EntriesFollowApi' /\ outcomes' = outcomes
<1>1. ASSUME NEW u \in Users, Ask(u) \/ HandleRequest(u)
      PROVE  EntriesFollowApi' /\ outcomes' = outcomes
  BY <1>1 DEF HandleRequest, Ask, AnswerFromCache, MissCache, QueueJob, QueueJobFails,
              executionVars, EntriesFollowApi
<1>2. ASSUME NEW w \in Workers, NEW c \in Cells, StartExecution(w, c)
      PROVE  EntriesFollowApi' /\ outcomes' = outcomes
  <2>1. \A d \in Cells, s \in {"cacheResult", "cacheNoResult"} :
          executions'[d][s] = executions[d][s]
    BY <1>2 DEF StartExecution, TypeOK, States
  <2> QED
    BY <1>2, <2>1 DEF StartExecution, EntriesFollowApi
<1>3. ASSUME NEW w \in Workers,
             \/ \E c \in Cells : StartExecutionFails(w, c)
             \/ BatchEnds(w) \/ BatchFails(w) \/ WorkerDies(w)
             \/ \E cells \in SUBSET Cells : Receive(w, cells)
      PROVE  EntriesFollowApi' /\ outcomes' = outcomes
  BY <1>3 DEF StartExecutionFails, BatchEnds, BatchFails, WorkerDies, Redeliver, Receive,
              executionVars, EntriesFollowApi
<1> QED
  BY <1>1, <1>2, <1>3 DEF HandleBatch

\* An execution enters the states that write an entry with the outcome that it
\* has just been told; what it writes is what it was told.
LEMMA ExecutionsFollowApi ==
  ASSUME TypeOK, EntriesFollowApi,
         NEW c \in Cells, WindowEnds(c) \/ EntryExpires(c) \/ ExecutionStep(c)
  PROVE  EntriesFollowApi' /\ \A d \in Cells : outcomes[d] \subseteq outcomes'[d]
<1> DEFINE Goal == EntriesFollowApi' /\ \A d \in Cells : outcomes[d] \subseteq outcomes'[d]
<1>1. CASE WindowEnds(c)
  BY <1>1 DEF WindowEnds, executionVars, EntriesFollowApi
<1>2. CASE EntryExpires(c)
  BY <1>2 DEF EntryExpires, executionVars, EntriesFollowApi, TypeOK
<1>3. CASE ResolveFromCache(c)
  <2>1. \A d \in Cells : \A s \in {"cacheResult", "cacheNoResult"} :
          executions'[d][s] > 0 => executions[d][s] > 0
    <3>1. CASE Leave(c, "resolveFromCache")
      BY <3>1 DEF Leave, TypeOK, States
    <3>2. CASE Move(c, "resolveFromCache", "resolveFromApi")
      BY <3>2 DEF Move, TypeOK, States
    <3> QED
      BY <1>3, <3>1, <3>2 DEF ResolveFromCache
  <2> QED
    BY <1>3, <2>1 DEF ResolveFromCache, EntriesFollowApi
<1>4. ASSUME NEW located \in BOOLEAN, ResolveFromApi(c, located) PROVE Goal
  <2> DEFINE to == IF located THEN "cacheResult" ELSE "cacheNoResult"
  <2>1. \A d \in Cells : \A s \in {"cacheResult", "cacheNoResult"} :
          executions'[d][s] > 0 => executions[d][s] > 0 \/ (d = c /\ s = to)
    BY <1>4 DEF ResolveFromApi, Move, TypeOK, States
  <2>2. \A d \in Cells : outcomes[d] \subseteq outcomes'[d] /\ located \in outcomes'[c]
    BY <1>4 DEF ResolveFromApi, TypeOK
  <2> QED
    BY <1>4, <2>1, <2>2 DEF ResolveFromApi, EntriesFollowApi
<1>5. CASE CacheResult(c)
  <2>1. \A d \in Cells : \A s \in {"cacheResult", "cacheNoResult"} :
          executions'[d][s] > 0 => executions[d][s] > 0
    BY <1>5 DEF CacheResult, Leave, TypeOK, States
  <2> QED
    BY <1>5, <2>1 DEF CacheResult, Leave, Store, EntriesFollowApi, TypeOK
<1>6. CASE CacheNoResult(c)
  <2>1. \A d \in Cells : \A s \in {"cacheResult", "cacheNoResult"} :
          executions'[d][s] > 0 => executions[d][s] > 0
    BY <1>6 DEF CacheNoResult, Leave, TypeOK, States
  <2> QED
    BY <1>6, <2>1 DEF CacheNoResult, Leave, Store, EntriesFollowApi, TypeOK
<1>7. ASSUME NEW s \in States, ExecutionAborts(c, s) PROVE Goal
  <2>1. \A d \in Cells : \A t \in {"cacheResult", "cacheNoResult"} :
          executions'[d][t] > 0 => executions[d][t] > 0
    BY <1>7 DEF ExecutionAborts, Leave, TypeOK, States
  <2> QED
    BY <1>7, <2>1 DEF ExecutionAborts, EntriesFollowApi
<1> QED
  BY <1>1, <1>2, <1>3, <1>4, <1>5, <1>6, <1>7 DEF ExecutionStep

\* A request is answered from an entry or without a result, and the API is
\* never known to have told less.
LEMMA AnswersFollow ==
  ASSUME TypeOK, EntriesFollowApi, AnswersFollowApi, [Next]_vars
  PROVE  AnswersFollowApi'
<1> USE CellsAssumption
<1>1. ASSUME NEW u \in Users, Ask(u) \/ HandleRequest(u) PROVE AnswersFollowApi'
  <2>1. /\ outcomes' = outcomes
        /\ \A v \in Users : v # u => answer'[v] = answer[v]
    BY <1>1 DEF HandleRequest, Ask, AnswerFromCache, MissCache, QueueJob, QueueJobFails,
                Respond, executionVars, TypeOK
  <2>2. CASE AnswerFromCache(u)
    BY <2>1, <2>2
       DEF AnswerFromCache, Respond, TypeOK, Entries, EntriesFollowApi, AnswersFollowApi
  <2>3. CASE Ask(u) \/ MissCache(u)
    BY <2>1, <2>3 DEF Ask, MissCache, AnswersFollowApi
  <2>4. CASE QueueJob(u) \/ QueueJobFails(u)
    BY <2>1, <2>4 DEF QueueJob, QueueJobFails, Respond, TypeOK, AnswersFollowApi
  <2> QED
    BY <1>1, <2>2, <2>3, <2>4 DEF HandleRequest
<1>2. ASSUME NEW w \in Workers,
             HandleBatch(w) \/ \E cells \in SUBSET Cells : Receive(w, cells)
      PROVE  AnswersFollowApi'
  <2>1. answer' = answer /\ outcomes' = outcomes
    BY <1>2 DEF HandleBatch, Receive, StartExecution, StartExecutionFails, BatchEnds, BatchFails,
                WorkerDies, Redeliver, userVars, executionVars
  <2> QED
    BY <2>1 DEF AnswersFollowApi
<1>3. ASSUME NEW c \in Cells, WindowEnds(c) \/ EntryExpires(c) \/ ExecutionStep(c)
      PROVE  AnswersFollowApi'
  <2>1. answer' = answer
    BY <1>3 DEF WindowEnds, EntryExpires, ExecutionStep, ResolveFromCache, ResolveFromApi,
                CacheResult, CacheNoResult, ExecutionAborts, Store, userVars
  <2> QED
    BY <1>3, <2>1, ExecutionsFollowApi DEF AnswersFollowApi
<1>4. CASE UNCHANGED vars
  BY <1>4 DEF vars, userVars, executionVars, AnswersFollowApi
<1> QED
  BY <1>1, <1>2, <1>3, <1>4 DEF Next, AtRest

-----------------------------------------------------------------------------
(* Jobs and executions                                                     *)

\* The actions of users, executions and the clock do not touch jobs, batches
\* and starts, except that a job is accepted and put in the queue at once.
LEMMA OthersKeepJobs ==
  ASSUME TypeOK, BatchesAreDisjoint, EveryJobRuns,
         \/ \E u \in Users : Ask(u) \/ HandleRequest(u)
         \/ \E c \in Cells : WindowEnds(c) \/ EntryExpires(c) \/ ExecutionStep(c)
         \/ UNCHANGED vars
  PROVE  BatchesAreDisjoint' /\ EveryJobRuns'
<1> USE DEF Held, JobsAndStarts, workerVars, queueVars
<1>1. UNCHANGED workerVars /\ started' = started /\ (faults' = 0 => faults = 0)
  BY BoundsAssumption
     DEF Ask, HandleRequest, AnswerFromCache, MissCache, QueueJob, QueueJobFails, WindowEnds,
         EntryExpires, ExecutionStep, ResolveFromCache, ResolveFromApi, CacheResult,
         CacheNoResult, ExecutionAborts, Store, Fail, TypeOK, vars
<1>2. BatchesAreDisjoint'
  BY <1>1 DEF BatchesAreDisjoint
<1>3. CASE UNCHANGED <<jobs, accepted>>
  BY <1>1, <1>2, <1>3 DEF EveryJobRuns
<1>4. ASSUME NEW u \in Users, QueueJob(u) PROVE EveryJobRuns'
  <2>1. CASE CellOf[u] \in duplicates
    BY <1>1, <1>4, <2>1 DEF QueueJob, EveryJobRuns
  <2>2. CASE CellOf[u] \notin duplicates
    <3>1. \A c \in Cells :
            /\ c # CellOf[u] => jobs'[c] = jobs[c] /\ accepted'[c] = accepted[c]
            /\ c = CellOf[u] => jobs'[c] = jobs[c] + 1 /\ accepted'[c] = accepted[c] + 1
      BY <1>4, <2>2 DEF QueueJob, TypeOK
    <3>2. \A c \in Cells, v \in Workers : c \in Held(v)' <=> c \in Held(v)
      BY <1>1
    <3> HIDE DEF Held
    <3>3. ASSUME NEW c \in Cells
          PROVE  /\ accepted'[c] <= JobsAndStarts(c)'
                 /\ faults' = 0 => accepted'[c] = JobsAndStarts(c)'
      <4> DEFINE held == IF \E w \in Workers : c \in Held(w) THEN 1 ELSE 0
      <4>1. held' = held /\ held \in {0, 1}
        BY <1>1, <3>2
      <4>2. /\ JobsAndStarts(c) = started[c] + jobs[c] + held
            /\ JobsAndStarts(c)' = started'[c] + jobs'[c] + held'
        OBVIOUS
      <4>3. /\ accepted[c] <= JobsAndStarts(c)
            /\ faults = 0 => accepted[c] = JobsAndStarts(c)
        BY DEF EveryJobRuns
      <4>4. started[c] \in Nat /\ jobs[c] \in Nat /\ accepted[c] \in Nat
        BY DEF TypeOK
      <4> HIDE DEF held, JobsAndStarts
      <4>5. /\ started' = started
            /\ faults' = 0 => faults = 0
            /\ jobs'[c] - jobs[c] = accepted'[c] - accepted[c]
            /\ jobs'[c] \in Nat /\ accepted'[c] \in Nat
        BY <1>1, <3>1, <4>4
      <4> QED
        BY <4>1, <4>2, <4>3, <4>4, <4>5
    <3> QED
      BY <3>3 DEF EveryJobRuns
  <2> QED
    BY <2>1, <2>2
<1>5. (\E u \in Users : QueueJob(u)) \/ UNCHANGED <<jobs, accepted>>
  BY DEF Ask, HandleRequest, AnswerFromCache, MissCache, QueueJobFails, WindowEnds,
         EntryExpires, ExecutionStep, ResolveFromCache, ResolveFromApi, CacheResult,
         CacheNoResult, ExecutionAborts, Store, vars
<1> QED
  BY <1>2, <1>3, <1>4, <1>5

\* A worker takes jobs from the queue, starts their executions, and deletes the
\* jobs only when all are started: a job that leaves one place is in another.
LEMMA WorkersKeepJobs ==
  ASSUME TypeOK, BatchesAreDisjoint, EveryJobRuns, NEW w \in Workers,
         HandleBatch(w) \/ \E cells \in SUBSET Cells : Receive(w, cells)
  PROVE  BatchesAreDisjoint' /\ EveryJobRuns'
<1> DEFINE held(c) == \E v \in Workers : c \in Held(v)
           Kept == BatchesAreDisjoint' /\ EveryJobRuns'
<1> USE DEF ReleaseWorker, queueVars
<1>1. ASSUME NEW cells \in SUBSET Cells, Receive(w, cells) PROVE Kept
  <2>1. \A v \in Workers : v # w => batch'[v] = batch[v] /\ todo'[v] = todo[v]
    BY <1>1 DEF Receive, TypeOK
  <2>2. batch'[w] = cells /\ todo'[w] = cells /\ batch[w] = {} /\ rejected' = rejected
    BY <1>1 DEF Receive, TypeOK
  <2>3. BatchesAreDisjoint'
    BY <1>1, <2>1, <2>2 DEF Receive, BatchesAreDisjoint
  <2>4. \A c \in Cells :
          /\ c \in cells => held(c)' /\ ~held(c) /\ jobs[c] > 0 /\ jobs'[c] = jobs[c] - 1
          /\ c \notin cells => (held(c)' <=> held(c)) /\ jobs'[c] = jobs[c]
    <3>1. \A c \in cells : held(c)' /\ ~held(c)
      BY <1>1, <2>1, <2>2 DEF Receive, BatchesAreDisjoint, Held
    <3>2. \A c \in Cells : c \notin cells => (held(c)' <=> held(c))
      BY <2>1, <2>2 DEF BatchesAreDisjoint, Held
    <3> QED
      BY <1>1, <3>1, <3>2 DEF Receive, TypeOK
  <2>5. started' = started /\ accepted' = accepted /\ faults' = faults
    BY <1>1 DEF Receive
  <2> HIDE DEF held
  <2>6. EveryJobRuns'
    BY <2>4, <2>5 DEF EveryJobRuns, JobsAndStarts, TypeOK, held
  <2> QED
    BY <2>3, <2>6
<1>2. ASSUME NEW c \in Cells, StartExecution(w, c) PROVE Kept
  <2>1. /\ \A v \in Workers : v # w => todo'[v] = todo[v]
        /\ todo'[w] = todo[w] \ {c} /\ c \in todo[w]
        /\ batch' = batch /\ rejected' = rejected
    BY <1>2 DEF StartExecution, TypeOK
  <2>2. BatchesAreDisjoint'
    BY <1>2, <2>1 DEF StartExecution, BatchesAreDisjoint
  <2>3. /\ held(c)
        /\ faults = 0 => ~held(c)'
        /\ \A d \in Cells : d # c => (held(d)' <=> held(d))
    BY <2>1 DEF BatchesAreDisjoint, Held
  <2>4. /\ jobs' = jobs /\ accepted' = accepted /\ faults' = faults
        /\ started'[c] = started[c] + 1
        /\ \A d \in Cells : d # c => started'[d] = started[d]
    BY <1>2 DEF StartExecution, TypeOK
  <2> HIDE DEF held
  <2>5. ASSUME NEW d \in Cells
        PROVE  /\ accepted'[d] <= JobsAndStarts(d)'
               /\ faults' = 0 => accepted'[d] = JobsAndStarts(d)'
    <3>1. CASE d = c
      BY <2>3, <2>4, <3>1 DEF EveryJobRuns, JobsAndStarts, TypeOK, held
    <3>2. CASE d # c
      BY <2>3, <2>4, <3>2 DEF EveryJobRuns, JobsAndStarts, TypeOK, held
    <3> QED
      BY <3>1, <3>2
  <2> QED
    BY <2>2, <2>5 DEF EveryJobRuns
<1>3. ASSUME NEW c \in Cells, StartExecutionFails(w, c) PROVE Kept
  <2>1. /\ \A v \in Workers : v # w => todo'[v] = todo[v] /\ (v \in rejected' <=> v \in rejected)
        /\ todo'[w] = todo[w] \ {c} /\ c \in todo[w] /\ w \in rejected'
        /\ batch' = batch /\ faults' # 0
    BY <1>3, BoundsAssumption DEF StartExecutionFails, Fail, TypeOK
  <2>2. BatchesAreDisjoint'
    BY <1>3, <2>1 DEF StartExecutionFails, BatchesAreDisjoint
  <2>3. \A d \in Cells : held(d) => held(d)'
    BY <2>1 DEF BatchesAreDisjoint, Held
  <2>4. jobs' = jobs /\ accepted' = accepted /\ started' = started
    BY <1>3 DEF StartExecutionFails
  <2> HIDE DEF held
  <2>5. EveryJobRuns'
    BY <2>1, <2>3, <2>4 DEF EveryJobRuns, JobsAndStarts, TypeOK, held
  <2> QED
    BY <2>2, <2>5
<1>4. CASE BatchEnds(w)
  <2>1. /\ \A v \in Workers : v # w => batch'[v] = batch[v] /\ todo'[v] = todo[v]
        /\ batch'[w] = {} /\ todo'[w] = {} /\ todo[w] = {}
        /\ rejected' = rejected /\ w \notin rejected
    BY <1>4 DEF BatchEnds, TypeOK
  <2>2. BatchesAreDisjoint'
    BY <1>4, <2>1 DEF BatchEnds, BatchesAreDisjoint
  <2>3. \A d \in Cells : held(d) <=> held(d)'
    BY <2>1 DEF Held
  <2>4. jobs' = jobs /\ accepted' = accepted /\ started' = started /\ faults' = faults
    BY <1>4 DEF BatchEnds
  <2> HIDE DEF held
  <2>5. EveryJobRuns'
    BY <2>3, <2>4 DEF EveryJobRuns, JobsAndStarts, TypeOK, held
  <2> QED
    BY <2>2, <2>5
<1>5. ASSUME Redeliver(w), faults' # 0, batch[w] # {} PROVE Kept
  <2>1. /\ \A v \in Workers : v # w =>
              batch'[v] = batch[v] /\ todo'[v] = todo[v] /\ (v \in rejected' <=> v \in rejected)
        /\ batch'[w] = {} /\ todo'[w] = {} /\ rejected' = rejected \ {w}
    BY <1>5 DEF Redeliver, TypeOK
  <2>2. BatchesAreDisjoint'
    <3>1. \A v, x \in Workers : v # x => batch'[v] \cap batch'[x] = {}
      BY <2>1 DEF BatchesAreDisjoint
    <3>2. \A v \in Workers : todo'[v] \subseteq batch'[v]
      BY <2>1 DEF BatchesAreDisjoint
    <3>3. \A v \in rejected' : batch'[v] # {}
      BY <2>1 DEF BatchesAreDisjoint, TypeOK
    <3> QED
      BY <1>5, <3>1, <3>2, <3>3 DEF BatchesAreDisjoint
  <2>3. \A d \in Cells :
          /\ d \in batch[w] => jobs'[d] = jobs[d] + 1
          /\ d \notin batch[w] => (held(d) => held(d)') /\ jobs'[d] = jobs[d]
    <3>1. \A d \in Cells : d \notin batch[w] => (held(d) => held(d)')
      BY <2>1 DEF BatchesAreDisjoint, Held
    <3> QED
      BY <1>5, <3>1 DEF Redeliver, TypeOK
  <2>4. accepted' = accepted /\ started' = started
    BY <1>5 DEF Redeliver
  <2> HIDE DEF held
  <2>5. ASSUME NEW d \in Cells PROVE accepted'[d] <= JobsAndStarts(d)'
    <3>1. CASE d \in batch[w]
      BY <2>3, <2>4, <3>1 DEF EveryJobRuns, JobsAndStarts, TypeOK, held
    <3>2. CASE d \notin batch[w]
      BY <2>3, <2>4, <3>2 DEF EveryJobRuns, JobsAndStarts, TypeOK, held
    <3> QED
      BY <3>1, <3>2
  <2> QED
    BY <1>5, <2>2, <2>5 DEF EveryJobRuns
<1>6. CASE BatchFails(w)
  <2>1. faults' # 0 /\ batch[w] # {}
    BY <1>6 DEF BatchFails, BatchesAreDisjoint
  <2> QED
    BY <1>5, <1>6, <2>1 DEF BatchFails
<1>7. CASE WorkerDies(w)
  <2>1. faults' # 0
    BY <1>7 DEF WorkerDies, Fail, TypeOK
  <2> QED
    BY <1>5, <1>7, <2>1 DEF WorkerDies
<1> QED
  BY <1>1, <1>2, <1>3, <1>4, <1>6, <1>7 DEF HandleBatch

-----------------------------------------------------------------------------
(* The invariant                                                           *)

\* The inductive invariant holds at first and is kept by every step.
LEMMA InitCellInvariant == Init => CellInvariant
<1> SUFFICES ASSUME Init PROVE CellInvariant
  OBVIOUS
<1>1. TypeOK
  BY InitTypeOK
<1>2. EntriesFollowApi /\ AnswersFollowApi /\ RequestsLackResult
  BY DEF Init, States, EntriesFollowApi, AnswersFollowApi, RequestsLackResult
<1>3. BatchesAreDisjoint
  BY DEF Init, BatchesAreDisjoint
<1>4. EveryJobRuns
  BY DEF Init, EveryJobRuns, JobsAndStarts, Held
<1> QED
  BY <1>1, <1>2, <1>3, <1>4 DEF CellInvariant

\* A request is made without a final answer and gets one only with its end.
LEMMA NextRequestsLackResult ==
  ASSUME TypeOK, RequestsLackResult, [Next]_vars
  PROVE  RequestsLackResult'
<1>1. ASSUME NEW u \in Users, Ask(u) \/ HandleRequest(u) PROVE RequestsLackResult'
  BY <1>1 DEF Ask, HandleRequest, AnswerFromCache, MissCache, QueueJob, QueueJobFails, Respond,
              Final, TypeOK, RequestsLackResult
<1>2. ASSUME NEW w \in Workers,
             HandleBatch(w) \/ \E cells \in SUBSET Cells : Receive(w, cells)
      PROVE  RequestsLackResult'
  BY <1>2 DEF HandleBatch, Receive, StartExecution, StartExecutionFails, BatchEnds, BatchFails,
              WorkerDies, Redeliver, userVars, RequestsLackResult
<1>3. ASSUME NEW c \in Cells, WindowEnds(c) \/ EntryExpires(c) \/ ExecutionStep(c)
      PROVE  RequestsLackResult'
  BY <1>3 DEF WindowEnds, EntryExpires, ExecutionStep, ResolveFromCache, ResolveFromApi,
              CacheResult, CacheNoResult, ExecutionAborts, Store, userVars, RequestsLackResult
<1>4. CASE UNCHANGED vars
  BY <1>4 DEF vars, userVars, RequestsLackResult
<1> QED
  BY <1>1, <1>2, <1>3, <1>4 DEF Next, AtRest

\* Every step keeps the invariant of the cell geolocation.
LEMMA NextCellInvariant == CellInvariant /\ [Next]_vars => CellInvariant'
<1> SUFFICES ASSUME CellInvariant, [Next]_vars PROVE CellInvariant'
  OBVIOUS
<1> USE DEF CellInvariant
<1>1. TypeOK'
  BY NextTypeOK
<1>2. AnswersFollowApi'
  BY AnswersFollow
<1>3. EntriesFollowApi'
  <2>1. CASE UNCHANGED vars
    BY <2>1 DEF vars, executionVars, EntriesFollowApi
  <2> QED
    BY <2>1, HandlersKeepOutcomes, ExecutionsFollowApi DEF Next, AtRest
<1>4. BatchesAreDisjoint' /\ EveryJobRuns'
  BY OthersKeepJobs, WorkersKeepJobs DEF Next, AtRest
<1>5. RequestsLackResult'
  BY NextRequestsLackResult
<1> QED
  BY <1>1, <1>2, <1>3, <1>4, <1>5

\* Entries, answers, batches and the count of jobs and starts are always what
\* the invariant says.
THEOREM CellInvariantHolds == Spec => []CellInvariant
<1>1. Init => CellInvariant
  BY InitCellInvariant
<1>2. CellInvariant /\ [Next]_vars => CellInvariant'
  BY NextCellInvariant
<1> QED
  BY <1>1, <1>2, PTL DEF Spec

\* No user is told a location or the lack of one that the API has not told an
\* execution for the user's cell.
THEOREM CellAnswersCorrect == Spec => []AnswersFollowApi
<1>1. CellInvariant => AnswersFollowApi
  BY DEF CellInvariant
<1> QED
  BY <1>1, CellInvariantHolds, PTL

\* Whatever starts fail and workers die, every accepted job is started, waits or
\* is held by a worker that gives it back; without failures exactly once.
THEOREM JobsAreNotLost == Spec => []EveryJobRuns
<1>1. CellInvariant => EveryJobRuns
  BY DEF CellInvariant
<1> QED
  BY <1>1, CellInvariantHolds, PTL

-----------------------------------------------------------------------------
(* What is on the way for a cell                                           *)

\* At most one worker holds a job of the cell, so that counting the workers is
\* asking whether there is one.
LEMMA HoldersCounted ==
  ASSUME NEW t, NEW W, NEW c, \A v, w \in W : c \in t[v] /\ c \in t[w] => v = w
  PROVE  Cardinality({w \in W : c \in t[w]}) = IF \E w \in W : c \in t[w] THEN 1 ELSE 0
<1> DEFINE holders == {w \in W : c \in t[w]}
<1>1. CASE \E w \in W : c \in t[w]
  <2>1. PICK w \in W : c \in t[w]
    BY <1>1
  <2>2. holders = {w}
    BY <2>1
  <2>3. Cardinality(holders) = 1
    BY <2>2, FS_Singleton
  <2> QED
    BY <1>1, <2>3
<1>2. CASE ~ \E w \in W : c \in t[w]
  <2>1. holders = {}
    BY <1>2
  <2>2. Cardinality(holders) = 0
    BY <2>1, FS_EmptySet
  <2> QED
    BY <1>2, <2>2
<1> QED
  BY <1>1, <1>2

\* The counters of a cell, as numbers.
LEMMA CountersTyped ==
  ASSUME CellInvariant, NEW c \in Cells
  PROVE  /\ HeldOf(c) = IF \E w \in Workers : c \in todo[w] THEN 1 ELSE 0
         /\ HeldOf(c) \in Nat /\ jobs[c] \in Nat /\ started[c] \in Nat
         /\ \A s \in States : executions[c][s] \in Nat
         /\ RunningOf(c) \in Nat /\ Active(c) \in Nat
<1>1. HeldOf(c) = IF \E w \in Workers : c \in todo[w] THEN 1 ELSE 0
  <2>1. \A v, w \in Workers : c \in todo[v] /\ c \in todo[w] => v = w
    BY DEF CellInvariant, BatchesAreDisjoint
  <2> QED
    BY <2>1, HoldersCounted DEF HeldOf
<1>2. \A s \in States : executions[c][s] \in Nat
  BY DEF CellInvariant, TypeOK
<1>3. jobs[c] \in Nat /\ started[c] \in Nat
  BY DEF CellInvariant, TypeOK
<1>4. HeldOf(c) \in Nat
  BY <1>1
<1>5. RunningOf(c) \in Nat
  BY <1>2 DEF RunningOf, States
<1> QED
  BY <1>1, <1>2, <1>3, <1>4, <1>5 DEF Active

\* What is on the way for a cell is a number after the step as well.
LEMMA NextActiveTyped == ASSUME CellInvariant', NEW c \in Cells PROVE (Active(c) \in Nat)'
<1>1. HeldOf(c)' = IF \E w \in Workers : c \in todo'[w] THEN 1 ELSE 0
  <2>1. \A v, w \in Workers : c \in todo'[v] /\ c \in todo'[w] => v = w
    BY DEF CellInvariant, BatchesAreDisjoint
  <2> QED
    BY <2>1, HoldersCounted DEF HeldOf
<1>2. jobs'[c] \in Nat /\ \A s \in States : executions'[c][s] \in Nat
  BY DEF CellInvariant, TypeOK
<1>3. HeldOf(c)' \in Nat /\ RunningOf(c)' \in Nat
  BY <1>1, <1>2 DEF RunningOf, States
<1> QED
  BY <1>2, <1>3 DEF Active

\* Without failures a worker only moves a job: from the queue to its batch, and
\* from its batch to an execution, which starts by looking at the table.
LEMMA WorkersMoveJobs ==
  ASSUME CellInvariant, CellInvariant', faults' = 0, NEW c \in Cells, NEW w \in Workers,
         HandleBatch(w) \/ \E cells \in SUBSET Cells : Receive(w, cells)
  PROVE  /\ UNCHANGED <<userVars, duplicates, cacheTable, days, faults>>
         /\ Active(c)' = Active(c)
         /\ started'[c] + jobs'[c] + HeldOf(c)' = started[c] + jobs[c] + HeldOf(c)
         /\ \A s \in States \ {"resolveFromCache"} : executions'[c][s] = executions[c][s]
<1> DEFINE held == \E v \in Workers : c \in todo[v]
           Moved == /\ UNCHANGED <<userVars, duplicates, cacheTable, days, faults>>
                    /\ Active(c)' = Active(c)
                    /\ started'[c] + jobs'[c] + HeldOf(c)' = started[c] + jobs[c] + HeldOf(c)
                    /\ \A s \in States \ {"resolveFromCache"} :
                         executions'[c][s] = executions[c][s]
<1>1. /\ HeldOf(c) = IF held THEN 1 ELSE 0
      /\ jobs[c] \in Nat /\ started[c] \in Nat /\ RunningOf(c) \in Nat
      /\ \A s \in States : executions[c][s] \in Nat
  BY CountersTyped
<1>2. HeldOf(c)' = IF held' THEN 1 ELSE 0
  <2>1. \A v, x \in Workers : c \in todo'[v] /\ c \in todo'[x] => v = x
    BY DEF CellInvariant, BatchesAreDisjoint
  <2> QED
    BY <2>1, HoldersCounted DEF HeldOf
<1>3. ASSUME NEW cells \in SUBSET Cells, Receive(w, cells) PROVE Moved
  <2>1. /\ UNCHANGED <<userVars, duplicates, cacheTable, days, faults>>
        /\ started' = started /\ executions' = executions
    BY <1>3 DEF Receive, executionVars
  <2>2. \A v \in Workers : todo'[v] = IF v = w THEN cells ELSE todo[v]
    BY <1>3 DEF Receive, CellInvariant, TypeOK
  <2>3. c \in cells => held' /\ ~held /\ jobs'[c] = jobs[c] - 1
    <3>1. c \in cells => held'
      BY <2>2
    <3>2. c \in cells => ~held /\ jobs'[c] = jobs[c] - 1
      BY <1>3 DEF Receive, CellInvariant, BatchesAreDisjoint
    <3> QED
      BY <3>1, <3>2
  <2>4. c \notin cells => (held' <=> held) /\ jobs'[c] = jobs[c]
    <3>1. todo[w] = {}
      BY <1>3 DEF Receive, CellInvariant, BatchesAreDisjoint
    <3>2. c \notin cells => (held' <=> held)
      BY <2>2, <3>1
    <3> QED
      BY <1>3, <3>2 DEF Receive
  <2>5. RunningOf(c)' = RunningOf(c)
    BY <2>1 DEF RunningOf
  <2> HIDE DEF held
  <2>6. jobs'[c] + HeldOf(c)' = jobs[c] + HeldOf(c)
    <3>1. CASE c \in cells
      BY <1>1, <1>2, <2>3, <3>1
    <3>2. CASE c \notin cells
      BY <1>1, <1>2, <2>4, <3>2
    <3> QED
      BY <3>1, <3>2
  <2>7. Active(c)' = Active(c)
    BY <2>5, <2>6 DEF Active
  <2>8. jobs'[c] \in Int /\ HeldOf(c) \in Nat /\ HeldOf(c)' \in Nat
    BY <1>1, <1>2, <2>3, <2>4
  <2>9. started'[c] + jobs'[c] + HeldOf(c)' = started[c] + jobs[c] + HeldOf(c)
    BY <1>1, <2>1, <2>6, <2>8
  <2> QED
    BY <2>1, <2>7, <2>9
<1>4. ASSUME NEW d \in Cells, StartExecution(w, d) PROVE Moved
  <2>1. /\ UNCHANGED <<userVars, duplicates, cacheTable, days, faults>>
        /\ jobs' = jobs
    BY <1>4 DEF StartExecution, queueVars
  <2>2. \A v \in Workers : todo'[v] = IF v = w THEN todo[w] \ {d} ELSE todo[v]
    BY <1>4 DEF StartExecution, CellInvariant, TypeOK
  <2>3. \A s \in States \ {"resolveFromCache"} : executions'[c][s] = executions[c][s]
    BY <1>4 DEF StartExecution, CellInvariant, TypeOK, States
  <2>4. CASE c # d
    <3>1. held' <=> held
      BY <2>2, <2>4
    <3>2. started'[c] = started[c] /\ executions'[c] = executions[c]
      BY <1>4, <2>4 DEF StartExecution, CellInvariant, TypeOK
    <3> HIDE DEF held
    <3>3. HeldOf(c)' = HeldOf(c) /\ RunningOf(c)' = RunningOf(c)
      BY <1>1, <1>2, <3>1, <3>2 DEF RunningOf
    <3> QED
      BY <2>1, <2>3, <3>2, <3>3 DEF Active
  <2>5. CASE c = d
    <3>1. held /\ ~held'
      BY <1>4, <2>2, <2>5 DEF StartExecution, CellInvariant, BatchesAreDisjoint
    <3>2. /\ started'[c] = started[c] + 1
          /\ executions'[c]["resolveFromCache"] = executions[c]["resolveFromCache"] + 1
      BY <1>4, <2>5 DEF StartExecution, CellInvariant, TypeOK, States
    <3> HIDE DEF held
    <3>3. RunningOf(c)' = RunningOf(c) + 1
      BY <1>1, <2>3, <3>2 DEF RunningOf, States
    <3>4. HeldOf(c) = 1 /\ HeldOf(c)' = 0
      BY <1>1, <1>2, <3>1
    <3>5. Active(c)' = Active(c)
      BY <1>1, <2>1, <3>3, <3>4 DEF Active
    <3>6. started'[c] + jobs'[c] + HeldOf(c)' = started[c] + jobs[c] + HeldOf(c)
      BY <1>1, <2>1, <3>2, <3>4
    <3> QED
      BY <2>1, <2>3, <3>5, <3>6
  <2> QED
    BY <2>4, <2>5
<1>5. CASE BatchEnds(w)
  <2>1. /\ UNCHANGED <<userVars, duplicates, cacheTable, days, faults>>
        /\ jobs' = jobs /\ started' = started /\ executions' = executions
    BY <1>5 DEF BatchEnds, queueVars, executionVars
  <2>2. \A v \in Workers : todo'[v] = todo[v]
    BY <1>5 DEF BatchEnds, ReleaseWorker, CellInvariant, TypeOK
  <2>3. held' <=> held
    BY <2>2
  <2> HIDE DEF held
  <2>4. HeldOf(c)' = HeldOf(c) /\ RunningOf(c)' = RunningOf(c)
    BY <1>1, <1>2, <2>1, <2>3 DEF RunningOf
  <2> QED
    BY <2>1, <2>4 DEF Active
<1>6. ~(BatchFails(w) \/ WorkerDies(w)) /\ \A d \in Cells : ~StartExecutionFails(w, d)
  <2>1. ~BatchFails(w)
    BY DEF BatchFails, CellInvariant, BatchesAreDisjoint
  <2>2. ~Fail
    BY DEF Fail, CellInvariant, TypeOK
  <2> QED
    BY <2>1, <2>2 DEF WorkerDies, StartExecutionFails
<1> QED
  BY <1>3, <1>4, <1>5, <1>6 DEF HandleBatch

\* Moving an execution keeps their number, and leaving lowers it by one.
LEMMA ExecutionsCounted ==
  ASSUME CellInvariant, NEW c \in Cells, NEW from \in States
  PROVE  /\ Leave(c, from) => RunningOf(c)' = RunningOf(c) - 1
         /\ \A to \in States : to # from /\ Move(c, from, to) => RunningOf(c)' = RunningOf(c)
<1>1. /\ \A s \in States : executions[c][s] \in Nat
      /\ executions \in [Cells -> [States -> Nat]]
  BY DEF CellInvariant, TypeOK
<1>2. ASSUME Leave(c, from) PROVE RunningOf(c)' = RunningOf(c) - 1
  <2>1. \A s \in States : executions'[c][s] = IF s = from THEN executions[c][s] - 1
                                                          ELSE executions[c][s]
    BY <1>1, <1>2 DEF Leave
  <2> QED
    BY <1>1, <2>1 DEF RunningOf, States
<1>3. ASSUME NEW to \in States, to # from, Move(c, from, to) PROVE RunningOf(c)' = RunningOf(c)
  <2>1. \A s \in States : executions'[c][s] = IF s = from THEN executions[c][s] - 1
                                              ELSE IF s = to THEN executions[c][s] + 1
                                              ELSE executions[c][s]
    BY <1>1, <1>3 DEF Move
  <2> QED
    BY <1>1, <1>3, <2>1 DEF RunningOf, States
<1> QED
  BY <1>2, <1>3

\* Without failures an execution of the cell goes on, or ends with an entry in the
\* table; other cells are not concerned.
LEMMA ExecutionsGoOn ==
  ASSUME CellInvariant, faults' = 0, NEW c \in Cells, NEW d \in Cells, ExecutionStep(d)
  PROVE  /\ UNCHANGED <<userVars, queueVars, workerVars, started, days, faults>>
         /\ \/ RunningOf(c)' = RunningOf(c) /\ cacheTable'[c] = cacheTable[c]
            \/ c = d /\ RunningOf(c)' = RunningOf(c) - 1 /\ cacheTable'[c] # "absent"
<1> DEFINE Others == UNCHANGED <<userVars, queueVars, workerVars, started, days, faults>>
           GoesOn == RunningOf(c)' = RunningOf(c) /\ cacheTable'[c] = cacheTable[c]
<1>1. ~Fail /\ \A s \in States : ~ExecutionAborts(d, s)
  BY DEF Fail, ExecutionAborts, CellInvariant, TypeOK
<1>2. Others
  BY <1>1 DEF ExecutionStep, ResolveFromCache, ResolveFromApi, CacheResult, CacheNoResult, Store
<1>3. CASE c # d
  <2>1. executions'[c] = executions[c]
    BY <1>1, <1>3 DEF ExecutionStep, ResolveFromCache, ResolveFromApi, CacheResult,
                      CacheNoResult, Leave, Move, CellInvariant, TypeOK
  <2>2. cacheTable'[c] = cacheTable[c]
    BY <1>1, <1>3 DEF ExecutionStep, ResolveFromCache, ResolveFromApi, CacheResult,
                      CacheNoResult, Store, CellInvariant, TypeOK
  <2>3. RunningOf(c)' = RunningOf(c)
    BY <2>1 DEF RunningOf
  <2> QED
    BY <1>2, <2>1, <2>2, <2>3
<1>4. CASE c = d /\ ResolveFromCache(c)
  <2>1. cacheTable' = cacheTable
    BY <1>4 DEF ResolveFromCache
  <2>2. CASE cacheTable[c] = "located" /\ Leave(c, "resolveFromCache")
    BY <1>2, <1>4, <2>1, <2>2, ExecutionsCounted DEF States
  <2>3. CASE cacheTable[c] # "located" /\ Move(c, "resolveFromCache", "resolveFromApi")
    <3>1. RunningOf(c)' = RunningOf(c)
      BY <2>3, ExecutionsCounted DEF States
    <3> QED
      BY <1>2, <2>1, <2>3, <3>1
  <2> QED
    BY <1>1, <1>4, <2>2, <2>3 DEF ResolveFromCache
<1>5. ASSUME NEW located \in BOOLEAN, c = d, ResolveFromApi(c, located) PROVE Others /\ GoesOn
  <2> DEFINE to == IF located THEN "cacheResult" ELSE "cacheNoResult"
  <2>1. /\ cacheTable' = cacheTable
        /\ Move(c, "resolveFromApi", to) /\ executions[c]["resolveFromApi"] > 0
    BY <1>5 DEF ResolveFromApi, Move
  <2>2. RunningOf(c)' = RunningOf(c)
    BY <2>1, ExecutionsCounted DEF States
  <2> QED
    BY <1>2, <2>1, <2>2 DEF States
<1>6. CASE c = d /\ CacheResult(c)
  <2>1. Leave(c, "cacheResult") /\ cacheTable'[c] = "located"
    BY <1>6 DEF CacheResult, Store, CellInvariant, TypeOK
  <2>2. RunningOf(c)' = RunningOf(c) - 1
    BY <2>1, ExecutionsCounted DEF States
  <2> QED
    BY <1>2, <1>6, <2>1, <2>2
<1>7. CASE c = d /\ CacheNoResult(c)
  <2>1. Leave(c, "cacheNoResult") /\ cacheTable'[c] = "unresolved"
    BY <1>7 DEF CacheNoResult, Store, CellInvariant, TypeOK
  <2>2. RunningOf(c)' = RunningOf(c) - 1
    BY <2>1, ExecutionsCounted DEF States
  <2> QED
    BY <1>2, <1>7, <2>1, <2>2
<1> QED
  BY <1>1, <1>3, <1>4, <1>5, <1>6, <1>7 DEF ExecutionStep

\* Without failures a request either puts a first job of the window in the queue,
\* or changes nothing but where it stands, and it comes to the queue only after it
\* has missed the entry.
LEMMA RequestsQueueJobs ==
  ASSUME CellInvariant, faults' = 0, NEW c \in Cells, NEW u \in Users, Ask(u) \/ HandleRequest(u)
  PROVE  /\ UNCHANGED <<workerVars, executionVars, cacheTable, started, days, faults>>
         /\ HeldOf(c)' = HeldOf(c) /\ RunningOf(c)' = RunningOf(c)
         /\ \A v \in Users : stage'[v] = "queue" /\ CellOf[v] = c =>
              stage[v] = "queue" \/ cacheTable[c] = "absent"
         /\ \/ UNCHANGED duplicates /\ jobs'[c] = jobs[c]
            \/ CellOf[u] # c /\ jobs'[c] = jobs[c] /\ (c \in duplicates' <=> c \in duplicates)
            \/ /\ CellOf[u] = c /\ stage[u] = "queue" /\ c \notin duplicates /\ c \in duplicates'
               /\ jobs'[c] = jobs[c] + 1
<1>1. ~Fail
  BY DEF Fail, CellInvariant, TypeOK
<1>2. UNCHANGED <<workerVars, executionVars, cacheTable, started, days, faults>>
  BY <1>1 DEF Ask, HandleRequest, AnswerFromCache, MissCache, QueueJob, QueueJobFails
<1>3. HeldOf(c)' = HeldOf(c) /\ RunningOf(c)' = RunningOf(c)
  BY <1>2 DEF HeldOf, RunningOf, workerVars, executionVars
<1>4. \A v \in Users : stage'[v] = "queue" /\ CellOf[v] = c =>
        stage[v] = "queue" \/ cacheTable[c] = "absent"
  BY <1>1 DEF Ask, HandleRequest, AnswerFromCache, MissCache, QueueJob, QueueJobFails, Respond,
              CellInvariant, TypeOK
<1>5. \/ UNCHANGED duplicates /\ jobs'[c] = jobs[c]
      \/ CellOf[u] # c /\ jobs'[c] = jobs[c] /\ (c \in duplicates' <=> c \in duplicates)
      \/ /\ CellOf[u] = c /\ stage[u] = "queue" /\ c \notin duplicates /\ c \in duplicates'
         /\ jobs'[c] = jobs[c] + 1
  BY <1>1, CellsAssumption
     DEF Ask, HandleRequest, AnswerFromCache, MissCache, QueueJob, QueueJobFails, queueVars,
         CellInvariant, TypeOK
<1> QED
  BY <1>2, <1>3, <1>4, <1>5

\* Failures are not undone.
LEMMA FaultsRemain == ASSUME CellInvariant, [Next]_vars, faults' = 0 PROVE faults = 0
<1>1. Fail \/ faults' = faults
  BY DEF Next, AtRest, Ask, HandleRequest, AnswerFromCache, MissCache, QueueJob, QueueJobFails,
         WindowEnds, EntryExpires, ExecutionStep, ResolveFromCache, ResolveFromApi, CacheResult,
         CacheNoResult, ExecutionAborts, Store, HandleBatch, Receive, StartExecution,
         StartExecutionFails, BatchEnds, BatchFails, WorkerDies, vars
<1> QED
  BY <1>1 DEF Fail, CellInvariant, TypeOK

-----------------------------------------------------------------------------
(* A dropped job is in process                                             *)

\* A window opens with a job, a job becomes an execution, and an execution ends
\* with an entry, which outlasts the window.
LEMMA NextDroppedJob ==
  ASSUME CellInvariant, CellInvariant', DroppedJobIsInProcess, [Next]_vars
  PROVE  DroppedJobIsInProcess'
<1> SUFFICES ASSUME faults' = 0, NEW c \in Cells, c \in duplicates'
             PROVE  Active(c)' > 0 \/ cacheTable'[c] # "absent"
  BY DEF DroppedJobIsInProcess, CellInvariant, TypeOK
<1>1. faults = 0
  BY FaultsRemain
<1>2. c \in duplicates => Active(c) > 0 \/ cacheTable[c] # "absent"
  BY <1>1 DEF DroppedJobIsInProcess
<1>3. HeldOf(c) \in Nat /\ jobs[c] \in Nat /\ RunningOf(c) \in Nat
  BY CountersTyped
<1>4. ASSUME NEW u \in Users, Ask(u) \/ HandleRequest(u)
      PROVE  Active(c)' > 0 \/ cacheTable'[c] # "absent"
  <2>1. /\ HeldOf(c)' = HeldOf(c) /\ RunningOf(c)' = RunningOf(c) /\ cacheTable' = cacheTable
        /\ \/ c \in duplicates /\ jobs'[c] = jobs[c]
           \/ jobs'[c] = jobs[c] + 1
    BY <1>4, RequestsQueueJobs
  <2> QED
    BY <1>2, <1>3, <2>1 DEF Active
<1>5. ASSUME NEW w \in Workers, HandleBatch(w) \/ \E cells \in SUBSET Cells : Receive(w, cells)
      PROVE  Active(c)' > 0 \/ cacheTable'[c] # "absent"
  BY <1>2, <1>5, WorkersMoveJobs
<1>6. ASSUME NEW d \in Cells, ExecutionStep(d)
      PROVE  Active(c)' > 0 \/ cacheTable'[c] # "absent"
  <2>1. duplicates' = duplicates /\ jobs' = jobs /\ todo' = todo
    BY <1>6, ExecutionsGoOn DEF queueVars, workerVars
  <2>2. HeldOf(c)' = HeldOf(c)
    BY <2>1 DEF HeldOf
  <2>3. \/ RunningOf(c)' = RunningOf(c) /\ cacheTable'[c] = cacheTable[c]
        \/ cacheTable'[c] # "absent"
    BY <1>6, ExecutionsGoOn
  <2> QED
    BY <1>2, <2>1, <2>2, <2>3 DEF Active
<1>7. ASSUME NEW d \in Cells, WindowEnds(d) \/ EntryExpires(d) \/ UNCHANGED vars
      PROVE  Active(c)' > 0 \/ cacheTable'[c] # "absent"
  <2>1. UNCHANGED <<jobs, todo, executions>> /\ c \in duplicates
    BY <1>7 DEF WindowEnds, EntryExpires, workerVars, executionVars, queueVars, vars
  <2>2. Active(c)' = Active(c)
    BY <2>1 DEF Active, HeldOf, RunningOf
  <2>3. cacheTable'[c] = cacheTable[c]
    BY <1>7, <2>1 DEF WindowEnds, EntryExpires, queueVars, vars, CellInvariant, TypeOK
  <2> QED
    BY <1>2, <2>1, <2>2, <2>3
<1> QED
  BY <1>4, <1>5, <1>6, <1>7 DEF Next, AtRest

\* "In process" is true of a request whose job is dropped, for any length of the
\* window: the resolution of the cell is on the way or its entry is there.
THEOREM DroppedJobsAreInProcess == Spec => []DroppedJobIsInProcess
<1>1. Init => CellInvariant /\ DroppedJobIsInProcess
  BY InitCellInvariant DEF Init, DroppedJobIsInProcess
<1>2. /\ CellInvariant /\ DroppedJobIsInProcess /\ [Next]_vars
      => CellInvariant' /\ DroppedJobIsInProcess'
  BY NextCellInvariant, NextDroppedJob
<1>3. CellInvariant /\ DroppedJobIsInProcess => DroppedJobIsInProcess
  OBVIOUS
<1> QED
  BY <1>1, <1>2, <1>3, PTL DEF Spec

-----------------------------------------------------------------------------
(* One resolution per window                                               *)

\* The window outlasts every resolution, from the miss of the request on.  An
\* assumption: it lasts five minutes, and so may an execution by itself.
WindowOutlasts == Overlap = 0

\* Before the first request nothing is on the way.
LEMMA InitWindowInvariant == Init => WindowInvariant
<1> SUFFICES ASSUME Init, NEW c \in Cells PROVE OnceInWindow(c)
  BY DEF WindowInvariant
<1>1. HeldOf(c) = 0 /\ RunningOf(c) = 0 /\ jobs[c] = 0 /\ started[c] = 0
  BY InitCellInvariant, CountersTyped DEF Init, RunningOf, States
<1> QED
  BY <1>1 DEF Init, OnceInWindow, Active

\* A window ends when nothing is on the way for the cell, not even a request.
LEMMA WindowEndsAtRest ==
  ASSUME CellInvariant, WindowOutlasts, NEW c \in Cells, WindowEnds(c)
  PROVE  Active(c) = 0 /\ \A u \in Users : CellOf[u] = c => stage[u] # "queue"
<1> DEFINE asking == {u \in Users : CellOf[u] = c /\ stage[u] = "queue"}
<1>1. IsFiniteSet(asking)
  BY UsersAssumption, FS_Subset
<1>2. Cardinality(asking) \in Nat /\ Active(c) \in Nat
  BY <1>1, FS_CardinalityType, CountersTyped
<1>3. Active(c) + Cardinality(asking) <= 0
  BY DEF WindowEnds, WindowOutlasts, Resolutions
<1>4. Active(c) = 0 /\ Cardinality(asking) = 0
  BY <1>2, <1>3
<1>5. asking = {}
  BY <1>1, <1>4, FS_EmptySet
<1> QED
  BY <1>4, <1>5

\* The invariant of a cell is kept by every step of every actor.
LEMMA NextOnceInWindow ==
  ASSUME CellInvariant, CellInvariant', WindowOutlasts, NEW c \in Cells, OnceInWindow(c),
         [Next]_vars, faults' = 0
  PROVE  OnceInWindow(c)'
<1> DEFINE J == started[c] + jobs[c] + HeldOf(c)
           entry == c \in duplicates \/ cacheTable[c] # "absent"
<1>1. /\ HeldOf(c) \in Nat /\ jobs[c] \in Nat /\ started[c] \in Nat
      /\ RunningOf(c) \in Nat /\ Active(c) \in Nat /\ days \in Nat
  BY CountersTyped, BoundsAssumption DEF CellInvariant, TypeOK
<1>2. /\ HeldOf(c)' \in Nat /\ jobs'[c] \in Nat /\ started'[c] \in Nat
      /\ RunningOf(c)' \in Nat /\ Active(c)' \in Nat /\ days' \in Nat
      /\ \A s \in States : executions'[c][s] \in Nat
  <2>1. HeldOf(c)' = IF \E w \in Workers : c \in todo'[w] THEN 1 ELSE 0
    <3>1. \A v, w \in Workers : c \in todo'[v] /\ c \in todo'[w] => v = w
      BY DEF CellInvariant, BatchesAreDisjoint
    <3> QED
      BY <3>1, HoldersCounted DEF HeldOf
  <2>2. /\ jobs'[c] \in Nat /\ started'[c] \in Nat /\ days' \in Nat
        /\ \A s \in States : executions'[c][s] \in Nat
    BY BoundsAssumption DEF CellInvariant, TypeOK
  <2>3. HeldOf(c)' \in Nat /\ RunningOf(c)' \in Nat
    BY <2>1, <2>2 DEF RunningOf, States
  <2> QED
    BY <2>2, <2>3 DEF Active
<1>3. /\ Active(c) <= 1
      /\ c \notin duplicates => Active(c) = 0
      /\ c \in duplicates => (Active(c) > 0 <=> cacheTable[c] = "absent")
      /\ J <= days + (IF entry THEN 1 ELSE 0)
  BY DEF OnceInWindow
<1>4. \A u \in Users :
        CellOf[u] = c /\ stage[u] = "queue" /\ c \notin duplicates => cacheTable[c] = "absent"
  BY DEF OnceInWindow
<1> HIDE DEF J, entry
<1>5. ASSUME NEW u \in Users, Ask(u) \/ HandleRequest(u) PROVE OnceInWindow(c)'
  <2>1. /\ UNCHANGED <<workerVars, executionVars, cacheTable, started, days, faults>>
        /\ HeldOf(c)' = HeldOf(c) /\ RunningOf(c)' = RunningOf(c)
        /\ \A v \in Users : stage'[v] = "queue" /\ CellOf[v] = c =>
             stage[v] = "queue" \/ cacheTable[c] = "absent"
        /\ \/ jobs'[c] = jobs[c] /\ (c \in duplicates' <=> c \in duplicates)
           \/ /\ CellOf[u] = c /\ stage[u] = "queue" /\ c \notin duplicates /\ c \in duplicates'
              /\ jobs'[c] = jobs[c] + 1
    BY <1>5, RequestsQueueJobs
  <2>2. CASE jobs'[c] = jobs[c] /\ (c \in duplicates' <=> c \in duplicates)
    <3>1. Active(c)' = Active(c) /\ J' = J /\ (entry' <=> entry)
      BY <2>1, <2>2 DEF Active, J, entry
    <3> QED
      BY <1>3, <1>4, <2>1, <2>2, <3>1 DEF OnceInWindow, executionVars, J, entry
  <2>3. CASE /\ CellOf[u] = c /\ stage[u] = "queue" /\ c \notin duplicates /\ c \in duplicates'
             /\ jobs'[c] = jobs[c] + 1
    <3>1. Active(c)' = 1
      BY <1>1, <1>3, <2>1, <2>3 DEF Active
    <3>2. J' = J + 1 /\ ~entry /\ entry'
      BY <1>1, <1>4, <2>1, <2>3 DEF J, entry
    <3>3. J' <= days' + (IF entry' THEN 1 ELSE 0)
      BY <1>1, <1>3, <2>1, <3>2 DEF J
    <3> QED
      BY <1>4, <2>1, <2>3, <3>1, <3>2, <3>3 DEF OnceInWindow, executionVars, J, entry
  <2> QED
    BY <2>1, <2>2, <2>3
<1>6. ASSUME NEW w \in Workers, HandleBatch(w) \/ \E cells \in SUBSET Cells : Receive(w, cells)
      PROVE  OnceInWindow(c)'
  <2>1. /\ UNCHANGED <<userVars, duplicates, cacheTable, days, faults>>
        /\ Active(c)' = Active(c) /\ J' = J
        /\ \A s \in States \ {"resolveFromCache"} : executions'[c][s] = executions[c][s]
    BY <1>6, WorkersMoveJobs DEF J
  <2> QED
    BY <1>3, <1>4, <2>1 DEF OnceInWindow, userVars, J, entry
<1>7. ASSUME NEW d \in Cells, ExecutionStep(d) PROVE OnceInWindow(c)'
  <2>1. /\ UNCHANGED <<stage, duplicates, jobs, todo, started, days>>
        /\ \/ RunningOf(c)' = RunningOf(c) /\ cacheTable'[c] = cacheTable[c]
           \/ c = d /\ RunningOf(c)' = RunningOf(c) - 1 /\ cacheTable'[c] # "absent"
    BY <1>7, ExecutionsGoOn DEF userVars, queueVars, workerVars
  <2>2. HeldOf(c)' = HeldOf(c)
    BY <2>1 DEF HeldOf
  <2>3. J' = J
    BY <2>1, <2>2 DEF J
  <2>4. CASE RunningOf(c)' = RunningOf(c) /\ cacheTable'[c] = cacheTable[c]
    <3>1. Active(c)' = Active(c)
      BY <2>1, <2>2, <2>4 DEF Active
    <3> QED
      BY <1>3, <1>4, <2>1, <2>3, <2>4, <3>1 DEF OnceInWindow, J, entry
  <2>5. CASE RunningOf(c)' = RunningOf(c) - 1 /\ cacheTable'[c] # "absent"
    <3>1. Active(c)' = Active(c) - 1
      BY <1>1, <2>1, <2>2, <2>5 DEF Active
    <3>2. c \in duplicates /\ Active(c)' = 0
      BY <1>1, <1>2, <1>3, <3>1
    <3>3. J' <= days' + (IF entry' THEN 1 ELSE 0)
      BY <1>3, <2>1, <2>3, <3>2 DEF entry
    <3> QED
      BY <2>1, <2>5, <3>2, <3>3 DEF OnceInWindow, J, entry
  <2> QED
    BY <2>1, <2>4, <2>5
<1>8. ASSUME NEW d \in Cells, WindowEnds(d) \/ EntryExpires(d) \/ UNCHANGED vars
      PROVE  OnceInWindow(c)'
  <2>1. UNCHANGED <<jobs, todo, executions, stage, started>>
    BY <1>8 DEF WindowEnds, EntryExpires, userVars, workerVars, executionVars, queueVars, vars
  <2>2. Active(c)' = Active(c) /\ J' = J
    BY <2>1 DEF Active, HeldOf, RunningOf, J
  <2>3. CASE /\ days' = days /\ cacheTable'[c] = cacheTable[c]
             /\ c \in duplicates' <=> c \in duplicates
    BY <1>3, <1>4, <2>1, <2>2, <2>3 DEF OnceInWindow, J, entry
  <2>4. CASE d = c /\ WindowEnds(c)
    <3>1. Active(c) = 0 /\ \A u \in Users : CellOf[u] = c => stage[u] # "queue"
      BY <2>4, WindowEndsAtRest
    <3>2. c \in duplicates /\ c \notin duplicates' /\ cacheTable' = cacheTable /\ days' = days
      BY <2>4 DEF WindowEnds
    <3>3. cacheTable[c] # "absent" /\ entry /\ entry'
      BY <1>3, <3>1, <3>2 DEF entry
    <3> QED
      BY <1>3, <2>1, <2>2, <3>1, <3>2, <3>3 DEF OnceInWindow, J, entry
  <2>5. CASE EntryExpires(d)
    <3>1. /\ days' = days + 1 /\ duplicates' = duplicates
          /\ cacheTable' = [cacheTable EXCEPT ![d] = "absent"]
      BY <2>5 DEF EntryExpires, queueVars
    <3>2. cacheTable'[c] = IF c = d THEN "absent" ELSE cacheTable[c]
      BY <3>1 DEF CellInvariant, TypeOK
    <3>3. c = d => c \notin duplicates /\ cacheTable[c] # "absent"
      BY <2>5 DEF EntryExpires
    <3>4. J' <= days' + (IF entry' THEN 1 ELSE 0)
      BY <1>1, <1>3, <2>2, <3>1 DEF J
    <3> QED
      BY <1>3, <1>4, <2>1, <2>2, <3>1, <3>2, <3>3, <3>4 DEF OnceInWindow, J, entry
  <2>6. CASE d # c /\ WindowEnds(d)
    BY <2>3, <2>6 DEF WindowEnds, CellInvariant, TypeOK
  <2>7. CASE UNCHANGED vars
    BY <2>3, <2>7 DEF vars, queueVars
  <2> QED
    BY <1>8, <2>4, <2>5, <2>6, <2>7
<1> QED
  BY <1>5, <1>6, <1>7, <1>8 DEF Next, AtRest

\* While nothing fails, the invariant of all cells is kept.
LEMMA NextWindowInvariant ==
  ASSUME CellInvariant, CellInvariant', WindowOutlasts, WindowInvariant, [Next]_vars
  PROVE  WindowInvariant'
BY FaultsRemain, NextOnceInWindow DEF WindowInvariant

\* If the window outlasts every resolution, the invariant always holds.
LEMMA WindowInvariantHolds ==
  ASSUME WindowOutlasts
  PROVE  Spec => [](CellInvariant /\ WindowInvariant)
<1>1. Init => CellInvariant /\ WindowInvariant
  BY InitCellInvariant, InitWindowInvariant
<1>2. CellInvariant /\ WindowInvariant /\ [Next]_vars => (CellInvariant /\ WindowInvariant)'
  BY WindowOutlasts, NextCellInvariant, NextWindowInvariant
<1> QED
  BY <1>1, <1>2, PTL DEF Spec

\* Users that ask again and again have at most one resolution of a cell on the way.
THEOREM OneAtATime == ASSUME WindowOutlasts PROVE Spec => []OneResolutionAtATime
<1>1. CellInvariant /\ WindowInvariant => OneResolutionAtATime
  BY DEF WindowInvariant, OnceInWindow, OneResolutionAtATime
<1> QED
  BY <1>1, WindowOutlasts, WindowInvariantHolds, PTL

\* They cause one execution, and one more for every entry that has expired.
THEOREM OnePerDay == ASSUME WindowOutlasts PROVE Spec => []OneStartPerDay
<1>1. CellInvariant /\ WindowInvariant => OneStartPerDay
  <2> SUFFICES ASSUME CellInvariant, WindowInvariant, faults = 0, NEW c \in Cells
               PROVE  started[c] <= 1 + days
    BY DEF OneStartPerDay
  <2>1. started[c] + jobs[c] + HeldOf(c)
          <= days + (IF c \in duplicates \/ cacheTable[c] # "absent" THEN 1 ELSE 0)
    BY DEF WindowInvariant, OnceInWindow
  <2>2. HeldOf(c) \in Nat /\ jobs[c] \in Nat /\ started[c] \in Nat /\ days \in Nat
    BY CountersTyped, BoundsAssumption DEF CellInvariant, TypeOK
  <2> QED
    BY <2>1, <2>2
<1> QED
  BY <1>1, WindowOutlasts, WindowInvariantHolds, PTL

-----------------------------------------------------------------------------
(* Refinement of ResolveWhileUnknown                                       *)

\* What was never asked or resolved is unknown.
LEMMA InitResolution == Init => Resolution!Init
<1> SUFFICES ASSUME Init PROVE Resolution!Init
  OBVIOUS
<1>1. \A c \in Cells : Active(c) = 0
  <2>1. \A c \in Cells : HeldOf(c) = 0 /\ RunningOf(c) = 0 /\ jobs[c] = 0
    BY InitCellInvariant, CountersTyped DEF Init, RunningOf, States
  <2> QED
    BY <2>1 DEF Active
<1>2. /\ \A c \in Cells : Outcome(cacheTable[c]) = "unknown"
      /\ \A u \in Users : Outcome(answer[u]) = "unknown"
  BY DEF Init, Outcome
<1> QED
  BY <1>1, <1>2 DEF Resolution!Init

\* What leaves the open cells, the entries and the final answers alone is a stutter.
LEMMA StutterIfUnchanged ==
  ASSUME \A c \in Cells : (Active(c) > 0)' <=> Active(c) > 0,
         \A c \in Cells : cacheTable'[c] = cacheTable[c],
         \A u \in Users : Outcome(answer'[u]) = Outcome(answer[u])
  PROVE  UNCHANGED Resolution!vars
BY DEF Resolution!vars

\* A user that asks either is told the entry, or puts the question with a first job,
\* or changes nothing.
LEMMA RequestResolution ==
  ASSUME CellInvariant, CellInvariant', WindowOutlasts, WindowInvariant, faults' = 0,
         faults = 0, NEW u \in Users, Ask(u) \/ HandleRequest(u)
  PROVE  [Resolution!Next]_(Resolution!vars)
<1> DEFINE c == CellOf[u]
<1>1. /\ cacheTable' = cacheTable
      /\ \A d \in Cells : HeldOf(d)' = HeldOf(d) /\ RunningOf(d)' = RunningOf(d)
  BY RequestsQueueJobs, CellsAssumption
<1>2. c \in Cells /\ OnceInWindow(c) /\ ~Fail
  BY CellsAssumption DEF WindowInvariant, Fail, CellInvariant, TypeOK
<1> HIDE DEF c
<1>3. CASE Ask(u) \/ MissCache(u)
  <2>1. jobs' = jobs /\ answer' = answer
    BY <1>3 DEF Ask, MissCache, queueVars
  <2> QED
    BY <1>1, <2>1, StutterIfUnchanged DEF Active
<1>4. CASE AnswerFromCache(u)
  <2>1. /\ stage[u] = "read" /\ cacheTable[c] # "absent" /\ jobs' = jobs
        /\ answer' = [answer EXCEPT ![u] =
                        IF cacheTable[c] = "unresolved" THEN "notFound" ELSE "located"]
    BY <1>4 DEF AnswerFromCache, Respond, queueVars, c
  <2>2. answer[u] \notin Final /\ cacheTable[c] \in Entries /\ answer[u] \in Answers
    BY <1>2, <2>1 DEF CellInvariant, RequestsLackResult, TypeOK
  <2>3. /\ Outcome(answer[u]) = "unknown" /\ Outcome(cacheTable[c]) # "unknown"
        /\ Outcome(answer'[u]) = Outcome(cacheTable[c])
    BY <2>1, <2>2 DEF Outcome, Final, Answers, Entries, CellInvariant, TypeOK
  <2>4. \A v \in Users : v # u => answer'[v] = answer[v]
    BY <2>1 DEF CellInvariant, TypeOK
  <2>5. [v \in Users |-> Outcome(answer'[v])]
          = [[v \in Users |-> Outcome(answer[v])] EXCEPT ![u] = Outcome(cacheTable[c])]
    BY <2>3, <2>4
  <2>6. \A d \in Cells : Active(d)' = Active(d)
    BY <1>1, <2>1 DEF Active
  <2>7. Resolution!Tell(u)
    BY <1>1, <1>2, <2>3, <2>5, <2>6 DEF Resolution!Tell, c
  <2> QED
    BY <2>7 DEF Resolution!Next
<1>5. CASE QueueJob(u)
  <2>1. /\ stage[u] = "queue"
        /\ answer' = [answer EXCEPT ![u] = "inProcess"]
    BY <1>5 DEF QueueJob, Respond
  <2>2. answer[u] \notin Final /\ answer[u] \in Answers
    BY <2>1 DEF CellInvariant, RequestsLackResult, TypeOK
  <2>3. \A v \in Users : Outcome(answer'[v]) = Outcome(answer[v])
    BY <2>1, <2>2 DEF Outcome, Final, Answers, CellInvariant, TypeOK
  <2>4. CASE c \in duplicates
    <3>1. jobs' = jobs
      BY <1>5, <2>4 DEF QueueJob, queueVars, c
    <3> QED
      BY <1>1, <2>3, <3>1, StutterIfUnchanged DEF Active
  <2>5. CASE c \notin duplicates
    <3>1. Active(c) = 0 /\ cacheTable[c] = "absent"
      BY <1>2, <2>1, <2>5 DEF OnceInWindow, c
    <3>2. \A d \in Cells : jobs'[d] = IF d = c THEN jobs[d] + 1 ELSE jobs[d]
      BY <1>5, <2>5 DEF QueueJob, c, CellInvariant, TypeOK
    <3>3. \A d \in Cells : d # c => Active(d)' = Active(d)
      BY <1>1, <3>2 DEF Active
    <3>4. Active(c)' > 0
      BY <1>1, <1>2, <3>2, CountersTyped DEF Active
    <3>5. {d \in Cells : Active(d)' > 0} = {d \in Cells : Active(d) > 0} \cup {c}
      BY <1>2, <3>3, <3>4
    <3>6. Resolution!PutQuestion(c)
      <4>1. c \notin {d \in Cells : Active(d) > 0}
        BY <3>1
      <4>2. Outcome(cacheTable[c]) = "unknown"
        BY <3>1 DEF Outcome
      <4> QED
        BY <1>1, <1>2, <2>3, <3>5, <4>1, <4>2 DEF Resolution!PutQuestion
    <3> QED
      BY <1>2, <3>6 DEF Resolution!Next
  <2> QED
    BY <2>4, <2>5
<1>6. ~QueueJobFails(u)
  BY <1>2 DEF QueueJobFails
<1> QED
  BY <1>3, <1>4, <1>5, <1>6 DEF HandleRequest

\* An execution of the cell learns the answer with its last step.
LEMMA ExecutionResolution ==
  ASSUME CellInvariant, CellInvariant', WindowOutlasts, WindowInvariant, WindowInvariant',
         faults = 0, faults' = 0, NEW d \in Cells, ExecutionStep(d)
  PROVE  [Resolution!Next]_(Resolution!vars)
<1>1. /\ answer' = answer
      /\ \A c \in Cells : jobs'[c] = jobs[c] /\ HeldOf(c)' = HeldOf(c)
  BY ExecutionsGoOn DEF userVars, queueVars, workerVars, HeldOf
<1>2. \A c \in Cells : c # d => Active(c)' = Active(c) /\ cacheTable'[c] = cacheTable[c]
  BY <1>1, ExecutionsGoOn DEF Active
<1>3. CASE RunningOf(d)' = RunningOf(d) /\ cacheTable'[d] = cacheTable[d]
  <2>1. Active(d)' = Active(d)
    BY <1>1, <1>3 DEF Active
  <2> QED
    BY <1>1, <1>2, <1>3, <2>1, StutterIfUnchanged
<1>4. CASE RunningOf(d)' = RunningOf(d) - 1 /\ cacheTable'[d] # "absent"
  <2>1. Active(d)' = Active(d) - 1
    BY <1>1, <1>4, CountersTyped DEF Active
  <2>2. Active(d) > 0 /\ Active(d)' = 0
    <3>1. Active(d) \in Nat /\ (Active(d) \in Nat)' /\ Active(d) <= 1
      BY CountersTyped, NextActiveTyped DEF WindowInvariant, OnceInWindow
    <3> QED
      BY <2>1, <3>1
  <2>3. cacheTable[d] = "absent" /\ cacheTable'[d] \in Entries
    BY <2>2 DEF WindowInvariant, OnceInWindow, CellInvariant, TypeOK
  <2> DEFINE outcome == Outcome(cacheTable'[d])
  <2>4. outcome \in Resolution!Outcomes /\ Outcome(cacheTable[d]) = "unknown"
    BY <1>4, <2>3 DEF Outcome, Entries, Resolution!Outcomes
  <2>5. {c \in Cells : Active(c)' > 0} = {c \in Cells : Active(c) > 0} \ {d}
    BY <1>2, <2>2
  <2>6. [c \in Cells |-> Outcome(cacheTable'[c])]
          = [[c \in Cells |-> Outcome(cacheTable[c])] EXCEPT ![d] = outcome]
    BY <1>2
  <2> HIDE DEF outcome
  <2>7. Resolution!Learn(d, outcome)
    BY <1>1, <2>2, <2>4, <2>5, <2>6 DEF Resolution!Learn
  <2> QED
    BY <2>4, <2>7 DEF Resolution!Next
<1> QED
  BY <1>3, <1>4, ExecutionsGoOn

\* As long as nothing fails, every step is a step of the abstract service or none.
LEMMA NextResolution ==
  ASSUME CellInvariant, CellInvariant', WindowOutlasts, WindowInvariant, WindowInvariant',
         [Next]_vars, faults' = 0
  PROVE  [Resolution!Next]_(Resolution!vars)
<1>1. faults = 0
  BY FaultsRemain
<1>2. ASSUME NEW u \in Users, Ask(u) \/ HandleRequest(u)
      PROVE  [Resolution!Next]_(Resolution!vars)
  BY <1>1, <1>2, RequestResolution
<1>3. ASSUME NEW w \in Workers, HandleBatch(w) \/ \E cells \in SUBSET Cells : Receive(w, cells)
      PROVE  [Resolution!Next]_(Resolution!vars)
  <2>1. /\ \A c \in Cells : Active(c)' = Active(c) /\ cacheTable'[c] = cacheTable[c]
        /\ \A u \in Users : answer'[u] = answer[u]
    BY <1>3, WorkersMoveJobs, CellsAssumption DEF userVars
  <2> QED
    BY <2>1, StutterIfUnchanged
<1>4. ASSUME NEW d \in Cells, ExecutionStep(d) PROVE [Resolution!Next]_(Resolution!vars)
  BY <1>1, <1>4, ExecutionResolution
<1>5. ASSUME NEW d \in Cells, EntryExpires(d) PROVE [Resolution!Next]_(Resolution!vars)
  <2>1. /\ cacheTable[d] # "absent" /\ d \notin duplicates
        /\ cacheTable' = [cacheTable EXCEPT ![d] = "absent"]
        /\ UNCHANGED <<jobs, todo, executions, answer>>
    BY <1>5 DEF EntryExpires, queueVars, workerVars, executionVars, userVars
  <2>2. Active(d) = 0 /\ cacheTable[d] \in Entries
    BY <1>1, <2>1 DEF WindowInvariant, OnceInWindow, CellInvariant, TypeOK
  <2>3. {c \in Cells : Active(c)' > 0} = {c \in Cells : Active(c) > 0}
    BY <2>1 DEF Active, HeldOf, RunningOf
  <2>4. [c \in Cells |-> Outcome(cacheTable'[c])]
          = [[c \in Cells |-> Outcome(cacheTable[c])] EXCEPT ![d] = "unknown"]
    BY <2>1 DEF Outcome, CellInvariant, TypeOK
  <2>5. Outcome(cacheTable[d]) # "unknown"
    BY <2>1, <2>2 DEF Outcome, Entries
  <2>6. d \notin {c \in Cells : Active(c) > 0}
    BY <2>2
  <2>7. Resolution!Forget(d)
    BY <2>1, <2>3, <2>4, <2>5, <2>6 DEF Resolution!Forget
  <2> QED
    BY <2>7 DEF Resolution!Next
<1>6. ASSUME NEW d \in Cells, WindowEnds(d) \/ UNCHANGED vars
      PROVE  [Resolution!Next]_(Resolution!vars)
  <2>1. UNCHANGED <<jobs, todo, executions, answer, cacheTable>>
    BY <1>6 DEF WindowEnds, vars, queueVars, workerVars, executionVars, userVars
  <2>2. \A c \in Cells : Active(c)' = Active(c)
    BY <2>1 DEF Active, HeldOf, RunningOf
  <2> QED
    BY <2>1, <2>2, StutterIfUnchanged
<1>7. CASE UNCHANGED vars
  <2>1. UNCHANGED <<jobs, todo, executions, answer, cacheTable>>
    BY <1>7 DEF vars, queueVars, workerVars, executionVars, userVars
  <2>2. \A c \in Cells : Active(c)' = Active(c)
    BY <2>1 DEF Active, HeldOf, RunningOf
  <2> QED
    BY <2>1, <2>2, StutterIfUnchanged
<1> QED
  BY <1>2, <1>3, <1>4, <1>5, <1>6, <1>7 DEF Next, AtRest

\* As long as nothing fails and the window outlasts every resolution, the geolocation
\* of cells implements the service that asks the API only what is not known.
THEOREM CellsResolveWhileUnknown == ASSUME WindowOutlasts PROVE Spec => ResolvesWhileUnknown
<1> DEFINE Step == faults' = 0 => [Resolution!Next]_(Resolution!vars)
<1>1. /\ CellInvariant /\ WindowInvariant
      /\ CellInvariant' /\ WindowInvariant'
      /\ [Next]_vars
      => Step
  BY WindowOutlasts, NextResolution
<1>2. /\ CellInvariant /\ WindowInvariant
      /\ CellInvariant' /\ WindowInvariant'
      /\ [Next]_vars
      => [Step]_vars
  BY <1>1
<1>3. Init => Resolution!Init
  BY InitResolution
<1> QED
  BY <1>2, <1>3, WindowOutlasts, WindowInvariantHolds, PTL DEF Spec, ResolvesWhileUnknown

\* Without failures that is a refinement: the specification of the geolocation
\* implies that of the abstract service.
THEOREM CellsImplementResolveWhileUnknown ==
  ASSUME WindowOutlasts, MaxFaults = 0
  PROVE  Spec => Resolution!Spec
<1>1. /\ CellInvariant /\ WindowInvariant
      /\ CellInvariant' /\ WindowInvariant'
      /\ [Next]_vars
      => [Resolution!Next]_(Resolution!vars)
  <2> SUFFICES ASSUME CellInvariant, WindowInvariant, CellInvariant', WindowInvariant',
                      [Next]_vars
               PROVE  [Resolution!Next]_(Resolution!vars)
    OBVIOUS
  <2>1. faults' = 0
    BY DEF CellInvariant, TypeOK
  <2> QED
    BY <2>1, WindowOutlasts, NextResolution
<1>2. Init => Resolution!Init
  BY InitResolution
<1> QED
  BY <1>1, <1>2, WindowOutlasts, WindowInvariantHolds, PTL DEF Spec, Resolution!Spec
=============================================================================
