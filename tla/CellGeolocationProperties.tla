--------------------- MODULE CellGeolocationProperties ---------------------
(***************************************************************************)
(* What the geolocation of cells of module CellGeolocation promises.       *)
(***************************************************************************)
EXTENDS CellGeolocation

(***************************************************************************)
(* A user is told a location only when the API has located the cell, and   *)
(* that there is none only when the API had no location: the two branches  *)
(* of the execution, the attributes of the entry, the read with its        *)
(* default for a missing attribute, and the handler agree on the outcome.  *)
(***************************************************************************)
AnswersFollowApi ==
  \A u \in Users :
    /\ answer[u] = "located" => TRUE \in outcomes[CellOf[u]]
    /\ answer[u] = "notFound" => FALSE \in outcomes[CellOf[u]]

\* Why: the entries and the executions about to write one follow the API.
EntriesFollowApi ==
  \A c \in Cells :
    /\ cacheTable[c] = "located" => TRUE \in outcomes[c]
    /\ cacheTable[c] = "unresolved" => FALSE \in outcomes[c]
    /\ executions[c]["cacheResult"] > 0 => TRUE \in outcomes[c]
    /\ executions[c]["cacheNoResult"] > 0 => FALSE \in outcomes[c]

(***************************************************************************)
(* Every job the queue accepted has its execution, or waits, or is held by *)
(* a worker that still has to start it or to give it back: a batch in      *)
(* which one start fails may start executions twice, but loses none.       *)
(* Without failures there is exactly one execution per job.                *)
(***************************************************************************)
Held(w) == IF w \in rejected THEN batch[w] ELSE todo[w]

JobsAndStarts(c) ==
  started[c] + jobs[c] + (IF \E w \in Workers : c \in Held(w) THEN 1 ELSE 0)

EveryJobRuns ==
  \A c \in Cells :
    /\ accepted[c] <= JobsAndStarts(c)
    /\ faults = 0 => accepted[c] = JobsAndStarts(c)

\* Why: a cell is in one batch at most, and a worker's open jobs are of its batch.
BatchesAreDisjoint ==
  /\ \A v, w \in Workers : v # w => batch[v] \cap batch[w] = {}
  /\ \A w \in Workers : todo[w] \subseteq batch[w]
  /\ \A w \in rejected : batch[w] # {}
  /\ faults = 0 => rejected = {}

\* A user asks only while the last answer was not final.
RequestsLackResult == \A u \in Users : stage[u] # "idle" => answer[u] \notin Final

CellInvariant ==
  /\ TypeOK
  /\ EntriesFollowApi
  /\ AnswersFollowApi
  /\ RequestsLackResult
  /\ BatchesAreDisjoint
  /\ EveryJobRuns

(***************************************************************************)
(* "Calculation for cell geolocation in process", the handler says to a    *)
(* request whose job SQS drops as a duplicate as well: as long as nothing  *)
(* has failed, there is a resolution of the cell on the way, or its result is   *)
(* in the table already.                                                   *)
(***************************************************************************)
DroppedJobIsInProcess ==
  faults = 0 => \A c \in duplicates : Active(c) > 0 \/ cacheTable[c] # "absent"

(***************************************************************************)
(* If every resolution ends within the deduplication window and nothing    *)
(* fails, users that ask again and again do not multiply the calls of the  *)
(* third-party API: one execution at a time, and one per day (the life     *)
(* of an entry), although the executions are not named.                    *)
(***************************************************************************)
OneResolutionAtATime == faults = 0 => \A c \in Cells : Active(c) <= 1

OneStartPerDay == faults = 0 => \A c \in Cells : started[c] <= 1 + days

(***************************************************************************)
(* Under the same conditions the geolocation implements the module         *)
(* ResolveWhileUnknown: a cell is a question, open from the acceptance of  *)
(* its job on until an execution has stored the answer.  So the API is not *)
(* asked about a cell whose entry is there, and PutItem, which replaces    *)
(* the whole entry, never has one to replace.                              *)
(***************************************************************************)
Outcome(entryOrAnswer) ==
  CASE entryOrAnswer = "located" -> "found"
    [] entryOrAnswer \in {"unresolved", "notFound"} -> "nothing"
    [] OTHER -> "unknown"

Resolution == INSTANCE ResolveWhileUnknown WITH
  Questions <- Cells,
  Askers <- Users,
  QuestionOf <- CellOf,
  open <- {c \in Cells : Active(c) > 0},
  known <- [c \in Cells |-> Outcome(cacheTable[c])],
  told <- [u \in Users |-> Outcome(answer[u])]

ResolvesWhileUnknown ==
  Resolution!Init /\ [][faults' = 0 => [Resolution!Next]_(Resolution!vars)]_vars

\* Why: whatever goes on for a cell is inside its window and there is no entry
\* meanwhile, a request that missed the entry outside of a window still misses it,
\* and a job has been accepted at most once for every entry that has expired and
\* the one there is or will be.
OnceInWindow(c) ==
  /\ Active(c) <= 1
  /\ c \notin duplicates => Active(c) = 0
  /\ c \in duplicates => (Active(c) > 0 <=> cacheTable[c] = "absent")
  /\ \A u \in Users :
       CellOf[u] = c /\ stage[u] = "queue" /\ c \notin duplicates => cacheTable[c] = "absent"
  /\ started[c] + jobs[c] + HeldOf(c)
       <= days + (IF c \in duplicates \/ cacheTable[c] # "absent" THEN 1 ELSE 0)

WindowInvariant == faults = 0 => \A c \in Cells : OnceInWindow(c)

-----------------------------------------------------------------------------

(***************************************************************************)
(* Fairness.  Users ask again until they have a result (the web app and    *)
(* the end-to-end tests do); the handler, the workers and the executions   *)
(* go on; the event source mapping delivers jobs; time passes for windows. *)
(***************************************************************************)
UserFairness == \A u \in Users : WF_vars(Ask(u)) /\ WF_vars(HandleRequest(u))

WorkerFairness ==
  /\ \A c \in Cells :
       SF_vars(\E w \in Workers, cells \in SUBSET Cells : c \in cells /\ Receive(w, cells))
  /\ \A w \in Workers : WF_vars(HandleBatch(w))

ExecutionFairness == \A c \in Cells : WF_vars(ExecutionStep(c)) /\ WF_vars(WindowEnds(c))

LiveSpec == Spec /\ UserFairness /\ WorkerFairness /\ ExecutionFairness

(***************************************************************************)
(* A user who keeps asking is told where the cell is, or that it has no    *)
(* location, whatever fails on the way: an execution that dies blocks the  *)
(* cell only until the deduplication window ends.                          *)
(***************************************************************************)
EveryUserIsAnswered == \A u \in Users : (stage[u] = "read") ~> (answer[u] \in Final)
=============================================================================
