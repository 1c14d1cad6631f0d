---------------------- MODULE NetworkSurveyProperties ----------------------
(***************************************************************************)
(* What the geolocation of surveys of module NetworkSurvey promises.       *)
(***************************************************************************)
EXTENDS NetworkSurvey

(***************************************************************************)
(* "We want to run exactly once": however many users ask, at the same time *)
(* or months apart, there is one execution per survey at most.  The name   *)
(* of the execution is free again after NameDays; by then no read can have *)
(* found the item without a result, because items are deleted earlier, and *)
(* an item that an execution re-creates has a result.                      *)
(***************************************************************************)
OneExecution == \A s \in Surveys : runs[s] <= 1

(***************************************************************************)
(* Two users are never told different results for a survey, and what they  *)
(* are told is what the API has told the execution.                        *)
(***************************************************************************)
UsersAgree ==
  \A u \in Users :
    /\ answer[u] = "located" => outcomes[SurveyOf[u]] = {TRUE}
    /\ answer[u] = "unresolved" => outcomes[SurveyOf[u]] = {FALSE}

\* Why: an item without a result is to be deleted, and no request outlives it
\* by more than a day.
PendingItemsExpire ==
  /\ \A s \in Surveys :
       /\ items[s] = "stored" => s \in expiring
       /\ items[s] = "unsent" => s \notin expiring /\ executions[s] = "none" /\ runs[s] = 0
       /\ sentOn[s] <= now
       /\ s \in expiring => now <= sentOn[s] + Ttl + Lag
  /\ \A u \in Users :
       stage[u] # "idle" =>
         askedOn[u] <= now /\ now <= askedOn[u] + 1 /\ items[SurveyOf[u]] # "unsent"
  /\ \A u \in Users :
       stage[u] = "start" => askedOn[u] <= sentOn[SurveyOf[u]] + Ttl + Lag

\* Why: a name is free only before the execution, or when nobody can use it.
NamesAreKept ==
  \A s \in Surveys :
    /\ executions[s] # "none" => runs[s] = 1 /\ sentOn[s] <= since[s] /\ since[s] <= now
    /\ runs[s] <= 1
    /\ executions[s] = "none" /\ runs[s] = 1 =>
         /\ items[s] # "stored"
         /\ \A u \in Users : SurveyOf[u] = s => stage[u] # "start"

\* Why: items and executions follow the only answer of the API.
ItemsFollowApi ==
  \A s \in Surveys :
    /\ runs[s] = 0 \/ executions[s] = "resolve" => outcomes[s] = {}
    /\ items[s] = "located" \/ executions[s] = "persistResult" => outcomes[s] = {TRUE}
    /\ items[s] = "unresolved" \/ executions[s] = "persistFailure" => outcomes[s] = {FALSE}

SurveyInvariant ==
  /\ TypeOK
  /\ PendingItemsExpire
  /\ NamesAreKept
  /\ ItemsFollowApi
  /\ UsersAgree

(***************************************************************************)
(* "Calculation for Network survey geolocation in process" is said when    *)
(* an execution runs, or has added its result to the item, or the item was *)
(* deleted, since the item was read.  An execution that has ended          *)
(* cannot be started again, so it must have left a result or the mark that *)
(* there is none.  Once something has failed this cannot be said.          *)
(***************************************************************************)
ConflictMeansInProcess ==
  [][\A u \in Users :
       faults' = 0 /\ stage[u] = "start" /\ stage'[u] = "idle" /\ answer'[u] = "inProcess" =>
         executions'[SurveyOf[u]] \in Running \/ items'[SurveyOf[u]] \in Final \cup {"absent"}]_vars

(***************************************************************************)
(* "Delete survey after 30 days": allowing for the time that DynamoDB      *)
(* takes, nothing is left of a survey then.                                *)
(***************************************************************************)
SurveysAreDeleted ==
  \A s \in Surveys :
    items[s] # "unsent" /\ now > sentOn[s] + Ttl + Lag => items[s] = "absent"

(***************************************************************************)
(* What is left of a survey is a result that came too late: its execution  *)
(* ended after the time to live of the survey, when the item was deleted.  *)
(* An item without result is never left, and neither is one that has got   *)
(* its result in time: those have the attribute that DynamoDB deletes by.  *)
(***************************************************************************)
LeftoversCameLate ==
  \A s \in Surveys :
    items[s] \notin {"unsent", "absent"} /\ s \notin expiring =>
      items[s] \in Final /\ runs[s] = 1 /\ since[s] >= sentOn[s] + Ttl

(***************************************************************************)
(* All of this implements module ResolveOnce: the questions are the        *)
(* surveys, an execution puts a question, its answer is learned with it,   *)
(* and a user is told when he gets one of the two final answers.           *)
(***************************************************************************)
Outcome(answers) ==
  CASE answers = {TRUE} -> "found"
    [] answers = {FALSE} -> "nothing"
    [] answers = {} -> "open"
    [] OTHER -> "lost"

Told(a) ==
  CASE a = "located" -> {"found"}
    [] a = "unresolved" -> {"nothing"}
    [] OTHER -> {}

Resolution == INSTANCE ResolveOnce WITH
  Questions <- Surveys,
  Askers <- Users,
  QuestionsOf <- [u \in Users |-> {SurveyOf[u]}],
  put <- {s \in Surveys : runs[s] > 0},
  learned <- [s \in Surveys |-> Outcome(outcomes[s])],
  told <- [u \in Users |-> Told(answer[u])]

ResolvesOnce == Resolution!Spec

-----------------------------------------------------------------------------

(***************************************************************************)
(* Fairness.  Users ask again until they have a result, the handler and    *)
(* the executions go on.                                                   *)
(***************************************************************************)
LiveSpec ==
  /\ Spec
  /\ \A u \in Users : WF_vars(Ask(u)) /\ WF_vars(HandleRequest(u))
  /\ \A s \in Surveys : WF_vars(ExecutionStep(s))

(***************************************************************************)
(* Unless something fails, a user who keeps asking is told the location of *)
(* the survey, that it has none, or that the survey is not there any more. *)
(***************************************************************************)
EveryUserIsAnswered ==
  \A u \in Users : (stage[u] = "read") ~> (answer[u] \in Final \cup {"notFound"} \/ faults > 0)
=============================================================================
