--------------------------- MODULE NetworkSurvey ---------------------------
(***************************************************************************)
(* Geolocation of network surveys.  A rule stores every survey of a device *)
(* under a new id, for 30 days (cdk/resources/NetworkSurveysStorage.ts).   *)
(* The HTTP API (networkSurveyGeolocation/httpApi/locateSurvey.ts) reads   *)
(* the item and, if it has no result yet, starts an execution that has the *)
(* id of the survey for its name (cdk/resources/NetworkSurveyGeolocation.  *)
(* ts); the execution asks the third-party API and adds the result to the  *)
(* item.                                                                   *)
(*                                                                         *)
(* Step Functions keeps the name of an execution for 90 days after it has  *)
(* ended, so the clock counts days.                                        *)
(***************************************************************************)
EXTENDS Integers

CONSTANTS
  Surveys,    \* surveys, by their surveyId
  Users,      \* users of the HTTP API, each asking again until it has a result
  SurveyOf,   \* the survey each user asks for
  Ttl,        \* days that an item is to be kept (30)
  Lag,        \* days that DynamoDB takes at most to delete an expired item
  NameDays,   \* days for which the name of an execution stays taken (90)
  MaxNow,     \* bound: the last day
  MaxFaults   \* bound: failing AWS calls, late reads and crashes

ASSUME SurveysAssumption == SurveyOf \in [Users -> Surveys]
ASSUME BoundsAssumption ==
  /\ Ttl \in Nat /\ Lag \in Nat /\ NameDays \in Nat
  /\ MaxNow \in Nat
  /\ MaxFaults \in Nat
ASSUME NamesAssumption == Ttl + Lag + 1 < NameDays

VARIABLES
  stage,       \* per user: where the handler stands with the user's request
  answer,      \* per user: the last answer
  askedOn,     \* per user: the day on which the last request began
  items,       \* DynamoDB: the item of each survey
  expiring,    \* surveys whose item has the attribute ttl
  sentOn,      \* the day of the survey, from which ttl is counted
  executions,  \* Step Functions: the execution of each name
  since,       \* the day on which it was started or, if it has ended, ended
  runs,        \* executions started for the survey
  outcomes,    \* what they were told by the API
  now,         \* today
  faults       \* failures so far

userVars == <<stage, answer, askedOn>>
tableVars == <<items, expiring, sentOn>>
executionVars == <<executions, since, runs, outcomes>>
vars == <<userVars, tableVars, executionVars, now, faults>>

-----------------------------------------------------------------------------

\* Not sent yet, without result, with one, and deleted.
Items == {"unsent", "stored", "located", "unresolved", "absent"}

\* The await points of the handler: in the read and in StartExecution.
Stages == {"idle", "read", "start"}

\* 200, 404 (no location), 404 (no survey), 409 and 500, and no answer yet
Answers == {"none", "located", "unresolved", "notFound", "inProcess", "error"}

Final == {"located", "unresolved"}

Running == {"resolve", "persistResult", "persistFailure"}

Fail == faults < MaxFaults /\ faults' = faults + 1

TypeOK ==
  /\ stage \in [Users -> Stages]
  /\ answer \in [Users -> Answers]
  /\ askedOn \in [Users -> Nat]
  /\ items \in [Surveys -> Items]
  /\ expiring \in SUBSET Surveys
  /\ sentOn \in [Surveys -> Nat]
  /\ executions \in [Surveys -> Running \cup {"none", "ended"}]
  /\ since \in [Surveys -> Nat]
  /\ runs \in [Surveys -> Nat]
  /\ outcomes \in [Surveys -> SUBSET BOOLEAN]
  /\ now \in 0..MaxNow
  /\ faults \in 0..MaxFaults

Init ==
  /\ stage = [u \in Users |-> "idle"]
  /\ answer = [u \in Users |-> "none"]
  /\ askedOn = [u \in Users |-> 0]
  /\ items = [s \in Surveys |-> "unsent"]
  /\ expiring = {}
  /\ sentOn = [s \in Surveys |-> 0]
  /\ executions = [s \in Surveys |-> "none"]
  /\ since = [s \in Surveys |-> 0]
  /\ runs = [s \in Surveys |-> 0]
  /\ outcomes = [s \in Surveys |-> {}]
  /\ now = 0
  /\ faults = 0

-----------------------------------------------------------------------------
(* The table and the clock                                                 *)

\* The rule storeSurvey: the id is new, so every item is stored once.
StoreSurvey(s) ==
  /\ items[s] = "unsent"
  /\ items' = [items EXCEPT ![s] = "stored"]
  /\ expiring' = expiring \cup {s}
  /\ sentOn' = [sentOn EXCEPT ![s] = now]
  /\ UNCHANGED <<userVars, executionVars, now, faults>>

\* DynamoDB deletes an item some time after its time to live.
DeleteItem(s) ==
  /\ s \in expiring
  /\ now >= sentOn[s] + Ttl
  /\ items' = [items EXCEPT ![s] = "absent"]
  /\ expiring' = expiring \ {s}
  /\ UNCHANGED <<userVars, sentOn, executionVars, now, faults>>

NameExpires(s) ==
  /\ executions[s] = "ended"
  /\ now >= since[s] + NameDays
  /\ executions' = [executions EXCEPT ![s] = "none"]
  /\ UNCHANGED <<userVars, tableVars, since, runs, outcomes, now, faults>>

\* A request (10 seconds) or an execution (5 minutes) sees midnight once at most.
DayPasses ==
  /\ now < MaxNow
  /\ \A u \in Users : stage[u] # "idle" => askedOn[u] = now
  /\ \A s \in Surveys : executions[s] \in Running => since[s] = now
  /\ \A s \in expiring : now < sentOn[s] + Ttl + Lag
  /\ now' = now + 1
  /\ UNCHANGED <<userVars, tableVars, executionVars, faults>>

-----------------------------------------------------------------------------
(* The HTTP API                                                            *)

\* A user without a result asks (again) for a survey.
Ask(u) ==
  /\ stage[u] = "idle"
  /\ answer[u] \notin Final
  /\ items[SurveyOf[u]] # "unsent"
  /\ stage' = [stage EXCEPT ![u] = "read"]
  /\ askedOn' = [askedOn EXCEPT ![u] = now]
  /\ UNCHANGED <<answer, tableVars, executionVars, now, faults>>

Respond(u, a) ==
  /\ stage' = [stage EXCEPT ![u] = "idle"]
  /\ answer' = [answer EXCEPT ![u] = a]
  /\ UNCHANGED <<askedOn, tableVars, now>>

\* The item has a result, or its resolution has failed.
AnswerFromItem(u) ==
  /\ stage[u] = "read"
  /\ items[SurveyOf[u]] \in Final
  /\ Respond(u, items[SurveyOf[u]])
  /\ UNCHANGED <<executionVars, faults>>

\* There is no item, or the read, which is not a consistent one, misses it.
MissItem(u) ==
  /\ stage[u] = "read"
  /\ \/ items[SurveyOf[u]] = "absent" /\ UNCHANGED faults
     \/ Fail
  /\ Respond(u, "notFound")
  /\ UNCHANGED executionVars

\* Another error of the read is the answer; the handler may die as well.
RequestFails(u) ==
  /\ stage[u] # "idle"
  /\ Fail
  /\ Respond(u, "error")
  /\ UNCHANGED executionVars

FindPending(u) ==
  /\ stage[u] = "read"
  /\ items[SurveyOf[u]] = "stored"
  /\ stage' = [stage EXCEPT ![u] = "start"]
  /\ UNCHANGED <<answer, askedOn, tableVars, executionVars, now, faults>>

Start(s) ==
  /\ executions' = [executions EXCEPT ![s] = "resolve"]
  /\ since' = [since EXCEPT ![s] = now]
  /\ runs' = [runs EXCEPT ![s] = @ + 1]
  /\ UNCHANGED outcomes

\* Variant with a fault: the execution has no name.
StartExecutionUnnamed(u) ==
  /\ stage[u] = "start"
  /\ Start(SurveyOf[u])
  /\ Respond(u, "inProcess")
  /\ UNCHANGED faults

\* resolveSurvey: StartExecution does nothing if the name is taken.
StartExecution(u) ==
  LET s == SurveyOf[u] IN
  /\ stage[u] = "start"
  /\ IF executions[s] = "none" THEN Start(s) ELSE UNCHANGED executionVars
  /\ Respond(u, "inProcess")
  /\ UNCHANGED faults

\* Its errors are only logged.
StartExecutionFails(u) ==
  /\ stage[u] = "start"
  /\ Fail
  /\ Respond(u, "inProcess")
  /\ UNCHANGED executionVars

-----------------------------------------------------------------------------
(* The executions                                                          *)

\* Variant with a fault: the answer is not checked before it is persisted.
ResolveUnchecked(s, located) ==
  /\ executions[s] = "resolve"
  /\ executions' = [executions EXCEPT ![s] = "persistResult"]
  /\ outcomes' = [outcomes EXCEPT ![s] = @ \cup {located}]
  /\ UNCHANGED <<userVars, tableVars, since, runs, now, faults>>

\* 'Resolve network survey geolocation' and the choice on the answer
Resolve(s, located) ==
  /\ executions[s] = "resolve"
  /\ executions' = [executions EXCEPT ![s] = IF located THEN "persistResult" ELSE "persistFailure"]
  /\ outcomes' = [outcomes EXCEPT ![s] = @ \cup {located}]
  /\ UNCHANGED <<userVars, tableVars, since, runs, now, faults>>

End(s) ==
  /\ executions' = [executions EXCEPT ![s] = "ended"]
  /\ since' = [since EXCEPT ![s] = now]
  /\ UNCHANGED <<userVars, expiring, sentOn, runs, outcomes, now>>

\* UpdateItem adds the attributes to the item, and creates it, without ttl, if
\* there is none.
PersistResult(s) ==
  /\ executions[s] = "persistResult"
  /\ items' = [items EXCEPT ![s] = "located"]
  /\ End(s)
  /\ UNCHANGED faults

\* Variant with a fault: the failure is not marked in the item.
PersistFailureUnmarked(s) ==
  /\ executions[s] = "persistFailure"
  /\ End(s)
  /\ UNCHANGED <<items, faults>>

PersistFailure(s) ==
  /\ executions[s] = "persistFailure"
  /\ items' = [items EXCEPT ![s] = "unresolved"]
  /\ End(s)
  /\ UNCHANGED faults

\* A state fails or the execution times out: nothing is persisted.
ExecutionAborts(s) ==
  /\ executions[s] \in Running
  /\ Fail
  /\ End(s)
  /\ UNCHANGED items

-----------------------------------------------------------------------------

HandleRequest(u) ==
  \/ AnswerFromItem(u)
  \/ MissItem(u)
  \/ FindPending(u)
  \/ StartExecution(u)
  \/ StartExecutionFails(u)
  \/ RequestFails(u)

ExecutionStep(s) ==
  \/ \E located \in BOOLEAN : Resolve(s, located)
  \/ PersistResult(s)
  \/ PersistFailure(s)
  \/ ExecutionAborts(s)

\* Every user has a result and nothing is on the way.
AtRest ==
  /\ \A u \in Users : answer[u] \in Final
  /\ UNCHANGED vars

Next ==
  \/ \E s \in Surveys : StoreSurvey(s) \/ DeleteItem(s) \/ NameExpires(s) \/ ExecutionStep(s)
  \/ \E u \in Users : Ask(u) \/ HandleRequest(u)
  \/ DayPasses
  \/ AtRest

Spec == Init /\ [][Next]_vars
=============================================================================
