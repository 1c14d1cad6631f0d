------------------------ MODULE NetworkSurvey_proofs ------------------------
(***************************************************************************)
(* Proofs about the geolocation of surveys, for any number of surveys and  *)
(* users, any number of failures, and any life of items and names that     *)
(* satisfies NamesAssumption.                                              *)
(***************************************************************************)
EXTENDS NetworkSurveyProperties, TLAPS

-----------------------------------------------------------------------------
(* Types                                                                   *)

\* Every step keeps the types.
LEMMA NextTypeOK == TypeOK /\ [Next]_vars => TypeOK'
<1> SUFFICES ASSUME TypeOK, [Next]_vars PROVE TypeOK'
  OBVIOUS
<1> USE SurveysAssumption, BoundsAssumption
    DEF TypeOK, userVars, tableVars, executionVars, Respond, Fail
<1>1. ASSUME NEW s \in Surveys, StoreSurvey(s) PROVE TypeOK'
  BY <1>1 DEF StoreSurvey, Items
<1>2. ASSUME NEW s \in Surveys, DeleteItem(s) PROVE TypeOK'
  BY <1>2 DEF DeleteItem, Items
<1>3. ASSUME NEW s \in Surveys, NameExpires(s) PROVE TypeOK'
  BY <1>3 DEF NameExpires
<1>4. ASSUME NEW s \in Surveys, ExecutionStep(s) PROVE TypeOK'
  <2>1. ASSUME NEW located \in BOOLEAN, Resolve(s, located) PROVE TypeOK'
    BY <2>1 DEF Resolve, Running
  <2>2. CASE PersistResult(s)
    BY <2>2 DEF PersistResult, End, Items
  <2>3. CASE PersistFailure(s)
    BY <2>3 DEF PersistFailure, End, Items
  <2>4. CASE ExecutionAborts(s)
    BY <2>4 DEF ExecutionAborts, End
  <2> QED
    BY <1>4, <2>1, <2>2, <2>3, <2>4 DEF ExecutionStep
<1>5. ASSUME NEW u \in Users, Ask(u) PROVE TypeOK'
  BY <1>5 DEF Ask, Stages
<1>6. ASSUME NEW u \in Users, HandleRequest(u) PROVE TypeOK'
  <2>1. CASE AnswerFromItem(u)
    BY <2>1 DEF AnswerFromItem, Stages, Answers, Final
  <2>2. CASE MissItem(u)
    BY <2>2 DEF MissItem, Stages, Answers
  <2>3. CASE FindPending(u)
    BY <2>3 DEF FindPending, Stages
  <2>4. CASE StartExecution(u)
    BY <2>4 DEF StartExecution, Start, Running, Stages, Answers
  <2>5. CASE StartExecutionFails(u) \/ RequestFails(u)
    BY <2>5 DEF StartExecutionFails, RequestFails, Stages, Answers
  <2> QED
    BY <1>6, <2>1, <2>2, <2>3, <2>4, <2>5 DEF HandleRequest
<1>7. CASE DayPasses
  BY <1>7 DEF DayPasses
<1>8. CASE UNCHANGED vars
  BY <1>8 DEF vars
<1> QED
  BY <1>1, <1>2, <1>3, <1>4, <1>5, <1>6, <1>7, <1>8 DEF Next, AtRest

-----------------------------------------------------------------------------
(* Time                                                                    *)

\* Items without result expire, and requests do not outlive them by more than
\* a day: a request begins while it can still find the item.
LEMMA NextPendingItemsExpire ==
  ASSUME SurveyInvariant, [Next]_vars
  PROVE  PendingItemsExpire'
<1> USE SurveysAssumption, BoundsAssumption
    DEF SurveyInvariant, TypeOK, PendingItemsExpire, userVars, tableVars, executionVars, Respond
<1>1. ASSUME NEW s \in Surveys, StoreSurvey(s) PROVE PendingItemsExpire'
  <2>1. \A u \in Users : stage[u] # "idle" => SurveyOf[u] # s
    BY <1>1 DEF StoreSurvey
  <2>2. \A u \in Users : stage[u] = "start" => stage[u] # "idle"
    OBVIOUS
  <2> QED
    BY <1>1, <2>1, <2>2 DEF StoreSurvey
<1>2. ASSUME NEW s \in Surveys, DeleteItem(s) PROVE PendingItemsExpire'
  BY <1>2 DEF DeleteItem
<1>3. ASSUME NEW s \in Surveys, NameExpires(s) PROVE PendingItemsExpire'
  BY <1>3 DEF NameExpires
<1>4. ASSUME NEW s \in Surveys, ExecutionStep(s) PROVE PendingItemsExpire'
  <2>1. executions[s] # "none" /\ items[s] # "unsent"
    BY <1>4 DEF ExecutionStep, Resolve, PersistResult, PersistFailure, ExecutionAborts, Running
  <2>2. ASSUME NEW located \in BOOLEAN, Resolve(s, located) PROVE PendingItemsExpire'
    BY <2>1, <2>2 DEF Resolve
  <2>3. CASE PersistResult(s)
    BY <2>1, <2>3 DEF PersistResult, End
  <2>4. CASE PersistFailure(s)
    BY <2>1, <2>4 DEF PersistFailure, End
  <2>5. CASE ExecutionAborts(s)
    BY <2>1, <2>5 DEF ExecutionAborts, End
  <2> QED
    BY <1>4, <2>2, <2>3, <2>4, <2>5 DEF ExecutionStep
<1>5. ASSUME NEW u \in Users, Ask(u) PROVE PendingItemsExpire'
  BY <1>5 DEF Ask
<1>6. ASSUME NEW u \in Users, HandleRequest(u) PROVE PendingItemsExpire'
  <2>1. CASE AnswerFromItem(u) \/ MissItem(u) \/ StartExecutionFails(u) \/ RequestFails(u)
    BY <2>1 DEF AnswerFromItem, MissItem, StartExecutionFails, RequestFails
  <2>2. CASE FindPending(u)
    BY <2>2 DEF FindPending
  <2>3. CASE StartExecution(u)
    BY <2>3 DEF StartExecution, Start
  <2> QED
    BY <1>6, <2>1, <2>2, <2>3 DEF HandleRequest
<1>7. CASE DayPasses
  BY <1>7 DEF DayPasses
<1>8. CASE UNCHANGED vars
  BY <1>8 DEF vars
<1> QED
  BY <1>1, <1>2, <1>3, <1>4, <1>5, <1>6, <1>7, <1>8 DEF Next, AtRest

-----------------------------------------------------------------------------
(* Names                                                                   *)

\* The name of an execution becomes free only when no request can use it: the
\* item was deleted at least two days before.
LEMMA FreeNameIsUseless ==
  ASSUME SurveyInvariant, NEW s \in Surveys, NameExpires(s)
  PROVE  items[s] # "stored" /\ \A u \in Users : SurveyOf[u] = s => stage[u] # "start"
<1>1. now >= sentOn[s] + NameDays
  BY BoundsAssumption DEF SurveyInvariant, NamesAreKept, NameExpires, TypeOK
<1>2. items[s] # "stored"
  BY <1>1, BoundsAssumption, NamesAssumption DEF SurveyInvariant, PendingItemsExpire, TypeOK
<1>3. ASSUME NEW u \in Users, SurveyOf[u] = s, stage[u] = "start" PROVE FALSE
  <2>1. now <= askedOn[u] + 1 /\ askedOn[u] <= sentOn[s] + Ttl + Lag
    BY <1>3 DEF SurveyInvariant, PendingItemsExpire
  <2> QED
    BY <1>1, <2>1, BoundsAssumption, NamesAssumption DEF SurveyInvariant, TypeOK
<1> QED
  BY <1>2, <1>3

\* A survey has one execution at most, however many requests reach
\* StartExecution and whenever they do.
LEMMA NextNamesAreKept ==
  ASSUME SurveyInvariant, [Next]_vars
  PROVE  NamesAreKept'
<1> USE SurveysAssumption DEF SurveyInvariant, TypeOK, NamesAreKept, userVars, tableVars,
        executionVars, Respond
<1>1. ASSUME NEW s \in Surveys, StoreSurvey(s) PROVE NamesAreKept'
  <2>1. executions[s] = "none" /\ runs[s] = 0
    BY <1>1 DEF StoreSurvey, PendingItemsExpire
  <2> QED
    BY <1>1, <2>1 DEF StoreSurvey
<1>2. ASSUME NEW s \in Surveys, DeleteItem(s) PROVE NamesAreKept'
  BY <1>2 DEF DeleteItem
<1>3. ASSUME NEW s \in Surveys, NameExpires(s) PROVE NamesAreKept'
  BY <1>3, FreeNameIsUseless DEF NameExpires
<1>4. ASSUME NEW s \in Surveys, ExecutionStep(s) PROVE NamesAreKept'
  <2>1. executions[s] # "none"
    BY <1>4 DEF ExecutionStep, Resolve, PersistResult, PersistFailure, ExecutionAborts, Running
  <2>2. ASSUME NEW located \in BOOLEAN, Resolve(s, located) PROVE NamesAreKept'
    BY <2>1, <2>2 DEF Resolve
  <2>3. CASE PersistResult(s)
    BY <2>1, <2>3 DEF PersistResult, End
  <2>4. CASE PersistFailure(s)
    BY <2>1, <2>4 DEF PersistFailure, End
  <2>5. CASE ExecutionAborts(s)
    BY <2>1, <2>5 DEF ExecutionAborts, End
  <2> QED
    BY <1>4, <2>2, <2>3, <2>4, <2>5 DEF ExecutionStep
<1>5. ASSUME NEW u \in Users, Ask(u) PROVE NamesAreKept'
  BY <1>5 DEF Ask
<1>6. ASSUME NEW u \in Users, HandleRequest(u) PROVE NamesAreKept'
  <2>1. CASE AnswerFromItem(u) \/ MissItem(u) \/ StartExecutionFails(u) \/ RequestFails(u)
    BY <2>1 DEF AnswerFromItem, MissItem, StartExecutionFails, RequestFails
  <2>2. CASE FindPending(u)
    BY <2>2 DEF FindPending
  <2>3. CASE StartExecution(u)
    <3>1. CASE executions[SurveyOf[u]] # "none"
      BY <2>3, <3>1 DEF StartExecution
    <3>2. CASE executions[SurveyOf[u]] = "none"
      <4>1. runs[SurveyOf[u]] = 0
        <5>1. SurveyOf[u] \in Surveys /\ stage[u] = "start"
          BY <2>3 DEF StartExecution
        <5>2. runs[SurveyOf[u]] # 1
          BY <3>2, <5>1
        <5> QED
          BY <5>1, <5>2
      <4>2. sentOn[SurveyOf[u]] <= now
        BY DEF PendingItemsExpire
      <4>3. /\ executions' = [executions EXCEPT ![SurveyOf[u]] = "resolve"]
            /\ since' = [since EXCEPT ![SurveyOf[u]] = now]
            /\ runs' = [runs EXCEPT ![SurveyOf[u]] = @ + 1]
            /\ stage' = [stage EXCEPT ![u] = "idle"]
            /\ UNCHANGED <<items, sentOn, now>>
        BY <2>3, <3>2 DEF StartExecution, Start
      <4> QED
        BY <4>1, <4>2, <4>3
    <3> QED
      BY <3>1, <3>2
  <2> QED
    BY <1>6, <2>1, <2>2, <2>3 DEF HandleRequest
<1>7. CASE DayPasses
  BY <1>7 DEF DayPasses
<1>8. CASE UNCHANGED vars
  BY <1>8 DEF vars
<1> QED
  BY <1>1, <1>2, <1>3, <1>4, <1>5, <1>6, <1>7, <1>8 DEF Next, AtRest

-----------------------------------------------------------------------------
(* Results                                                                 *)

\* The item and the execution of a survey follow the only answer of the API.
LEMMA NextItemsFollowApi ==
  ASSUME SurveyInvariant, [Next]_vars
  PROVE  ItemsFollowApi'
<1> USE SurveysAssumption DEF SurveyInvariant, TypeOK, ItemsFollowApi, userVars, tableVars,
        executionVars, Respond, Running
<1>1. ASSUME NEW s \in Surveys, StoreSurvey(s) \/ DeleteItem(s) \/ NameExpires(s)
      PROVE  ItemsFollowApi'
  BY <1>1 DEF StoreSurvey, DeleteItem, NameExpires
<1>2. ASSUME NEW s \in Surveys, ExecutionStep(s) PROVE ItemsFollowApi'
  <2>1. runs[s] # 0
    BY <1>2 DEF NamesAreKept, ExecutionStep, Resolve, PersistResult, PersistFailure, ExecutionAborts
  <2>2. ASSUME NEW located \in BOOLEAN, Resolve(s, located) PROVE ItemsFollowApi'
    <3>1. outcomes[s] = {} /\ outcomes'[s] = {located}
      BY <2>2 DEF Resolve
    <3> QED
      BY <2>1, <2>2, <3>1 DEF Resolve
  <2>3. CASE PersistResult(s)
    BY <2>1, <2>3 DEF PersistResult, End
  <2>4. CASE PersistFailure(s)
    BY <2>1, <2>4 DEF PersistFailure, End
  <2>5. CASE ExecutionAborts(s)
    BY <2>1, <2>5 DEF ExecutionAborts, End
  <2> QED
    BY <1>2, <2>2, <2>3, <2>4, <2>5 DEF ExecutionStep
<1>3. ASSUME NEW u \in Users, Ask(u) PROVE ItemsFollowApi'
  BY <1>3 DEF Ask
<1>4. ASSUME NEW u \in Users, HandleRequest(u) PROVE ItemsFollowApi'
  <2>1. CASE UNCHANGED <<items, executions, outcomes, runs>>
    BY <2>1
  <2>2. CASE StartExecution(u)
    <3>1. CASE executions[SurveyOf[u]] # "none"
      BY <2>1, <2>2, <3>1 DEF StartExecution
    <3>2. CASE executions[SurveyOf[u]] = "none"
      <4>1. runs[SurveyOf[u]] = 0
        BY <2>2, <3>2 DEF StartExecution, NamesAreKept
      <4> QED
        BY <2>2, <3>2, <4>1 DEF StartExecution, Start
    <3> QED
      BY <3>1, <3>2
  <2> QED
    BY <1>4, <2>1, <2>2
       DEF HandleRequest, AnswerFromItem, MissItem, FindPending, StartExecutionFails, RequestFails
<1>5. CASE DayPasses
  BY <1>5 DEF DayPasses
<1>6. CASE UNCHANGED vars
  BY <1>6 DEF vars
<1> QED
  BY <1>1, <1>2, <1>3, <1>4, <1>5, <1>6 DEF Next, AtRest

\* What a user was told stays what the API has told the execution.
LEMMA NextUsersAgree ==
  ASSUME SurveyInvariant, [Next]_vars
  PROVE  UsersAgree'
<1> USE SurveysAssumption DEF SurveyInvariant, TypeOK, UsersAgree, userVars, tableVars,
        executionVars, Respond
<1>1. ASSUME NEW s \in Surveys, ExecutionStep(s) PROVE UsersAgree'
  <2>1. ASSUME NEW located \in BOOLEAN, Resolve(s, located) PROVE UsersAgree'
    <3>1. outcomes[s] = {}
      BY <2>1 DEF Resolve, ItemsFollowApi
    <3> QED
      BY <2>1, <3>1 DEF Resolve
  <2>2. CASE PersistResult(s) \/ PersistFailure(s) \/ ExecutionAborts(s)
    BY <2>2 DEF PersistResult, PersistFailure, ExecutionAborts, End
  <2> QED
    BY <1>1, <2>1, <2>2 DEF ExecutionStep
<1>2. ASSUME NEW u \in Users, HandleRequest(u) PROVE UsersAgree'
  <2>1. CASE AnswerFromItem(u)
    BY <2>1 DEF AnswerFromItem, Final, ItemsFollowApi
  <2>2. CASE MissItem(u) \/ StartExecutionFails(u) \/ RequestFails(u)
    BY <2>2 DEF MissItem, StartExecutionFails, RequestFails
  <2>3. CASE FindPending(u)
    BY <2>3 DEF FindPending
  <2>4. CASE StartExecution(u)
    BY <2>4 DEF StartExecution, Start
  <2> QED
    BY <1>2, <2>1, <2>2, <2>3, <2>4 DEF HandleRequest
<1>3. ASSUME NEW u \in Users, Ask(u) PROVE UsersAgree'
  BY <1>3 DEF Ask
<1>4. ASSUME NEW s \in Surveys, StoreSurvey(s) \/ DeleteItem(s) \/ NameExpires(s)
      PROVE  UsersAgree'
  BY <1>4 DEF StoreSurvey, DeleteItem, NameExpires
<1>5. CASE DayPasses \/ UNCHANGED vars
  BY <1>5 DEF DayPasses, vars
<1> QED
  BY <1>1, <1>2, <1>3, <1>4, <1>5 DEF Next, AtRest

-----------------------------------------------------------------------------
(* The invariant                                                           *)

\* The system starts in a state that satisfies the invariant.
LEMMA InitSurveyInvariant == Init => SurveyInvariant
BY SurveysAssumption, BoundsAssumption
   DEF Init, SurveyInvariant, TypeOK, Stages, Answers, Items, Running, PendingItemsExpire,
       NamesAreKept, ItemsFollowApi, UsersAgree

\* Items, names, executions and answers are always what the invariant says.
THEOREM SurveyInvariantHolds == Spec => []SurveyInvariant
<1>1. SurveyInvariant /\ [Next]_vars => SurveyInvariant'
  BY NextTypeOK, NextPendingItemsExpire, NextNamesAreKept, NextItemsFollowApi, NextUsersAgree
     DEF SurveyInvariant
<1> QED
  BY <1>1, InitSurveyInvariant, PTL DEF Spec

\* There is never more than one execution for a survey: the life of an item is
\* shorter than the reservation of a name.
THEOREM SurveyRunsOnce == Spec => []OneExecution
<1>1. SurveyInvariant => OneExecution
  BY DEF SurveyInvariant, NamesAreKept, OneExecution
<1> QED
  BY <1>1, SurveyInvariantHolds, PTL

\* Users of a survey are told the same result, the one the API has given.
THEOREM SurveyAnswersAgree == Spec => []UsersAgree
<1>1. SurveyInvariant => UsersAgree
  BY DEF SurveyInvariant
<1> QED
  BY <1>1, SurveyInvariantHolds, PTL

-----------------------------------------------------------------------------
(* In process                                                              *)

\* Without failures an execution that has ended has left a result or the mark that
\* there is none, which goes only with the item.
EndedHasPersisted ==
  faults = 0 => \A s \in Surveys : executions[s] = "ended" => items[s] \in Final \cup {"absent"}

\* An execution ends by writing to the item; a survey is stored only once.
LEMMA NextEndedHasPersisted ==
  ASSUME SurveyInvariant, EndedHasPersisted, [Next]_vars
  PROVE  EndedHasPersisted'
<1> SUFFICES ASSUME faults' = 0, NEW s \in Surveys, executions'[s] = "ended"
             PROVE  items'[s] \in Final \cup {"absent"}
  BY DEF EndedHasPersisted
<1> USE DEF SurveyInvariant, TypeOK, Final, tableVars, executionVars, userVars
<1>1. faults = 0 /\ ~Fail
  <2>1. Fail \/ faults' = faults
    BY DEF Next, AtRest, StoreSurvey, DeleteItem, NameExpires, DayPasses, Ask, HandleRequest,
           AnswerFromItem, MissItem, RequestFails, FindPending, StartExecution,
           StartExecutionFails, ExecutionStep, Resolve, PersistResult, PersistFailure,
           ExecutionAborts, vars
  <2> QED
    BY <2>1 DEF Fail
<1>2. executions[s] = "ended" => items[s] \in Final \cup {"absent"}
  BY <1>1 DEF EndedHasPersisted
<1>3. ASSUME NEW r \in Surveys, StoreSurvey(r) PROVE items'[s] \in Final \cup {"absent"}
  BY <1>2, <1>3 DEF StoreSurvey, PendingItemsExpire
<1>4. ASSUME NEW r \in Surveys, DeleteItem(r) PROVE items'[s] \in Final \cup {"absent"}
  BY <1>2, <1>4 DEF DeleteItem
<1>5. ASSUME NEW r \in Surveys, NameExpires(r) PROVE items'[s] \in Final \cup {"absent"}
  BY <1>2, <1>5 DEF NameExpires
<1>6. ASSUME NEW r \in Surveys, ExecutionStep(r) PROVE items'[s] \in Final \cup {"absent"}
  BY <1>1, <1>2, <1>6
     DEF ExecutionStep, Resolve, PersistResult, PersistFailure, ExecutionAborts, End
<1>7. ASSUME NEW u \in Users, Ask(u) \/ HandleRequest(u)
      PROVE  items'[s] \in Final \cup {"absent"}
  BY <1>2, <1>7
     DEF Ask, HandleRequest, AnswerFromItem, MissItem, RequestFails, FindPending, StartExecution,
         StartExecutionFails, Start, Respond
<1>8. CASE DayPasses \/ UNCHANGED vars
  BY <1>2, <1>8 DEF DayPasses, vars
<1> QED
  BY <1>3, <1>4, <1>5, <1>6, <1>7, <1>8 DEF Next, AtRest

\* "In process" is said by a request that has just started the execution, or has
\* found it running or ended: without failures, something is or was persisted.
THEOREM ConflictIsTrue == Spec => ConflictMeansInProcess
<1> DEFINE Meant ==
      \A u \in Users :
        faults' = 0 /\ stage[u] = "start" /\ stage'[u] = "idle" /\ answer'[u] = "inProcess" =>
          executions'[SurveyOf[u]] \in Running \/ items'[SurveyOf[u]] \in Final \cup {"absent"}
<1>1. Init => SurveyInvariant /\ EndedHasPersisted
  BY InitSurveyInvariant DEF Init, EndedHasPersisted
<1>2. SurveyInvariant /\ EndedHasPersisted /\ [Next]_vars => (SurveyInvariant /\ EndedHasPersisted)'
  BY NextTypeOK, NextPendingItemsExpire, NextNamesAreKept, NextItemsFollowApi, NextUsersAgree,
     NextEndedHasPersisted DEF SurveyInvariant
<1>3. ASSUME SurveyInvariant, (SurveyInvariant /\ EndedHasPersisted)', [Next]_vars,
             NEW u \in Users, faults' = 0,
             stage[u] = "start", stage'[u] = "idle", answer'[u] = "inProcess"
      PROVE  executions'[SurveyOf[u]] \in Running \/ items'[SurveyOf[u]] \in Final \cup {"absent"}
  <2>1. ~Fail
    BY <1>3 DEF Fail, SurveyInvariant, TypeOK
  <2>2. StartExecution(u)
    <3>1. \E v \in Users : Ask(v) \/ HandleRequest(v)
      BY <1>3 DEF Next, AtRest, StoreSurvey, DeleteItem, NameExpires, DayPasses, ExecutionStep,
                  Resolve, PersistResult, PersistFailure, ExecutionAborts, End, userVars, vars
    <3>2. HandleRequest(u)
      BY <1>3, <3>1 DEF Ask, HandleRequest, AnswerFromItem, MissItem, RequestFails, FindPending,
                        StartExecution, StartExecutionFails, Respond, SurveyInvariant, TypeOK
    <3> QED
      BY <1>3, <2>1, <3>2 DEF HandleRequest, AnswerFromItem, MissItem, RequestFails, FindPending,
                              StartExecutionFails
  <2>3. executions'[SurveyOf[u]] # "none"
    BY <1>3, <2>2, SurveysAssumption
       DEF StartExecution, Start, executionVars, SurveyInvariant, TypeOK
  <2>4. executions'[SurveyOf[u]] \in Running \cup {"ended"}
    BY <1>3, <2>3, SurveysAssumption DEF SurveyInvariant, TypeOK
  <2> QED
    BY <1>3, <2>4, SurveysAssumption DEF EndedHasPersisted
<1>4. /\ SurveyInvariant /\ EndedHasPersisted /\ (SurveyInvariant /\ EndedHasPersisted)'
      /\ [Next]_vars
      => [Meant]_vars
  BY <1>3
<1> QED
  BY <1>1, <1>2, <1>4, PTL DEF Spec, ConflictMeansInProcess

-----------------------------------------------------------------------------
(* Refinement                                                              *)

\* Whoever has a result asks no more, so that no answer is taken back.
ResultsAreFinal == \A u \in Users : stage[u] # "idle" => answer[u] \notin Final

\* No step replaces the result of a survey by another one.
LEMMA NextResultsAreFinal == TypeOK /\ ResultsAreFinal /\ [Next]_vars => ResultsAreFinal'
<1> SUFFICES ASSUME TypeOK, ResultsAreFinal, [Next]_vars PROVE ResultsAreFinal'
  OBVIOUS
<1> USE DEF TypeOK, ResultsAreFinal, userVars, tableVars, executionVars, Respond
<1>1. ASSUME NEW s \in Surveys, StoreSurvey(s) \/ DeleteItem(s) \/ NameExpires(s)
      PROVE  ResultsAreFinal'
  BY <1>1 DEF StoreSurvey, DeleteItem, NameExpires
<1>2. ASSUME NEW s \in Surveys, ExecutionStep(s) PROVE ResultsAreFinal'
  BY <1>2 DEF ExecutionStep, Resolve, PersistResult, PersistFailure, ExecutionAborts, End
<1>3. ASSUME NEW u \in Users, Ask(u) PROVE ResultsAreFinal'
  BY <1>3 DEF Ask
<1>4. ASSUME NEW u \in Users, HandleRequest(u) PROVE ResultsAreFinal'
  BY <1>4 DEF HandleRequest, AnswerFromItem, MissItem, FindPending, StartExecution,
     StartExecutionFails, RequestFails
<1>5. CASE DayPasses
  BY <1>5 DEF DayPasses
<1>6. CASE UNCHANGED vars
  BY <1>6 DEF vars
<1> QED
  BY <1>1, <1>2, <1>3, <1>4, <1>5, <1>6 DEF Next, AtRest

\* What is put, learned and told follows from these three variables.
LEMMA StutterWithoutChange ==
  ASSUME UNCHANGED <<runs, outcomes, answer>>
  PROVE  UNCHANGED Resolution!vars
BY DEF Resolution!vars

\* An answer that is no result tells nothing.
LEMMA ToldUnchanged ==
  ASSUME TypeOK, ResultsAreFinal, NEW u \in Users, stage[u] # "idle", NEW a, a \notin Final,
         Respond(u, a)
  PROVE  [v \in Users |-> Told(answer'[v])] = [v \in Users |-> Told(answer[v])]
<1>1. \A v \in Users : Told(answer'[v]) = Told(answer[v])
  <2>1. Told(answer[u]) = {} /\ Told(a) = {}
    BY DEF ResultsAreFinal, Final, Told
  <2> QED
    BY <2>1 DEF Respond, TypeOK
<1> QED
  BY <1>1

\* A request that starts no execution tells nothing, or the answer of the API.
LEMMA AnswersAreTold ==
  ASSUME SurveyInvariant, ResultsAreFinal, NEW u \in Users, AnswerFromItem(u)
  PROVE  \E outcome \in Resolution!Outcomes : Resolution!Tell({u}, outcome)
<1> DEFINE result == items[SurveyOf[u]]
           outcome == IF result = "located" THEN "found" ELSE "nothing"
<1>1. SurveyOf[u] \in Surveys
  BY SurveysAssumption
<1>2. outcome \in Resolution!Outcomes /\ Outcome(outcomes[SurveyOf[u]]) = outcome
  BY <1>1 DEF AnswerFromItem, Final, SurveyInvariant, ItemsFollowApi, Outcome,
     Resolution!Outcomes
<1>3. Told(answer[u]) = {} /\ Told(result) = {outcome}
  BY DEF AnswerFromItem, ResultsAreFinal, Final, Told
<1>4. \A v \in Users : Told(answer'[v]) = IF v = u THEN Told(answer[v]) \cup {outcome}
                                           ELSE Told(answer[v])
  BY <1>3 DEF AnswerFromItem, Respond, SurveyInvariant, TypeOK
<1>5. UNCHANGED <<runs, outcomes>>
  BY DEF AnswerFromItem, executionVars
<1> HIDE DEF outcome
<1>6. Resolution!Tell({u}, outcome)
  BY <1>1, <1>2, <1>4, <1>5 DEF Resolution!Tell
<1> QED
  BY <1>2, <1>6

\* The start of an execution puts the question, for the first and only time.
LEMMA StartPutsQuestion ==
  ASSUME SurveyInvariant, ResultsAreFinal, NEW u \in Users, StartExecution(u)
  PROVE  [Resolution!Next]_(Resolution!vars)
<1> DEFINE s == SurveyOf[u]
<1>1. s \in Surveys
  BY SurveysAssumption
<1>2. [v \in Users |-> Told(answer'[v])] = [v \in Users |-> Told(answer[v])]
  BY ToldUnchanged DEF StartExecution, SurveyInvariant, Final
<1>3. CASE executions[s] = "none"
  <2>1. runs[s] = 0
    BY <1>1, <1>3 DEF StartExecution, SurveyInvariant, NamesAreKept, TypeOK
  <2>2. \A t \in Surveys : runs'[t] > 0 <=> (t = s \/ runs[t] > 0)
    BY <1>1, <1>3, <2>1 DEF StartExecution, Start, SurveyInvariant, TypeOK
  <2>3. UNCHANGED outcomes
    BY <1>3 DEF StartExecution, Start
  <2> HIDE DEF s
  <2>4. Resolution!PutQuestion(s)
    BY <1>1, <1>2, <2>1, <2>2, <2>3 DEF Resolution!PutQuestion
  <2> QED
    BY <1>1, <2>4 DEF Resolution!Next
<1>4. CASE executions[s] # "none"
  <2>1. UNCHANGED <<runs, outcomes>>
    BY <1>4 DEF StartExecution, executionVars
  <2> QED
    BY <1>2, <2>1 DEF Resolution!vars
<1> QED
  BY <1>3, <1>4

\* With its answer, an execution learns it, for the first and only time.
LEMMA ResolveLearns ==
  ASSUME SurveyInvariant, NEW s \in Surveys, NEW located \in BOOLEAN, Resolve(s, located)
  PROVE  Resolution!Next
<1> DEFINE outcome == IF located THEN "found" ELSE "nothing"
<1>1. runs[s] > 0 /\ outcomes[s] = {}
  <2>1. executions[s] = "resolve"
    BY DEF Resolve
  <2>2. runs[s] = 1
    BY <2>1 DEF SurveyInvariant, NamesAreKept
  <2>3. outcomes[s] = {}
    BY <2>1 DEF SurveyInvariant, ItemsFollowApi
  <2> QED
    BY <2>2, <2>3
<1>2. outcome \in Resolution!Outcomes /\ Outcome({located}) = outcome /\ Outcome({}) = "open"
  BY DEF Outcome, Resolution!Outcomes
<1>3. \A t \in Surveys : outcomes'[t] = IF t = s THEN {located} ELSE outcomes[t]
  BY <1>1 DEF Resolve, SurveyInvariant, TypeOK
<1>4. UNCHANGED <<runs, answer>>
  BY DEF Resolve, userVars
<1> HIDE DEF outcome
<1>5. Resolution!Learn(s, outcome)
  BY <1>1, <1>2, <1>3, <1>4 DEF Resolution!Learn
<1> QED
  BY <1>2, <1>5 DEF Resolution!Next

\* Every step of the geolocation is a step of the abstract service or none.
LEMMA NextResolution ==
  ASSUME SurveyInvariant, ResultsAreFinal, [Next]_vars
  PROVE  [Resolution!Next]_(Resolution!vars)
<1> USE DEF userVars, tableVars, executionVars
<1>1. ASSUME NEW s \in Surveys, StoreSurvey(s) \/ DeleteItem(s) \/ NameExpires(s)
      PROVE  [Resolution!Next]_(Resolution!vars)
  BY <1>1, StutterWithoutChange DEF StoreSurvey, DeleteItem, NameExpires
<1>2. ASSUME NEW s \in Surveys, ExecutionStep(s)
      PROVE  [Resolution!Next]_(Resolution!vars)
  <2>1. ASSUME NEW located \in BOOLEAN, Resolve(s, located)
        PROVE  [Resolution!Next]_(Resolution!vars)
    BY <2>1, ResolveLearns
  <2>2. CASE PersistResult(s) \/ PersistFailure(s) \/ ExecutionAborts(s)
    BY <2>2, StutterWithoutChange DEF PersistResult, PersistFailure, ExecutionAborts, End
  <2> QED
    BY <1>2, <2>1, <2>2 DEF ExecutionStep
<1>3. ASSUME NEW u \in Users, Ask(u) PROVE [Resolution!Next]_(Resolution!vars)
  BY <1>3, StutterWithoutChange DEF Ask
<1>4. ASSUME NEW u \in Users, HandleRequest(u) PROVE [Resolution!Next]_(Resolution!vars)
  <2>1. CASE AnswerFromItem(u)
    BY <2>1, AnswersAreTold DEF Resolution!Next
  <2>2. CASE FindPending(u)
    BY <2>2, StutterWithoutChange DEF FindPending
  <2>3. CASE StartExecution(u)
    BY <2>3, StartPutsQuestion
  <2>4. CASE MissItem(u) \/ StartExecutionFails(u) \/ RequestFails(u)
    <3>1. PICK a \in {"notFound", "inProcess", "error"} : Respond(u, a)
      BY <2>4 DEF MissItem, StartExecutionFails, RequestFails
    <3>2. stage[u] # "idle" /\ a \notin Final
      BY <2>4 DEF MissItem, StartExecutionFails, RequestFails, Final
    <3>3. [v \in Users |-> Told(answer'[v])] = [v \in Users |-> Told(answer[v])]
      BY <3>1, <3>2, ToldUnchanged DEF SurveyInvariant
    <3>4. UNCHANGED <<runs, outcomes>>
      BY <2>4 DEF MissItem, StartExecutionFails, RequestFails
    <3> QED
      BY <3>3, <3>4 DEF Resolution!vars
  <2> QED
    BY <1>4, <2>1, <2>2, <2>3, <2>4 DEF HandleRequest
<1>5. CASE DayPasses
  BY <1>5, StutterWithoutChange DEF DayPasses
<1>6. CASE UNCHANGED vars
  BY <1>6, StutterWithoutChange DEF vars
<1> QED
  BY <1>1, <1>2, <1>3, <1>4, <1>5, <1>6 DEF Next, AtRest

\* Before the first request no survey is asked and none is settled.
LEMMA InitResolution == Init => Resolution!Init
BY DEF Init, Resolution!Init, Outcome, Told

\* The geolocation of surveys implements the service that resolves a question
\* once: no survey is put to the API twice, and users are told what came of it.
THEOREM SurveyImplementsResolveOnce == Spec => ResolvesOnce
<1>1. Init => ResultsAreFinal
  BY DEF Init, ResultsAreFinal
<1>2. SurveyInvariant /\ ResultsAreFinal /\ [Next]_vars => ResultsAreFinal'
  BY NextResultsAreFinal DEF SurveyInvariant
<1>3. SurveyInvariant /\ ResultsAreFinal /\ [Next]_vars => [Resolution!Next]_(Resolution!vars)
  BY NextResolution
<1> QED
  BY <1>1, <1>2, <1>3, InitResolution, SurveyInvariantHolds, PTL
     DEF Spec, ResolvesOnce, Resolution!Spec

-----------------------------------------------------------------------------
(* What is left of a survey                                                *)

\* An item has the attribute ttl until it is deleted, which is not before its
\* time to live; an execution has run whenever there is a result.
DeletedAfterTtl ==
  \A s \in Surveys :
    /\ items[s] # "unsent" /\ s \notin expiring => now >= sentOn[s] + Ttl
    /\ items[s] \in Final => runs[s] > 0
    /\ items[s] \in Final /\ s \notin expiring => since[s] >= sentOn[s] + Ttl

LEMMA NextDeletedAfterTtl ==
  ASSUME SurveyInvariant, DeletedAfterTtl, [Next]_vars
  PROVE  DeletedAfterTtl'
<1> USE BoundsAssumption DEF SurveyInvariant, TypeOK, tableVars, executionVars, Final
<1>1. ASSUME NEW s \in Surveys, StoreSurvey(s) PROVE DeletedAfterTtl'
  BY <1>1 DEF StoreSurvey, DeletedAfterTtl
<1>2. ASSUME NEW s \in Surveys, DeleteItem(s) PROVE DeletedAfterTtl'
  BY <1>2 DEF DeleteItem, DeletedAfterTtl, PendingItemsExpire
<1>3. ASSUME NEW s \in Surveys, NameExpires(s) PROVE DeletedAfterTtl'
  BY <1>3 DEF NameExpires, DeletedAfterTtl
<1>4. ASSUME NEW s \in Surveys, PersistResult(s) \/ PersistFailure(s) PROVE DeletedAfterTtl'
  <2>1. runs[s] = 1 /\ items[s] # "unsent"
    BY <1>4 DEF PersistResult, PersistFailure, NamesAreKept, PendingItemsExpire
  <2>2. /\ UNCHANGED <<expiring, sentOn, runs, now>>
        /\ since' = [since EXCEPT ![s] = now]
        /\ \A t \in Surveys \ {s} : items'[t] = items[t]
    BY <1>4 DEF PersistResult, PersistFailure, End
  <2> QED
    BY <2>1, <2>2 DEF DeletedAfterTtl
<1>5. ASSUME NEW s \in Surveys, NEW located \in BOOLEAN, Resolve(s, located)
      PROVE  DeletedAfterTtl'
  BY <1>5 DEF Resolve, DeletedAfterTtl
<1>6. ASSUME NEW s \in Surveys, ExecutionAborts(s) PROVE DeletedAfterTtl'
  BY <1>6 DEF ExecutionAborts, End, DeletedAfterTtl
<1>7. ASSUME NEW u \in Users, Ask(u) PROVE DeletedAfterTtl'
  BY <1>7 DEF Ask, DeletedAfterTtl
<1>8. ASSUME NEW u \in Users, StartExecution(u) PROVE DeletedAfterTtl'
  <2>1. SurveyOf[u] \in Surveys
    BY SurveysAssumption
  <2>2. UNCHANGED <<items, expiring, sentOn, now>>
    BY <1>8 DEF StartExecution, Respond
  <2>3. CASE UNCHANGED <<since, runs>>
    BY <2>2, <2>3 DEF DeletedAfterTtl
  <2>4. CASE Start(SurveyOf[u])
    BY <2>1, <2>2, <2>4 DEF Start, DeletedAfterTtl
  <2> QED
    BY <1>8, <2>3, <2>4 DEF StartExecution
<1>9. ASSUME NEW u \in Users,
             \/ AnswerFromItem(u) \/ MissItem(u) \/ FindPending(u)
             \/ StartExecutionFails(u) \/ RequestFails(u)
      PROVE  DeletedAfterTtl'
  <2>1. UNCHANGED <<tableVars, executionVars, now>>
    BY <1>9 DEF AnswerFromItem, MissItem, FindPending, StartExecutionFails, RequestFails, Respond
  <2> QED
    BY <2>1 DEF DeletedAfterTtl
<1>10. CASE DayPasses
  BY <1>10 DEF DayPasses, DeletedAfterTtl
<1>11. CASE UNCHANGED vars
  BY <1>11 DEF vars, DeletedAfterTtl
<1> QED
  BY <1>1, <1>2, <1>3, <1>4, <1>5, <1>6, <1>7, <1>8, <1>9, <1>10, <1>11
     DEF Next, HandleRequest, ExecutionStep, AtRest

(***************************************************************************)
(* "Delete survey after 30 days" fails for one kind of item only: a result *)
(* of an execution that ended after the time to live.                      *)
(***************************************************************************)
THEOREM OnlyLateResultsAreLeft == Spec => []LeftoversCameLate
<1>1. Init => DeletedAfterTtl
  BY DEF Init, DeletedAfterTtl, Final
<1>2. SurveyInvariant /\ DeletedAfterTtl /\ [Next]_vars => DeletedAfterTtl'
  BY NextDeletedAfterTtl
<1>3. SurveyInvariant /\ DeletedAfterTtl => LeftoversCameLate
  BY DEF SurveyInvariant, TypeOK, PendingItemsExpire, NamesAreKept, DeletedAfterTtl,
     LeftoversCameLate, Items, Final
<1> QED
  BY <1>1, <1>2, <1>3, SurveyInvariantHolds, PTL DEF Spec

-----------------------------------------------------------------------------
(* What follows from the abstract specification alone                      *)

Promise == INSTANCE ResolveOnce_proofs WITH
  Questions <- Surveys,
  Askers <- Users,
  QuestionsOf <- [u \in Users |-> {SurveyOf[u]}],
  put <- {s \in Surveys : runs[s] > 0},
  learned <- [s \in Surveys |-> Outcome(outcomes[s])],
  told <- [u \in Users |-> Told(answer[u])]

\* The two instances of the abstract specification are the same.
LEMMA PromiseIsResolution ==
  /\ Resolution!Init => Promise!Init
  /\ [Resolution!Next]_(Resolution!vars) => [Promise!Next]_(Promise!vars)
BY DEF Resolution!Init, Promise!Init, Resolution!Next, Promise!Next, Resolution!vars,
       Promise!vars, Resolution!Outcomes, Promise!Outcomes, Resolution!PutQuestion,
       Promise!PutQuestion, Resolution!Learn, Promise!Learn, Resolution!Lose, Promise!Lose,
       Resolution!Tell, Promise!Tell

(***************************************************************************)
(* Users are told the same of a survey; and no step of the handler, of an  *)
(* execution, of DynamoDB or of time puts another answer of the API in the *)
(* place of the first one, or takes a final answer back from a user.       *)
(***************************************************************************)
THEOREM SurveyKeepsPromises == Spec => []Promise!AskersAgree /\ Promise!NothingIsUndone
<1>1. Promise!Spec => []Promise!AskersAgree
  <2>1. [u \in Users |-> {SurveyOf[u]}] \in [Users -> SUBSET Surveys]
    BY SurveysAssumption
  <2> QED
    BY <2>1, Promise!NoSecondOpinion
<1>2. Promise!Spec => Promise!NothingIsUndone
  BY Promise!OnlyAdds
<1> QED
  BY <1>1, <1>2, PromiseIsResolution, SurveyImplementsResolveOnce, PTL
     DEF ResolvesOnce, Resolution!Spec, Promise!Spec
=============================================================================
