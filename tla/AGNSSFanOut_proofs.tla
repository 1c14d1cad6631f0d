------------------------ MODULE AGNSSFanOut_proofs -------------------------
(***************************************************************************)
(* Proofs about the A-GNSS fan-out, for any number of devices, locations,  *)
(* Lambda instances, hours and failures.                                   *)
(***************************************************************************)
EXTENDS AGNSSFanOutProperties, TLAPS

-----------------------------------------------------------------------------
(* Bags of messages                                                        *)

\* The sum of two bags, which the handler uses to send messages, is a bag.
LEMMA SumIsBag ==
  ASSUME NEW a \in Bags, NEW b \in Bags
  PROVE  /\ a (+) b \in Bags
         /\ \A r \in Requests : (a (+) b)[r] = a[r] + b[r]
BY DEF Bags, (+)

\* Taking a bag out of a larger one, as an invocation does, leaves a bag.
LEMMA DifferenceIsBag ==
  ASSUME NEW a \in Bags, NEW b \in Bags, \A r \in Requests : b[r] <= a[r]
  PROVE  /\ a (-) b \in Bags
         /\ \A r \in Requests : (a (-) b)[r] = a[r] - b[r]
BY DEF Bags, (-)

\* The bags an action chooses from are bags, and contained in the given one.
LEMMA SubBagIsBag ==
  ASSUME NEW b \in Bags, NEW s \in SubBags(b)
  PROVE  /\ s \in Bags
         /\ \A r \in Requests : s[r] <= b[r]
BY BoundsAssumption DEF Bags, SubBags

\* The empty bag is a bag.
LEMMA NoMessagesIsBag == NoMessages \in Bags
BY DEF NoMessages, Bags

\* A group, its requests that are young enough and its cancelled requests are
\* bags that share the messages of the group.
LEMMA GroupIsBag ==
  ASSUME TypeOK, NEW i \in Instances, NEW l \in Locations
  PROVE  /\ Group(i, l) \in Bags
         /\ Due(i, l) \in Bags
         /\ Cancelled(i, l) \in Bags
         /\ \A r \in Requests : Due(i, l)[r] <= Group(i, l)[r]
<1>1. batch[i] \in Bags
  BY DEF TypeOK
<1>2. Group(i, l) \in Bags
  BY <1>1 DEF Group, Bags
<1>3. Due(i, l) \in Bags /\ \A r \in Requests : Due(i, l)[r] <= Group(i, l)[r]
  BY <1>2 DEF Due, Bags
<1>4. Cancelled(i, l) \in Bags
  BY <1>2, <1>3, DifferenceIsBag DEF Cancelled
<1> QED
  BY <1>2, <1>3, <1>4

\* A cache key is a key of the table.
LEMMA KeyOfIsKey ==
  ASSUME TypeOK, NEW i \in Instances, NEW l \in Locations
  PROVE  KeyOf(i, l) \in Keys
BY DEF TypeOK, KeyOf, cacheKey, Keys

-----------------------------------------------------------------------------
(* Types                                                                   *)

\* The system starts in a state of the right type.
LEMMA InitTypeOK == Init => TypeOK
BY NoMessagesIsBag, BoundsAssumption
   DEF Init, TypeOK, Stages, Local, Entries, ExecutionStates

\* Devices, clocks, the queue and the table's time to live keep the types.
LEMMA EnvironmentTypeOK ==
  ASSUME TypeOK,
         \/ \E r \in Requests : DeviceRequest(r) \/ RequestAges(r) \/ RetentionEnds(r)
         \/ HourPasses
         \/ \E i \in Instances, r \in Requests : VisibilityEnds(i, r)
         \/ \E k \in Keys : EntryExpires(k)
  PROVE  TypeOK'
<1>1. ASSUME NEW r \in Requests, DeviceRequest(r) PROVE TypeOK'
  BY <1>1 DEF DeviceRequest, TypeOK, Bags, handlerVars, executionVars
<1>2. ASSUME NEW r \in Requests, RequestAges(r) PROVE TypeOK'
  BY <1>2 DEF RequestAges, TypeOK, handlerVars, executionVars
<1>3. ASSUME NEW r \in Requests, RetentionEnds(r) PROVE TypeOK'
  BY <1>3 DEF RetentionEnds, TypeOK, Bags, Fates, deviceVars, handlerVars, executionVars
<1>4. CASE HourPasses
  BY <1>4, BoundsAssumption DEF HourPasses, TypeOK, handlerVars, executionVars
<1>5. ASSUME NEW i \in Instances, NEW r \in Requests, VisibilityEnds(i, r) PROVE TypeOK'
  BY <1>5, BoundsAssumption
     DEF VisibilityEnds, Fail, CanFail, TypeOK, Bags, deviceVars, handlerVars, executionVars
<1>6. ASSUME NEW k \in Keys, EntryExpires(k) PROVE TypeOK'
  BY <1>6 DEF EntryExpires, TypeOK, Entries, deviceVars, handlerVars, executionVars
<1> QED
  BY <1>1, <1>2, <1>3, <1>4, <1>5, <1>6

\* Every step of an invocation keeps the types.
LEMMA HandleTypeOK ==
  ASSUME TypeOK, NEW i \in Instances, NEW l \in Locations, Handle(i, l)
  PROVE  TypeOK'
<1> DEFINE k == KeyOf(i, l)
<1>1. k \in Keys
  BY KeyOfIsKey
<1> USE DEF GoTo, deviceVars, executionVars
<1> HIDE DEF k
<1>2. CASE FindLocal(i, l)
  BY <1>2 DEF FindLocal, TypeOK, Stages
<1>3. CASE GetCacheError(i, l)
  BY <1>3, BoundsAssumption DEF GetCacheError, Fail, CanFail, TypeOK, Stages
<1>4. CASE GetCachePending(i, l)
  BY <1>4 DEF GetCachePending, TypeOK, Stages
<1>5. CASE GetCacheFinished(i, l)
  <2>1. fates["rejected"] (+) Group(i, l) \in Bags
    BY GroupIsBag, SumIsBag DEF TypeOK, Fates
  <2>2. fates' \in [Fates -> Bags]
    BY <1>5, <2>1 DEF GetCacheFinished, TypeOK, Fates
  <2>3. resolvedRequests' \in [Instances -> [Keys -> Local]]
    BY <1>1, <1>5 DEF GetCacheFinished, TypeOK, Local, k
  <2> QED
    BY <1>5, <2>2, <2>3 DEF GetCacheFinished, TypeOK, Stages
<1>6. CASE PutEntry(i, l)
  BY <1>1, <1>6 DEF PutEntry, TypeOK, Stages, Entries, k
<1>7. CASE PutEntryFails(i, l)
  BY <1>7, BoundsAssumption DEF PutEntryFails, Fail, CanFail, TypeOK, Stages
<1>8. CASE StartExecution(i, l)
  BY <1>1, <1>8 DEF StartExecution, TypeOK, Stages, ExecutionStates, Running, k
<1>9. CASE StartExecutionFails(i, l)
  BY <1>9, BoundsAssumption DEF StartExecutionFails, Fail, CanFail, TypeOK, Stages
<1>10. ASSUME NEW lost \in SubBags(Group(i, l)), Publish(i, l, lost) PROVE TypeOK'
  <2>1. /\ lost \in Bags
        /\ Group(i, l) (-) lost \in Bags
    BY GroupIsBag, SubBagIsBag, DifferenceIsBag
  <2>2. /\ fates["delivered"] (+) (Group(i, l) (-) lost) \in Bags
        /\ fates["publishFailed"] (+) lost \in Bags
    BY <2>1, SumIsBag DEF TypeOK, Fates
  <2>3. fates' \in [Fates -> Bags]
    BY <1>10, <2>2 DEF Publish, TypeOK, Fates
  <2>4. faults' \in 0..MaxFaults
    BY <1>10, BoundsAssumption DEF Publish, Fail, CanFail, TypeOK
  <2> QED
    BY <1>10, <2>3, <2>4 DEF Publish, TypeOK, Stages
<1>11. ASSUME NEW lost \in SubBags(Due(i, l)), Requeue(i, l, lost) PROVE TypeOK'
  <2>1. /\ lost \in Bags
        /\ Due(i, l) (-) lost \in Bags
    BY GroupIsBag, SubBagIsBag, DifferenceIsBag
  <2>2. /\ fates["cancelled"] (+) Cancelled(i, l) \in Bags
        /\ fates["requeueFailed"] (+) lost \in Bags
        /\ queue (+) (Due(i, l) (-) lost) \in Bags
    BY <2>1, GroupIsBag, SumIsBag DEF TypeOK, Fates
  <2>3. fates' \in [Fates -> Bags]
    BY <1>11, <2>2 DEF Requeue, TypeOK, Fates
  <2>4. faults' \in 0..MaxFaults
    BY <1>11, BoundsAssumption DEF Requeue, Fail, CanFail, TypeOK
  <2> QED
    BY <1>11, <2>2, <2>3, <2>4 DEF Requeue, TypeOK, Stages
<1> QED
  BY <1>2, <1>3, <1>4, <1>5, <1>6, <1>7, <1>8, <1>9, <1>10, <1>11 DEF Handle

\* The begin and the end of an invocation keep the types.
LEMMA InvocationTypeOK ==
  ASSUME TypeOK, NEW i \in Instances,
         \/ Invoke(i) \/ InvocationEnds(i) \/ InvocationFails(i)
         \/ InstanceDies(i) \/ InstanceRecycled(i)
  PROVE  TypeOK'
<1> USE DEF deviceVars, executionVars
<1>1. queue (+) batch[i] \in Bags
  BY SumIsBag DEF TypeOK
<1>2. Release(i) => /\ batch' \in [Instances -> Bags]
                    /\ stage' \in [Instances -> [Locations -> Stages]]
                    /\ handlerBin' \in [Instances -> 0..MaxBin]
  BY NoMessagesIsBag, BoundsAssumption DEF Release, TypeOK, Stages
<1>3. ASSUME NEW b \in SubBags(queue), Receive(i, b) PROVE TypeOK'
  <2>1. b \in Bags /\ queue (-) b \in Bags
    BY SubBagIsBag, DifferenceIsBag DEF TypeOK
  <2> QED
    BY <1>3, <2>1 DEF Receive, TypeOK, Stages
<1>4. CASE InvocationEnds(i)
  BY <1>2, <1>4 DEF InvocationEnds, TypeOK
<1>5. CASE InvocationFails(i)
  BY <1>1, <1>2, <1>5 DEF InvocationFails, TypeOK
<1>6. CASE InstanceDies(i)
  BY <1>1, <1>2, <1>6, BoundsAssumption DEF InstanceDies, Fail, CanFail, TypeOK, Local
<1>7. CASE InstanceRecycled(i)
  BY <1>7 DEF InstanceRecycled, TypeOK, Local
<1> QED
  BY <1>3, <1>4, <1>5, <1>6, <1>7 DEF Invoke

\* The steps of an execution keep the types.
LEMMA ExecutionTypeOK ==
  ASSUME TypeOK, NEW k \in Keys, ExecutionStep(k)
  PROVE  TypeOK'
<1> USE DEF Advance, deviceVars, handlerVars, TypeOK, ExecutionStates, Running
<1>1. CASE ExecutionFetches(k)
  BY <1>1 DEF ExecutionFetches
<1>2. ASSUME NEW resolved \in BOOLEAN, ExecutionInvokes(k, resolved) PROVE TypeOK'
  BY <1>2 DEF ExecutionInvokes
<1>3. CASE PersistResult(k)
  BY <1>3 DEF PersistResult, Entries
<1>4. CASE PersistFailure(k)
  BY <1>4 DEF PersistFailure, Entries
<1>5. CASE ExecutionAborts(k)
  BY <1>5, BoundsAssumption DEF ExecutionAborts, Fail, CanFail
<1> QED
  BY <1>1, <1>2, <1>3, <1>4, <1>5 DEF ExecutionStep

\* A step that changes nothing keeps the types.
LEMMA StutterTypeOK == TypeOK /\ UNCHANGED vars => TypeOK'
BY DEF TypeOK, vars, deviceVars, handlerVars, executionVars

\* Every step keeps the types.
LEMMA NextTypeOK == TypeOK /\ [Next]_vars => TypeOK'
<1> SUFFICES ASSUME TypeOK, [Next]_vars PROVE TypeOK'
  OBVIOUS
<1>1. CASE AtRest \/ UNCHANGED vars
  BY <1>1, StutterTypeOK DEF AtRest
<1>2. ASSUME NEW i \in Instances, NEW l \in Locations, Handle(i, l) PROVE TypeOK'
  BY <1>2, HandleTypeOK
<1>3. ASSUME NEW k \in Keys, ExecutionStep(k) PROVE TypeOK'
  BY <1>3, ExecutionTypeOK
<1> QED
  BY <1>1, <1>2, <1>3, EnvironmentTypeOK, InvocationTypeOK DEF Next

(***************************************************************************)
(* Every variable keeps its type, for any number of devices, instances,    *)
(* hours and failures: no queue or batch has a negative number of copies,  *)
(* and the local cache of an instance holds only finished resolutions.     *)
(***************************************************************************)
THEOREM TypeCorrect == Spec => []TypeOK
BY InitTypeOK, NextTypeOK, PTL DEF Spec

-----------------------------------------------------------------------------
(* One resolution per key, and answers that match it                       *)

\* The part of FanOutInvariant that is about results.  The executions' states
\* tie the API calls, the table, the local caches and the answers together.
ResolutionInvariant ==
  /\ TypeOK
  /\ ApiCallsFollowExecution
  /\ ResultsAreOfTheExecution
  /\ PublishedIsResolved
  /\ AnswersMatchResolution

\* Nothing is resolved or answered at the start.
LEMMA InitResolution == Init => ResolutionInvariant
<1> SUFFICES ASSUME Init PROVE ResolutionInvariant
  OBVIOUS
<1>1. TypeOK
  BY InitTypeOK
<1>2. ApiCallsFollowExecution /\ ResultsAreOfTheExecution /\ PublishedIsResolved
  BY DEF Init, ApiCallsFollowExecution, ResultsAreOfTheExecution, PublishedIsResolved
<1>3. AnswersMatchResolution
  BY DEF Init, AnswersMatchResolution, Fates, NoMessages
<1> QED
  BY <1>1, <1>2, <1>3 DEF ResolutionInvariant

\* An execution that has ended stays as it ended, so answers that matched a
\* resolution go on matching it as long as no copy is answered.
LEMMA AnswersKept ==
  ASSUME AnswersMatchResolution,
         \A k \in Keys :
           executions[k] \in {"succeeded", "failed"} => executions'[k] = executions[k],
         fates'["delivered"] = fates["delivered"],
         fates'["rejected"] = fates["rejected"]
  PROVE  AnswersMatchResolution'
<1>1. \A r \in Requests, b \in 0..MaxBin : cacheKey(LocationOf[r], b) \in Keys
  BY LocationAssumption DEF cacheKey, Keys
<1> QED
  BY <1>1 DEF AnswersMatchResolution

\* The environment and the begin and end of invocations touch no result, except
\* for forgetting it.
LEMMA QuietResolution ==
  ASSUME ResolutionInvariant, TypeOK',
         UNCHANGED executionVars,
         fates'["delivered"] = fates["delivered"],
         fates'["rejected"] = fates["rejected"],
         \A k \in Keys : cacheTable'[k] \in {cacheTable[k], "absent", "pending"},
         \A i \in Instances, k \in Keys :
           resolvedRequests'[i][k] \in {resolvedRequests[i][k], "unknown"},
         PublishedIsResolved'
  PROVE  ResolutionInvariant'
<1>1. ApiCallsFollowExecution'
  BY DEF ResolutionInvariant, ApiCallsFollowExecution, executionVars
<1>2. ResultsAreOfTheExecution'
  BY DEF ResolutionInvariant, ResultsAreOfTheExecution, executionVars
<1>3. AnswersMatchResolution'
  BY AnswersKept DEF ResolutionInvariant, executionVars
<1> QED
  BY <1>1, <1>2, <1>3 DEF ResolutionInvariant

\* Devices, clocks and the queue do not touch a result.
LEMMA EnvironmentResolution ==
  ASSUME ResolutionInvariant,
         \/ \E r \in Requests : DeviceRequest(r) \/ RequestAges(r) \/ RetentionEnds(r)
         \/ HourPasses
         \/ \E i \in Instances, r \in Requests : VisibilityEnds(i, r)
         \/ \E k \in Keys : EntryExpires(k)
         \/ UNCHANGED vars
  PROVE  ResolutionInvariant'
<1>1. TypeOK'
  BY EnvironmentTypeOK, StutterTypeOK DEF ResolutionInvariant
<1>2. UNCHANGED <<handlerVars, executionVars>>
  BY DEF DeviceRequest, RequestAges, RetentionEnds, HourPasses, VisibilityEnds,
         EntryExpires, vars
<1>3. /\ fates'["delivered"] = fates["delivered"]
      /\ fates'["rejected"] = fates["rejected"]
  BY DEF DeviceRequest, RequestAges, RetentionEnds, HourPasses, VisibilityEnds,
         EntryExpires, vars, ResolutionInvariant, TypeOK, Fates
<1>4. \A k \in Keys : cacheTable'[k] \in {cacheTable[k], "absent", "pending"}
  BY DEF DeviceRequest, RequestAges, RetentionEnds, HourPasses, VisibilityEnds,
         EntryExpires, vars, ResolutionInvariant, TypeOK
<1>5. PublishedIsResolved'
  BY <1>2 DEF ResolutionInvariant, PublishedIsResolved, handlerVars, KeyOf
<1> QED
  BY <1>1, <1>2, <1>3, <1>4, <1>5, QuietResolution DEF handlerVars

\* The begin and the end of an invocation do not touch a result.
LEMMA InvocationResolution ==
  ASSUME ResolutionInvariant, NEW i \in Instances,
         \/ Invoke(i) \/ InvocationEnds(i) \/ InvocationFails(i)
         \/ InstanceDies(i) \/ InstanceRecycled(i)
  PROVE  ResolutionInvariant'
<1> USE DEF ResolutionInvariant
<1>1. TypeOK'
  BY InvocationTypeOK
<1>2. UNCHANGED <<cacheTable, executionVars, fates>>
  BY DEF Invoke, Receive, InvocationEnds, InvocationFails, InstanceDies, InstanceRecycled
<1>3. \A j \in Instances, k \in Keys :
        resolvedRequests'[j][k] \in {resolvedRequests[j][k], "unknown"}
  BY DEF Invoke, Receive, InvocationEnds, InvocationFails, InstanceDies,
         InstanceRecycled, TypeOK
<1>4. PublishedIsResolved'
  <2> SUFFICES ASSUME NEW j \in Instances, NEW l \in Locations,
                      stage'[j][l] = "publish"
               PROVE  resolvedRequests'[j][KeyOf(j, l)'] = "resolved"
    BY DEF PublishedIsResolved
  <2>1. j # i
    <3> SUFFICES ASSUME j = i PROVE FALSE
      OBVIOUS
    <3>1. Release(i) => stage'[i][l] = "none"
      BY DEF Release, TypeOK
    <3>2. ~ Release(i)
      BY <3>1
    <3>3. CASE Invoke(i)
      <4>1. stage'[i][l] \in {"check", "none"}
        BY <3>3 DEF Invoke, Receive, TypeOK
      <4> QED
        BY <4>1
    <3>4. CASE InstanceRecycled(i)
      BY <3>4 DEF InstanceRecycled, Idle
    <3> QED
      BY <3>2, <3>3, <3>4 DEF InvocationEnds, InvocationFails, InstanceDies
  <2>2. /\ stage'[j] = stage[j]
        /\ handlerBin'[j] = handlerBin[j]
        /\ resolvedRequests'[j] = resolvedRequests[j]
    BY <2>1 DEF Invoke, Receive, InvocationEnds, InvocationFails, InstanceDies,
                InstanceRecycled, Release, TypeOK
  <2> QED
    BY <2>2 DEF PublishedIsResolved, KeyOf
<1> QED
  BY <1>1, <1>2, <1>3, <1>4, QuietResolution

\* The steps of a group: only the end of getCache fills the local cache, and
\* only from the table; only a group with a resolved key publishes.
LEMMA HandleResolution ==
  ASSUME ResolutionInvariant, NEW i \in Instances, NEW l \in Locations, Handle(i, l)
  PROVE  ResolutionInvariant'
<1> DEFINE k == KeyOf(i, l)
<1> USE DEF ResolutionInvariant
<1>1. k \in Keys
  BY KeyOfIsKey
<1>2. TypeOK'
  BY HandleTypeOK
<1>3. UNCHANGED <<handlerBin, apiCalls>>
  BY DEF Handle, FindLocal, GetCacheError, GetCachePending, GetCacheFinished, PutEntry,
         PutEntryFails, StartExecution, StartExecutionFails, Publish, Requeue, executionVars
<1>4. \/ UNCHANGED executions
      \/ /\ executions[k] = "none"
         /\ executions' = [executions EXCEPT ![k] = "fetch"]
  BY <1>1 DEF Handle, FindLocal, GetCacheError, GetCachePending, GetCacheFinished, PutEntry,
         PutEntryFails, StartExecution, StartExecutionFails, Publish, Requeue,
         executionVars, TypeOK
<1>5. /\ \A m \in Keys : executions[m] \in {"succeeded", "failed"} => executions'[m] = executions[m]
      /\ ApiCallsFollowExecution'
  <2>1. CASE UNCHANGED executions
    BY <1>3, <2>1 DEF ApiCallsFollowExecution
  <2>2. CASE executions[k] = "none" /\ executions' = [executions EXCEPT ![k] = "fetch"]
    BY <1>1, <1>3, <2>2 DEF ApiCallsFollowExecution, TypeOK
  <2> QED
    BY <1>4, <2>1, <2>2
<1>6. \/ UNCHANGED cacheTable
      \/ cacheTable' = [cacheTable EXCEPT ![k] = "pending"]
  BY DEF Handle, FindLocal, GetCacheError, GetCachePending, GetCacheFinished, PutEntry,
         PutEntryFails, StartExecution, StartExecutionFails, Publish, Requeue
<1>7. \/ UNCHANGED resolvedRequests
      \/ /\ cacheTable[k] \in {"resolved", "unresolved"}
         /\ resolvedRequests' = [resolvedRequests EXCEPT ![i][k] = cacheTable[k]]
  BY DEF Handle, FindLocal, GetCacheError, GetCachePending, GetCacheFinished, PutEntry,
         PutEntryFails, StartExecution, StartExecutionFails, Publish, Requeue
<1>8. ResultsAreOfTheExecution'
  <2> SUFFICES ASSUME NEW m \in Keys
               PROVE  /\ cacheTable'[m] = "resolved" => executions'[m] = "succeeded"
                      /\ cacheTable'[m] = "unresolved" => executions'[m] = "failed"
                      /\ \A j \in Instances :
                           /\ resolvedRequests'[j][m] = "resolved" => executions'[m] = "succeeded"
                           /\ resolvedRequests'[j][m] = "unresolved" => executions'[m] = "failed"
    BY DEF ResultsAreOfTheExecution
  <2>1. cacheTable'[m] \in {cacheTable[m], "pending"}
    BY <1>6 DEF TypeOK
  <2>2. \A j \in Instances :
          resolvedRequests'[j][m] \in {resolvedRequests[j][m], cacheTable[m]}
    <3> HIDE DEF k
    <3>1. resolvedRequests \in [Instances -> [Keys -> Local]]
      BY DEF TypeOK
    <3> QED
      BY <1>1, <1>7, <3>1
  <2> QED
    BY <1>5, <2>1, <2>2 DEF ResultsAreOfTheExecution
<1>9. PublishedIsResolved'
  <2> SUFFICES ASSUME NEW j \in Instances, NEW n \in Locations, stage'[j][n] = "publish"
               PROVE  resolvedRequests'[j][KeyOf(j, n)] = "resolved"
    BY <1>3 DEF PublishedIsResolved, KeyOf
  <2>1. KeyOf(j, n) \in Keys
    BY KeyOfIsKey
  <2>2. CASE j = i /\ n = l
    BY <1>1, <2>2 DEF Handle, FindLocal, GetCacheError, GetCachePending, GetCacheFinished,
           PutEntry, PutEntryFails, StartExecution, StartExecutionFails, Publish, Requeue,
           GoTo, TypeOK
  <2>3. CASE ~ (j = i /\ n = l)
    <3>1. stage'[j][n] = stage[j][n]
      BY <2>3 DEF Handle, FindLocal, GetCacheError, GetCachePending, GetCacheFinished,
             PutEntry, PutEntryFails, StartExecution, StartExecutionFails, Publish, Requeue,
             GoTo, TypeOK
    <3>2. KeyOf(j, n) # k \/ j # i
      BY <2>3 DEF KeyOf, cacheKey
    <3>3. resolvedRequests'[j][KeyOf(j, n)] = resolvedRequests[j][KeyOf(j, n)]
      BY <1>1, <1>7, <2>1, <3>2 DEF TypeOK
    <3> QED
      BY <3>1, <3>3 DEF PublishedIsResolved
  <2> QED
    BY <2>2, <2>3
<1>10. AnswersMatchResolution'
  <2>1. CASE /\ fates'["delivered"] = fates["delivered"]
             /\ fates'["rejected"] = fates["rejected"]
    BY <1>5, <2>1, AnswersKept
  <2>2. \A r \in Requests : Group(i, l)[r] > 0 => k = cacheKey(LocationOf[r], handlerBin[i])
    BY DEF Group, KeyOf
  <2>3. handlerBin[i] \in 0..MaxBin
    BY DEF TypeOK
  <2>4. CASE GetCacheFinished(i, l) /\ cacheTable[k] = "unresolved"
    <3>1. executions[k] = "failed" /\ UNCHANGED executions
      BY <1>1, <2>4 DEF GetCacheFinished, ResultsAreOfTheExecution, executionVars
    <3>2. /\ fates'["delivered"] = fates["delivered"]
          /\ fates'["rejected"] = fates["rejected"] (+) Group(i, l)
      BY <2>4 DEF GetCacheFinished, TypeOK, Fates
    <3>3. \A r \in Requests :
            fates'["rejected"][r] > 0 => fates["rejected"][r] > 0 \/ Group(i, l)[r] > 0
      BY <3>2, GroupIsBag DEF (+), TypeOK, Fates, Bags
    <3> QED
      BY <2>2, <2>3, <3>1, <3>2, <3>3 DEF AnswersMatchResolution
  <2>5. ASSUME NEW lost \in SubBags(Group(i, l)), Publish(i, l, lost)
        PROVE  AnswersMatchResolution'
    <3>1. executions[k] = "succeeded" /\ UNCHANGED executions
      BY <1>1, <2>5
         DEF Publish, PublishedIsResolved, ResultsAreOfTheExecution, executionVars
    <3>2. /\ fates'["delivered"] = fates["delivered"] (+) (Group(i, l) (-) lost)
          /\ fates'["rejected"] = fates["rejected"]
      BY <2>5 DEF Publish, TypeOK, Fates
    <3>3. /\ lost \in Bags /\ Group(i, l) (-) lost \in Bags
          /\ \A r \in Requests : (Group(i, l) (-) lost)[r] = Group(i, l)[r] - lost[r]
      BY GroupIsBag, SubBagIsBag, DifferenceIsBag
    <3>4. \A r \in Requests :
            fates'["delivered"][r] > 0 => fates["delivered"][r] > 0 \/ Group(i, l)[r] > 0
      BY <3>2, <3>3, GroupIsBag DEF (+), TypeOK, Fates, Bags
    <3> QED
      BY <2>2, <2>3, <3>1, <3>2, <3>4 DEF AnswersMatchResolution
  <2> QED
    BY <2>1, <2>4, <2>5
       DEF Handle, FindLocal, GetCacheError, GetCachePending, GetCacheFinished, PutEntry,
           PutEntryFails, StartExecution, StartExecutionFails, Requeue, TypeOK, Fates
<1> QED
  BY <1>2, <1>5, <1>8, <1>9, <1>10

\* The steps of an execution: it asks the API once and records its own result.
LEMMA ExecutionResolution ==
  ASSUME ResolutionInvariant, NEW k \in Keys, ExecutionStep(k)
  PROVE  ResolutionInvariant'
<1> USE DEF ResolutionInvariant
<1>1. TypeOK'
  BY ExecutionTypeOK
<1>2. UNCHANGED <<handlerVars, fates>>
  BY DEF ExecutionStep, ExecutionFetches, ExecutionInvokes, PersistResult, PersistFailure,
         ExecutionAborts
<1>3. executions[k] \in Running
  BY DEF ExecutionStep, ExecutionFetches, ExecutionInvokes, PersistResult, PersistFailure,
         ExecutionAborts, Running
<1>4. \A m \in Keys : executions[m] \in {"succeeded", "failed"} => executions'[m] = executions[m]
  BY <1>3 DEF ExecutionStep, ExecutionFetches, ExecutionInvokes, PersistResult,
              PersistFailure, ExecutionAborts, Advance, Running, TypeOK
<1>5. ApiCallsFollowExecution'
  BY <1>3 DEF ApiCallsFollowExecution, ExecutionStep, ExecutionFetches, ExecutionInvokes,
              PersistResult, PersistFailure, ExecutionAborts, Advance, Running, TypeOK
<1>6. ResultsAreOfTheExecution'
  <2>1. \A m \in Keys : /\ cacheTable'[m] = "resolved" => executions'[m] = "succeeded"
                        /\ cacheTable'[m] = "unresolved" => executions'[m] = "failed"
    BY <1>3, <1>4 DEF ResultsAreOfTheExecution, ExecutionStep, ExecutionFetches,
              ExecutionInvokes, PersistResult, PersistFailure, ExecutionAborts, Advance,
              Running, TypeOK
  <2> QED
    BY <1>2, <1>4, <2>1 DEF ResultsAreOfTheExecution, handlerVars
<1>7. PublishedIsResolved'
  BY <1>2 DEF PublishedIsResolved, handlerVars, KeyOf
<1>8. AnswersMatchResolution'
  BY <1>2, <1>4, AnswersKept
<1> QED
  BY <1>1, <1>5, <1>6, <1>7, <1>8

\* Every step keeps the invariant.
LEMMA NextResolution == ResolutionInvariant /\ [Next]_vars => ResolutionInvariant'
<1> SUFFICES ASSUME ResolutionInvariant, [Next]_vars PROVE ResolutionInvariant'
  OBVIOUS
<1>1. CASE AtRest \/ UNCHANGED vars
  BY <1>1, EnvironmentResolution DEF AtRest
<1>2. ASSUME NEW i \in Instances, NEW l \in Locations, Handle(i, l)
      PROVE  ResolutionInvariant'
  BY <1>2, HandleResolution
<1>3. ASSUME NEW k \in Keys, ExecutionStep(k) PROVE ResolutionInvariant'
  BY <1>3, ExecutionResolution
<1> QED
  BY <1>1, <1>2, <1>3, EnvironmentResolution, InvocationResolution DEF Next

\* The invariant holds in every reachable state.
LEMMA ResolutionInvariantHolds == Spec => []ResolutionInvariant
BY InitResolution, NextResolution, PTL DEF Spec

(***************************************************************************)
(* The API is asked at most once for a cache key, with any number of       *)
(* devices, instances and failures: the name of the execution is enough,   *)
(* although the check of the table and the write of the entry race.        *)
(***************************************************************************)
THEOREM ApiAskedOnce == Spec => []OneApiCallPerKey
<1>1. ResolutionInvariant => OneApiCallPerKey
  BY DEF ResolutionInvariant, ApiCallsFollowExecution, OneApiCallPerKey
<1> QED
  BY <1>1, ResolutionInvariantHolds, PTL

(***************************************************************************)
(* Devices get only data that was resolved for their own location, and     *)
(* only requests without resolution are dropped as unresolved.             *)
(***************************************************************************)
THEOREM AnswersCorrect == Spec => []AnswersMatchResolution
<1>1. ResolutionInvariant => AnswersMatchResolution
  BY DEF ResolutionInvariant
<1> QED
  BY <1>1, ResolutionInvariantHolds, PTL

-----------------------------------------------------------------------------
(* No request is forgotten                                                 *)

TraceInvariant == TypeOK /\ NoRequestForgotten

\* No request has been sent at the start.
LEMMA InitTrace == Init => TraceInvariant
BY InitTypeOK DEF Init, TraceInvariant, NoRequestForgotten

\* Copies do not get fewer where a step leaves the other places alone.
LEMMA TraceKept ==
  ASSUME TraceInvariant, TypeOK',
         \A r \in asked : queue[r] > 0 => queue'[r] > 0 \/ \E f \in Fates : fates'[f][r] > 0,
         \A r \in asked, i \in Instances :
           Held(i, r) > 0 => \/ Held(i, r)' > 0
                             \/ queue'[r] > 0
                             \/ \E f \in Fates : fates'[f][r] > 0,
         \A r \in Requests, f \in Fates : fates[f][r] > 0 => fates'[f][r] > 0,
         \A r \in asked' \ asked : queue'[r] > 0
  PROVE  TraceInvariant'
<1> SUFFICES ASSUME NEW r \in asked'
             PROVE  \/ queue'[r] > 0
                    \/ \E i \in Instances : Held(i, r)' > 0
                    \/ \E f \in Fates : fates'[f][r] > 0
  BY DEF TraceInvariant, NoRequestForgotten
<1>1. r \in Requests
  BY DEF TypeOK
<1>2. CASE r \in asked
  BY <1>1, <1>2 DEF TraceInvariant, NoRequestForgotten
<1>3. CASE r \notin asked
  BY <1>3
<1> QED
  BY <1>2, <1>3

\* Devices, clocks, the queue, executions: a copy that leaves is recorded.
LEMMA EnvironmentTrace ==
  ASSUME TraceInvariant,
         \/ \E r \in Requests : DeviceRequest(r) \/ RequestAges(r) \/ RetentionEnds(r)
         \/ HourPasses
         \/ \E i \in Instances, r \in Requests : VisibilityEnds(i, r)
         \/ \E k \in Keys : EntryExpires(k) \/ ExecutionStep(k)
         \/ UNCHANGED vars
  PROVE  TraceInvariant'
<1> USE DEF TraceInvariant
<1>1. TypeOK'
  BY EnvironmentTypeOK, ExecutionTypeOK, StutterTypeOK
<1>2. UNCHANGED <<batch, stage>>
  BY DEF DeviceRequest, RequestAges, RetentionEnds, HourPasses, VisibilityEnds,
         EntryExpires, ExecutionStep, ExecutionFetches, ExecutionInvokes, PersistResult,
         PersistFailure, ExecutionAborts, vars, handlerVars
<1>3. \A r \in Requests, i \in Instances : Held(i, r)' = Held(i, r)
  BY <1>2 DEF Held
<1>4. CASE \E q \in Requests : RetentionEnds(q)
  <2> PICK q \in Requests : RetentionEnds(q)
    BY <1>4
  <2>1. /\ fates' = [fates EXCEPT !["retired"][q] = @ + 1]
        /\ queue' = [queue EXCEPT ![q] = @ - 1]
        /\ asked' = asked
    BY DEF RetentionEnds, deviceVars
  <2>2. fates'["retired"][q] = fates["retired"][q] + 1 /\ "retired" \in Fates
    BY <2>1 DEF TypeOK, Fates, Bags
  <2>3. fates["retired"][q] \in Nat
    BY DEF TypeOK, Fates, Bags
  <2>4. \A r \in Requests, f \in Fates : fates[f][r] > 0 => fates'[f][r] > 0
    BY <2>1, <2>2, <2>3 DEF TypeOK, Bags
  <2>5. \A r \in Requests : r # q => queue'[r] = queue[r]
    BY <2>1 DEF TypeOK, Bags
  <2>6. \A r \in asked : r \in Requests
    BY DEF TypeOK
  <2> QED
    BY <1>1, <1>3, <2>1, <2>2, <2>3, <2>4, <2>5, <2>6, TraceKept
<1>5. CASE ~ \E q \in Requests : RetentionEnds(q)
  <2>1. UNCHANGED fates
    BY <1>5 DEF DeviceRequest, RequestAges, HourPasses, VisibilityEnds, EntryExpires,
         ExecutionStep, ExecutionFetches, ExecutionInvokes, PersistResult, PersistFailure,
         ExecutionAborts, vars
  <2>2. \A r \in Requests : queue[r] > 0 => queue'[r] > 0
    BY <1>5 DEF DeviceRequest, RequestAges, HourPasses, VisibilityEnds, EntryExpires,
         ExecutionStep, ExecutionFetches, ExecutionInvokes, PersistResult, PersistFailure,
         ExecutionAborts, vars, TypeOK, Bags
  <2>3. \A r \in asked' \ asked : queue'[r] > 0
    BY <1>5 DEF DeviceRequest, RequestAges, HourPasses, VisibilityEnds, EntryExpires,
         ExecutionStep, ExecutionFetches, ExecutionInvokes, PersistResult, PersistFailure,
         ExecutionAborts, vars, deviceVars, TypeOK, Bags
  <2>4. \A r \in asked : r \in Requests
    BY DEF TypeOK
  <2> QED
    BY <1>1, <1>3, <2>1, <2>2, <2>3, <2>4, TraceKept
<1> QED
  BY <1>4, <1>5

\* A batch is taken from the queue into groups that are all still to be handled,
\* is deleted only when all groups are done, and comes back otherwise.
LEMMA InvocationTrace ==
  ASSUME TraceInvariant, NEW i \in Instances,
         \/ Invoke(i) \/ InvocationEnds(i) \/ InvocationFails(i)
         \/ InstanceDies(i) \/ InstanceRecycled(i)
  PROVE  TraceInvariant'
<1> USE DEF TraceInvariant
<1>1. TypeOK'
  BY InvocationTypeOK
<1>2. UNCHANGED <<fates, asked>>
  BY DEF Invoke, Receive, InvocationEnds, InvocationFails, InstanceDies, InstanceRecycled,
         deviceVars
<1>3. \A j \in Instances \ {i}, r \in Requests : Held(j, r)' = Held(j, r)
  <2>1. \A j \in Instances \ {i} : batch'[j] = batch[j] /\ stage'[j] = stage[j]
    BY DEF Invoke, Receive, InvocationEnds, InvocationFails, InstanceDies,
           InstanceRecycled, Release, TypeOK
  <2> QED
    BY <2>1 DEF Held
<1>4. /\ \A r \in asked : r \in Requests
      /\ \A r \in Requests : LocationOf[r] \in Locations
      /\ \A r \in Requests : batch[i][r] \in Nat /\ queue[r] \in Nat
  BY LocationAssumption DEF TypeOK, Bags
<1>5. CASE InvocationFails(i) \/ InstanceDies(i)
  <2>1. queue' = queue (+) batch[i]
    BY <1>5 DEF InvocationFails, InstanceDies
  <2>2. \A r \in Requests : queue'[r] = queue[r] + batch[i][r]
    BY <2>1 DEF (+)
  <2>3. \A r \in Requests : Held(i, r) > 0 => batch[i][r] > 0
    BY DEF Held
  <2> QED
    BY <1>1, <1>2, <1>3, <1>4, <2>2, <2>3, TraceKept
<1>6. CASE InvocationEnds(i)
  <2>1. \A r \in Requests : Held(i, r) = 0
    BY <1>4, <1>6 DEF InvocationEnds, Held
  <2>2. UNCHANGED queue
    BY <1>6 DEF InvocationEnds
  <2> QED
    BY <1>1, <1>2, <1>3, <1>4, <2>1, <2>2, TraceKept
<1>7. CASE InstanceRecycled(i)
  <2>1. UNCHANGED <<queue, batch, stage>>
    BY <1>7 DEF InstanceRecycled
  <2>2. \A r \in Requests : Held(i, r)' = Held(i, r)
    BY <2>1 DEF Held
  <2> QED
    BY <1>1, <1>2, <1>3, <1>4, <2>1, <2>2, TraceKept
<1>8. ASSUME NEW b \in SubBags(queue), Receive(i, b) PROVE TraceInvariant'
  <2>1. /\ queue' = queue (-) b
        /\ batch'[i] = b
        /\ \A l \in Locations : stage'[i][l] =
             IF \E r \in Requests : b[r] > 0 /\ LocationOf[r] = l THEN "check" ELSE "none"
        /\ \A l \in Locations : stage[i][l] = "none"
    BY <1>8 DEF Receive, Idle, TypeOK
  <2>2. \A r \in Requests : b[r] \in Nat /\ queue'[r] = queue[r] - b[r]
    BY <2>1, SubBagIsBag DEF (-), TypeOK, Bags
  <2>3. \A r \in Requests : Held(i, r) = 0
    BY <1>4, <2>1 DEF Held
  <2>4. \A r \in Requests : b[r] > 0 => Held(i, r)' = b[r]
    BY <1>4, <2>1 DEF Held
  <2> SUFFICES ASSUME NEW r \in asked
               PROVE  \/ queue'[r] > 0
                      \/ \E j \in Instances : Held(j, r)' > 0
                      \/ \E f \in Fates : fates'[f][r] > 0
    BY <1>1, <1>2 DEF NoRequestForgotten
  <2>5. CASE b[r] > 0
    BY <1>4, <2>4, <2>5
  <2>6. CASE ~ b[r] > 0
    <3>1. queue'[r] = queue[r]
      BY <1>4, <2>2, <2>6
    <3> QED
      BY <1>2, <1>3, <1>4, <2>3, <3>1 DEF NoRequestForgotten
  <2> QED
    BY <2>5, <2>6
<1> QED
  BY <1>5, <1>6, <1>7, <1>8 DEF Invoke

\* A group that ends leaves each of its copies in the queue or with a fate.
LEMMA HandleTrace ==
  ASSUME TraceInvariant, NEW i \in Instances, NEW l \in Locations, Handle(i, l)
  PROVE  TraceInvariant'
<1> USE DEF TraceInvariant
<1>1. TypeOK'
  BY HandleTypeOK
<1>2. UNCHANGED <<batch, asked>>
  BY DEF Handle, FindLocal, GetCacheError, GetCachePending, GetCacheFinished, PutEntry,
         PutEntryFails, StartExecution, StartExecutionFails, Publish, Requeue, deviceVars
<1>3. /\ \A r \in asked : r \in Requests
      /\ \A r \in Requests : LocationOf[r] \in Locations
      /\ \A r \in Requests : queue[r] \in Nat /\ Group(i, l)[r] \in Nat
                             /\ Due(i, l)[r] \in Nat /\ Cancelled(i, l)[r] \in Nat
      /\ \A r \in Requests, f \in Fates : fates[f][r] \in Nat
  BY LocationAssumption, GroupIsBag DEF TypeOK, Bags
<1>4. \A r \in Requests, j \in Instances :
        j # i \/ LocationOf[r] # l => Held(j, r)' = Held(j, r)
  <2>1. \A j \in Instances, n \in Locations : j # i \/ n # l => stage'[j][n] = stage[j][n]
    BY DEF Handle, FindLocal, GetCacheError, GetCachePending, GetCacheFinished, PutEntry,
           PutEntryFails, StartExecution, StartExecutionFails, Publish, Requeue, GoTo, TypeOK
  <2> QED
    BY <1>2, <1>3, <2>1 DEF Held
<1>5. \A r \in Requests : LocationOf[r] = l => Held(i, r) \in {0, Group(i, l)[r]}
  BY DEF Held, Group
<1>6. CASE stage'[i][l] # "done" /\ UNCHANGED <<queue, fates>>
  <2>1. stage[i][l] \notin {"none", "done"}
    BY DEF Handle, FindLocal, GetCacheError, GetCachePending, GetCacheFinished, PutEntry,
           PutEntryFails, StartExecution, StartExecutionFails, Publish, Requeue
  <2>2. stage'[i][l] \notin {"none", "done"}
    BY <1>6 DEF Handle, FindLocal, GetCacheError, GetCachePending, GetCacheFinished, PutEntry,
           PutEntryFails, StartExecution, StartExecutionFails, Publish, Requeue, GoTo, TypeOK
  <2>3. \A r \in Requests : LocationOf[r] = l => Held(i, r)' = Held(i, r)
    BY <1>2, <2>1, <2>2 DEF Held
  <2> QED
    BY <1>1, <1>2, <1>3, <1>4, <1>6, <2>3, TraceKept
<1>7. CASE GetCacheFinished(i, l) /\ cacheTable[KeyOf(i, l)] = "unresolved"
  <2>1. /\ UNCHANGED queue
        /\ fates' = [fates EXCEPT !["rejected"] = @ (+) Group(i, l)]
    BY <1>7 DEF GetCacheFinished
  <2>2. \A r \in Requests : fates'["rejected"][r] = fates["rejected"][r] + Group(i, l)[r]
    BY <2>1 DEF (+), TypeOK, Fates
  <2>3. \A r \in Requests, f \in Fates : f # "rejected" => fates'[f][r] = fates[f][r]
    BY <2>1 DEF TypeOK
  <2>4. "rejected" \in Fates
    BY DEF Fates
  <2>5. \A r \in Requests, f \in Fates : fates[f][r] > 0 => fates'[f][r] > 0
    BY <1>3, <2>2, <2>3, <2>4
  <2>6. \A r \in Requests : Group(i, l)[r] > 0 => fates'["rejected"][r] > 0
    BY <1>3, <2>2, <2>4
  <2> QED
    BY <1>1, <1>2, <1>3, <1>4, <1>5, <2>1, <2>4, <2>5, <2>6, TraceKept
<1>8. ASSUME NEW lost \in SubBags(Group(i, l)), Publish(i, l, lost) PROVE TraceInvariant'
  <2>1. /\ UNCHANGED queue
        /\ fates' = [fates EXCEPT !["delivered"] = @ (+) (Group(i, l) (-) lost),
                                  !["publishFailed"] = @ (+) lost]
    BY <1>8 DEF Publish
  <2>2. \A r \in Requests :
          /\ lost[r] \in Nat
          /\ lost[r] <= Group(i, l)[r]
          /\ fates'["delivered"][r] = fates["delivered"][r] + (Group(i, l)[r] - lost[r])
          /\ fates'["publishFailed"][r] = fates["publishFailed"][r] + lost[r]
    BY <2>1, GroupIsBag, SubBagIsBag DEF (+), (-), TypeOK, Fates, Bags
  <2>3. \A r \in Requests, f \in Fates \ {"delivered", "publishFailed"} :
          fates'[f][r] = fates[f][r]
    BY <2>1 DEF TypeOK
  <2>4. {"delivered", "publishFailed"} \subseteq Fates
    BY DEF Fates
  <2>5. \A r \in Requests, f \in Fates : fates[f][r] > 0 => fates'[f][r] > 0
    BY <1>3, <2>2, <2>3, <2>4
  <2>6. \A r \in Requests :
          Group(i, l)[r] > 0 => fates'["delivered"][r] > 0 \/ fates'["publishFailed"][r] > 0
    BY <1>3, <2>2, <2>4
  <2> QED
    <3>1. \A r \in Requests : Group(i, l)[r] > 0 => \E f \in Fates : fates'[f][r] > 0
      BY <2>4, <2>6
    <3>2. \A r \in asked, j \in Instances :
            Held(j, r) > 0 => Held(j, r)' > 0 \/ \E f \in Fates : fates'[f][r] > 0
      BY <1>3, <1>4, <1>5, <3>1
    <3> QED
      BY <1>1, <1>2, <1>3, <2>1, <2>5, <3>2, TraceKept
<1>9. ASSUME NEW lost \in SubBags(Due(i, l)), Requeue(i, l, lost) PROVE TraceInvariant'
  <2>1. /\ queue' = queue (+) (Due(i, l) (-) lost)
        /\ fates' = [fates EXCEPT !["cancelled"] = @ (+) Cancelled(i, l),
                                  !["requeueFailed"] = @ (+) lost]
    BY <1>9 DEF Requeue
  <2>2. \A r \in Requests :
          /\ lost[r] \in Nat
          /\ lost[r] <= Due(i, l)[r]
          /\ queue'[r] = queue[r] + (Due(i, l)[r] - lost[r])
          /\ fates'["cancelled"][r] = fates["cancelled"][r] + Cancelled(i, l)[r]
          /\ fates'["requeueFailed"][r] = fates["requeueFailed"][r] + lost[r]
    BY <2>1, GroupIsBag, SubBagIsBag DEF (+), (-), TypeOK, Fates, Bags
  <2>3. \A r \in Requests, f \in Fates \ {"cancelled", "requeueFailed"} :
          fates'[f][r] = fates[f][r]
    BY <2>1 DEF TypeOK
  <2>4. {"cancelled", "requeueFailed"} \subseteq Fates
    BY DEF Fates
  <2>5. \A r \in Requests, f \in Fates : fates[f][r] > 0 => fates'[f][r] > 0
    BY <1>3, <2>2, <2>3, <2>4
  <2>6. \A r \in Requests : Cancelled(i, l)[r] = Group(i, l)[r] - Due(i, l)[r]
    BY DEF Cancelled, (-)
  <2>7. \A r \in Requests :
          Group(i, l)[r] > 0 => \/ queue'[r] > 0
                                \/ fates'["cancelled"][r] > 0
                                \/ fates'["requeueFailed"][r] > 0
    BY <1>3, <2>2, <2>4, <2>6
  <2>8. \A r \in Requests : queue[r] > 0 => queue'[r] > 0
    BY <1>3, <2>2
  <2> QED
    BY <1>1, <1>2, <1>3, <1>4, <1>5, <2>4, <2>5, <2>7, <2>8, TraceKept
<1> QED
  BY <1>6, <1>7, <1>8, <1>9
     DEF Handle, FindLocal, GetCacheError, GetCachePending, GetCacheFinished, PutEntry,
         PutEntryFails, StartExecution, StartExecutionFails, GoTo, TypeOK

\* Every step keeps the invariant.
LEMMA NextTrace == TraceInvariant /\ [Next]_vars => TraceInvariant'
<1> SUFFICES ASSUME TraceInvariant, [Next]_vars PROVE TraceInvariant'
  OBVIOUS
<1>1. CASE AtRest \/ UNCHANGED vars
  BY <1>1, EnvironmentTrace DEF AtRest
<1>2. ASSUME NEW i \in Instances, NEW l \in Locations, Handle(i, l) PROVE TraceInvariant'
  BY <1>2, HandleTrace
<1> QED
  BY <1>1, <1>2, EnvironmentTrace, InvocationTrace DEF Next

(***************************************************************************)
(* No request is forgotten, whatever fails and whenever: it waits in the   *)
(* queue, is in a group that is still being handled, or has left with a    *)
(* recorded fate.                                                          *)
(***************************************************************************)
THEOREM NothingForgotten == Spec => []NoRequestForgotten
<1>1. TraceInvariant => NoRequestForgotten
  BY DEF TraceInvariant
<1> QED
  BY <1>1, InitTrace, NextTrace, PTL DEF Spec

(***************************************************************************)
(* The conjunction that TLC checks as one invariant is invariant.          *)
(***************************************************************************)
THEOREM FanOutInvariantHolds == Spec => []FanOutInvariant
<1>1. ResolutionInvariant /\ TraceInvariant => FanOutInvariant
  BY DEF ResolutionInvariant, TraceInvariant, FanOutInvariant
<1>2. Spec => []TraceInvariant
  BY InitTrace, NextTrace, PTL DEF Spec
<1> QED
  BY <1>1, <1>2, ResolutionInvariantHolds, PTL

-----------------------------------------------------------------------------
(* Refinement                                                              *)

\* The fate that tells the outcome of a resolution
FateOf(outcome) == IF outcome = "found" THEN "delivered" ELSE "rejected"

\* A step that changes neither executions nor answers changes nothing that
\* ResolveOnce sees.
LEMMA QuietIsStutter ==
  ASSUME UNCHANGED executions,
         fates'["delivered"] = fates["delivered"],
         fates'["rejected"] = fates["rejected"]
  PROVE  UNCHANGED Resolution!vars
<1>1. \A r \in Requests :
        {outcome \in {"found", "nothing"} :
           fates'[IF outcome = "found" THEN "delivered" ELSE "rejected"][r] > 0}
          = {outcome \in {"found", "nothing"} :
               fates[IF outcome = "found" THEN "delivered" ELSE "rejected"][r] > 0}
  OBVIOUS
<1> QED
  BY <1>1 DEF Resolution!vars

\* Copies of some requests are answered, all with the outcome of an execution
\* for their location.
LEMMA AnswerTells ==
  ASSUME UNCHANGED executions,
         NEW outcome \in {"found", "nothing"}, NEW other \in {"found", "nothing"},
         other # outcome,
         NEW some \in SUBSET Requests,
         \A r \in some : \E k \in Keys :
            k[1] = LocationOf[r] /\ Outcome(executions[k]) = outcome,
         \A r \in Requests :
            fates'[FateOf(outcome)][r] > 0 <=> fates[FateOf(outcome)][r] > 0 \/ r \in some,
         fates'[FateOf(other)] = fates[FateOf(other)]
  PROVE  Resolution!Next
<1> DEFINE told(r) == {o \in {"found", "nothing"} :
                         fates[IF o = "found" THEN "delivered" ELSE "rejected"][r] > 0}
<1>1. \A r \in Requests :
        {o \in {"found", "nothing"} :
           fates'[IF o = "found" THEN "delivered" ELSE "rejected"][r] > 0}
          = IF r \in some THEN told(r) \cup {outcome} ELSE told(r)
  BY DEF FateOf
<1>2. outcome \in Resolution!Outcomes
  BY DEF Resolution!Outcomes
<1>3. Resolution!Tell(some, outcome)
  BY <1>1 DEF Resolution!Tell
<1> QED
  BY <1>2, <1>3 DEF Resolution!Next

\* An execution that starts puts its key to the API, for the first time.
LEMMA StartPuts ==
  ASSUME ResolutionInvariant, NEW i \in Instances, NEW l \in Locations, StartExecution(i, l)
  PROVE  [Resolution!Next]_(Resolution!vars)
<1> DEFINE k == KeyOf(i, l)
<1>1. k \in Keys
  BY KeyOfIsKey DEF ResolutionInvariant
<1>2. UNCHANGED fates
  BY DEF StartExecution
<1>3. executions' = [executions EXCEPT ![k] = IF @ = "none" THEN "fetch" ELSE @]
  BY DEF StartExecution
<1> HIDE DEF k
<1>4. CASE executions[k] = "none"
  <2>1. /\ executions'[k] = "fetch"
        /\ \A m \in Keys : m # k => executions'[m] = executions[m]
    BY <1>1, <1>3, <1>4 DEF ResolutionInvariant, TypeOK
  <2>2. {m \in Keys : executions'[m] # "none"} = {m \in Keys : executions[m] # "none"} \cup {k}
    BY <1>1, <2>1
  <2>3. \A m \in Keys : Outcome(executions'[m]) = Outcome(executions[m])
    BY <1>4, <2>1 DEF Outcome
  <2>4. \E m \in Keys : Resolution!PutQuestion(m)
    BY <1>1, <1>2, <1>4, <2>2, <2>3 DEF Resolution!PutQuestion
  <2> QED
    BY <2>4 DEF Resolution!Next
<1>5. CASE executions[k] # "none"
  <2>1. UNCHANGED executions
    BY <1>1, <1>3, <1>5 DEF ResolutionInvariant, TypeOK
  <2> QED
    BY <1>2, <2>1, QuietIsStutter
<1> QED
  BY <1>4, <1>5

\* The steps of a group tell what was learned, or nothing.
LEMMA HandleTells ==
  ASSUME ResolutionInvariant, NEW i \in Instances, NEW l \in Locations, Handle(i, l)
  PROVE  [Resolution!Next]_(Resolution!vars)
<1> DEFINE k == KeyOf(i, l)
<1>1. k \in Keys /\ k[1] = l
  <2>1. k \in Keys
    BY KeyOfIsKey DEF ResolutionInvariant
  <2> QED
    BY <2>1 DEF KeyOf, cacheKey
<1>2. \A r \in Requests : Group(i, l)[r] > 0 => k[1] = LocationOf[r]
  BY <1>1 DEF Group
<1>3. CASE GetCacheFinished(i, l) /\ cacheTable[k] = "unresolved"
  <2> DEFINE some == {r \in Requests : Group(i, l)[r] > 0}
  <2>1. UNCHANGED executions /\ Outcome(executions[k]) = "nothing"
    BY <1>1, <1>3 DEF GetCacheFinished, ResolutionInvariant, ResultsAreOfTheExecution,
       executionVars, Outcome
  <2>2. /\ fates'["delivered"] = fates["delivered"]
        /\ fates'["rejected"] = fates["rejected"] (+) Group(i, l)
    BY <1>3 DEF GetCacheFinished, ResolutionInvariant, TypeOK, Fates
  <2>3. \A r \in Requests :
          fates'["rejected"][r] > 0 <=> fates["rejected"][r] > 0 \/ r \in some
    BY <2>2, GroupIsBag DEF (+), ResolutionInvariant, TypeOK, Fates, Bags
  <2>4. \A r \in some : \E m \in Keys :
          m[1] = LocationOf[r] /\ Outcome(executions[m]) = "nothing"
    BY <1>1, <1>2, <2>1
  <2>5. FateOf("nothing") = "rejected" /\ FateOf("found") = "delivered"
    BY DEF FateOf
  <2> HIDE DEF some
  <2>6. some \in SUBSET Requests
    BY DEF some
  <2> QED
    BY <2>1, <2>2, <2>3, <2>4, <2>5, <2>6, AnswerTells
<1>4. ASSUME NEW lost \in SubBags(Group(i, l)), Publish(i, l, lost)
      PROVE  [Resolution!Next]_(Resolution!vars)
  <2> DEFINE some == {r \in Requests : (Group(i, l) (-) lost)[r] > 0}
  <2>1. UNCHANGED executions /\ Outcome(executions[k]) = "found"
    BY <1>1, <1>4 DEF Publish, ResolutionInvariant, PublishedIsResolved,
       ResultsAreOfTheExecution, executionVars, Outcome
  <2>2. /\ fates'["delivered"] = fates["delivered"] (+) (Group(i, l) (-) lost)
        /\ fates'["rejected"] = fates["rejected"]
    BY <1>4 DEF Publish, ResolutionInvariant, TypeOK, Fates
  <2>3. /\ lost \in Bags /\ Group(i, l) (-) lost \in Bags
        /\ \A r \in Requests : (Group(i, l) (-) lost)[r] = Group(i, l)[r] - lost[r]
    BY GroupIsBag, SubBagIsBag, DifferenceIsBag DEF ResolutionInvariant
  <2>4. \A r \in Requests :
          fates'["delivered"][r] > 0 <=> fates["delivered"][r] > 0 \/ r \in some
    BY <2>2, <2>3 DEF (+), ResolutionInvariant, TypeOK, Fates, Bags
  <2>5. \A r \in some : Group(i, l)[r] > 0
    BY <2>3, GroupIsBag DEF ResolutionInvariant, Bags
  <2>6. \A r \in some : \E m \in Keys :
          m[1] = LocationOf[r] /\ Outcome(executions[m]) = "found"
    BY <1>1, <1>2, <2>1, <2>5
  <2>7. FateOf("nothing") = "rejected" /\ FateOf("found") = "delivered"
    BY DEF FateOf
  <2>8. some \in SUBSET Requests
    OBVIOUS
  <2> HIDE DEF some
  <2> QED
    BY <2>1, <2>2, <2>4, <2>6, <2>7, <2>8, AnswerTells
<1>5. CASE StartExecution(i, l)
  BY <1>5, StartPuts
<1>6. ASSUME NEW lost \in SubBags(Due(i, l)), Requeue(i, l, lost)
      PROVE  [Resolution!Next]_(Resolution!vars)
  <2>1. /\ fates'["delivered"] = fates["delivered"]
        /\ fates'["rejected"] = fates["rejected"]
        /\ UNCHANGED executions
    BY <1>6 DEF Requeue, ResolutionInvariant, TypeOK, Fates, executionVars
  <2> QED
    BY <2>1, QuietIsStutter
<1>7. CASE UNCHANGED <<executions, fates>>
  BY <1>7, QuietIsStutter
<1> QED
  BY <1>3, <1>4, <1>5, <1>6, <1>7
     DEF Handle, FindLocal, GetCacheError, GetCachePending, GetCacheFinished, PutEntry,
         PutEntryFails, StartExecutionFails, executionVars

\* The steps of an execution: its end is learned once, its failure loses it.
LEMMA ExecutionLearns ==
  ASSUME ResolutionInvariant, NEW k \in Keys, ExecutionStep(k)
  PROVE  [Resolution!Next]_(Resolution!vars)
<1>1. UNCHANGED fates
  BY DEF ExecutionStep, ExecutionFetches, ExecutionInvokes, PersistResult, PersistFailure,
         ExecutionAborts
<1>2. PICK s \in ExecutionStates \ {"none"} : executions' = [executions EXCEPT ![k] = s]
  BY DEF ExecutionStep, ExecutionFetches, ExecutionInvokes, PersistResult, PersistFailure,
         ExecutionAborts, Advance, ExecutionStates, Running
<1>3. executions[k] \in Running
  BY DEF ExecutionStep, ExecutionFetches, ExecutionInvokes, PersistResult, PersistFailure,
         ExecutionAborts, Running
<1>4. executions'[k] = s /\ \A m \in Keys : m # k => executions'[m] = executions[m]
  BY <1>2 DEF ResolutionInvariant, TypeOK
<1>5. {m \in Keys : executions'[m] # "none"} = {m \in Keys : executions[m] # "none"}
  BY <1>3, <1>4 DEF Running
<1>6. executions[k] # "none" /\ Outcome(executions[k]) = "open"
  BY <1>3 DEF Running, Outcome
<1>7. \A m \in Keys :
        Outcome(executions'[m]) = IF m = k THEN Outcome(s) ELSE Outcome(executions[m])
  BY <1>4
<1>8. CASE Outcome(s) \in {"found", "nothing"}
  <2>1. Resolution!Learn(k, Outcome(s))
    BY <1>1, <1>5, <1>6, <1>7 DEF Resolution!Learn
  <2> QED
    BY <1>8, <2>1 DEF Resolution!Next, Resolution!Outcomes
<1>9. CASE Outcome(s) = "lost"
  <2>1. Resolution!Lose(k)
    BY <1>1, <1>5, <1>6, <1>7, <1>9 DEF Resolution!Lose
  <2> QED
    BY <2>1 DEF Resolution!Next
<1>10. CASE Outcome(s) = "open"
  <2>1. UNCHANGED Resolution!vars
    BY <1>1, <1>5, <1>6, <1>7, <1>10 DEF Resolution!vars
  <2> QED
    BY <2>1
<1> QED
  BY <1>8, <1>9, <1>10 DEF Outcome

\* Every step of the fan-out is a step of the abstract service or none.
LEMMA NextImplementsResolveOnce ==
  ASSUME ResolutionInvariant, [Next]_vars
  PROVE  [Resolution!Next]_(Resolution!vars)
<1> USE DEF deviceVars, executionVars
<1>1. ASSUME NEW r \in Requests, DeviceRequest(r) \/ RequestAges(r)
      PROVE  [Resolution!Next]_(Resolution!vars)
  BY <1>1, QuietIsStutter DEF DeviceRequest, RequestAges
<1>2. ASSUME NEW r \in Requests, RetentionEnds(r) PROVE [Resolution!Next]_(Resolution!vars)
  BY <1>2, QuietIsStutter DEF RetentionEnds, ResolutionInvariant, TypeOK, Fates
<1>3. CASE HourPasses \/ AtRest \/ UNCHANGED vars
  BY <1>3, QuietIsStutter DEF HourPasses, AtRest, vars
<1>4. ASSUME NEW i \in Instances, NEW r \in Requests, VisibilityEnds(i, r)
      PROVE  [Resolution!Next]_(Resolution!vars)
  BY <1>4, QuietIsStutter DEF VisibilityEnds
<1>5. ASSUME NEW k \in Keys, EntryExpires(k) PROVE [Resolution!Next]_(Resolution!vars)
  BY <1>5, QuietIsStutter DEF EntryExpires
<1>6. ASSUME NEW i \in Instances,
             \/ Invoke(i) \/ InvocationEnds(i) \/ InvocationFails(i)
             \/ InstanceDies(i) \/ InstanceRecycled(i)
      PROVE  [Resolution!Next]_(Resolution!vars)
  <2>1. UNCHANGED <<executions, fates>>
    BY <1>6 DEF Invoke, Receive, InvocationEnds, InvocationFails, InstanceDies,
       InstanceRecycled
  <2> QED
    BY <2>1, QuietIsStutter
<1> QED
  BY <1>1, <1>2, <1>3, <1>4, <1>5, <1>6, HandleTells, ExecutionLearns DEF Next

\* Before anything is sent, no question is asked and none is settled.
LEMMA InitImplementsResolveOnce == Init => Resolution!Init
BY DEF Init, Resolution!Init, Outcome, Fates, NoMessages

(***************************************************************************)
(* The fan-out implements the service that resolves a question once, for   *)
(* any number of devices, instances, hours and failures: no cache key is   *)
(* put to the API twice, and devices are told what came of it.             *)
(***************************************************************************)
THEOREM FanOutImplementsResolveOnce == Spec => ResolvesOnce
<1>1. ResolutionInvariant /\ [Next]_vars => [Resolution!Next]_(Resolution!vars)
  BY NextImplementsResolveOnce
<1> QED
  BY <1>1, InitImplementsResolveOnce, ResolutionInvariantHolds, PTL
     DEF Spec, ResolvesOnce, Resolution!Spec

Promise == INSTANCE ResolveOnce_proofs WITH
  Questions <- Keys,
  Askers <- Requests,
  QuestionsOf <- [r \in Requests |-> {k \in Keys : k[1] = LocationOf[r]}],
  put <- {k \in Keys : executions[k] # "none"},
  learned <- [k \in Keys |-> Outcome(executions[k])],
  told <- [r \in Requests |->
             {outcome \in {"found", "nothing"} :
                fates[IF outcome = "found" THEN "delivered" ELSE "rejected"][r] > 0}]

\* The two instances of the abstract specification are the same.
LEMMA PromiseIsResolution ==
  /\ Resolution!Init => Promise!Init
  /\ [Resolution!Next]_(Resolution!vars) => [Promise!Next]_(Promise!vars)
BY DEF Resolution!Init, Promise!Init, Resolution!Next, Promise!Next, Resolution!vars,
       Promise!vars, Resolution!Outcomes, Promise!Outcomes, Resolution!PutQuestion,
       Promise!PutQuestion, Resolution!Learn, Promise!Learn, Resolution!Lose, Promise!Lose,
       Resolution!Tell, Promise!Tell

(***************************************************************************)
(* What follows from the abstract specification alone: a device is told    *)
(* that there is data, or none, only if that came of a key of its own      *)
(* location; and no later request, hour, execution or failure changes what *)
(* came of a key, or asks for the key of an aborted execution again.        *)
(***************************************************************************)
THEOREM FanOutKeepsPromises == Spec => []Promise!ToldIsLearned /\ Promise!NothingIsUndone
<1>1. Promise!Spec => []Promise!ToldIsLearned
  <2>1. [r \in Requests |-> {k \in Keys : k[1] = LocationOf[r]}] \in [Requests -> SUBSET Keys]
    OBVIOUS
  <2> QED
    BY <2>1, Promise!ToldWhatWasLearned
<1>2. Promise!Spec => Promise!NothingIsUndone
  BY Promise!OnlyAdds
<1> QED
  BY <1>1, <1>2, PromiseIsResolution, FanOutImplementsResolveOnce, PTL
     DEF ResolvesOnce, Resolution!Spec, Promise!Spec

-----------------------------------------------------------------------------
(* One copy or one fate, without failures                                  *)

\* A group that is still being handled
Active(i, l) == stage[i][l] \notin {"none", "done"}

\* Without failures there is one copy of a request: in the queue, or in the one
\* group of it that is being handled.
OneCopy ==
  /\ \A r \in Requests : queue[r] <= 1
  /\ \A i \in Instances, r \in Requests : batch[i][r] <= 1
  /\ \A i \in Instances, r \in Requests : Held(i, r) > 0 =>
       r \in asked /\ queue[r] = 0 /\ \A j \in Instances : Held(j, r) > 0 => j = i
  /\ \A r \in Requests \ asked : queue[r] = 0
  /\ \A i \in Instances, l \in Locations : Active(i, l) =>
       \E r \in Requests : LocationOf[r] = l /\ Held(i, r) > 0
  /\ \A i \in Instances, l \in Locations : stage[i][l] # "failed"

\* Without failures an action of the invocations and the environment has none.
LEMMA NoFailure == ASSUME TypeOK, [Next]_vars, faults' = 0 PROVE faults = 0 /\ ~Fail
<1>1. Fail \/ faults' = faults
  <2>1. ASSUME NEW i \in Instances, NEW l \in Locations, Handle(i, l)
        PROVE  Fail \/ faults' = faults
    BY <2>1 DEF Handle, FindLocal, GetCacheError, GetCachePending, GetCacheFinished, PutEntry,
                PutEntryFails, StartExecution, StartExecutionFails, Publish, Requeue
  <2>2. ASSUME NEW k \in Keys, EntryExpires(k) \/ ExecutionStep(k)
        PROVE  Fail \/ faults' = faults
    BY <2>2 DEF EntryExpires, ExecutionStep, ExecutionFetches, ExecutionInvokes, PersistResult,
                PersistFailure, ExecutionAborts
  <2>3. ASSUME NEW i \in Instances,
               \/ Invoke(i) \/ InvocationEnds(i) \/ InvocationFails(i)
               \/ InstanceDies(i) \/ InstanceRecycled(i)
        PROVE  Fail \/ faults' = faults
    BY <2>3 DEF Invoke, Receive, InvocationEnds, InvocationFails, InstanceDies, InstanceRecycled
  <2>4. ASSUME \/ \E r \in Requests : DeviceRequest(r) \/ RequestAges(r) \/ RetentionEnds(r)
               \/ \E i \in Instances, r \in Requests : VisibilityEnds(i, r)
               \/ HourPasses \/ AtRest \/ UNCHANGED vars
        PROVE  Fail \/ faults' = faults
    BY <2>4 DEF DeviceRequest, RequestAges, RetentionEnds, VisibilityEnds, HourPasses, AtRest, vars
  <2> QED
    BY <2>1, <2>2, <2>3, <2>4 DEF Next
<1> QED
  BY <1>1 DEF Fail, CanFail, TypeOK

\* The copy of a request is made once, moves to a batch, and back to the queue when
\* its group is done.
LEMMA EnvironmentOneCopy ==
  ASSUME TypeOK, OneCopy, ~Fail,
         \/ \E r \in Requests : DeviceRequest(r) \/ RequestAges(r) \/ RetentionEnds(r)
         \/ HourPasses
         \/ \E i \in Instances, r \in Requests : VisibilityEnds(i, r)
         \/ \E k \in Keys : EntryExpires(k) \/ ExecutionStep(k)
         \/ UNCHANGED vars
  PROVE  OneCopy'
<1>1. UNCHANGED <<batch, stage>>
  BY DEF DeviceRequest, RequestAges, RetentionEnds, HourPasses, VisibilityEnds,
         EntryExpires, ExecutionStep, ExecutionFetches, ExecutionInvokes, PersistResult,
         PersistFailure, ExecutionAborts, vars, handlerVars
<1>2. /\ \A r \in Requests, i \in Instances : Held(i, r)' = Held(i, r)
      /\ \A i \in Instances, l \in Locations : Active(i, l)' = Active(i, l)
  BY <1>1 DEF Held, Active
<1>3. \A r \in Requests : queue[r] \in Nat
  BY DEF TypeOK, Bags
<1>4. CASE UNCHANGED <<queue, asked>>
  BY <1>1, <1>2, <1>4 DEF OneCopy
<1>5. ASSUME NEW q \in Requests, DeviceRequest(q) PROVE OneCopy'
  <2>1. /\ asked' = asked \cup {q} /\ q \notin asked
        /\ queue'[q] = queue[q] + 1
        /\ \A r \in Requests : r # q => queue'[r] = queue[r]
    BY <1>5 DEF DeviceRequest, TypeOK, Bags
  <2>2. queue[q] = 0 /\ \A i \in Instances : ~(Held(i, q) > 0)
    BY <2>1 DEF OneCopy
  <2> QED
    BY <1>1, <1>2, <1>3, <2>1, <2>2 DEF OneCopy
<1>6. ASSUME NEW q \in Requests, RetentionEnds(q) PROVE OneCopy'
  <2>1. /\ asked' = asked
        /\ queue[q] > 0 /\ queue'[q] = queue[q] - 1
        /\ \A r \in Requests : r # q => queue'[r] = queue[r]
    BY <1>6 DEF RetentionEnds, deviceVars, TypeOK, Bags
  <2>2. \A r \in Requests : queue'[r] <= queue[r] /\ (queue[r] = 0 => queue'[r] = 0)
    BY <1>3, <2>1
  <2>3. \A r \in Requests : queue'[r] \in Int
    BY <1>3, <2>1
  <2>4. \A r \in Requests : queue'[r] <= 1
    BY <1>3, <2>2, <2>3 DEF OneCopy
  <2> QED
    BY <1>1, <1>2, <2>1, <2>2, <2>4 DEF OneCopy
<1> QED
  BY <1>4, <1>5, <1>6
     DEF RequestAges, HourPasses, VisibilityEnds, EntryExpires, ExecutionStep, ExecutionFetches,
         ExecutionInvokes, PersistResult, PersistFailure, ExecutionAborts, deviceVars, vars

\* An invocation takes copies out of the queue, and ends when it holds none.
LEMMA InvocationOneCopy ==
  ASSUME TypeOK, OneCopy, ~Fail, NEW i \in Instances,
         \/ Invoke(i) \/ InvocationEnds(i) \/ InvocationFails(i)
         \/ InstanceDies(i) \/ InstanceRecycled(i)
  PROVE  OneCopy'
<1>1. asked' = asked
  BY DEF Invoke, Receive, InvocationEnds, InvocationFails, InstanceDies, InstanceRecycled,
         deviceVars
<1>2. \A j \in Instances \ {i} : batch'[j] = batch[j] /\ stage'[j] = stage[j]
  BY DEF Invoke, Receive, InvocationEnds, InvocationFails, InstanceDies, InstanceRecycled,
         Release, TypeOK
<1>3. /\ \A j \in Instances \ {i}, r \in Requests : Held(j, r)' = Held(j, r)
      /\ \A j \in Instances \ {i}, l \in Locations : Active(j, l)' = Active(j, l)
  BY <1>2 DEF Held, Active
<1>4. /\ \A r \in Requests : LocationOf[r] \in Locations
      /\ \A r \in Requests : queue[r] \in Nat
  BY LocationAssumption DEF TypeOK, Bags
<1>5. CASE InvocationEnds(i)
  <2>1. /\ \A r \in Requests : batch'[i][r] = 0
        /\ \A l \in Locations : stage'[i][l] = "none"
        /\ queue' = queue
    BY <1>5 DEF InvocationEnds, Release, NoMessages, TypeOK
  <2>2. /\ \A r \in Requests : ~(Held(i, r)' > 0)
        /\ \A l \in Locations : ~Active(i, l)'
    BY <1>4, <2>1 DEF Held, Active
  <2> QED
    BY <1>1, <1>2, <1>3, <2>1, <2>2 DEF OneCopy
<1>6. CASE InstanceRecycled(i)
  <2>1. UNCHANGED <<queue, batch, stage>>
    BY <1>6 DEF InstanceRecycled
  <2>2. /\ \A j \in Instances, r \in Requests : Held(j, r)' = Held(j, r)
        /\ \A j \in Instances, l \in Locations : Active(j, l)' = Active(j, l)
    BY <2>1 DEF Held, Active
  <2> QED
    BY <1>1, <2>1, <2>2 DEF OneCopy
<1>7. ASSUME NEW b \in SubBags(queue), Receive(i, b) PROVE OneCopy'
  <2>1. /\ queue' = queue (-) b
        /\ batch'[i] = b
        /\ \A l \in Locations : stage'[i][l] =
             IF \E r \in Requests : b[r] > 0 /\ LocationOf[r] = l THEN "check" ELSE "none"
    BY <1>7 DEF Receive, TypeOK
  <2>2. \A r \in Requests : b[r] \in Nat /\ b[r] <= queue[r] /\ queue'[r] = queue[r] - b[r]
    BY <2>1, SubBagIsBag DEF (-), TypeOK, Bags
  <2>3. \A r \in Requests : queue[r] <= 1
    BY DEF OneCopy
  <2>4. \A r \in Requests :
          /\ queue'[r] <= 1 /\ b[r] <= 1
          /\ b[r] > 0 => queue[r] > 0 /\ queue'[r] = 0
          /\ queue[r] = 0 => queue'[r] = 0
    BY <1>4, <2>2, <2>3
  <2>5. \A r \in Requests : Held(i, r)' > 0 <=> b[r] > 0
    BY <1>4, <2>1 DEF Held
  <2>6. \A r \in Requests : b[r] > 0 => r \in asked /\ \A j \in Instances : ~(Held(j, r) > 0)
    BY <2>4 DEF OneCopy
  <2>7. \A j \in Instances, r \in Requests : Held(j, r)' > 0 =>
          r \in asked /\ queue'[r] = 0 /\ \A n \in Instances : Held(n, r)' > 0 => n = j
    <3> SUFFICES ASSUME NEW j \in Instances, NEW r \in Requests, Held(j, r)' > 0
                 PROVE  r \in asked /\ queue'[r] = 0 /\ \A n \in Instances : Held(n, r)' > 0 => n = j
      OBVIOUS
    <3>1. CASE j = i
      BY <1>3, <2>4, <2>5, <2>6, <3>1
    <3>2. CASE j # i
      BY <1>3, <2>4, <2>5, <2>6, <3>2 DEF OneCopy
    <3> QED
      BY <3>1, <3>2
  <2>8. \A j \in Instances, l \in Locations :
          /\ stage'[j][l] # "failed"
          /\ Active(j, l)' => \E r \in Requests : LocationOf[r] = l /\ Held(j, r)' > 0
    <3> SUFFICES ASSUME NEW j \in Instances, NEW l \in Locations
                 PROVE  /\ stage'[j][l] # "failed"
                        /\ Active(j, l)' => \E r \in Requests : LocationOf[r] = l /\ Held(j, r)' > 0
      OBVIOUS
    <3>1. CASE j = i
      BY <2>1, <2>5, <3>1 DEF Active
    <3>2. CASE j # i
      BY <1>2, <1>3, <3>2 DEF OneCopy
    <3> QED
      BY <3>1, <3>2
  <2>9. \A j \in Instances, r \in Requests : batch'[j][r] <= 1
    BY <1>2, <2>1, <2>4 DEF OneCopy
  <2> QED
    BY <1>1, <2>4, <2>7, <2>8, <2>9 DEF OneCopy
<1>8. ~InvocationFails(i) /\ ~InstanceDies(i)
  BY DEF InvocationFails, InstanceDies, OneCopy
<1> QED
  BY <1>5, <1>6, <1>7, <1>8 DEF Invoke

\* A group sends its copies back to the queue only when it is done.
LEMMA HandleOneCopy ==
  ASSUME TypeOK, OneCopy, ~Fail, NEW i \in Instances, NEW l \in Locations, Handle(i, l)
  PROVE  OneCopy'
<1>1. UNCHANGED <<batch, asked>>
  BY DEF Handle, FindLocal, GetCacheError, GetCachePending, GetCacheFinished, PutEntry,
         PutEntryFails, StartExecution, StartExecutionFails, Publish, Requeue, deviceVars
<1>2. /\ \A j \in Instances, n \in Locations : j # i \/ n # l => stage'[j][n] = stage[j][n]
      /\ Active(i, l) /\ stage'[i][l] # "failed" /\ stage'[i][l] # "none"
  BY DEF Handle, FindLocal, GetCacheError, GetCachePending, GetCacheFinished, PutEntry,
         PutEntryFails, StartExecution, StartExecutionFails, Publish, Requeue, GoTo, TypeOK, Active
<1>3. /\ \A r \in Requests : LocationOf[r] \in Locations
      /\ \A r \in Requests : queue[r] \in Nat /\ Group(i, l)[r] \in Nat /\ Due(i, l)[r] \in Nat
      /\ \A r \in Requests : Due(i, l)[r] <= Group(i, l)[r]
      /\ \A r \in Requests : batch[i][r] \in Nat /\ batch[i][r] <= 1
  BY LocationAssumption, GroupIsBag DEF TypeOK, Bags, OneCopy
<1>4. /\ \A j \in Instances, r \in Requests :
           j # i \/ LocationOf[r] # l => Held(j, r)' = Held(j, r)
      /\ \A j \in Instances, n \in Locations : j # i \/ n # l => Active(j, n)' = Active(j, n)
  BY <1>1, <1>2, <1>3 DEF Held, Active
<1>5. \A r \in Requests : LocationOf[r] = l => Held(i, r) = Group(i, l)[r]
  BY <1>2 DEF Held, Group, Active
<1>6. CASE stage'[i][l] # "done" /\ UNCHANGED queue
  <2>1. /\ \A r \in Requests : LocationOf[r] = l => Held(i, r)' = Held(i, r)
        /\ Active(i, l)' = Active(i, l)
    BY <1>1, <1>2, <1>6 DEF Held, Active
  <2>2. /\ \A j \in Instances, r \in Requests : Held(j, r)' = Held(j, r)
        /\ \A j \in Instances, n \in Locations : Active(j, n)' = Active(j, n)
    BY <1>4, <2>1
  <2>3. \A j \in Instances, n \in Locations : stage'[j][n] # "failed"
    BY <1>2 DEF OneCopy
  <2> QED
    BY <1>1, <1>6, <2>2, <2>3 DEF OneCopy
<1>7. CASE /\ stage'[i][l] = "done"
           /\ \A r \in Requests : queue'[r] = queue[r] \/ queue'[r] = queue[r] + Due(i, l)[r]
  <2>1. /\ \A r \in Requests : LocationOf[r] = l => ~(Held(i, r)' > 0)
        /\ ~Active(i, l)'
    BY <1>7 DEF Held, Active
  <2>2. \A r \in Requests : Due(i, l)[r] > 0 =>
          /\ LocationOf[r] = l /\ Held(i, r) > 0 /\ Due(i, l)[r] <= 1
    <3>1. \A r \in Requests : Group(i, l)[r] > 0 => LocationOf[r] = l /\ Group(i, l)[r] <= 1
      BY <1>3 DEF Group
    <3> QED
      BY <1>3, <1>5, <3>1
  <2>3. \A r \in Requests : queue'[r] <= 1
    BY <1>3, <1>7, <2>2 DEF OneCopy
  <2>4. \A r \in Requests \ asked : queue'[r] = 0
    <3>1. \A r \in Requests \ asked : queue[r] = 0 /\ ~(Due(i, l)[r] > 0)
      BY <2>2 DEF OneCopy
    <3> QED
      BY <1>3, <1>7, <3>1
  <2>5. \A j \in Instances, r \in Requests : Held(j, r)' > 0 =>
          r \in asked /\ queue'[r] = 0 /\ \A n \in Instances : Held(n, r)' > 0 => n = j
    <3> SUFFICES ASSUME NEW j \in Instances, NEW r \in Requests, Held(j, r)' > 0
                 PROVE  r \in asked /\ queue'[r] = 0 /\ \A n \in Instances : Held(n, r)' > 0 => n = j
      OBVIOUS
    <3>1. Held(j, r)' = Held(j, r) /\ Held(j, r) > 0
      BY <1>4, <2>1
    <3>2. r \in asked /\ queue[r] = 0 /\ \A n \in Instances : Held(n, r) > 0 => n = j
      BY <3>1 DEF OneCopy
    <3>3. \A n \in Instances : Held(n, r)' > 0 => Held(n, r) > 0
      BY <1>4, <2>1
    <3>4. ~(Due(i, l)[r] > 0)
      BY <2>1, <2>2, <3>1, <3>2
    <3> QED
      BY <1>3, <1>7, <3>2, <3>3, <3>4
  <2>6. \A j \in Instances, n \in Locations : Active(j, n)' =>
          \E r \in Requests : LocationOf[r] = n /\ Held(j, r)' > 0
    BY <1>4, <2>1 DEF OneCopy
  <2>7. \A j \in Instances, n \in Locations : stage'[j][n] # "failed"
    BY <1>2 DEF OneCopy
  <2> QED
    BY <1>1, <2>3, <2>4, <2>5, <2>6, <2>7 DEF OneCopy
<1>8. ASSUME NEW lost \in SubBags(Due(i, l)), Requeue(i, l, lost)
      PROVE  \A r \in Requests : queue'[r] = queue[r] + Due(i, l)[r]
  <2>1. lost = NoMessages /\ queue' = queue (+) (Due(i, l) (-) lost)
    BY <1>8 DEF Requeue
  <2>2. \A r \in Requests : lost[r] = 0
    BY <2>1 DEF NoMessages
  <2> QED
    BY <1>3, <2>1, <2>2 DEF (+), (-)
<1>9. \/ stage'[i][l] # "done" /\ UNCHANGED queue
      \/ stage'[i][l] = "done" /\ UNCHANGED queue
      \/ \E lost \in SubBags(Due(i, l)) : Requeue(i, l, lost) /\ stage'[i][l] = "done"
  BY DEF Handle, FindLocal, GetCacheError, GetCachePending, GetCacheFinished, PutEntry,
         PutEntryFails, StartExecution, StartExecutionFails, Publish, Requeue, GoTo, TypeOK
<1> QED
  BY <1>6, <1>7, <1>8, <1>9

\* A copy that an action of the handler takes out of its group goes to one place: the
\* queue, or one of the fates.
LEMMA HandleMovesCopies ==
  ASSUME TypeOK, ~Fail, NEW i \in Instances, NEW l \in Locations, Handle(i, l),
         NEW r \in Requests
  PROVE  /\ \A j \in Instances : j # i => Held(j, r)' = Held(j, r)
         /\ \/ /\ Held(i, r)' = Held(i, r)
               /\ queue'[r] = queue[r]
               /\ \A f \in Fates : fates'[f][r] = fates[f][r]
            \/ /\ Held(i, r)' = 0
               /\ queue'[r] = queue[r] + Held(i, r)
               /\ \A f \in Fates : fates'[f][r] = fates[f][r]
            \/ /\ Held(i, r)' = 0
               /\ queue'[r] = queue[r]
               /\ \E f \in Fates :
                    /\ fates'[f][r] = fates[f][r] + Held(i, r)
                    /\ \A g \in Fates : g # f => fates'[g][r] = fates[g][r]
<1>1. /\ UNCHANGED batch
      /\ \A j \in Instances, n \in Locations : j # i \/ n # l => stage'[j][n] = stage[j][n]
      /\ stage[i][l] \notin {"none", "done"} /\ stage'[i][l] # "none"
  BY DEF Handle, FindLocal, GetCacheError, GetCachePending, GetCacheFinished, PutEntry,
         PutEntryFails, StartExecution, StartExecutionFails, Publish, Requeue, GoTo, TypeOK
<1>2. /\ LocationOf[r] \in Locations
      /\ batch[i][r] \in Nat /\ queue[r] \in Nat
      /\ \A f \in Fates : fates[f][r] \in Nat
  BY LocationAssumption DEF TypeOK, Bags
<1>3. \A j \in Instances : j # i \/ LocationOf[r] # l => Held(j, r)' = Held(j, r)
  BY <1>1, <1>2 DEF Held
<1>4. /\ Group(i, l)[r] = IF LocationOf[r] = l THEN Held(i, r) ELSE 0
      /\ Due(i, l)[r] = IF r \in overdue THEN 0 ELSE Group(i, l)[r]
      /\ Cancelled(i, l)[r] = IF r \in overdue THEN Group(i, l)[r] ELSE 0
      /\ Group(i, l)[r] \in Nat
  <2>1. Group(i, l)[r] = IF LocationOf[r] = l THEN Held(i, r) ELSE 0
    BY <1>1 DEF Held, Group
  <2>2. Due(i, l)[r] = IF r \in overdue THEN 0 ELSE Group(i, l)[r]
    BY DEF Due
  <2>3. Group(i, l)[r] \in Nat
    BY <1>2 DEF Group
  <2> QED
    BY <2>1, <2>2, <2>3 DEF Cancelled, (-)
<1>5. stage'[i][l] = "done" /\ LocationOf[r] = l => Held(i, r)' = 0
  BY DEF Held
<1>6. CASE stage'[i][l] # "done" /\ UNCHANGED <<queue, fates>>
  <2>1. Held(i, r)' = Held(i, r)
    BY <1>1, <1>2, <1>3, <1>6 DEF Held
  <2> QED
    BY <1>3, <1>6, <2>1
<1>7. CASE GetCacheFinished(i, l) /\ ~UNCHANGED fates
  <2>1. /\ stage'[i][l] = "done" /\ UNCHANGED queue
        /\ fates' = [fates EXCEPT !["rejected"] = @ (+) Group(i, l)]
    BY <1>7 DEF GetCacheFinished, GoTo, TypeOK
  <2>2. /\ fates'["rejected"][r] = fates["rejected"][r] + Group(i, l)[r]
        /\ \A g \in Fates : g # "rejected" => fates'[g][r] = fates[g][r]
    BY <2>1 DEF TypeOK, Fates, (+)
  <2> QED
    BY <1>2, <1>3, <1>4, <1>5, <2>1, <2>2 DEF Fates
<1>8. CASE GetCacheFinished(i, l) /\ UNCHANGED fates /\ stage'[i][l] = "done"
  <2>1. /\ UNCHANGED queue
        /\ fates' = [fates EXCEPT !["rejected"] = @ (+) Group(i, l)]
    BY <1>8 DEF GetCacheFinished, GoTo, TypeOK
  <2>2. fates["rejected"][r] = fates["rejected"][r] + Group(i, l)[r]
    BY <1>8, <2>1 DEF TypeOK, Fates, (+)
  <2> QED
    BY <1>2, <1>3, <1>4, <1>5, <1>8, <2>1, <2>2 DEF Fates
<1>9. ASSUME NEW lost \in SubBags(Group(i, l)), Publish(i, l, lost)
      PROVE  /\ stage'[i][l] = "done" /\ UNCHANGED queue
             /\ fates'["delivered"][r] = fates["delivered"][r] + Group(i, l)[r]
             /\ \A g \in Fates : g # "delivered" => fates'[g][r] = fates[g][r]
  <2>1. /\ stage'[i][l] = "done" /\ UNCHANGED queue
        /\ lost = NoMessages
        /\ fates' = [fates EXCEPT !["delivered"] = @ (+) (Group(i, l) (-) lost),
                                  !["publishFailed"] = @ (+) lost]
    BY <1>9 DEF Publish, GoTo, TypeOK
  <2>2. lost[r] = 0
    BY <2>1 DEF NoMessages
  <2>3. /\ fates'["delivered"][r] = fates["delivered"][r] + (Group(i, l)[r] - lost[r])
        /\ fates'["publishFailed"][r] = fates["publishFailed"][r] + lost[r]
        /\ \A g \in Fates : g \notin {"delivered", "publishFailed"} => fates'[g][r] = fates[g][r]
    BY <2>1 DEF TypeOK, Fates, (+), (-)
  <2> QED
    BY <1>2, <1>4, <2>1, <2>2, <2>3 DEF Fates
<1>10. ASSUME NEW lost \in SubBags(Due(i, l)), Requeue(i, l, lost)
       PROVE  /\ stage'[i][l] = "done"
              /\ queue'[r] = queue[r] + Due(i, l)[r]
              /\ fates'["cancelled"][r] = fates["cancelled"][r] + Cancelled(i, l)[r]
              /\ \A g \in Fates : g # "cancelled" => fates'[g][r] = fates[g][r]
  <2>1. /\ stage'[i][l] = "done"
        /\ lost = NoMessages
        /\ queue' = queue (+) (Due(i, l) (-) lost)
        /\ fates' = [fates EXCEPT !["cancelled"] = @ (+) Cancelled(i, l),
                                  !["requeueFailed"] = @ (+) lost]
    BY <1>10 DEF Requeue, GoTo, TypeOK
  <2>2. lost[r] = 0
    BY <2>1 DEF NoMessages
  <2>3. /\ fates'["cancelled"][r] = fates["cancelled"][r] + Cancelled(i, l)[r]
        /\ fates'["requeueFailed"][r] = fates["requeueFailed"][r] + lost[r]
        /\ \A g \in Fates : g \notin {"cancelled", "requeueFailed"} => fates'[g][r] = fates[g][r]
        /\ queue'[r] = queue[r] + (Due(i, l)[r] - lost[r])
    BY <2>1 DEF TypeOK, Fates, (+), (-)
  <2> QED
    BY <1>2, <1>4, <2>1, <2>2, <2>3 DEF Fates
<1>11. CASE \E lost \in SubBags(Group(i, l)) : Publish(i, l, lost)
  BY <1>2, <1>3, <1>4, <1>5, <1>9, <1>11 DEF Fates
<1>12. CASE \E lost \in SubBags(Due(i, l)) : Requeue(i, l, lost)
  BY <1>2, <1>3, <1>4, <1>5, <1>10, <1>12 DEF Fates
<1> QED
  BY <1>6, <1>7, <1>8, <1>11, <1>12
     DEF Handle, FindLocal, GetCacheError, GetCachePending, GetCacheFinished, PutEntry,
         PutEntryFails, StartExecution, StartExecutionFails, GoTo, TypeOK

\* Without failures a request that has a fate has no other and no copy left.
OneFate ==
  \A r \in Requests, f \in Fates : fates[f][r] > 0 =>
    /\ fates[f][r] = 1 /\ r \in asked
    /\ queue[r] = 0 /\ \A i \in Instances : Held(i, r) = 0
    /\ \A g \in Fates : fates[g][r] > 0 => g = f

\* A request gets its fate from the queue only when the queue holds its only copy.
LEMMA EnvironmentOneFate ==
  ASSUME TypeOK, OneCopy, OneFate, ~Fail,
         \/ \E r \in Requests : DeviceRequest(r) \/ RequestAges(r) \/ RetentionEnds(r)
         \/ HourPasses
         \/ \E i \in Instances, r \in Requests : VisibilityEnds(i, r)
         \/ \E k \in Keys : EntryExpires(k) \/ ExecutionStep(k)
         \/ UNCHANGED vars
  PROVE  OneFate'
<1>1. UNCHANGED <<batch, stage>>
  BY DEF DeviceRequest, RequestAges, RetentionEnds, HourPasses, VisibilityEnds,
         EntryExpires, ExecutionStep, ExecutionFetches, ExecutionInvokes, PersistResult,
         PersistFailure, ExecutionAborts, vars, handlerVars
<1>2. \A r \in Requests, i \in Instances : Held(i, r)' = Held(i, r)
  BY <1>1 DEF Held
<1>3. CASE UNCHANGED <<queue, asked, fates>>
  BY <1>2, <1>3 DEF OneFate
<1>4. ASSUME NEW q \in Requests, DeviceRequest(q) PROVE OneFate'
  <2>1. /\ asked' = asked \cup {q} /\ q \notin asked /\ UNCHANGED fates
        /\ \A r \in Requests : r # q => queue'[r] = queue[r]
    BY <1>4 DEF DeviceRequest, TypeOK, Bags
  <2> QED
    BY <1>2, <2>1 DEF OneFate
<1>5. ASSUME NEW q \in Requests, RetentionEnds(q) PROVE OneFate'
  <2>1. /\ asked' = asked /\ q \in asked
        /\ queue[q] > 0 /\ queue'[q] = queue[q] - 1
        /\ \A r \in Requests : r # q => queue'[r] = queue[r]
        /\ "retired" \in Fates
        /\ fates'["retired"][q] = fates["retired"][q] + 1
        /\ \A r \in Requests, f \in Fates : r # q \/ f # "retired" => fates'[f][r] = fates[f][r]
    BY <1>5 DEF RetentionEnds, deviceVars, TypeOK, Bags, Fates
  <2>2. queue[q] \in Nat /\ queue[q] <= 1 /\ \A f \in Fates : fates[f][q] \in Nat
    BY DEF TypeOK, Bags, OneCopy
  <2>3. \A f \in Fates : fates[f][q] = 0
    BY <2>1, <2>2 DEF OneFate
  <2>4. \A i \in Instances : Held(i, q) = 0
    <3>1. \A i \in Instances : Held(i, q) \in Nat
      BY DEF Held, TypeOK, Bags
    <3> QED
      BY <2>1, <3>1 DEF OneCopy
  <2>5. queue'[q] = 0 /\ fates'["retired"][q] = 1
    BY <2>1, <2>2, <2>3
  <2> QED
    BY <1>2, <2>1, <2>3, <2>4, <2>5 DEF OneFate
<1> QED
  BY <1>3, <1>4, <1>5
     DEF RequestAges, HourPasses, VisibilityEnds, EntryExpires, ExecutionStep, ExecutionFetches,
         ExecutionInvokes, PersistResult, PersistFailure, ExecutionAborts, deviceVars, vars

\* An invocation takes requests that have no fate, and gives none back.
LEMMA InvocationOneFate ==
  ASSUME TypeOK, OneCopy, OneFate, ~Fail, NEW i \in Instances,
         \/ Invoke(i) \/ InvocationEnds(i) \/ InvocationFails(i)
         \/ InstanceDies(i) \/ InstanceRecycled(i)
  PROVE  OneFate'
<1>1. ~InvocationFails(i) /\ ~InstanceDies(i)
  BY DEF InvocationFails, InstanceDies, OneCopy
<1>2. UNCHANGED <<asked, fates>>
  BY <1>1 DEF Invoke, Receive, InvocationEnds, InstanceRecycled, deviceVars
<1> SUFFICES ASSUME NEW r \in Requests, NEW f \in Fates, fates[f][r] > 0
             PROVE  queue'[r] = 0 /\ \A j \in Instances : Held(j, r)' = 0
  BY <1>2 DEF OneFate
<1>3. queue[r] = 0 /\ \A j \in Instances : Held(j, r) = 0
  BY DEF OneFate
<1>4. \A j \in Instances \ {i} : Held(j, r)' = Held(j, r)
  <2>1. \A j \in Instances \ {i} : batch'[j] = batch[j] /\ stage'[j] = stage[j]
    BY <1>1 DEF Invoke, Receive, InvocationEnds, InstanceRecycled, Release, TypeOK
  <2> QED
    BY <2>1 DEF Held
<1>5. LocationOf[r] \in Locations
  BY LocationAssumption
<1>6. CASE InvocationEnds(i)
  <2>1. queue' = queue /\ stage'[i][LocationOf[r]] = "none"
    BY <1>5, <1>6 DEF InvocationEnds, Release, TypeOK
  <2> QED
    BY <1>3, <1>4, <2>1 DEF Held
<1>7. CASE InstanceRecycled(i)
  <2>1. UNCHANGED <<queue, batch, stage>>
    BY <1>7 DEF InstanceRecycled
  <2> QED
    BY <1>3, <2>1 DEF Held
<1>8. ASSUME NEW b \in SubBags(queue), Receive(i, b)
      PROVE  queue'[r] = 0 /\ \A j \in Instances : Held(j, r)' = 0
  <2>1. b[r] \in Nat /\ b[r] <= queue[r] /\ queue'[r] = queue[r] - b[r] /\ batch'[i] = b
    BY <1>8, SubBagIsBag DEF Receive, (-), TypeOK, Bags
  <2>2. b[r] = 0 /\ queue'[r] = 0
    BY <1>3, <2>1
  <2>3. Held(i, r)' = 0
    BY <2>1, <2>2 DEF Held
  <2> QED
    BY <1>4, <1>3, <2>2, <2>3
<1> QED
  BY <1>1, <1>6, <1>7, <1>8 DEF Invoke

\* A group gives a fate only to requests it holds the only copy of.
LEMMA HandleOneFate ==
  ASSUME TypeOK, OneCopy, OneFate, ~Fail, NEW i \in Instances, NEW l \in Locations, Handle(i, l)
  PROVE  OneFate'
<1>1. asked' = asked
  BY DEF Handle, FindLocal, GetCacheError, GetCachePending, GetCacheFinished, PutEntry,
         PutEntryFails, StartExecution, StartExecutionFails, Publish, Requeue, deviceVars
<1> SUFFICES ASSUME NEW r \in Requests
             PROVE  \A f \in Fates : fates'[f][r] > 0 =>
                      /\ fates'[f][r] = 1 /\ r \in asked'
                      /\ queue'[r] = 0 /\ \A j \in Instances : Held(j, r)' = 0
                      /\ \A g \in Fates : fates'[g][r] > 0 => g = f
  BY DEF OneFate
<1>2. /\ \A j \in Instances : Held(j, r) \in Nat /\ Held(j, r) <= 1
      /\ queue[r] \in Nat
      /\ \A f \in Fates : fates[f][r] \in Nat
  BY DEF Held, TypeOK, Bags, OneCopy
<1>3. \A j \in Instances : j # i => Held(j, r)' = Held(j, r)
  BY HandleMovesCopies
<1>4. CASE Held(i, r) = 0
  <2>1. Held(i, r)' = 0 /\ queue'[r] = queue[r] /\ \A f \in Fates : fates'[f][r] = fates[f][r]
    BY <1>2, <1>4, HandleMovesCopies
  <2> QED
    BY <1>1, <1>3, <1>4, <2>1 DEF OneFate
<1>5. CASE Held(i, r) = 1
  <2>1. /\ r \in asked /\ queue[r] = 0
        /\ \A j \in Instances : j # i => Held(j, r) = 0
    BY <1>2, <1>5 DEF OneCopy
  <2>2. \A f \in Fates : fates[f][r] = 0
    BY <1>2, <1>5 DEF OneFate
  <2>3. CASE \A f \in Fates : fates'[f][r] = fates[f][r]
    BY <2>2, <2>3
  <2>4. ASSUME NEW f \in Fates,
               Held(i, r)' = 0, queue'[r] = queue[r],
               fates'[f][r] = fates[f][r] + Held(i, r),
               \A g \in Fates : g # f => fates'[g][r] = fates[g][r]
        PROVE  \A e \in Fates : fates'[e][r] > 0 =>
                 /\ fates'[e][r] = 1 /\ r \in asked'
                 /\ queue'[r] = 0 /\ \A j \in Instances : Held(j, r)' = 0
                 /\ \A g \in Fates : fates'[g][r] > 0 => g = e
    BY <1>1, <1>3, <1>5, <2>1, <2>2, <2>4
  <2> QED
    BY <2>3, <2>4, HandleMovesCopies
<1> QED
  BY <1>2, <1>4, <1>5

\* What is true of copies and fates as long as nothing has failed
CopiesInvariant == TypeOK /\ (faults = 0 => OneCopy /\ OneFate)

\* The system starts with neither copies nor fates.
LEMMA InitCopies == Init => CopiesInvariant
<1> SUFFICES ASSUME Init PROVE OneCopy /\ OneFate
  BY InitTypeOK DEF CopiesInvariant
<1>1. OneCopy
  BY LocationAssumption DEF Init, OneCopy, Held, Active, NoMessages
<1>2. OneFate
  BY DEF Init, OneFate, NoMessages
<1> QED
  BY <1>1, <1>2

\* Every step without a failure keeps one copy or one fate.
LEMMA NextCopies == CopiesInvariant /\ [Next]_vars => CopiesInvariant'
<1> SUFFICES ASSUME CopiesInvariant, [Next]_vars PROVE CopiesInvariant'
  OBVIOUS
<1>1. TypeOK /\ TypeOK'
  BY NextTypeOK DEF CopiesInvariant
<1> SUFFICES ASSUME faults' = 0 PROVE OneCopy' /\ OneFate'
  BY <1>1 DEF CopiesInvariant
<1>2. ~Fail /\ OneCopy /\ OneFate
  BY <1>1, NoFailure DEF CopiesInvariant
<1>3. ASSUME NEW i \in Instances, NEW l \in Locations, Handle(i, l)
      PROVE  OneCopy' /\ OneFate'
  BY <1>1, <1>2, <1>3, HandleOneCopy, HandleOneFate
<1>4. ASSUME NEW i \in Instances,
             \/ Invoke(i) \/ InvocationEnds(i) \/ InvocationFails(i)
             \/ InstanceDies(i) \/ InstanceRecycled(i)
      PROVE  OneCopy' /\ OneFate'
  BY <1>1, <1>2, <1>4, InvocationOneCopy, InvocationOneFate
<1>5. ASSUME \/ \E r \in Requests : DeviceRequest(r) \/ RequestAges(r) \/ RetentionEnds(r)
             \/ HourPasses
             \/ \E i \in Instances, r \in Requests : VisibilityEnds(i, r)
             \/ \E k \in Keys : EntryExpires(k) \/ ExecutionStep(k)
             \/ AtRest \/ UNCHANGED vars
      PROVE  OneCopy' /\ OneFate'
  BY <1>1, <1>2, <1>5, EnvironmentOneCopy, EnvironmentOneFate DEF AtRest
<1> QED
  BY <1>3, <1>4, <1>5 DEF Next

\* A request that is nowhere forgotten, and nowhere twice, is in one place.
LEMMA CopiesAreInPlaces ==
  ASSUME CopiesInvariant, NoRequestForgotten
  PROVE  EachRequestHasOneFate
<1> SUFFICES ASSUME NEW r \in asked
             PROVE  \E p \in Places :
                      /\ CopiesAt(p, r) > 0
                      /\ faults = 0 =>
                           /\ CopiesAt(p, r) = 1
                           /\ \A other \in Places \ {p} : CopiesAt(other, r) = 0
  BY DEF EachRequestHasOneFate
<1>1. r \in Requests /\ TypeOK
  BY DEF CopiesInvariant, TypeOK
<1>2. \A p \in Places :
        \/ p = <<"queue">> /\ CopiesAt(p, r) = queue[r]
        \/ \E i \in Instances : p = <<"group", i>> /\ CopiesAt(p, r) = Held(i, r)
        \/ \E f \in Fates : p = <<"fate", f>> /\ CopiesAt(p, r) = fates[f][r]
  BY DEF Places, CopiesAt
<1>3. /\ queue[r] \in Nat
      /\ \A i \in Instances : Held(i, r) \in Nat
      /\ \A f \in Fates : fates[f][r] \in Nat
  BY <1>1 DEF Held, TypeOK, Bags
<1>4. /\ <<"queue">> \in Places /\ CopiesAt(<<"queue">>, r) = queue[r]
      /\ \A i \in Instances : <<"group", i>> \in Places /\ CopiesAt(<<"group", i>>, r) = Held(i, r)
      /\ \A f \in Fates : <<"fate", f>> \in Places /\ CopiesAt(<<"fate", f>>, r) = fates[f][r]
  BY DEF Places, CopiesAt
<1>5. CASE queue[r] > 0
  <2>1. faults = 0 =>
          /\ queue[r] = 1
          /\ \A i \in Instances : Held(i, r) = 0
          /\ \A f \in Fates : fates[f][r] = 0
    BY <1>1, <1>3, <1>5 DEF CopiesInvariant, OneCopy, OneFate
  <2> QED
    BY <1>2, <1>4, <1>5, <2>1
<1>6. ASSUME NEW i \in Instances, Held(i, r) > 0
      PROVE  \E p \in Places :
               /\ CopiesAt(p, r) > 0
               /\ faults = 0 =>
                    /\ CopiesAt(p, r) = 1
                    /\ \A other \in Places \ {p} : CopiesAt(other, r) = 0
  <2>1. faults = 0 =>
          /\ Held(i, r) = 1 /\ queue[r] = 0
          /\ \A j \in Instances : j # i => Held(j, r) = 0
          /\ \A f \in Fates : fates[f][r] = 0
    <3>1. batch[i][r] \in Nat
      BY <1>1 DEF TypeOK, Bags
    <3> QED
      BY <1>1, <1>3, <1>6, <3>1 DEF CopiesInvariant, OneCopy, OneFate, Held
  <2> QED
    BY <1>2, <1>4, <1>6, <2>1
<1>7. ASSUME NEW f \in Fates, fates[f][r] > 0
      PROVE  \E p \in Places :
               /\ CopiesAt(p, r) > 0
               /\ faults = 0 =>
                    /\ CopiesAt(p, r) = 1
                    /\ \A other \in Places \ {p} : CopiesAt(other, r) = 0
  <2>1. faults = 0 =>
          /\ fates[f][r] = 1 /\ queue[r] = 0
          /\ \A i \in Instances : Held(i, r) = 0
          /\ \A g \in Fates : g # f => fates[g][r] = 0
    BY <1>1, <1>3, <1>7 DEF CopiesInvariant, OneFate
  <2> QED
    BY <1>2, <1>4, <1>7, <2>1
<1> QED
  BY <1>5, <1>6, <1>7 DEF NoRequestForgotten

(***************************************************************************)
(* For any number of devices, locations, instances and hours, a request is *)
(* in the queue, in a group or has a fate, whatever fails; and as long as  *)
(* nothing has failed it is in one of those places and is there once.      *)
(***************************************************************************)
THEOREM OneFateEach == Spec => []EachRequestHasOneFate
<1>1. Spec => []CopiesInvariant
  BY InitCopies, NextCopies, PTL DEF Spec
<1> QED
  BY <1>1, NothingForgotten, CopiesAreInPlaces, PTL

-----------------------------------------------------------------------------
(* What no step may do with a message                                      *)

\* Steps of devices, the queue, the table and the executions: only a first
\* request and a second delivery put a message in the queue.
LEMMA EnvironmentMessages ==
  ASSUME TypeOK, NEW r \in asked,
         \/ \E q \in Requests : DeviceRequest(q) \/ RequestAges(q) \/ RetentionEnds(q)
         \/ HourPasses
         \/ \E i \in Instances, q \in Requests : VisibilityEnds(i, q)
         \/ \E k \in Keys : EntryExpires(k) \/ ExecutionStep(k)
         \/ UNCHANGED vars
  PROVE  /\ UNCHANGED batch
         /\ \/ queue'[r] <= queue[r] /\ queue'[r] >= 0
            \/ faults' > faults /\ \E i \in Instances : batch[i][r] > 0
<1>1. r \in Requests /\ queue[r] \in Nat /\ faults \in Nat
  BY DEF TypeOK, Bags
<1>2. UNCHANGED batch
  BY DEF DeviceRequest, RequestAges, RetentionEnds, HourPasses, VisibilityEnds, EntryExpires,
         ExecutionStep, ExecutionFetches, ExecutionInvokes, PersistResult, PersistFailure,
         ExecutionAborts, handlerVars, vars
<1>3. ASSUME NEW q \in Requests, DeviceRequest(q) PROVE queue'[r] = queue[r]
  BY <1>3, <1>1 DEF DeviceRequest, TypeOK, Bags
<1>4. ASSUME NEW q \in Requests, RetentionEnds(q)
      PROVE  queue'[r] <= queue[r] /\ queue'[r] >= 0
  BY <1>4, <1>1 DEF RetentionEnds, TypeOK, Bags
<1>5. ASSUME NEW i \in Instances, NEW q \in Requests, VisibilityEnds(i, q)
      PROVE  \/ queue'[r] = queue[r]
             \/ faults' > faults /\ batch[i][r] > 0
  BY <1>5, <1>1 DEF VisibilityEnds, Fail, TypeOK, Bags
<1>6. CASE \/ \E q \in Requests : RequestAges(q)
           \/ HourPasses
           \/ \E k \in Keys : EntryExpires(k) \/ ExecutionStep(k)
           \/ UNCHANGED vars
  <2>1. queue' = queue
    BY <1>6 DEF RequestAges, HourPasses, EntryExpires, ExecutionStep, ExecutionFetches,
       ExecutionInvokes, PersistResult, PersistFailure, ExecutionAborts, vars
  <2> QED
    BY <1>1, <1>2, <2>1
<1> QED
  BY <1>1, <1>2, <1>3, <1>4, <1>5, <1>6

\* Steps of an invocation as a whole: a message goes from the queue to a batch,
\* or back with all of its batch.
LEMMA InvocationMessages ==
  ASSUME TypeOK, NEW r \in Requests, NEW i \in Instances,
         \/ Invoke(i) \/ InvocationEnds(i) \/ InvocationFails(i)
         \/ InstanceDies(i) \/ InstanceRecycled(i)
  PROVE  /\ \A j \in Instances \ {i} : batch'[j] = batch[j]
         /\ \/ /\ queue'[r] <= queue[r] /\ queue'[r] >= 0
               /\ batch'[i][r] > 0 => batch[i][r] > 0 \/ queue[r] > 0
            \/ /\ queue'[r] = queue[r] + batch[i][r]
               /\ batch'[i][r] = 0
<1>1. queue[r] \in Nat /\ batch[i][r] \in Nat
  BY DEF TypeOK, Bags
<1>2. ASSUME NEW b \in SubBags(queue), Receive(i, b)
      PROVE  /\ \A j \in Instances \ {i} : batch'[j] = batch[j]
             /\ queue'[r] = queue[r] - b[r]
             /\ batch'[i][r] = b[r]
  BY <1>2 DEF Receive, (-), TypeOK
<1>3. \A b \in SubBags(queue) : b[r] \in Nat /\ b[r] <= queue[r]
  BY SubBagIsBag DEF TypeOK, Bags
<1>4. CASE Invoke(i)
  BY <1>1, <1>2, <1>3, <1>4 DEF Invoke
<1>5. CASE InvocationEnds(i)
  BY <1>1, <1>5 DEF InvocationEnds, Release, NoMessages, TypeOK
<1>6. CASE InvocationFails(i)
  BY <1>1, <1>6 DEF InvocationFails, Release, NoMessages, (+), TypeOK
<1>7. CASE InstanceDies(i)
  BY <1>1, <1>7 DEF InstanceDies, Release, NoMessages, (+), TypeOK
<1>8. CASE InstanceRecycled(i)
  BY <1>1, <1>8 DEF InstanceRecycled
<1> QED
  BY <1>4, <1>5, <1>6, <1>7, <1>8

\* Steps of a group: a message that is sent again is one of the batch, and its
\* request is not too old.
LEMMA HandleMessages ==
  ASSUME TypeOK, NEW r \in Requests, NEW i \in Instances, NEW l \in Locations, Handle(i, l)
  PROVE  /\ UNCHANGED batch
         /\ \/ queue'[r] = queue[r]
            \/ r \notin overdue /\ batch[i][r] > 0
<1>1. queue[r] \in Nat /\ batch[i][r] \in Nat
  BY DEF TypeOK, Bags
<1>2. UNCHANGED batch
  BY DEF Handle, FindLocal, GetCacheError, GetCachePending, GetCacheFinished, PutEntry,
         PutEntryFails, StartExecution, StartExecutionFails, Publish, Requeue
<1>3. ASSUME NEW lost \in SubBags(Due(i, l)), Requeue(i, l, lost)
      PROVE  \/ queue'[r] = queue[r]
             \/ r \notin overdue /\ batch[i][r] > 0
  <2>1. lost[r] \in Nat /\ Due(i, l)[r] \in Nat /\ lost[r] <= Due(i, l)[r]
    BY GroupIsBag, SubBagIsBag DEF Bags
  <2>2. queue'[r] = queue[r] + (Due(i, l)[r] - lost[r])
    BY <1>3 DEF Requeue, (+), (-)
  <2>3. Due(i, l)[r] > 0 => r \notin overdue /\ batch[i][r] > 0
    BY DEF Due, Group
  <2> QED
    BY <1>1, <2>1, <2>2, <2>3
<1>4. CASE ~\E lost \in SubBags(Due(i, l)) : Requeue(i, l, lost)
  BY <1>4 DEF Handle, FindLocal, GetCacheError, GetCachePending, GetCacheFinished, PutEntry,
         PutEntryFails, StartExecution, StartExecutionFails, Publish
<1> QED
  BY <1>2, <1>3, <1>4

(***************************************************************************)
(* The handler does not send a request again that is too old: only a batch *)
(* that returns as a whole, or a second delivery, puts it back.  So the    *)
(* loop of pending entry and repeated message ends with the age of the     *)
(* request, for every number of instances, messages and failures.          *)
(***************************************************************************)
THEOREM OverdueLeaves == Spec => OverdueNotSentAgain
<1>1. ASSUME TypeOK, [Next]_vars, NEW r \in overdue, queue'[r] > queue[r]
      PROVE  faults' > faults \/ \E i \in Instances : batch[i][r] > 0 /\ batch'[i][r] = 0
  <2>1. r \in asked /\ r \in Requests
    BY <1>1 DEF TypeOK
  <2>2. queue[r] \in Nat /\ queue'[r] \in Nat /\ \A i \in Instances : batch[i][r] \in Nat
    BY <1>1, <2>1, NextTypeOK DEF TypeOK, Bags
  <2>3. ASSUME NEW i \in Instances,
               \/ Invoke(i) \/ InvocationEnds(i) \/ InvocationFails(i)
               \/ InstanceDies(i) \/ InstanceRecycled(i)
        PROVE  batch[i][r] > 0 /\ batch'[i][r] = 0
    BY <1>1, <2>1, <2>2, <2>3, InvocationMessages
  <2>4. ASSUME NEW i \in Instances, NEW l \in Locations, Handle(i, l) PROVE FALSE
    BY <1>1, <2>1, <2>2, <2>4, HandleMessages
  <2>5. CASE queue'[r] <= queue[r] \/ faults' > faults
    BY <1>1, <2>2, <2>5
  <2> QED
    BY <1>1, <2>1, <2>3, <2>4, <2>5, EnvironmentMessages DEF Next, AtRest
<1>2. TypeOK /\ [Next]_vars =>
        [\A r \in overdue :
           queue'[r] > queue[r] =>
             \/ faults' > faults
             \/ \E i \in Instances : batch[i][r] > 0 /\ batch'[i][r] = 0]_vars
  BY <1>1
<1> QED
  BY <1>2, TypeCorrect, PTL DEF Spec, OverdueNotSentAgain

-----------------------------------------------------------------------------
(* In progress, without failures                                           *)

\* No two requests ask for the same location.
OneRequestPerKey == \A r, s \in Requests : LocationOf[r] = LocationOf[s] => r = s

\* Invocations of the Lambda do not run at the same time.
OneInstance == \A i, j \in Instances : i = j

\* Either is enough for a key to be handled by one group at a time.
Alone == OneRequestPerKey \/ OneInstance

\* A group of the current hour that is about to write the entry or to start the
\* execution
Opening(i, k) == handlerBin[i] = bin /\ stage[i][k[1]] \in {"put", "start"}

\* Without failures the entry of the current hour and its execution go together: a
\* pending entry has an execution, or a group that is about to start it.
KeyInProgress(k) ==
  /\ executions[k] # "aborted"
  /\ k[2] > bin => executions[k] = "none" /\ cacheTable[k] = "absent"
  /\ k[2] = bin =>
       /\ cacheTable[k] = "absent" => executions[k] = "none"
       /\ executions[k] \in {"succeeded", "failed"} => cacheTable[k] \in {"resolved", "unresolved"}
       /\ \A i \in Instances : Opening(i, k) =>
            executions[k] = "none" /\ (stage[i][k[1]] = "start" => cacheTable[k] # "absent")
       /\ cacheTable[k] = "pending" /\ executions[k] = "none" =>
            \E i \in Instances : handlerBin[i] = bin /\ stage[i][k[1]] = "start"

EntriesInProgress ==
  /\ \A i \in Instances : handlerBin[i] <= bin
  /\ \A k \in Keys : KeyInProgress(k)

\* Two groups of a location hold the same request, of which there is one copy, or
\* are of the one instance.
LEMMA OneGroupPerLocation ==
  ASSUME OneCopy, Alone, NEW l \in Locations,
         NEW i \in Instances, NEW j \in Instances, Active(i, l), Active(j, l)
  PROVE  i = j
<1>1. CASE OneInstance
  BY <1>1 DEF OneInstance
<1>2. CASE OneRequestPerKey
  <2>1. PICK r \in Requests : LocationOf[r] = l /\ Held(i, r) > 0
    BY DEF OneCopy
  <2>2. PICK s \in Requests : LocationOf[s] = l /\ Held(j, s) > 0
    BY DEF OneCopy
  <2>3. r = s
    BY <1>2, <2>1, <2>2 DEF OneRequestPerKey
  <2> QED
    BY <2>1, <2>2, <2>3 DEF OneCopy
<1> QED
  BY <1>1, <1>2 DEF Alone

\* A step that touches neither the entry, nor the execution, nor a group at its opening.
LEMMA KeyUntouched ==
  ASSUME NEW k \in Keys, KeyInProgress(k), bin' = bin,
         cacheTable'[k] = cacheTable[k], executions'[k] = executions[k],
         \A i \in Instances : Opening(i, k)' =>
           Opening(i, k) /\ stage'[i][k[1]] = stage[i][k[1]],
         \A i \in Instances : handlerBin[i] = bin /\ stage[i][k[1]] = "start" =>
           handlerBin'[i] = bin /\ stage'[i][k[1]] = "start"
  PROVE  KeyInProgress(k)'
BY DEF KeyInProgress, Opening

\* The time to live ends the entries of earlier hours only, and the next hour begins
\* with none.
LEMMA EnvironmentInProgress ==
  ASSUME TypeOK, EntriesInProgress, ~Fail,
         \/ \E r \in Requests : DeviceRequest(r) \/ RequestAges(r) \/ RetentionEnds(r)
         \/ HourPasses
         \/ \E i \in Instances, r \in Requests : VisibilityEnds(i, r)
         \/ \E k \in Keys : EntryExpires(k)
         \/ UNCHANGED vars
  PROVE  EntriesInProgress'
<1>1. UNCHANGED <<handlerBin, stage, executions>>
  BY DEF DeviceRequest, RequestAges, RetentionEnds, HourPasses, VisibilityEnds, EntryExpires,
         vars, handlerVars, executionVars
<1>2. CASE UNCHANGED <<bin, cacheTable>>
  BY <1>1, <1>2 DEF EntriesInProgress, KeyInProgress, Opening
<1>3. CASE HourPasses
  <2>1. bin' = bin + 1 /\ bin \in Nat /\ UNCHANGED cacheTable
    BY <1>3 DEF HourPasses, TypeOK
  <2>2. \A i \in Instances : handlerBin[i] \in Nat /\ handlerBin[i] < bin'
    BY <2>1 DEF EntriesInProgress, TypeOK
  <2> SUFFICES ASSUME NEW k \in Keys PROVE KeyInProgress(k)'
    BY <1>1, <2>1, <2>2 DEF EntriesInProgress
  <2>3. k[2] \in Nat
    BY DEF Keys
  <2>4. KeyInProgress(k) /\ \A i \in Instances : ~Opening(i, k)'
    BY <1>1, <2>2 DEF EntriesInProgress, Opening
  <2> QED
    BY <1>1, <2>1, <2>3, <2>4 DEF KeyInProgress
<1>4. ASSUME NEW e \in Keys, EntryExpires(e) PROVE EntriesInProgress'
  <2>1. bin' = bin /\ e[2] < bin /\ \A k \in Keys : k # e => cacheTable'[k] = cacheTable[k]
    BY <1>4 DEF EntryExpires, TypeOK, deviceVars
  <2> SUFFICES ASSUME NEW k \in Keys PROVE KeyInProgress(k)'
    BY <1>1, <2>1 DEF EntriesInProgress
  <2>2. KeyInProgress(k) /\ k[2] \in Nat /\ bin \in Nat
    BY DEF EntriesInProgress, Keys, TypeOK
  <2>3. CASE k = e
    BY <1>1, <2>1, <2>2, <2>3 DEF KeyInProgress
  <2>4. CASE k # e
    BY <1>1, <2>1, <2>2, <2>4, KeyUntouched DEF Opening
  <2> QED
    BY <2>3, <2>4
<1> QED
  BY <1>2, <1>3, <1>4
     DEF DeviceRequest, RequestAges, RetentionEnds, VisibilityEnds, deviceVars, vars

\* An invocation begins with the keys of the hour and ends when no group of it is at
\* its opening.
LEMMA InvocationInProgress ==
  ASSUME TypeOK, OneCopy, EntriesInProgress, ~Fail, NEW i \in Instances,
         \/ Invoke(i) \/ InvocationEnds(i) \/ InvocationFails(i)
         \/ InstanceDies(i) \/ InstanceRecycled(i)
  PROVE  EntriesInProgress'
<1>1. ~InvocationFails(i) /\ ~InstanceDies(i)
  BY DEF InvocationFails, InstanceDies, OneCopy
<1>2. UNCHANGED <<bin, cacheTable, executions>>
  BY <1>1 DEF Invoke, Receive, InvocationEnds, InstanceRecycled, deviceVars, executionVars
<1>3. \A j \in Instances \ {i} : handlerBin'[j] = handlerBin[j] /\ stage'[j] = stage[j]
  BY <1>1 DEF Invoke, Receive, InvocationEnds, InstanceRecycled, Release, TypeOK
<1>4. /\ handlerBin'[i] \in {0, bin, handlerBin[i]}
      /\ \A l \in Locations : stage[i][l] # "start" /\ stage'[i][l] \notin {"put", "start"}
  <2>1. ASSUME NEW b, Receive(i, b) PROVE <1>4!:
    BY <2>1 DEF Receive, Idle, TypeOK
  <2>2. CASE InvocationEnds(i)
    BY <2>2 DEF InvocationEnds, Release, TypeOK
  <2>3. CASE InstanceRecycled(i)
    BY <2>3 DEF InstanceRecycled, Idle, TypeOK
  <2> QED
    BY <1>1, <2>1, <2>2, <2>3 DEF Invoke
<1>5. \A j \in Instances : handlerBin'[j] <= bin'
  BY <1>2, <1>3, <1>4 DEF EntriesInProgress, TypeOK
<1>6. ASSUME NEW k \in Keys PROVE KeyInProgress(k)'
  <2>1. KeyInProgress(k) /\ k[1] \in Locations
    BY DEF EntriesInProgress, Keys
  <2>2. \A j \in Instances : Opening(j, k)' =>
          Opening(j, k) /\ stage'[j][k[1]] = stage[j][k[1]]
    BY <1>2, <1>3, <1>4, <2>1 DEF Opening
  <2> QED
    BY <1>2, <1>3, <1>4, <2>1, <2>2, KeyUntouched
<1> QED
  BY <1>5, <1>6 DEF EntriesInProgress

\* The execution of a key records how it ends in the entry.
LEMMA ExecutionInProgress ==
  ASSUME TypeOK, EntriesInProgress, ~Fail, NEW e \in Keys, ExecutionStep(e)
  PROVE  EntriesInProgress'
<1>1. UNCHANGED <<bin, handlerBin, stage>>
  BY DEF ExecutionStep, ExecutionFetches, ExecutionInvokes, PersistResult, PersistFailure,
         ExecutionAborts, deviceVars, handlerVars
<1>2. \A k \in Keys : k # e => cacheTable'[k] = cacheTable[k] /\ executions'[k] = executions[k]
  BY DEF ExecutionStep, ExecutionFetches, ExecutionInvokes, PersistResult, PersistFailure,
         ExecutionAborts, Advance, TypeOK
<1>3. /\ executions[e] # "none" /\ executions'[e] \notin {"none", "aborted"}
      /\ cacheTable'[e] \in {cacheTable[e], "resolved", "unresolved"}
      /\ executions'[e] \in {"succeeded", "failed"} => cacheTable'[e] \in {"resolved", "unresolved"}
  BY DEF ExecutionStep, ExecutionFetches, ExecutionInvokes, PersistResult, PersistFailure,
         ExecutionAborts, Advance, TypeOK
<1> SUFFICES ASSUME NEW k \in Keys PROVE KeyInProgress(k)'
  BY <1>1 DEF EntriesInProgress
<1>4. KeyInProgress(k)
  BY DEF EntriesInProgress
<1>5. CASE k = e
  BY <1>1, <1>3, <1>4, <1>5 DEF KeyInProgress, Opening
<1>6. CASE k # e
  BY <1>1, <1>2, <1>4, <1>6, KeyUntouched DEF Opening
<1> QED
  BY <1>5, <1>6

\* A group opens only the resolution of a key that has no execution, and no other
\* group does so at the same time.
LEMMA HandleInProgress ==
  ASSUME TypeOK, OneCopy, Alone, EntriesInProgress, ~Fail,
         NEW i \in Instances, NEW l \in Locations, Handle(i, l)
  PROVE  EntriesInProgress'
<1>0. PICK e \in Keys : e = KeyOf(i, l)
  BY KeyOfIsKey
<1>1. e[1] = l /\ e[2] = handlerBin[i]
  BY <1>0 DEF KeyOf, cacheKey
<1>2. UNCHANGED <<bin, handlerBin>>
  BY DEF Handle, FindLocal, GetCacheError, GetCachePending, GetCacheFinished, PutEntry,
         PutEntryFails, StartExecution, StartExecutionFails, Publish, Requeue, deviceVars
<1>3. \A j \in Instances, n \in Locations : j # i \/ n # l => stage'[j][n] = stage[j][n]
  BY DEF Handle, FindLocal, GetCacheError, GetCachePending, GetCacheFinished, PutEntry,
         PutEntryFails, StartExecution, StartExecutionFails, Publish, Requeue, GoTo, TypeOK
<1>4. \A k \in Keys : k # e => cacheTable'[k] = cacheTable[k] /\ executions'[k] = executions[k]
  BY <1>0 DEF Handle, FindLocal, GetCacheError, GetCachePending, GetCacheFinished, PutEntry,
         PutEntryFails, StartExecution, StartExecutionFails, Publish, Requeue, TypeOK,
         executionVars
<1>5. \A j \in Instances : j # i => ~Opening(j, e)
  <2>1. Active(i, l)
    BY DEF Handle, FindLocal, GetCacheError, GetCachePending, GetCacheFinished, PutEntry,
           PutEntryFails, StartExecution, StartExecutionFails, Publish, Requeue, Active
  <2>2. ASSUME NEW j \in Instances, Opening(j, e) PROVE j = i
    BY <1>1, <2>1, <2>2, OneGroupPerLocation DEF Opening, Active
  <2> QED
    BY <2>2
<1>6. KeyInProgress(e)
  BY <1>1 DEF EntriesInProgress
<1>7. \/ /\ stage[i][l] # "start" /\ stage'[i][l] \notin {"put", "start"}
         /\ UNCHANGED <<cacheTable, executions>>
      \/ /\ stage[i][l] = "check" /\ stage'[i][l] = "put" /\ cacheTable[e] = "absent"
         /\ UNCHANGED <<cacheTable, executions>>
      \/ /\ stage[i][l] = "put" /\ stage'[i][l] = "start" /\ cacheTable'[e] = "pending"
         /\ UNCHANGED executions
      \/ /\ stage[i][l] = "start" /\ stage'[i][l] = "requeue"
         /\ executions'[e] = (IF executions[e] = "none" THEN "fetch" ELSE executions[e])
         /\ UNCHANGED cacheTable
  BY <1>0 DEF Handle, FindLocal, GetCacheError, GetCachePending, GetCacheFinished, PutEntry,
         PutEntryFails, StartExecution, StartExecutionFails, Publish, Requeue, GoTo, TypeOK,
         executionVars
<1>8. ASSUME NEW k \in Keys, k # e PROVE KeyInProgress(k)'
  <2>1. KeyInProgress(k)
    BY DEF EntriesInProgress
  <2>2. k[1] \in Locations /\ k = <<k[1], k[2]>> /\ e = <<e[1], e[2]>>
    BY <1>1 DEF Keys
  <2>3. CASE k[1] = l
    <3>1. k[2] # handlerBin[i]
      BY <1>1, <1>8, <2>2, <2>3
    <3>2. CASE k[2] = bin
      BY <1>2, <1>3, <1>4, <1>8, <2>1, <2>2, <3>1, <3>2, KeyUntouched DEF Opening
    <3>3. CASE k[2] # bin
      BY <1>2, <1>4, <1>8, <2>1, <3>3 DEF KeyInProgress
    <3> QED
      BY <3>2, <3>3
  <2>4. CASE k[1] # l
    BY <1>2, <1>3, <1>4, <1>8, <2>1, <2>2, <2>4, KeyUntouched DEF Opening
  <2> QED
    BY <2>3, <2>4
<1>9. KeyInProgress(e)'
  <2>1. e[2] <= bin
    BY <1>1 DEF EntriesInProgress
  <2>2. e[2] \in Nat /\ bin \in Nat
    BY <1>1 DEF TypeOK
  <2>3. ~(e[2] > bin)
    BY <2>1, <2>2
  <2>4. executions'[e] # "aborted"
    BY <1>6, <1>7 DEF KeyInProgress
  <2>5. CASE e[2] # bin
    BY <1>2, <2>3, <2>4, <2>5 DEF KeyInProgress
  <2>6. CASE e[2] = bin
    <3>1. \A j \in Instances : j # i => ~Opening(j, e)'
      BY <1>1, <1>2, <1>3, <1>5 DEF Opening
    <3>2. /\ cacheTable[e] = "absent" => executions[e] = "none"
          /\ executions[e] \in {"succeeded", "failed"} =>
               cacheTable[e] \in {"resolved", "unresolved"}
          /\ stage[i][l] \in {"put", "start"} => executions[e] = "none"
          /\ stage[i][l] = "start" => cacheTable[e] # "absent"
          /\ cacheTable[e] = "pending" /\ executions[e] = "none" =>
               \E j \in Instances : handlerBin[j] = bin /\ stage[j][l] = "start"
      BY <1>1, <1>6, <2>6 DEF KeyInProgress, Opening
    <3>3. \A j \in Instances : handlerBin[j] = bin /\ stage[j][l] = "start" => j = i
      BY <1>1, <1>5 DEF Opening
    <3>4. /\ cacheTable'[e] = "absent" => executions'[e] = "none"
          /\ executions'[e] \in {"succeeded", "failed"} =>
               cacheTable'[e] \in {"resolved", "unresolved"}
          /\ stage'[i][l] \in {"put", "start"} => executions'[e] = "none"
          /\ stage'[i][l] = "start" => cacheTable'[e] # "absent"
          /\ cacheTable'[e] = "pending" /\ executions'[e] = "none" => stage'[i][l] = "start"
      BY <1>7, <3>2, <3>3
    <3>5. \A j \in Instances : Opening(j, e)' =>
            executions'[e] = "none" /\ (stage'[j][l] = "start" => cacheTable'[e] # "absent")
      BY <1>1, <3>1, <3>4 DEF Opening
    <3> QED
      BY <1>1, <1>2, <2>3, <2>4, <2>6, <3>4, <3>5 DEF KeyInProgress
  <2> QED
    BY <2>5, <2>6
<1> QED
  BY <1>2, <1>8, <1>9 DEF EntriesInProgress

\* What holds as long as nothing has failed
AloneInvariant == TypeOK /\ (faults = 0 => OneCopy /\ EntriesInProgress)

\* The system starts with no copy, no group, no entry and no execution.
LEMMA InitAlone == Init => AloneInvariant
<1> SUFFICES ASSUME Init PROVE OneCopy /\ EntriesInProgress
  BY InitTypeOK DEF AloneInvariant
<1>1. OneCopy
  BY LocationAssumption DEF Init, OneCopy, Held, Active, NoMessages
<1>2. EntriesInProgress
  BY DEF Init, EntriesInProgress, KeyInProgress, Opening, Keys
<1> QED
  BY <1>1, <1>2

\* Every step without a failure keeps one copy, and entries and executions together.
LEMMA NextAlone ==
  ASSUME Alone, AloneInvariant, [Next]_vars
  PROVE  AloneInvariant'
<1>1. TypeOK /\ TypeOK'
  BY NextTypeOK DEF AloneInvariant
<1> SUFFICES ASSUME faults' = 0 PROVE OneCopy' /\ EntriesInProgress'
  BY <1>1 DEF AloneInvariant
<1>2. ~Fail /\ OneCopy /\ EntriesInProgress
  BY <1>1, NoFailure DEF AloneInvariant
<1>3. CASE AtRest \/ UNCHANGED vars
  BY <1>1, <1>2, <1>3, EnvironmentOneCopy, EnvironmentInProgress DEF AtRest
<1>4. ASSUME NEW i \in Instances, NEW l \in Locations, Handle(i, l)
      PROVE  OneCopy' /\ EntriesInProgress'
  BY <1>1, <1>2, <1>4, HandleOneCopy, HandleInProgress
<1>5. ASSUME NEW k \in Keys, ExecutionStep(k) PROVE OneCopy' /\ EntriesInProgress'
  BY <1>1, <1>2, <1>5, EnvironmentOneCopy, ExecutionInProgress
<1>6. ASSUME NEW i \in Instances,
             \/ Invoke(i) \/ InvocationEnds(i) \/ InvocationFails(i)
             \/ InstanceDies(i) \/ InstanceRecycled(i)
      PROVE  OneCopy' /\ EntriesInProgress'
  BY <1>1, <1>2, <1>6, InvocationOneCopy, InvocationInProgress
<1>7. ASSUME \/ \E r \in Requests : DeviceRequest(r) \/ RequestAges(r) \/ RetentionEnds(r)
             \/ HourPasses
             \/ \E i \in Instances, r \in Requests : VisibilityEnds(i, r)
             \/ \E k \in Keys : EntryExpires(k)
      PROVE  OneCopy' /\ EntriesInProgress'
  BY <1>1, <1>2, <1>7, EnvironmentOneCopy, EnvironmentInProgress
<1> QED
  BY <1>3, <1>4, <1>5, <1>6, <1>7 DEF Next

\* Entries and executions that go together are what the comment says.
LEMMA AloneIsInProgress == AloneInvariant => PendingIsInProgressIfAlone
<1> SUFFICES ASSUME AloneInvariant, faults = 0, NEW k \in Keys,
                    k[2] = bin, cacheTable[k] = "pending"
             PROVE  \/ executions[k] \in Running
                    \/ \E i \in Instances : handlerBin[i] = bin /\ stage[i][k[1]] = "start"
  BY DEF PendingIsInProgressIfAlone, PendingIsInProgress
<1>1. KeyInProgress(k)
  BY DEF AloneInvariant, EntriesInProgress
<1>2. executions[k] \in ExecutionStates
  BY DEF AloneInvariant, TypeOK
<1> QED
  BY <1>1, <1>2 DEF KeyInProgress, ExecutionStates

(***************************************************************************)
(* For any number of devices, instances and hours: as long as nothing has  *)
(* failed, and when no two devices ask for the same cell and types or no   *)
(* two invocations run at the same time, an entry that says a resolution   *)
(* is in progress tells the truth.                                         *)
(***************************************************************************)
THEOREM PendingInProgressIfAlone ==
  ASSUME Alone PROVE Spec => []PendingIsInProgressIfAlone
<1>1. AloneInvariant /\ [Next]_vars => AloneInvariant'
  BY NextAlone
<1> QED
  BY <1>1, InitAlone, AloneIsInProgress, PTL DEF Spec
=============================================================================
