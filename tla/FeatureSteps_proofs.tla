------------------------- MODULE FeatureSteps_proofs ------------------------
(***************************************************************************)
(* Proofs about historical data and the steps of the feature runner, for   *)
(* any events, tries, steps, messages and failures.                        *)
(***************************************************************************)
EXTENDS FeatureSteps, TLAPS

-----------------------------------------------------------------------------
(* The conversion                                                          *)

\* A record is made of every value of a reading that the rules and the
\* conversion do not ignore.
LEMMA RecordsAreComplete ==
  ASSUME NEW e \in Events, ~Throws(e), NEW r \in e.readings, ~Ignored(e, r),
         NEW name \in Values(r)
  PROVE  \E record \in Records(e) : record.reading = r /\ record.name = name
<1>1. e.kind \in Kinds /\ r.type \in {"number", "object"}
  BY EventAssumption DEF Values
<1>2. r.sensor \in Sensors
  BY DEF Sensors
<1>3. r \in Recorded(e)
  BY <1>1, <1>2 DEF Recorded, Ignored, Kinds, ShadowObjects, ShadowReadings,
     ButtonAndImpact, ReadingOf
<1> DEFINE record == [event |-> e, reading |-> r, name |-> name,
                      group |-> <<handled, Group(e, r)>>]
<1>4. record \in [event : {e}, reading : {r}, name : Values(r),
                  group : {<<handled, Group(e, r)>>}]
  OBVIOUS
<1>5. record \in Records(e)
  BY <1>3, <1>4 DEF Records
<1>6. record.reading = r /\ record.name = name
  OBVIOUS
<1> QED
  BY <1>5, <1>6

\* What the records of an invocation have in common
LEMMA RecordsAreOfTheEvent ==
  ASSUME NEW e \in Events, NEW record \in Records(e)
  PROVE  /\ ~Throws(e)
         /\ record.event = e /\ record.reading \in Recorded(e)
         /\ record.name \in Values(record.reading)
         /\ record.group = <<handled, Group(e, record.reading)>>
<1>1. ~Throws(e)
  BY DEF Records
<1>2. PICK r \in Recorded(e) :
        record \in [event : {e}, reading : {r}, name : Values(r),
                    group : {<<handled, Group(e, r)>>}]
  BY <1>1 DEF Records
<1> QED
  BY <1>1, <1>2

\* A reading of a message or batch has a measureGroup of its own.
LEMMA OthersHaveTheirOwnGroup ==
  ASSUME NEW e, NEW r, e.kind # "update"
  PROVE  Group(e, r) = {r}
BY DEF Group

\* All records of a shadow update share one measureGroup.
LEMMA UpdateHasOneGroup ==
  ASSUME NEW e \in Events, e.kind = "update",
         NEW r \in Recorded(e), Values(r) # {}, NEW s \in Recorded(e), Values(s) # {}
  PROVE  Group(e, r) = Group(e, s)
<1> DEFINE all == ShadowReadings(e) \cup ReadingOf(e, {"bat"})
           others == {o \in ShadowObjects(e) : Values(o) # {}}
<1>1. \A x \in Recorded(e) : x.sensor # "bat" => x \in ShadowObjects(e) /\ Group(e, x) = all
  BY DEF Recorded, ReadingOf, Group
<1>2. \A x \in Recorded(e) : x.sensor = "bat" => x \in ReadingOf(e, {"bat"})
  BY DEF Recorded, ReadingOf, ShadowObjects, ShadowReadings
<1>3. \A x \in ReadingOf(e, {"bat"}) : ReadingOf(e, {"bat"}) = {x}
  BY EventAssumption DEF ReadingOf
<1>4. \A x \in Recorded(e) :
        x.sensor = "bat" => Group(e, x) = IF others = {} THEN {x} ELSE all
  BY <1>2, <1>3 DEF Group
<1>5. CASE others = {}
  <2>1. r.sensor = "bat" /\ s.sensor = "bat"
    BY <1>1, <1>5
  <2>2. r = s
    BY <1>2, <1>3, <2>1
  <2> QED
    BY <2>2
<1>6. CASE others # {}
  BY <1>1, <1>4, <1>6
<1> QED
  BY <1>5, <1>6

-----------------------------------------------------------------------------
(* The table                                                               *)

\* Only an invocation of the Lambda changes the table.
LEMMA OnlyTheLambdaStores ==
  ASSUME [FeatureNext]_vars
  PROVE  \/ UNCHANGED <<handled, stored, table>>
         \/ \E e \in Events : Store(e) \/ DieAfterWrite(e) \/ WriteFails(e)
<1> USE DEF historicalVars
<1>1. CASE \E s \in TrackerSteps \cup OtherSteps : Begin(s)
  BY <1>1 DEF Begin
<1>2. CASE RunnerStep
  BY <1>2 DEF RunnerStep, Generate, NoCertificate, OpenConnection, TryInVain, TryToConnect,
     AwaitConnection, Disconnect, Send, Timeout, SubscribeToJobs, AskForJob, JobAnswer,
     Subscribe, Receive, Request, Query, Check, Retry
<1>3. CASE CloudStep
  <2>1. CASE \E e \in Events : Deliver(e)
    BY <2>1 DEF Deliver, Ingest
  <2> QED
    BY <1>3, <2>1 DEF CloudStep, Provision, Subscribed, MessageToTracker, ServiceReady,
       LambdaStep
<1>4. CASE Fault
  BY <1>4 DEF Fault, ConnectionFails, RequestFails, RetryThrows, MessageRedelivered, LambdaFault,
     IngestAgain
<1>5. CASE UNCHANGED vars
  BY <1>5 DEF vars
<1> QED
  BY <1>1, <1>2, <1>3, <1>4, <1>5 DEF FeatureNext

\* Every record is one that an earlier invocation has made of its event, and
\* an invocation has one event.
TableInvariant ==
  /\ handled \in Nat
  /\ stored \subseteq Events
  /\ \A record \in table :
       /\ record.event \in Events
       /\ record.reading \in Recorded(record.event)
       /\ record.name \in Values(record.reading)
       /\ record.group = <<record.group[1], Group(record.event, record.reading)>>
       /\ record.group[1] \in Nat /\ record.group[1] < handled
  /\ \A one, other \in table : one.group[1] = other.group[1] => one.event = other.event

\* Records are added to the table with a measureGroup that is new.
LEMMA NextTableInvariant == TableInvariant /\ [FeatureNext]_vars => TableInvariant'
<1> SUFFICES ASSUME TableInvariant, [FeatureNext]_vars PROVE TableInvariant'
  OBVIOUS
<1>1. CASE UNCHANGED <<handled, stored, table>>
  BY <1>1 DEF TableInvariant
<1>2. ASSUME NEW e \in Events, WriteFails(e) PROVE TableInvariant'
  BY <1>2 DEF WriteFails, TableInvariant
<1>3. ASSUME NEW e \in Events, Store(e) \/ DieAfterWrite(e) PROVE TableInvariant'
  <2>1. /\ handled' = handled + 1
        /\ table' = table \cup Accepted(Records(e))
        /\ stored' \in {stored, stored \cup {e}}
    BY <1>3 DEF Store, DieAfterWrite
  <2>2. \A record \in Accepted(Records(e)) :
          /\ record.event = e /\ record.reading \in Recorded(e)
          /\ record.name \in Values(record.reading)
          /\ record.group = <<handled, Group(e, record.reading)>>
    BY RecordsAreOfTheEvent DEF Accepted
  <2> HIDE DEF Group
  <2>3. \A record \in table' : record \in table \/ record \in Accepted(Records(e))
    BY <2>1
  <2>4. \A record \in Accepted(Records(e)) : record.group[1] = handled
    BY <2>2
  <2>5. \A record \in table' :
          /\ record.event \in Events
          /\ record.reading \in Recorded(record.event)
          /\ record.name \in Values(record.reading)
          /\ record.group = <<record.group[1], Group(record.event, record.reading)>>
          /\ record.group[1] \in Nat /\ record.group[1] < handled'
    BY <2>1, <2>2, <2>3, <2>4 DEF TableInvariant
  <2>6. \A one, other \in table' : one.group[1] = other.group[1] => one.event = other.event
    BY <2>2, <2>3, <2>4 DEF TableInvariant
  <2> QED
    BY <2>1, <2>5, <2>6 DEF TableInvariant
<1> QED
  BY <1>1, <1>2, <1>3, OnlyTheLambdaStores

\* The table only holds readings that were published, each at its time.
LEMMA TableInvariantHolds == FeatureSpec => []TableInvariant
<1>1. FeatureInit => TableInvariant
  BY DEF FeatureInit, HistoricalInit, TableInvariant
<1> QED
  BY <1>1, NextTableInvariant, PTL DEF FeatureSpec

(***************************************************************************)
(* Records with the same measureGroup were measured together, and those    *)
(* that one invocation makes of a shadow update have the same: for any     *)
(* events, sensors and values, however often an event is delivered.        *)
(***************************************************************************)
THEOREM GroupsAlwaysJoinReadings == FeatureSpec => []GroupsJoinReadings
<1>1. TableInvariant => GroupsJoinReadings
  <2> SUFFICES ASSUME TableInvariant, NEW one \in table, NEW other \in table
               PROVE  IF one.group = other.group
                        THEN /\ one.event = other.event
                             /\ one.event.kind = "update" \/ one.reading = other.reading
                        ELSE one.event.kind = "update" => one.group[1] # other.group[1]
    BY DEF GroupsJoinReadings
  <2>1. CASE one.group = other.group
    <3>1. one.event = other.event
      BY <2>1 DEF TableInvariant
    <3>2. Group(one.event, one.reading) = Group(other.event, other.reading)
      BY <2>1 DEF TableInvariant
    <3>3. one.event.kind # "update" => {one.reading} = {other.reading}
      BY <3>1, <3>2, OthersHaveTheirOwnGroup
    <3>4. one.event.kind # "update" => one.reading = other.reading
      BY <3>3
    <3> QED
      BY <2>1, <3>1, <3>4
  <2>2. CASE one.group # other.group /\ one.event.kind = "update"
    <3> SUFFICES ASSUME one.group[1] = other.group[1] PROVE FALSE
      BY <2>2
    <3>1. one.event = other.event
      BY DEF TableInvariant
    <3>2. Values(one.reading) # {} /\ Values(other.reading) # {}
      BY DEF TableInvariant
    <3>3. /\ one.event \in Events
          /\ one.reading \in Recorded(one.event) /\ other.reading \in Recorded(one.event)
      BY <3>1 DEF TableInvariant
    <3>4. Group(one.event, one.reading) = Group(one.event, other.reading)
      BY <2>2, <3>2, <3>3, UpdateHasOneGroup
    <3> QED
      BY <2>2, <3>1, <3>4 DEF TableInvariant
  <2> QED
    BY <2>1, <2>2
<1> QED
  BY <1>1, TableInvariantHolds, PTL

\* What an event that is handled puts in the table stays there.
LEMMA NextFreshReadings ==
  ASSUME TableInvariant, FreshReadingsAreStored, [FeatureNext]_vars
  PROVE  FreshReadingsAreStored'
<1>1. CASE UNCHANGED <<handled, stored, table>>
  BY <1>1 DEF FreshReadingsAreStored, InTable
<1>2. ASSUME NEW e \in Events, WriteFails(e) \/ DieAfterWrite(e) PROVE FreshReadingsAreStored'
  <2>1. table \subseteq table' /\ UNCHANGED stored
    BY <1>2 DEF WriteFails, DieAfterWrite
  <2> QED
    BY <2>1 DEF FreshReadingsAreStored, InTable
<1>3. ASSUME NEW e \in Events, Store(e) PROVE FreshReadingsAreStored'
  <2>1. table' = table \cup Accepted(Records(e)) /\ stored' = stored \cup {e}
    BY <1>3 DEF Store
  <2>2. ASSUME NEW r \in e.readings, NEW name \in Values(r),
               ~Throws(e), ~Ignored(e, r), ~r.old
        PROVE  InTable(r, name)'
    <3>1. PICK record \in Records(e) : record.reading = r /\ record.name = name
      BY <2>2, RecordsAreComplete
    <3>2. record \in table'
      BY <2>1, <2>2, <3>1 DEF Accepted
    <3> QED
      BY <3>1, <3>2 DEF InTable
  <2>3. \A r, name : InTable(r, name) => InTable(r, name)'
    BY <2>1 DEF InTable
  <2> QED
    BY <2>1, <2>2, <2>3 DEF FreshReadingsAreStored
<1> QED
  BY <1>1, <1>2, <1>3, OnlyTheLambdaStores

(***************************************************************************)
(* Of every event that has been handled, the table has every value it can  *)
(* take: whatever other sensors the event has, null or too old ones among  *)
(* them, and whatever failed before.  Only one that the conversion breaks  *)
(* at takes the others with it.                                            *)
(***************************************************************************)
THEOREM FreshReadingsAreAlwaysStored == FeatureSpec => []FreshReadingsAreStored
<1>1. FeatureInit => FreshReadingsAreStored
  BY DEF FeatureInit, HistoricalInit, FreshReadingsAreStored
<1>2. TableInvariant /\ FreshReadingsAreStored /\ [FeatureNext]_vars => FreshReadingsAreStored'
  BY NextFreshReadings
<1> QED
  BY <1>1, <1>2, TableInvariantHolds, PTL DEF FeatureSpec

\* A record is its four fields, and those of an event that can be converted.
RecordsAreConverted ==
  \A record \in table :
    /\ record = [event |-> record.event, reading |-> record.reading, name |-> record.name,
                 group |-> record.group]
    /\ ~Throws(record.event)
    /\ ~record.reading.old

\* What the Lambda adds to the table is what the conversion makes of one event.
LEMMA NextRecordsAreConverted ==
  RecordsAreConverted /\ [FeatureNext]_vars => RecordsAreConverted'
<1> SUFFICES ASSUME RecordsAreConverted, [FeatureNext]_vars PROVE RecordsAreConverted'
  OBVIOUS
<1>1. CASE UNCHANGED table
  BY <1>1 DEF RecordsAreConverted
<1>2. ASSUME NEW e \in Events, Store(e) \/ DieAfterWrite(e) PROVE RecordsAreConverted'
  <2>1. table' = table \cup Accepted(Records(e))
    BY <1>2 DEF Store, DieAfterWrite
  <2>2. ASSUME NEW record \in Accepted(Records(e))
        PROVE  /\ record = [event |-> record.event, reading |-> record.reading,
                            name |-> record.name, group |-> record.group]
               /\ ~Throws(record.event)
               /\ ~record.reading.old
    <3>1. record \in Records(e) /\ ~record.reading.old
      BY <2>2 DEF Accepted
    <3>2. ~Throws(e) /\ record.event = e
      BY <3>1, RecordsAreOfTheEvent
    <3>3. PICK r \in Recorded(e) :
            record \in [event : {e}, reading : {r}, name : Values(r),
                        group : {<<handled, Group(e, r)>>}]
      BY <3>1, <3>2 DEF Records
    <3> HIDE DEF Group
    <3> QED
      BY <3>1, <3>2, <3>3
  <2> QED
    BY <2>1, <2>2 DEF RecordsAreConverted
<1>3. ASSUME NEW e \in Events, WriteFails(e) PROVE RecordsAreConverted'
  BY <1>3 DEF WriteFails, RecordsAreConverted
<1> QED
  BY <1>1, <1>2, <1>3, OnlyTheLambdaStores

\* The conversion takes none of the readings that the rules and the Lambda leave
\* out on purpose.
LEMMA RecordedIsNotIgnored ==
  ASSUME NEW e \in Events, NEW r \in Recorded(e), ~Throws(e)
  PROVE  r \in e.readings /\ ~Ignored(e, r)
<1>1. e.kind \in Kinds
  BY EventAssumption
<1> QED
  BY <1>1 DEF Kinds, Recorded, Ignored, ShadowObjects, ShadowReadings, ButtonAndImpact, ReadingOf

(***************************************************************************)
(* The table holds what FreshReadingsAreStored asks for and nothing else:  *)
(* no value that was null, ignored or too old.  A value that is there more *)
(* than once was written by as many invocations for the same event: second *)
(* deliveries and retries are the only source of duplicates.               *)
(***************************************************************************)
THEOREM OnlyFreshReadings == FeatureSpec => []OnlyFreshReadingsAreStored
<1>1. FeatureInit => RecordsAreConverted
  BY DEF FeatureInit, HistoricalInit, RecordsAreConverted
<1>2. TableInvariant /\ RecordsAreConverted => OnlyFreshReadingsAreStored
  <2> SUFFICES ASSUME TableInvariant, RecordsAreConverted PROVE OnlyFreshReadingsAreStored
    OBVIOUS
  <2>1. ASSUME NEW record \in table
        PROVE  /\ record.reading \in record.event.readings
               /\ record.name \in Values(record.reading)
               /\ ~Throws(record.event)
               /\ ~Ignored(record.event, record.reading)
               /\ ~record.reading.old
    BY RecordedIsNotIgnored DEF TableInvariant, RecordsAreConverted
  <2>2. ASSUME NEW one \in table, NEW other \in table, one.reading = other.reading,
               one.name = other.name, one.group[1] = other.group[1]
        PROVE  one = other
    <3>1. one.event = other.event
      BY <2>2 DEF TableInvariant
    <3>2. one.group = other.group
      <4>1. /\ one.group = <<one.group[1], Group(one.event, one.reading)>>
            /\ other.group = <<other.group[1], Group(other.event, other.reading)>>
        BY DEF TableInvariant
      <4> QED
        BY <2>2, <3>1, <4>1
    <3> QED
      BY <2>2, <3>1, <3>2 DEF RecordsAreConverted
  <2> QED
    BY <2>1, <2>2 DEF OnlyFreshReadingsAreStored
<1> QED
  BY <1>1, <1>2, NextRecordsAreConverted, TableInvariantHolds, PTL DEF FeatureSpec

-----------------------------------------------------------------------------
(* The checks                                                              *)

\* Where the runner is in a step.  The answer in the context is the last one
\* while the scenario goes on, except between two retries of a request.
CheckInvariant ==
  /\ attempts \in Nat
  /\ phase = "wait" => step \in {"report", "publish"}
  /\ phase \in {"asking", "hung"} => step = "job"
  /\ phase \in {"check", "retry"} => step \in {"status", "match"}
  /\ step = "status" => requested
  /\ requested /\ ~(phase = "retry" /\ step = "status") => reqStatus = response
  /\ reqStatus = "ready" => service = "ready"
  /\ result \subseteq table

\* What the end of a step does
LEMMA EndStepEnds ==
  ASSUME NEW v, EndStep(v)
  PROVE  /\ step' = "none" /\ phase' = "none" /\ event' = NoEvent /\ attempts' = 0 /\ verdict' = v
         /\ requested' => v = "passed" /\ (requested \/ step = "request")
BY DEF EndStep

\* A retry that fails ends the step as a failure, or there is another one.
LEMMA RetryFailedEnds ==
  ASSUME CheckInvariant, RetryFailed
  PROVE  EndStep("failed") \/ (attempts' = attempts + 1
                                /\ UNCHANGED <<step, phase, event, verdict, requested>>)
BY DEF CheckInvariant, RetryFailed, LastRetry, MaxRetries, StepAssumption

\* Every step keeps the invariant of the check that is being retried.
LEMMA NextCheckInvariant == CheckInvariant /\ [FeatureNext]_vars => CheckInvariant'
<1> SUFFICES ASSUME CheckInvariant, [FeatureNext]_vars PROVE CheckInvariant'
  OBVIOUS
<1> USE DEF CheckInvariant, historicalVars, runnerVars, restVars
<1>1. CASE \E s \in TrackerSteps \cup OtherSteps : Begin(s)
  BY <1>1 DEF Begin, TrackerSteps, OtherSteps
<1>2. CASE UNCHANGED <<runnerVars, service, restVars, result>> /\ table \subseteq table'
  BY <1>2
<1>3. CASE OpenConnection \/ TryInVain \/ TryToConnect
  BY <1>2, <1>3 DEF OpenConnection, TryInVain, TryToConnect
<1>4. CASE Generate \/ NoCertificate \/ Disconnect \/ Subscribe \/ Timeout
  BY <1>4, EndStepEnds DEF Generate, NoCertificate, Disconnect, Subscribe, Timeout
<1>5. CASE AwaitConnection
  BY <1>5, EndStepEnds DEF AwaitConnection
<1>6. CASE Send \/ SubscribeToJobs \/ AskForJob
  BY <1>6 DEF Send, SubscribeToJobs, AskForJob
<1>7. CASE JobAnswer
  BY <1>7, EndStepEnds DEF JobAnswer
<1>8. CASE Receive
  BY <1>8, EndStepEnds DEF Receive
<1>9. CASE Request
  BY <1>9, EndStepEnds DEF Request
<1>10. CASE RequestFails
  BY <1>10, EndStepEnds DEF RequestFails
<1>11. CASE Query
  BY <1>11, EndStepEnds DEF Query
<1>12. CASE Check
  <2>1. CASE EndStep("passed")
    <3>1. UNCHANGED <<service, reqStatus, response, result, table>> /\ phase = "check"
      BY <1>12 DEF Check
    <3> QED
      BY <2>1, <3>1, EndStepEnds
  <2>2. CASE phase' = "retry" /\ UNCHANGED <<step, event, attempts, verdict, requested>>
    BY <1>12, <2>2 DEF Check
  <2> QED
    BY <1>12, <2>1, <2>2 DEF Check
<1>13. CASE Retry
  <2>1. /\ phase = "retry" /\ UNCHANGED <<service, result, table>>
        /\ IF step = "status" THEN reqStatus' = service /\ response' = service
                              ELSE UNCHANGED <<reqStatus, response>>
    BY <1>13 DEF Retry
  <2>2. CASE \E v \in {"passed", "failed"} : EndStep(v)
    BY <2>1, <2>2, EndStepEnds
  <2>3. CASE attempts' = attempts + 1 /\ UNCHANGED <<step, phase, event, verdict, requested>>
    BY <2>1, <2>3
  <2> QED
    BY <1>13, <2>2, <2>3, RetryFailedEnds DEF Retry
<1>14. CASE RetryThrows
  <2>1. /\ phase = "retry" /\ step = "status" /\ UNCHANGED <<service, response, result, table>>
        /\ reqStatus' \in {reqStatus, service}
    BY <1>14 DEF RetryThrows
  <2>2. CASE EndStep("failed")
    BY <2>1, <2>2, EndStepEnds
  <2>3. CASE attempts' = attempts + 1 /\ UNCHANGED <<step, phase, event, verdict, requested>>
    BY <2>1, <2>3
  <2> QED
    BY <1>14, <2>2, <2>3, RetryFailedEnds DEF RetryThrows
<1>15. ASSUME NEW e \in Events, Deliver(e) PROVE CheckInvariant'
  BY <1>15, EndStepEnds DEF Deliver, Ingest, Answers
<1>16. CASE \/ Provision \/ Subscribed \/ MessageToTracker
            \/ ConnectionFails \/ MessageRedelivered
  BY <1>2, <1>16 DEF Provision, Subscribed, MessageToTracker, ConnectionFails, MessageRedelivered
<1>17. CASE ServiceReady
  BY <1>17 DEF ServiceReady
<1>18. CASE /\ LambdaStep \/ LambdaFault
            /\ UNCHANGED <<runnerVars, stepsLeft, trackerVars, service, restVars, result>>
  BY <1>18 DEF LambdaStep, LambdaFault, Store, IngestAgain, WriteFails, DieAfterWrite
<1>19. CASE UNCHANGED vars
  BY <1>2, <1>19 DEF vars
<1> QED
  BY <1>1, <1>3, <1>4, <1>5, <1>6, <1>7, <1>8, <1>9, <1>10, <1>11, <1>12, <1>13, <1>14,
     <1>15, <1>16, <1>17, <1>18, <1>19
     DEF FeatureNext, RunnerStep, CloudStep, Fault

\* The invariant of the check holds in every reachable state.
LEMMA CheckInvariantHolds == FeatureSpec => []CheckInvariant
<1>1. FeatureInit => CheckInvariant
  BY DEF FeatureInit, HistoricalInit, CheckInvariant
<1> QED
  BY <1>1, NextCheckInvariant, PTL DEF FeatureSpec

\* What a step with a check may say when it has passed
Seen == /\ step = "status" => service = "ready" /\ response' = "ready"
        /\ step = "match" => Finds(table, event)

\* A query that finds the readings of an event is right as long as records stay.
LEMMA FoundStays ==
  ASSUME result \subseteq table, Finds(result, event)
  PROVE  Finds(table, event)
BY DEF Finds

\* Only the check and its retries end such a step, and only with what it says.
LEMMA NextSeen ==
  ASSUME CheckInvariant, [FeatureNext]_vars, verdict' = "passed", step' = "none",
         step \in {"status", "match"}
  PROVE  Seen
<1> USE DEF CheckInvariant, historicalVars, runnerVars, restVars
<1>1. CASE Check
  <2>1. UNCHANGED response /\ phase = "check"
    BY <1>1 DEF Check
  <2>2. CheckPasses(reqStatus)
    BY <1>1, StepAssumption DEF Check, MaxRetries
  <2>3. CASE step = "status"
    BY <2>1, <2>2, <2>3 DEF CheckPasses, Seen
  <2>4. CASE step = "match"
    BY <2>2, <2>4, FoundStays DEF CheckPasses, Seen
  <2> QED
    BY <2>3, <2>4
<1>2. CASE Retry
  <2>1. ~RetryFailed
    BY RetryFailedEnds, EndStepEnds
  <2>2. CheckPasses(reqStatus')
    BY <1>2, <2>1 DEF Retry
  <2>3. CASE step = "status"
    BY <1>2, <2>2, <2>3 DEF Retry, CheckPasses, Seen
  <2>4. CASE step = "match"
    BY <2>2, <2>4, FoundStays DEF CheckPasses, Seen
  <2> QED
    BY <2>3, <2>4
<1>3. CASE RetryThrows
  BY <1>3, RetryFailedEnds, EndStepEnds DEF RetryThrows
<1>4. ~UNCHANGED step
  OBVIOUS
<1>5. ASSUME NEW e \in Events PROVE ~Deliver(e)
  BY <1>4 DEF Deliver, Answers
<1>6. ~RunnerStep \/ Check \/ Retry
  <2>1. ~Generate /\ ~Disconnect /\ ~Subscribe /\ ~Receive /\ ~Request /\ ~Query /\ ~JobAnswer
    BY DEF Generate, Disconnect, Subscribe, Receive, Request, Query, JobAnswer
  <2>2. ~NoCertificate /\ ~Timeout
    BY EndStepEnds DEF NoCertificate, Timeout
  <2>3. ~AwaitConnection
    BY <1>4, EndStepEnds DEF AwaitConnection
  <2>4. /\ ~OpenConnection /\ ~TryInVain /\ ~TryToConnect /\ ~Send /\ ~SubscribeToJobs
        /\ ~AskForJob
    BY <1>4 DEF OpenConnection, TryInVain, TryToConnect, Send, SubscribeToJobs, AskForJob
  <2> QED
    BY <2>1, <2>2, <2>3, <2>4 DEF RunnerStep
<1>7. ~CloudStep
  BY <1>4, <1>5 DEF CloudStep, Provision, Subscribed, MessageToTracker, ServiceReady
<1>8. ~Fault \/ RetryThrows
  BY <1>4, EndStepEnds DEF Fault, ConnectionFails, RequestFails, MessageRedelivered
<1>9. ~\E s \in TrackerSteps \cup OtherSteps : Begin(s)
  BY DEF Begin
<1>10. FeatureNext
  BY <1>4 DEF vars
<1> QED
  BY <1>1, <1>2, <1>3, <1>6, <1>7, <1>8, <1>9, <1>10 DEF FeatureNext

(***************************************************************************)
(* A step of the feature runner that has passed has seen what it says, for *)
(* any number of retries from two tries on, and whatever requests fail.    *)
(***************************************************************************)
THEOREM PassedChecksHold == FeatureSpec => PassedCheckHolds
<1>1. CheckInvariant /\ [FeatureNext]_vars =>
        [verdict' = "passed" /\ step' = "none" =>
           /\ step = "status" => service = "ready" /\ response' = "ready"
           /\ step = "match" => Finds(table, event)]_vars
  BY NextSeen DEF Seen
<1> QED
  BY <1>1, CheckInvariantHolds, PTL DEF FeatureSpec, PassedCheckHolds

-----------------------------------------------------------------------------
(* Types                                                                   *)

\* The tries of a step are counted in one variable, each kind up to its own limit;
\* a promise that is open to more tries has some left; and an event that is to be
\* sent, or is on its way, waits for no invocation of the Lambda.
StepInvariant ==
  /\ phase = "connection" => step \in TrackerSteps
  /\ phase \in {"none", "connection", "wait", "check"} => attempts = 0
  /\ phase = "act" => attempts < Tries /\ (step # "receive" => attempts = 0)
  /\ phase \in {"asking", "hung"} => attempts <= 4
  /\ phase = "retry" => attempts < MaxRetries
  /\ connection = "connecting" => triesLeft > 0
  /\ \A e \in outbox : pending[e] = 0
  /\ step \in {"report", "publish"} /\ phase \in {"connection", "act"} =>
       event \in Events \ outbox /\ pending[event] = 0

\* What the invariants of the table and of the checks do not say of types
TypesBeside ==
  /\ pending \in [Events -> 0..MaxCopies]
  /\ faults \in 0..MaxFaults
  /\ step \in TrackerSteps \cup OtherSteps \cup {"none"} /\ phase \in Phases
  /\ event \in Events \cup {NoEvent}
  /\ attempts \in Nat
  /\ verdict \in {"none", "passed", "failed"}
  /\ stepsLeft \in 0..MaxSteps
  /\ connection \in {"none", "connecting", "open", "rejected", "closed"}
  /\ triesLeft \in 0..Tries
  /\ provisioned \in {"no", "pending", "yes"}
  /\ outbox \in SUBSET Events
  /\ subscription \in {"none", "requested", "active"}
  /\ sent \in 0..MaxMessages /\ messages \in 0..(sent + faults)
  /\ service \in {"pending", "ready"}
  /\ reqStatus \in {"none", "pending", "ready"} /\ response \in {"none", "pending", "ready"}

TypeInvariant == TypesBeside /\ StepInvariant

\* A failure elsewhere leaves room for the messages that are there.
LEMMA MoreFaults ==
  ASSUME NEW n \in Int, NEW f \in Int, NEW g \in Int, f <= g, NEW m \in 0..(n + f)
  PROVE  m \in 0..(n + g)
OBVIOUS

\* Every step keeps the types and the limits of the tries.
LEMMA NextTypeInvariant == TypeInvariant /\ [FeatureNext]_vars => TypeInvariant'
<1> SUFFICES ASSUME TypeInvariant, [FeatureNext]_vars PROVE TypeInvariant'
  OBVIOUS
<1>0. MaxCopies \in Nat \ {0} /\ MaxFaults \in Nat
  BY EventAssumption
<1> USE <1>0, StepAssumption
    DEF TypeInvariant, TypesBeside, StepInvariant, historicalVars, runnerVars, connectionVars,
        topicVars, restVars, trackerVars, TrackerSteps, OtherSteps, Phases, MaxRetries
<1>1. ASSUME NEW s \in TrackerSteps \cup OtherSteps, Begin(s) PROVE TypeInvariant'
  <2>1. /\ event' \in Events \cup {NoEvent}
        /\ s \in {"report", "publish"} => event' \in Events \ outbox /\ pending[event'] = 0
    BY <1>1 DEF Begin, EventFor
  <2> QED
    BY <1>1, <2>1 DEF Begin
<1>2. CASE Generate \/ NoCertificate \/ Disconnect \/ Timeout \/ Request \/ Query
  BY <1>2, EndStepEnds DEF Generate, NoCertificate, Disconnect, Timeout, Request, Query, Fail
<1>3. CASE OpenConnection \/ TryInVain \/ TryToConnect
  BY <1>3 DEF OpenConnection, TryInVain, TryToConnect, Refused
<1>4. CASE AwaitConnection
  BY <1>4, EndStepEnds DEF AwaitConnection
<1>5. CASE Send
  BY <1>5 DEF Send
<1>6. CASE SubscribeToJobs \/ AskForJob
  BY <1>6 DEF SubscribeToJobs, AskForJob
<1>7. CASE JobAnswer
  BY <1>7, EndStepEnds DEF JobAnswer
<1>8. CASE Subscribe \/ Subscribed \/ MessageToTracker
  BY <1>8, EndStepEnds DEF Subscribe, Subscribed, MessageToTracker
<1>9. CASE Receive
  BY <1>9, EndStepEnds DEF Receive
<1>10. CASE Check
  BY <1>10, EndStepEnds DEF Check
<1>11. CASE Retry
  BY <1>11, EndStepEnds DEF Retry, RetryFailed, LastRetry
<1>12. CASE Provision \/ ServiceReady
  BY <1>12 DEF Provision, ServiceReady
<1>13. ASSUME NEW e \in Events, Deliver(e) PROVE TypeInvariant'
  <2>1. pending' \in [Events -> 0..MaxCopies] /\ \A d \in Events : d # e => pending'[d] = pending[d]
    BY <1>13 DEF Deliver, Ingest
  <2>2. CASE Answers(e)
    BY <1>13, <2>1, <2>2, EndStepEnds DEF Deliver, Ingest
  <2>3. CASE ~Answers(e)
    BY <1>13, <2>1, <2>3 DEF Deliver, Ingest
  <2> QED
    BY <2>2, <2>3
<1>14. ASSUME NEW e \in Events,
              Store(e) \/ IngestAgain(e) \/ WriteFails(e) \/ DieAfterWrite(e),
              UNCHANGED <<runnerVars, stepsLeft, trackerVars, service, restVars, result>>
       PROVE  TypeInvariant'
  <2>1. pending' \in [Events -> 0..MaxCopies] /\ faults' \in 0..MaxFaults
    BY <1>14 DEF Store, IngestAgain, WriteFails, DieAfterWrite, Fail
  <2>2. \A d \in Events : pending[d] = 0 => pending'[d] = 0
    BY <1>14 DEF Store, IngestAgain, WriteFails, DieAfterWrite
  <2>3. messages' \in 0..(sent' + faults')
    <3>1. faults <= faults'
      BY <1>14 DEF Store, IngestAgain, WriteFails, DieAfterWrite, Fail
    <3>2. sent \in Int /\ faults \in Int /\ faults' \in Int /\ messages \in 0..(sent + faults)
      BY <2>1
    <3>3. messages \in 0..(sent + faults')
      BY <3>1, <3>2, MoreFaults
    <3>4. sent' = sent /\ messages' = messages
      BY <1>14
    <3> QED
      BY <3>3, <3>4
  <2>4. TypesBeside'
    <3>1. UNCHANGED <<step, phase, event, attempts, verdict, stepsLeft, connection, triesLeft,
                      provisioned, outbox, subscription, sent, service, reqStatus, response>>
      BY <1>14
    <3>2. /\ step' \in TrackerSteps \cup OtherSteps \cup {"none"} /\ phase' \in Phases
          /\ event' \in Events \cup {NoEvent} /\ attempts' \in Nat
          /\ verdict' \in {"none", "passed", "failed"} /\ stepsLeft' \in 0..MaxSteps
          /\ connection' \in {"none", "connecting", "open", "rejected", "closed"}
          /\ triesLeft' \in 0..Tries
      BY <3>1
    <3>3. /\ provisioned' \in {"no", "pending", "yes"} /\ outbox' \in SUBSET Events
          /\ subscription' \in {"none", "requested", "active"} /\ sent' \in 0..MaxMessages
          /\ service' \in {"pending", "ready"} /\ reqStatus' \in {"none", "pending", "ready"}
          /\ response' \in {"none", "pending", "ready"}
      BY <3>1
    <3> QED
      BY ONLY <2>1, <2>3, <3>2, <3>3 DEF TypesBeside
  <2>5. StepInvariant'
    BY <1>14, <2>2
  <2> QED
    BY <2>4, <2>5
<1>15. CASE ConnectionFails \/ MessageRedelivered
  BY <1>15 DEF ConnectionFails, Refused, MessageRedelivered, Fail
<1>16. CASE RequestFails
  BY <1>16, EndStepEnds DEF RequestFails, Fail
<1>17. CASE RetryThrows
  BY <1>17, EndStepEnds DEF RetryThrows, RetryFailed, LastRetry, Fail
<1>18. CASE UNCHANGED vars
  BY <1>18 DEF vars
<1> QED
  BY <1>1, <1>2, <1>3, <1>4, <1>5, <1>6, <1>7, <1>8, <1>9, <1>10, <1>11, <1>12, <1>13, <1>14,
     <1>15, <1>16, <1>17, <1>18
     DEF FeatureNext, RunnerStep, CloudStep, Fault, LambdaStep, LambdaFault

\* The two flags are and stay flags.
LEMMA NextFlags ==
  ASSUME requested \in BOOLEAN, certificate \in BOOLEAN, [FeatureNext]_vars
  PROVE  requested' \in BOOLEAN /\ certificate' \in BOOLEAN
<1> USE DEF runnerVars, trackerVars
<1>1. ASSUME NEW v, EndStep(v) PROVE requested' \in BOOLEAN
  BY <1>1, Zenon DEF EndStep
<1>2. UNCHANGED requested \/ \E v : EndStep(v)
  BY DEF FeatureNext, RunnerStep, CloudStep, Fault, LambdaStep, LambdaFault, Begin, Generate,
         NoCertificate, OpenConnection, TryInVain, TryToConnect, AwaitConnection, Disconnect, Send,
         Timeout, SubscribeToJobs, AskForJob, JobAnswer, Subscribe, Receive, Request, Query, Check,
         Retry, RetryFailed, Provision, Deliver, Subscribed, MessageToTracker, ServiceReady,
         ConnectionFails, RequestFails, RetryThrows, MessageRedelivered, vars
<1>3. UNCHANGED certificate \/ certificate' = TRUE
  BY DEF FeatureNext, RunnerStep, CloudStep, Fault, LambdaStep, LambdaFault, Begin, Generate,
         NoCertificate, OpenConnection, TryInVain, TryToConnect, AwaitConnection, Disconnect, Send,
         Timeout, SubscribeToJobs, AskForJob, JobAnswer, Subscribe, Receive, Request, Query, Check,
         Retry, Provision, Deliver, Subscribed, MessageToTracker, ServiceReady,
         ConnectionFails, RequestFails, RetryThrows, MessageRedelivered, vars
<1> QED
  BY <1>1, <1>2, <1>3, Zenon

\* Every variable of the steps, of the tracker and of the table has a value of its
\* type, for any number of tries, steps, messages, second deliveries and failures.
THEOREM FeatureTypesCorrect == FeatureSpec => []FeatureTypeOK
<1> DEFINE Flags == requested \in BOOLEAN /\ certificate \in BOOLEAN
<1>1. FeatureInit => Flags
  BY Zenon DEF FeatureInit
<1>2. Flags /\ [FeatureNext]_vars => Flags'
  BY NextFlags
<1>3. FeatureInit => TypeInvariant
  BY StepAssumption, EventAssumption
     DEF FeatureInit, HistoricalInit, TypeInvariant, TypesBeside, StepInvariant, TrackerSteps,
         Phases, MaxRetries
<1>4. TypeInvariant /\ Flags /\ TableInvariant /\ CheckInvariant => FeatureTypeOK
  <2> SUFFICES ASSUME TypeInvariant, Flags, TableInvariant, CheckInvariant PROVE FeatureTypeOK
    OBVIOUS
  <2>1. \A record \in table :
          record.reading \in record.event.readings /\ record.name \in DOMAIN record.reading.values
    <3>1. \A e \in Events : e.kind \in Kinds
      BY EventAssumption
    <3>2. \A e \in Events : Recorded(e) \subseteq e.readings
      BY <3>1 DEF Kinds, Recorded, ShadowObjects, ShadowReadings, ButtonAndImpact, ReadingOf
    <3> QED
      BY <3>2 DEF TableInvariant, Values
  <2>2. HistoricalTypeOK
    BY <2>1 DEF TypeInvariant, TypesBeside, TableInvariant, HistoricalTypeOK
  <2>3. attempts < Tries \/ attempts < RetryTries \/ attempts <= 4
    BY StepAssumption DEF TypeInvariant, TypesBeside, StepInvariant, Phases, MaxRetries
  <2> QED
    BY <2>2, <2>3 DEF TypeInvariant, TypesBeside, CheckInvariant, FeatureTypeOK
<1> QED
  BY <1>1, <1>2, <1>3, <1>4, NextTypeInvariant, TableInvariantHolds, CheckInvariantHolds, PTL
     DEF FeatureSpec
=============================================================================
