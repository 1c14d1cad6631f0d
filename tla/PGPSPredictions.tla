-------------------------- MODULE PGPSPredictions --------------------------
(***************************************************************************)
(* Requests for predicted GPS data.  The queue, the handler and the table  *)
(* work as in module AGNSSFanOut; this module is about what the requests   *)
(* are for.  All their fields are optional.  The rule filters them         *)
(* (cdk/resources/PGPSDeviceRequestHandler.ts), the cache key fills in     *)
(* defaults (pgps/cacheKey.ts), and so does, later, the Lambda that asks   *)
(* the third-party API (third-party/nrfcloud.com/pgps.ts), against schemas *)
(* whose limits were computed when its code was loaded.  The default start *)
(* of the predictions is the current GPS day (pgps/gpsTime.ts).            *)
(*                                                                         *)
(* Time is counted in hours since 1970-01-01T00:00Z.  A request is a       *)
(* record with some of the fields.                                         *)
(***************************************************************************)
EXTENDS Integers

CONSTANTS
  Devices,     \* devices that send a request each
  RequestOf,   \* the fields of the device's request that are given
  Instances,   \* instances of the Lambda that asks the API
  MaxAge,      \* hours for which an instance is kept
  FirstHour,   \* bounds: the hours of the clock
  LastHour

Fields == {"n", "int", "day", "time"}

ASSUME RequestsAssumption ==
  \A d \in Devices :
    /\ DOMAIN RequestOf[d] \subseteq Fields
    /\ RequestOf[d] \in [DOMAIN RequestOf[d] -> Int]
ASSUME HoursAssumption ==
  /\ MaxAge \in Nat
  /\ FirstHour \in Nat /\ LastHour \in Nat
  /\ FirstHour <= LastHour

VARIABLES
  hour,       \* the current hour
  sentIn,     \* per device: the hour of its request, or NotSent
  queue,      \* devices whose request is in the queue
  handledIn,  \* per device: the hour of the key in a handler, or NotHandled
  loadedIn,   \* per instance: the hour in which its code was loaded
  running,    \* executions: their key, their input and their hour
  results,    \* finished ones: their key, and what the API was asked and when
  delivered   \* per device: the results sent to it

deviceVars == <<sentIn, queue, handledIn>>
vars == <<hour, deviceVars, loadedIn, running, results, delivered>>

-----------------------------------------------------------------------------
(* GPS time                                                                *)

\* offSetToUnixTime, 315874800000 milliseconds
offSetToUnixTime == 87743

gpsDay(h) == (h - offSetToUnixTime) \div 24

\* Variant with a fault: no leeway for requests that were sent yesterday.
minimumGpsDayStrict(h) == gpsDay(h)

minimumGpsDay(h) == gpsDay(h) - 5

-----------------------------------------------------------------------------
(* Requests                                                                *)

Default(h) == [n |-> 42, int |-> 240, day |-> gpsDay(h), time |-> 0]

WithDefaults(request, h) ==
  [f \in Fields |-> IF f \in DOMAIN request THEN request[f] ELSE Default(h)[f]]

\* Variant with a fault: the key leaves out the start day.
cacheKeyWithoutDay(request, h) ==
  [parameters |-> [WithDefaults(request, h) EXCEPT !["day"] = gpsDay(h)], bin |-> h]

\* The bin is an hour, too.
cacheKey(request, h) == [parameters |-> WithDefaults(request, h), bin |-> h]

\* What the Lambda asks the API for.
apiParameters(request, h) == WithDefaults(request, h)

\* iotRuleSqlCheckIfDefinedAndNotZero: other requests never reach the queue.
RuleAccepts(request) == \A f \in DOMAIN request : request[f] > 0

\* pgpsRequestSchema, in code that was loaded in hour h
Valid(request, h) ==
  \A f \in DOMAIN request :
    /\ f \in {"n", "int"} => request[f] >= 1
    /\ f = "day" => request[f] \in minimumGpsDay(h)..99999
    /\ f = "time" => 0 <= request[f] /\ request[f] <= 86399

\* Variant with a fault: the upper bound of the start day is not checked.
AvailableLater(p, h) ==
  p.n \in 1..168 /\ p.int \in {120, 240, 360, 480} /\ p.day >= minimumGpsDay(h)

\* apiRequestSchema, in code that was loaded in hour h
Available(p, h) ==
  /\ p.n \in 1..168
  /\ p.int \in {120, 240, 360, 480}
  /\ p.day \in minimumGpsDay(h)..(gpsDay(h) + 14)
  /\ 0 <= p.time /\ p.time <= 86399

-----------------------------------------------------------------------------

NotSent == -1

NotHandled == -1

NotLoaded == -1

TypeOK ==
  /\ hour \in FirstHour..LastHour
  /\ sentIn \in [Devices -> Int]
  /\ queue \in SUBSET Devices
  /\ handledIn \in [Devices -> Int]
  /\ loadedIn \in [Instances -> Int]
  /\ DOMAIN delivered = Devices

Init ==
  /\ hour = FirstHour
  /\ sentIn = [d \in Devices |-> NotSent]
  /\ queue = {}
  /\ handledIn = [d \in Devices |-> NotHandled]
  /\ loadedIn = [i \in Instances |-> NotLoaded]
  /\ running = {}
  /\ results = {}
  /\ delivered = [d \in Devices |-> {}]

\* A request (15 minutes), a round of the handler (a minute) and an execution
\* (5 minutes) see the hour change once at most.
HourPasses ==
  /\ hour < LastHour
  /\ \A d \in Devices : d \in queue \/ handledIn[d] # NotHandled => sentIn[d] = hour
  /\ \A x \in running : x.in = hour
  /\ hour' = hour + 1
  /\ loadedIn' = [i \in Instances |->
       IF loadedIn[i] # NotLoaded /\ hour' - loadedIn[i] > MaxAge THEN NotLoaded ELSE loadedIn[i]]
  /\ UNCHANGED <<deviceVars, running, results, delivered>>

\* devicePGPSRequestRule
SendRequest(d) ==
  /\ sentIn[d] = NotSent
  /\ sentIn' = [sentIn EXCEPT ![d] = hour]
  /\ queue' = IF RuleAccepts(RequestOf[d]) THEN queue \cup {d} ELSE queue
  /\ UNCHANGED <<hour, handledIn, loadedIn, running, results, delivered>>

\* The handler computes the cache key of the request.
Receive(d) ==
  /\ d \in queue
  /\ queue' = queue \ {d}
  /\ handledIn' = [handledIn EXCEPT ![d] = hour]
  /\ UNCHANGED <<hour, sentIn, loadedIn, running, results, delivered>>

KeyOf(d) == cacheKey(RequestOf[d], handledIn[d])

Handled(d) == handledIn[d] # NotHandled

PutBack(d) ==
  /\ handledIn' = [handledIn EXCEPT ![d] = NotHandled]
  /\ queue' = queue \cup {d}
  /\ UNCHANGED <<hour, sentIn, loadedIn, results, delivered>>

\* The handler finds no entry: it creates one and starts an execution named
\* after the key, whose input is the request as it came.
StartExecution(d) ==
  /\ Handled(d)
  /\ \A x \in running \cup results : x.key # KeyOf(d)
  /\ running' = running \cup {[key |-> KeyOf(d), request |-> RequestOf[d], in |-> hour]}
  /\ PutBack(d)

\* The handler finds the entry, but no result.
Requeue(d) ==
  /\ Handled(d)
  /\ \E x \in running : x.key = KeyOf(d)
  /\ PutBack(d)
  /\ UNCHANGED running

\* The handler finds the result, which is published or, if it is none, dropped.
Answer(d, x) ==
  /\ Handled(d)
  /\ x \in results
  /\ x.key = KeyOf(d)
  /\ handledIn' = [handledIn EXCEPT ![d] = NotHandled]
  /\ delivered' = [delivered EXCEPT ![d] = IF x.resolved THEN @ \cup {x} ELSE @]
  /\ UNCHANGED <<hour, sentIn, queue, loadedIn, running, results>>

\* The request is too old, or retention ends.
Cancel(d) ==
  /\ d \in queue
  /\ queue' = queue \ {d}
  /\ UNCHANGED <<hour, sentIn, handledIn, loadedIn, running, results, delivered>>

\* A new instance computes the limits of the schemas.
Load(i) ==
  /\ loadedIn[i] = NotLoaded
  /\ loadedIn' = [loadedIn EXCEPT ![i] = hour]
  /\ UNCHANGED <<hour, deviceVars, running, results, delivered>>

Accepted(x, i) ==
  /\ Valid(x.request, loadedIn[i])
  /\ Available(apiParameters(x.request, hour), loadedIn[i])

\* The Lambda validates the input, asks the API unless its schema forbids it,
\* and the execution persists the result or that there is none.
Resolve(x, i, found) ==
  /\ x \in running
  /\ loadedIn[i] # NotLoaded
  /\ found => Accepted(x, i)
  /\ running' = running \ {x}
  /\ results' = results \cup
       {[key |-> x.key, parameters |-> apiParameters(x.request, hour), in |-> hour,
         accepted |-> Accepted(x, i), resolved |-> found]}
  /\ UNCHANGED <<hour, deviceVars, loadedIn, delivered>>

Next ==
  \/ HourPasses
  \/ \E d \in Devices : SendRequest(d) \/ Receive(d) \/ StartExecution(d) \/ Requeue(d) \/ Cancel(d)
  \/ \E d \in Devices, x \in results : Answer(d, x)
  \/ \E i \in Instances : Load(i)
  \/ \E i \in Instances, x \in running, found \in BOOLEAN : Resolve(x, i, found)

Spec == Init /\ [][Next]_vars
=============================================================================
