----------------------- MODULE PGPSPredictions_proofs -----------------------
(***************************************************************************)
(* Proofs about the P-GPS predictions, for any devices, any requests and   *)
(* any hours.                                                              *)
(***************************************************************************)
EXTENDS PGPSPredictionsProperties, TLAPS

-----------------------------------------------------------------------------
(* GPS days                                                                *)

\* In four hours one GPS day begins at most.
LEMMA OneDayBegins ==
  ASSUME NEW g \in Int, NEW h \in Int, g <= h, h <= g + 4
  PROVE  gpsDay(g) \in Int /\ gpsDay(h) \in Int /\ gpsDay(h) - gpsDay(g) \in {0, 1}
BY SMT DEF gpsDay, offSetToUnixTime

\* The fields of a request that are filled in are those that are given, and the
\* others do not depend on the hour but for the day.
LEMMA FieldsFilledIn ==
  ASSUME NEW d \in Devices, NEW g \in Int, NEW h \in Int
  PROVE  /\ \A f \in Fields \ {"day"} :
              WithDefaults(RequestOf[d], g)[f] = WithDefaults(RequestOf[d], h)[f]
         /\ WithDefaults(RequestOf[d], h).day =
              IF "day" \in DOMAIN RequestOf[d] THEN RequestOf[d]["day"] ELSE gpsDay(h)
         /\ "day" \in DOMAIN RequestOf[d] => RequestOf[d]["day"] \in Int
BY RequestsAssumption DEF WithDefaults, Default, Fields

\* With defaults, a request has all fields.
LEMMA ParametersTyped ==
  ASSUME NEW d \in Devices, NEW h \in Int
  PROVE  apiParameters(RequestOf[d], h) \in [Fields -> Int]
<1>1. gpsDay(h) \in Int
  BY OneDayBegins
<1>2. \A f \in Fields : Default(h)[f] \in Int
  BY <1>1 DEF Default, Fields
<1>3. \A f \in DOMAIN RequestOf[d] : RequestOf[d][f] \in Int
  BY RequestsAssumption
<1> QED
  BY <1>2, <1>3 DEF apiParameters, WithDefaults

\* Within four hours the start day of a request without one moves by one at most.
LEMMA DayFilledIn ==
  ASSUME NEW d \in Devices, NEW g \in Int, NEW h \in Int, g <= h, h <= g + 4
  PROVE  /\ WithDefaults(RequestOf[d], g).day \in Int
         /\ WithDefaults(RequestOf[d], h).day \in Int
         /\ WithDefaults(RequestOf[d], h).day - WithDefaults(RequestOf[d], g).day \in {0, 1}
BY FieldsFilledIn, OneDayBegins

-----------------------------------------------------------------------------
(* The steps of requests and executions                                    *)

\* The types are kept.
LEMMA NextTypeOK == TypeOK /\ [Next]_vars => TypeOK'
<1> SUFFICES ASSUME TypeOK, [Next]_vars PROVE TypeOK'
  OBVIOUS
<1> USE HoursAssumption DEF TypeOK, deviceVars
<1>1. CASE HourPasses
  BY <1>1 DEF HourPasses, NotLoaded
<1>2. ASSUME NEW d \in Devices,
             SendRequest(d) \/ Receive(d) \/ StartExecution(d) \/ Requeue(d) \/ Cancel(d)
      PROVE  TypeOK'
  BY <1>2 DEF SendRequest, Receive, StartExecution, Requeue, Cancel, PutBack, NotHandled
<1>3. ASSUME NEW d \in Devices, NEW x \in results, Answer(d, x) PROVE TypeOK'
  BY <1>3 DEF Answer, NotHandled
<1>4. ASSUME NEW i \in Instances, Load(i) PROVE TypeOK'
  BY <1>4 DEF Load
<1>5. ASSUME NEW i \in Instances, NEW x \in running, NEW found \in BOOLEAN, Resolve(x, i, found)
      PROVE  TypeOK'
  BY <1>5 DEF Resolve
<1>6. CASE UNCHANGED vars
  BY <1>6 DEF vars
<1> QED
  BY <1>1, <1>2, <1>3, <1>4, <1>5, <1>6 DEF Next

\* The hours stay close to each other.
LEMMA NextHoursAreClose == TypeOK /\ HoursAreClose /\ [Next]_vars => HoursAreClose'
<1> SUFFICES ASSUME TypeOK, HoursAreClose, [Next]_vars PROVE HoursAreClose'
  OBVIOUS
<1> USE HoursAssumption DEF TypeOK, HoursAreClose, Handled, deviceVars, NotSent, NotHandled
<1>1. CASE HourPasses
  BY <1>1 DEF HourPasses
<1>2. ASSUME NEW d \in Devices, SendRequest(d) PROVE HoursAreClose'
  BY <1>2 DEF SendRequest
<1>3. ASSUME NEW d \in Devices, Receive(d) PROVE HoursAreClose'
  BY <1>3 DEF Receive
<1>4. ASSUME NEW d \in Devices, StartExecution(d) PROVE HoursAreClose'
  <2> DEFINE new == [key |-> KeyOf(d), request |-> RequestOf[d], in |-> hour]
  <2>1. /\ new.in \in Int /\ new.key.bin \in Int
        /\ new.key.bin <= new.in /\ new.in <= new.key.bin + 1
        /\ new.in <= hour /\ hour <= new.in + 1
    BY <1>4 DEF StartExecution, KeyOf, cacheKey
  <2>2. running' = running \cup {new} /\ UNCHANGED <<hour, sentIn, results, delivered>>
    BY <1>4 DEF StartExecution, PutBack
  <2>3. \A x \in running' :
          /\ x.in \in Int /\ x.key.bin \in Int
          /\ x.key.bin <= x.in /\ x.in <= x.key.bin + 1
          /\ x.in <= hour' /\ hour' <= x.in + 1
    <3> HIDE DEF new
    <3> QED BY <2>1, <2>2
  <2>4. handledIn' = [handledIn EXCEPT ![d] = NotHandled] /\ queue' = queue \cup {d}
    BY <1>4 DEF StartExecution, PutBack
  <2> QED
    BY <1>4, <2>2, <2>3, <2>4 DEF StartExecution
<1>5. ASSUME NEW d \in Devices, Requeue(d) PROVE HoursAreClose'
  BY <1>5 DEF Requeue, PutBack
<1>6. ASSUME NEW d \in Devices, Cancel(d) PROVE HoursAreClose'
  BY <1>6 DEF Cancel
<1>7. ASSUME NEW d \in Devices, NEW x \in results, Answer(d, x) PROVE HoursAreClose'
  <2>1. x.key.bin = handledIn[d]
    BY <1>7 DEF Answer, KeyOf, cacheKey
  <2>2. sentIn[d] <= x.key.bin /\ x.key.bin <= sentIn[d] + 1 /\ sentIn[d] # NotSent
    BY <1>7, <2>1 DEF Answer
  <2>3. \A e \in Devices : \A y \in delivered'[e] : y \in delivered[e] \/ (e = d /\ y = x)
    BY <1>7 DEF Answer
  <2>4. \A e \in Devices : \A y \in delivered'[e] :
          sentIn'[e] <= y.key.bin /\ y.key.bin <= sentIn'[e] + 1
    BY <1>7, <2>2, <2>3 DEF Answer
  <2>5. \A e \in Devices : sentIn'[e] = NotSent => delivered'[e] = {}
    BY <1>7, <2>2 DEF Answer
  <2> QED
    BY <1>7, <2>4, <2>5 DEF Answer
<1>8. ASSUME NEW i \in Instances, Load(i) PROVE HoursAreClose'
  BY <1>8 DEF Load
<1>9. ASSUME NEW i \in Instances, NEW x \in running, NEW found \in BOOLEAN, Resolve(x, i, found)
      PROVE  HoursAreClose'
  <2> DEFINE new == [key |-> x.key, parameters |-> apiParameters(x.request, hour), in |-> hour,
                     accepted |-> Accepted(x, i), resolved |-> found]
  <2>1. /\ new.in \in Int /\ new.key.bin \in Int
        /\ new.key.bin <= new.in /\ new.in <= new.key.bin + 2
    OBVIOUS
  <2>2. /\ running' = running \ {x} /\ results' = results \cup {new}
        /\ UNCHANGED <<hour, sentIn, queue, handledIn, delivered>>
    BY <1>9 DEF Resolve
  <2> HIDE DEF new
  <2> QED
    BY <2>1, <2>2
<1>10. CASE UNCHANGED vars
  BY <1>10 DEF vars
<1> QED
  BY <1>1, <1>2, <1>3, <1>4, <1>5, <1>6, <1>7, <1>8, <1>9, <1>10 DEF Next

\* Keys, questions and what is delivered stay those of requests.
LEMMA NextKeysAreOfRequests == TypeOK /\ KeysAreOfRequests /\ [Next]_vars => KeysAreOfRequests'
<1> SUFFICES ASSUME TypeOK, KeysAreOfRequests, [Next]_vars PROVE KeysAreOfRequests'
  OBVIOUS
<1> USE DEF TypeOK, KeysAreOfRequests, deviceVars
<1>1. CASE HourPasses
  BY <1>1 DEF HourPasses
<1>2. ASSUME NEW d \in Devices, SendRequest(d) \/ Receive(d) \/ Requeue(d) \/ Cancel(d)
      PROVE  KeysAreOfRequests'
  BY <1>2 DEF SendRequest, Receive, Requeue, Cancel, PutBack
<1>3. ASSUME NEW d \in Devices, StartExecution(d) PROVE KeysAreOfRequests'
  <2> DEFINE new == [key |-> KeyOf(d), request |-> RequestOf[d], in |-> hour]
  <2>1. new.request = RequestOf[d] /\ new.key = cacheKey(RequestOf[d], new.key.bin)
    BY DEF KeyOf, cacheKey
  <2>2. running' = running \cup {new} /\ UNCHANGED <<results, delivered>>
    BY <1>3 DEF StartExecution, PutBack
  <2> HIDE DEF new
  <2> QED
    BY <2>1, <2>2
<1>4. ASSUME NEW d \in Devices, NEW x \in results, Answer(d, x) PROVE KeysAreOfRequests'
  <2>1. x.key = cacheKey(RequestOf[d], x.key.bin)
    BY <1>4 DEF Answer, KeyOf, cacheKey
  <2>2. \A e \in Devices : \A y \in delivered'[e] : y \in delivered[e] \/ (e = d /\ y = x)
    BY <1>4 DEF Answer
  <2>3. UNCHANGED <<running, results>>
    BY <1>4 DEF Answer
  <2> QED
    BY <2>1, <2>2, <2>3
<1>5. ASSUME NEW i \in Instances, Load(i) PROVE KeysAreOfRequests'
  BY <1>5 DEF Load
<1>6. ASSUME NEW i \in Instances, NEW x \in running, NEW found \in BOOLEAN, Resolve(x, i, found)
      PROVE  KeysAreOfRequests'
  <2> DEFINE new == [key |-> x.key, parameters |-> apiParameters(x.request, hour), in |-> hour,
                     accepted |-> Accepted(x, i), resolved |-> found]
  <2>1. PICK d \in Devices : x.request = RequestOf[d] /\ x.key = cacheKey(RequestOf[d], x.key.bin)
    OBVIOUS
  <2>2. new.key = cacheKey(RequestOf[d], new.key.bin) /\ new.parameters = apiParameters(RequestOf[d], new.in)
    BY <2>1
  <2>3. running' = running \ {x} /\ results' = results \cup {new} /\ UNCHANGED delivered
    BY <1>6 DEF Resolve
  <2> HIDE DEF new
  <2> QED
    BY <2>2, <2>3
<1>7. CASE UNCHANGED vars
  BY <1>7 DEF vars
<1> QED
  BY <1>1, <1>2, <1>3, <1>4, <1>5, <1>6, <1>7 DEF Next

\* The clock takes the instances away that become too old.
LEMMA NextLimitsAreRecent == TypeOK /\ LimitsAreRecent /\ [Next]_vars => LimitsAreRecent'
<1> SUFFICES ASSUME TypeOK, LimitsAreRecent, [Next]_vars PROVE LimitsAreRecent'
  OBVIOUS
<1> USE HoursAssumption DEF TypeOK, LimitsAreRecent, NotLoaded
<1>1. CASE HourPasses
  BY <1>1 DEF HourPasses
<1>2. ASSUME NEW i \in Instances, Load(i) PROVE LimitsAreRecent'
  BY <1>2 DEF Load
<1>3. CASE UNCHANGED <<hour, loadedIn>>
  BY <1>3
<1>4. ASSUME NEW d \in Devices,
             SendRequest(d) \/ Receive(d) \/ StartExecution(d) \/ Requeue(d) \/ Cancel(d)
      PROVE  LimitsAreRecent'
  BY <1>4 DEF SendRequest, Receive, StartExecution, Requeue, Cancel, PutBack
<1>5. ASSUME NEW d \in Devices, NEW x \in results, Answer(d, x) PROVE LimitsAreRecent'
  BY <1>5 DEF Answer
<1>6. ASSUME NEW i \in Instances, NEW x \in running, NEW found \in BOOLEAN, Resolve(x, i, found)
      PROVE  LimitsAreRecent'
  BY <1>6 DEF Resolve
<1> QED
  BY <1>1, <1>2, <1>3, <1>4, <1>5, <1>6 DEF Next, vars

-----------------------------------------------------------------------------
(* What the API is asked                                                   *)

\* Days follow hours, and two weeks are fourteen days.
LEMMA DaysFollowHours ==
  ASSUME NEW g \in Int, NEW h \in Int, g <= h
  PROVE  /\ gpsDay(g) \in Int /\ gpsDay(h) \in Int
         /\ gpsDay(g) <= gpsDay(h)
         /\ h <= g + 14 * 24 => gpsDay(h) <= gpsDay(g) + 14
BY SMT DEF gpsDay, offSetToUnixTime

\* An instance asks for no day beyond the limits it was loaded with, which are
\* at most as old as the instance.
LEMMA AcceptedIsAvailable ==
  ASSUME NEW h \in Int, NEW l \in Int, l <= h, h <= l + MaxAge,
         NEW p \in [Fields -> Int], Available(p, l)
  PROVE  p.day <= gpsDay(h) + 14 /\ p.day >= minimumGpsDay(h - MaxAge)
<1>1. p.day \in minimumGpsDay(l)..(gpsDay(l) + 14)
  BY DEF Available
<1>2. gpsDay(l) \in Int /\ gpsDay(h) \in Int /\ gpsDay(l) <= gpsDay(h)
  BY DaysFollowHours
<1>3. h - MaxAge \in Int /\ h - MaxAge <= l
  BY HoursAssumption
<1>4. gpsDay(h - MaxAge) \in Int /\ gpsDay(h - MaxAge) <= gpsDay(l)
  BY <1>3, DaysFollowHours
<1> QED
  BY <1>1, <1>2, <1>4 DEF minimumGpsDay

\* A request without anything but the day on which its key was computed, or on
\* which the API is asked, is within the limits of every instance.
LEMMA CurrentDayIsWithin ==
  ASSUME NEW d \in Devices, NEW g \in Int, NEW h \in FirstHour..LastHour, NEW l \in Int,
         g <= h, h <= g + 2, l <= h, h <= l + MaxAge,
         apiParameters(RequestOf[d], h).day \in {gpsDay(g), gpsDay(h)},
         \A f \in Fields \ {"day"} : apiParameters(RequestOf[d], h)[f] = Default(h)[f]
  PROVE  Valid(RequestOf[d], l) /\ Available(apiParameters(RequestOf[d], h), l)
<1> DEFINE p == apiParameters(RequestOf[d], h)
<1>1. h \in Int /\ h <= l + 14 * 24 /\ h <= LastHour /\ LastHour \in Int
  BY HoursAssumption, LimitsAssumption
<1>2. gpsDay(g) \in Int /\ gpsDay(h) \in Int /\ gpsDay(h) - gpsDay(g) \in {0, 1}
  BY <1>1, OneDayBegins
<1>3. gpsDay(l) \in Int /\ gpsDay(l) <= gpsDay(h) /\ gpsDay(h) <= gpsDay(l) + 14
  BY <1>1, DaysFollowHours
<1>4. gpsDay(LastHour) \in Int /\ gpsDay(h) <= gpsDay(LastHour) /\ gpsDay(LastHour) <= 99999
  BY <1>1, DaysFollowHours, LimitsAssumption
<1>5. p.day \in minimumGpsDay(l)..(gpsDay(l) + 14) /\ p.day \in minimumGpsDay(l)..99999
  BY <1>2, <1>3, <1>4 DEF minimumGpsDay
<1>6. p.n = 42 /\ p.int = 240 /\ p.time = 0
  BY DEF Default, Fields
<1>7. Available(p, l)
  BY <1>5, <1>6 DEF Available
<1>8. \A f \in DOMAIN RequestOf[d] : f \in Fields /\ RequestOf[d][f] = p[f]
  BY RequestsAssumption DEF apiParameters, WithDefaults
<1>9. Valid(RequestOf[d], l)
  <2> SUFFICES ASSUME NEW f \in DOMAIN RequestOf[d]
               PROVE  /\ f \in {"n", "int"} => RequestOf[d][f] >= 1
                      /\ f = "day" => RequestOf[d][f] \in minimumGpsDay(l)..99999
                      /\ f = "time" => 0 <= RequestOf[d][f] /\ RequestOf[d][f] <= 86399
    BY DEF Valid
  <2> QED
    BY <1>5, <1>6, <1>8
<1> QED
  BY <1>7, <1>9

-----------------------------------------------------------------------------
(* What follows for the predictions                                        *)

\* The question is at most two hours younger than the key, and both have the
\* fields of the same request.
LEMMA QuestionsFollow == HoursAreClose /\ KeysAreOfRequests => QuestionMatchesKey
<1> SUFFICES ASSUME HoursAreClose, KeysAreOfRequests, NEW x \in results
             PROVE  /\ \A f \in Fields \ {"day"} : x.parameters[f] = x.key.parameters[f]
                    /\ x.parameters.day - x.key.parameters.day \in {0, 1}
  BY DEF QuestionMatchesKey
<1>1. PICK d \in Devices : /\ x.key = cacheKey(RequestOf[d], x.key.bin)
                           /\ x.parameters = apiParameters(RequestOf[d], x.in)
  BY DEF KeysAreOfRequests
<1>2. x.in \in Int /\ x.key.bin \in Int /\ x.key.bin <= x.in /\ x.in <= x.key.bin + 2
  BY DEF HoursAreClose
<1>3. /\ x.parameters = WithDefaults(RequestOf[d], x.in)
      /\ x.key.parameters = WithDefaults(RequestOf[d], x.key.bin)
  BY <1>1 DEF cacheKey, apiParameters
<1> QED
  BY <1>2, <1>3, FieldsFilledIn, DayFilledIn

\* The key of what a device gets has the fields of its own request and is at
\* most one hour younger; the question has the fields of the key and is at most
\* two hours younger still.
LEMMA PredictionsFollow ==
  TypeOK /\ HoursAreClose /\ KeysAreOfRequests => PredictionsMatchRequest
<1> SUFFICES ASSUME TypeOK, HoursAreClose, KeysAreOfRequests,
                    NEW d \in Devices, NEW x \in delivered[d]
             PROVE  LET asked == WithDefaults(RequestOf[d], sentIn[d]) IN
                    /\ \A f \in Fields \ {"day"} : x.parameters[f] = asked[f]
                    /\ x.parameters.day - asked.day \in {0, 1}
  BY DEF PredictionsMatchRequest
<1>1. x \in results /\ x.key = cacheKey(RequestOf[d], x.key.bin)
  BY DEF KeysAreOfRequests
<1>2. PICK e \in Devices : /\ x.key = cacheKey(RequestOf[e], x.key.bin)
                           /\ x.parameters = apiParameters(RequestOf[e], x.in)
  BY <1>1 DEF KeysAreOfRequests
<1>3. /\ sentIn[d] \in Int /\ x.in \in Int /\ x.key.bin \in Int
      /\ x.key.bin <= x.in /\ x.in <= x.key.bin + 2
      /\ sentIn[d] <= x.key.bin /\ x.key.bin <= sentIn[d] + 1
  BY <1>1 DEF TypeOK, HoursAreClose
<1>4. /\ x.parameters = WithDefaults(RequestOf[e], x.in)
      /\ WithDefaults(RequestOf[d], x.key.bin) = WithDefaults(RequestOf[e], x.key.bin)
  BY <1>1, <1>2 DEF cacheKey, apiParameters
<1>5. \A f \in Fields \ {"day"} : x.parameters[f] = WithDefaults(RequestOf[d], sentIn[d])[f]
  <2>1. \A f \in Fields \ {"day"} :
          WithDefaults(RequestOf[e], x.in)[f] = WithDefaults(RequestOf[e], x.key.bin)[f]
    BY <1>3, FieldsFilledIn
  <2>2. \A f \in Fields \ {"day"} :
          WithDefaults(RequestOf[d], x.key.bin)[f] = WithDefaults(RequestOf[d], sentIn[d])[f]
    BY <1>3, FieldsFilledIn
  <2> QED
    BY <1>4, <2>1, <2>2
\* Both fill in the same days, whether or not they give them.
<1>6. x.parameters.day - WithDefaults(RequestOf[d], sentIn[d]).day \in {0, 1}
  <2> DEFINE same(g) == WithDefaults(RequestOf[d], g).day
             other(g) == WithDefaults(RequestOf[e], g).day
  <2>1. same(x.key.bin) = other(x.key.bin) /\ x.parameters.day = other(x.in)
    BY <1>4
  <2>2. CASE "day" \in DOMAIN RequestOf[e]
    <3>1. other(x.in) = other(x.key.bin)
      BY <1>3, <2>2, FieldsFilledIn
    <3>2. same(x.key.bin) - same(sentIn[d]) \in {0, 1}
      BY <1>3, DayFilledIn
    <3> QED
      BY <2>1, <3>1, <3>2
  <2>3. CASE "day" \in DOMAIN RequestOf[d]
    <3>1. same(sentIn[d]) = same(x.key.bin)
      BY <1>3, <2>3, FieldsFilledIn
    <3>2. other(x.in) - other(x.key.bin) \in {0, 1}
      BY <1>3, DayFilledIn
    <3> QED
      BY <2>1, <3>1, <3>2
  <2>4. CASE "day" \notin DOMAIN RequestOf[e] /\ "day" \notin DOMAIN RequestOf[d]
    <3>1. other(x.in) = gpsDay(x.in) /\ same(sentIn[d]) = gpsDay(sentIn[d])
      BY <1>3, <2>4, FieldsFilledIn
    <3>2. gpsDay(x.in) - gpsDay(sentIn[d]) \in {0, 1}
      BY <1>3, OneDayBegins
    <3> QED
      BY <2>1, <3>1, <3>2
  <2> QED
    BY <2>2, <2>3, <2>4
<1> QED
  BY <1>5, <1>6

-----------------------------------------------------------------------------
(* Theorems                                                                *)

\* Initially nothing has been sent.
LEMMA InitHours == Init => TypeOK /\ HoursAreClose /\ KeysAreOfRequests /\ LimitsAreRecent
BY HoursAssumption
   DEF Init, TypeOK, HoursAreClose, KeysAreOfRequests, LimitsAreRecent, Handled, NotSent,
       NotHandled, NotLoaded

(***************************************************************************)
(* The invariant of the predictions, with the hours that requests, keys    *)
(* and questions are apart.                                                *)
(***************************************************************************)
THEOREM PGPSInvariantHolds == Spec => []PGPSInvariant
<1> DEFINE Inductive == TypeOK /\ HoursAreClose /\ KeysAreOfRequests /\ LimitsAreRecent
<1>1. Init => Inductive
  BY InitHours
<1>2. Inductive /\ [Next]_vars => Inductive'
  BY NextTypeOK, NextHoursAreClose, NextKeysAreOfRequests, NextLimitsAreRecent
<1>3. Inductive => PGPSInvariant
  BY QuestionsFollow, PredictionsFollow DEF PGPSInvariant
<1> QED
  BY <1>1, <1>2, <1>3, PTL DEF Spec

(***************************************************************************)
(* Every device gets predictions with the fields that it asked for, that   *)
(* start on the day on which it asked or on the next one, for any devices  *)
(* that share keys by giving or leaving out any of the fields.             *)
(***************************************************************************)
THEOREM PredictionsAreAsRequested == Spec => []PredictionsMatchRequest
BY PGPSInvariantHolds, PTL DEF PGPSInvariant

\* The limits were right when the question was accepted, and neither changes.
LEMMA NextQuestionsAreAvailable ==
  PGPSInvariant /\ QuestionsAreAvailable /\ [Next]_vars => QuestionsAreAvailable'
<1> SUFFICES ASSUME PGPSInvariant, QuestionsAreAvailable, [Next]_vars PROVE QuestionsAreAvailable'
  OBVIOUS
<1>1. CASE UNCHANGED results
  BY <1>1 DEF QuestionsAreAvailable
<1>2. ASSUME NEW i \in Instances, NEW x \in running, NEW found \in BOOLEAN, Resolve(x, i, found)
      PROVE  QuestionsAreAvailable'
  <2> DEFINE new == [key |-> x.key, parameters |-> apiParameters(x.request, hour), in |-> hour,
                     accepted |-> Accepted(x, i), resolved |-> found]
  <2>1. results' = results \cup {new}
    BY <1>2 DEF Resolve
  <2>2. hour \in Int /\ loadedIn[i] \in Int /\ loadedIn[i] <= hour /\ hour <= loadedIn[i] + MaxAge
    BY <1>2, HoursAssumption DEF Resolve, PGPSInvariant, TypeOK, LimitsAreRecent
  <2>3. PICK d \in Devices : x.request = RequestOf[d]
    BY DEF PGPSInvariant, KeysAreOfRequests
  <2>4. apiParameters(x.request, hour) \in [Fields -> Int]
    BY <2>2, <2>3, ParametersTyped
  <2>5. new.accepted => /\ new.parameters.day <= gpsDay(new.in) + 14
                        /\ new.parameters.day >= minimumGpsDay(new.in - MaxAge)
    BY <2>2, <2>4, AcceptedIsAvailable DEF Accepted
  <2> HIDE DEF new
  <2> QED
    BY <2>1, <2>5 DEF QuestionsAreAvailable
<1> QED
  BY <1>1, <1>2 DEF Next, vars, HourPasses, SendRequest, Receive, StartExecution, Requeue, Cancel,
     PutBack, Answer, Load

\* A day that was current for the key or is for the question is accepted.
LEMMA NextCurrentDayIsAccepted ==
  PGPSInvariant /\ CurrentDayIsAccepted /\ [Next]_vars => CurrentDayIsAccepted'
<1> SUFFICES ASSUME PGPSInvariant, CurrentDayIsAccepted, [Next]_vars PROVE CurrentDayIsAccepted'
  OBVIOUS
<1>1. CASE UNCHANGED results
  BY <1>1 DEF CurrentDayIsAccepted
<1>2. ASSUME NEW i \in Instances, NEW x \in running, NEW found \in BOOLEAN, Resolve(x, i, found)
      PROVE  CurrentDayIsAccepted'
  <2> DEFINE new == [key |-> x.key, parameters |-> apiParameters(x.request, hour), in |-> hour,
                     accepted |-> Accepted(x, i), resolved |-> found]
  <2>1. results' = results \cup {new}
    BY <1>2 DEF Resolve
  <2>2. /\ hour \in FirstHour..LastHour /\ loadedIn[i] \in Int
        /\ loadedIn[i] <= hour /\ hour <= loadedIn[i] + MaxAge
    BY <1>2 DEF Resolve, PGPSInvariant, TypeOK, LimitsAreRecent
  <2>3. PICK d \in Devices : x.request = RequestOf[d]
    BY DEF PGPSInvariant, KeysAreOfRequests
  <2>4. x.key.bin \in Int /\ x.key.bin <= hour /\ hour <= x.key.bin + 2
    BY <2>2, HoursAssumption DEF PGPSInvariant, HoursAreClose
  <2>5. /\ new.parameters.day \in {gpsDay(new.key.bin), gpsDay(new.in)}
        /\ \A f \in Fields \ {"day"} : new.parameters[f] = Default(new.in)[f]
        => new.accepted
    BY <2>2, <2>3, <2>4, CurrentDayIsWithin DEF Accepted
  <2> HIDE DEF new
  <2> QED
    BY <2>1, <2>5 DEF CurrentDayIsAccepted
<1> QED
  BY <1>1, <1>2 DEF Next, vars, HourPasses, SendRequest, Receive, StartExecution, Requeue, Cancel,
     PutBack, Answer, Load

(***************************************************************************)
(* For any requests, and instances of any age, the API is never asked for  *)
(* days that it does not have yet, nor for more than five days ago and the *)
(* age of the instance.                                                    *)
(***************************************************************************)
THEOREM QuestionsAreAlwaysAvailable == Spec => []QuestionsAreAvailable
<1>1. Init => QuestionsAreAvailable
  BY DEF Init, QuestionsAreAvailable
<1> QED
  BY <1>1, NextQuestionsAreAvailable, PGPSInvariantHolds, PTL DEF Spec

(***************************************************************************)
(* No instance refuses a request for the current day because of limits it  *)
(* was loaded with, whenever that was and wherever a GPS day begins.       *)
(***************************************************************************)
THEOREM CurrentDayIsAlwaysAccepted == Spec => []CurrentDayIsAccepted
<1>1. Init => CurrentDayIsAccepted
  BY DEF Init, CurrentDayIsAccepted
<1> QED
  BY <1>1, NextCurrentDayIsAccepted, PGPSInvariantHolds, PTL DEF Spec

-----------------------------------------------------------------------------
(* Refinement                                                              *)

\* A key has one execution, which runs or has ended, for ever.
KeysAreUnique ==
  /\ \A d \in Devices : Handled(d) => handledIn[d] \in FirstHour..LastHour
  /\ \A x \in running \cup results : x.key \in AllKeys
  /\ \A x, y \in running : x.key = y.key => x = y
  /\ \A x, y \in results : x.key = y.key => x = y
  /\ \A x \in running, y \in results : x.key # y.key
  /\ \A x \in results : x.resolved \in BOOLEAN

\* The key of a request that is handled is one of its device.
LEMMA KeyIsOfDevice ==
  ASSUME KeysAreUnique, NEW d \in Devices, Handled(d)
  PROVE  KeyOf(d) \in KeysOf[d] /\ KeyOf(d) \in AllKeys
<1>1. KeyOf(d) \in KeysOf[d]
  BY DEF KeysAreUnique, KeyOf, KeysOf
<1> QED
  BY <1>1 DEF AllKeys

\* An execution is started for a key without one, and has one result.
LEMMA NextKeysAreUnique == TypeOK /\ KeysAreUnique /\ [Next]_vars => KeysAreUnique'
<1> SUFFICES ASSUME TypeOK, KeysAreUnique, [Next]_vars PROVE KeysAreUnique'
  OBVIOUS
<1> USE DEF KeysAreUnique, Handled, deviceVars
<1>1. CASE HourPasses
  BY <1>1 DEF HourPasses
<1>2. ASSUME NEW d \in Devices, SendRequest(d) \/ Cancel(d) PROVE KeysAreUnique'
  BY <1>2 DEF SendRequest, Cancel
<1>3. ASSUME NEW d \in Devices, Receive(d) PROVE KeysAreUnique'
  BY <1>3 DEF Receive, TypeOK
<1>4. ASSUME NEW d \in Devices, StartExecution(d) PROVE KeysAreUnique'
  <2> DEFINE new == [key |-> KeyOf(d), request |-> RequestOf[d], in |-> hour]
  <2>1. new.key = KeyOf(d) /\ KeyOf(d) \in AllKeys
    BY <1>4, KeyIsOfDevice DEF StartExecution
  <2>2. running' = running \cup {new} /\ UNCHANGED results
    BY <1>4 DEF StartExecution, PutBack
  <2>3. \A x \in running \cup results : x.key # KeyOf(d)
    BY <1>4 DEF StartExecution
  <2>4. handledIn' = [handledIn EXCEPT ![d] = NotHandled]
    BY <1>4 DEF StartExecution, PutBack
  <2>5. \A e \in Devices : handledIn'[e] # NotHandled => handledIn'[e] \in FirstHour..LastHour
    BY <2>4 DEF TypeOK
  <2> HIDE DEF new
  <2> QED
    BY <2>1, <2>2, <2>3, <2>5
<1>5. ASSUME NEW d \in Devices, Requeue(d) PROVE KeysAreUnique'
  BY <1>5 DEF Requeue, PutBack, TypeOK
<1>6. ASSUME NEW d \in Devices, NEW x \in results, Answer(d, x) PROVE KeysAreUnique'
  BY <1>6 DEF Answer, TypeOK
<1>7. ASSUME NEW i \in Instances, Load(i) PROVE KeysAreUnique'
  BY <1>7 DEF Load
<1>8. ASSUME NEW i \in Instances, NEW x \in running, NEW found \in BOOLEAN, Resolve(x, i, found)
      PROVE  KeysAreUnique'
  <2> DEFINE new == [key |-> x.key, parameters |-> apiParameters(x.request, hour), in |-> hour,
                     accepted |-> Accepted(x, i), resolved |-> found]
  <2>1. new.key = x.key /\ new.resolved = found
    OBVIOUS
  <2>2. running' = running \ {x} /\ results' = results \cup {new} /\ UNCHANGED handledIn
    BY <1>8 DEF Resolve
  <2> HIDE DEF new
  <2> QED
    BY <2>1, <2>2
<1>9. CASE UNCHANGED vars
  BY <1>9 DEF vars
<1> QED
  BY <1>1, <1>2, <1>3, <1>4, <1>5, <1>6, <1>7, <1>8, <1>9 DEF Next

\* Steps that start, end and deliver nothing are invisible.
LEMMA QuietIsStutter ==
  ASSUME UNCHANGED <<running, results, delivered>>
  PROVE  UNCHANGED Resolution!vars
BY DEF Resolution!vars, Outcome

\* An execution that starts puts the question of its key.
LEMMA StartPutsKey ==
  ASSUME KeysAreUnique, NEW d \in Devices, StartExecution(d)
  PROVE  Resolution!Next
<1> DEFINE new == [key |-> KeyOf(d), request |-> RequestOf[d], in |-> hour]
<1>1. new.key = KeyOf(d) /\ KeyOf(d) \in AllKeys
  BY KeyIsOfDevice DEF StartExecution
<1>2. running' = running \cup {new} /\ UNCHANGED <<results, delivered>>
  BY DEF StartExecution, PutBack
<1>3. \A x \in running \cup results : x.key # KeyOf(d)
  BY DEF StartExecution
<1> HIDE DEF new
<1>4. PICK k \in AllKeys : k = KeyOf(d)
  BY <1>1
<1>5. {x.key : x \in running' \cup results'} = {x.key : x \in running \cup results} \cup {k}
  BY <1>1, <1>2, <1>4
<1>6. Resolution!PutQuestion(k)
  BY <1>2, <1>3, <1>4, <1>5 DEF Resolution!PutQuestion, Outcome
<1> QED
  BY <1>6 DEF Resolution!Next

\* An execution that ends learns the answer to the question of its key.
LEMMA ResolveLearnsKey ==
  ASSUME KeysAreUnique, NEW i \in Instances, NEW x \in running, NEW found \in BOOLEAN,
         Resolve(x, i, found)
  PROVE  Resolution!Next
<1> DEFINE new == [key |-> x.key, parameters |-> apiParameters(x.request, hour), in |-> hour,
                   accepted |-> Accepted(x, i), resolved |-> found]
           outcome == IF found THEN "found" ELSE "nothing"
<1>1. new.key = x.key /\ new.resolved = found
  OBVIOUS
<1>2. running' = running \ {x} /\ results' = results \cup {new} /\ UNCHANGED delivered
  BY DEF Resolve
<1>3. x.key \in AllKeys /\ \A y \in results : y.key # x.key
  BY DEF KeysAreUnique
<1> HIDE DEF new
<1>4. {y.key : y \in running' \cup results'} = {y.key : y \in running \cup results}
  BY <1>1, <1>2
<1>5. Outcome(x.key) = "open" /\ Outcome(x.key)' = outcome
  BY <1>1, <1>2, <1>3 DEF Outcome
<1>6. \A k \in AllKeys : k # x.key => Outcome(k)' = Outcome(k)
  BY <1>1, <1>2 DEF Outcome
<1>7. outcome \in Resolution!Outcomes
  BY DEF Resolution!Outcomes
<1> HIDE DEF outcome
<1>8. [k \in AllKeys |-> Outcome(k)'] =
        [[k \in AllKeys |-> Outcome(k)] EXCEPT ![x.key] = outcome]
  BY <1>3, <1>5, <1>6
<1>9. Resolution!Learn(x.key, outcome)
  BY <1>2, <1>3, <1>4, <1>5, <1>8 DEF Resolution!Learn
<1> QED
  BY <1>3, <1>7, <1>9 DEF Resolution!Next

\* A device is told what its key was resolved to, or nothing.
LEMMA AnswerTellsDevice ==
  ASSUME TypeOK, KeysAreUnique, NEW d \in Devices, NEW x \in results, Answer(d, x)
  PROVE  [Resolution!Next]_(Resolution!vars)
<1>1. KeyOf(d) \in KeysOf[d] /\ KeyOf(d) \in AllKeys /\ x.key = KeyOf(d)
  BY KeyIsOfDevice DEF Answer
<1>2. UNCHANGED <<running, results>>
  BY DEF Answer
<1>3. CASE x.resolved
  <2>1. Outcome(KeyOf(d)) = "found"
    BY <1>1, <1>3 DEF Outcome, KeysAreUnique
  <2>2. \A e \in Devices : delivered'[e] = IF e = d THEN delivered[d] \cup {x} ELSE delivered[e]
    BY <1>3 DEF Answer, TypeOK
  <2>3. \A e \in Devices :
          (IF delivered'[e] = {} THEN {} ELSE {"found"}) =
            IF e \in {d} THEN (IF delivered[e] = {} THEN {} ELSE {"found"}) \cup {"found"}
              ELSE IF delivered[e] = {} THEN {} ELSE {"found"}
    BY <2>2
  <2>4. Resolution!Tell({d}, "found")
    BY <1>1, <1>2, <2>1, <2>3 DEF Resolution!Tell, Outcome
  <2> QED
    BY <2>4 DEF Resolution!Next, Resolution!Outcomes
<1>4. CASE ~x.resolved
  <2>1. \A e \in Devices : delivered'[e] = delivered[e]
    BY <1>4 DEF Answer, TypeOK
  <2> QED
    BY <1>2, <2>1 DEF Resolution!vars, Outcome
<1> QED
  BY <1>3, <1>4 DEF KeysAreUnique

(***************************************************************************)
(* The P-GPS fan-out implements the service that resolves a question once, *)
(* for any requests that share keys, any instances and any hours: no key   *)
(* is put to the API twice, and a device gets nothing but what a key of    *)
(* its own request was resolved to.                                        *)
(***************************************************************************)
THEOREM PGPSImplementsResolveOnce == Spec => ResolvesOnce
<1>1. Init => TypeOK /\ KeysAreUnique /\ Resolution!Init
  <2>1. Init => TypeOK
    BY InitHours
  <2>2. Init => KeysAreUnique
    BY DEF Init, KeysAreUnique, Handled
  <2>3. Init => Resolution!Init
    BY DEF Init, Resolution!Init, Outcome
  <2> QED
    BY <2>1, <2>2, <2>3
<1>2. TypeOK /\ KeysAreUnique /\ [Next]_vars => (TypeOK /\ KeysAreUnique)'
  BY NextTypeOK, NextKeysAreUnique
<1>3. TypeOK /\ KeysAreUnique /\ [Next]_vars => [Resolution!Next]_(Resolution!vars)
  <2> SUFFICES ASSUME TypeOK, KeysAreUnique, [Next]_vars
               PROVE  [Resolution!Next]_(Resolution!vars)
    OBVIOUS
  <2>1. CASE HourPasses \/ UNCHANGED vars
    BY <2>1, QuietIsStutter DEF HourPasses, vars
  <2>2. ASSUME NEW d \in Devices, SendRequest(d) \/ Receive(d) \/ Requeue(d) \/ Cancel(d)
        PROVE  UNCHANGED Resolution!vars
    BY <2>2, QuietIsStutter DEF SendRequest, Receive, Requeue, Cancel, PutBack
  <2>3. ASSUME NEW i \in Instances, Load(i) PROVE UNCHANGED Resolution!vars
    BY <2>3, QuietIsStutter DEF Load
  <2> QED
    BY <2>1, <2>2, <2>3, StartPutsKey, ResolveLearnsKey, AnswerTellsDevice DEF Next
<1> QED
  BY <1>1, <1>2, <1>3, PTL DEF Spec, ResolvesOnce, Resolution!Spec

-----------------------------------------------------------------------------
(* What follows from the abstract specification alone                      *)

Promise == INSTANCE ResolveOnce_proofs WITH
  Questions <- AllKeys,
  Askers <- Devices,
  QuestionsOf <- KeysOf,
  put <- {x.key : x \in running \cup results},
  learned <- [k \in AllKeys |-> Outcome(k)],
  told <- [d \in Devices |-> IF delivered[d] = {} THEN {} ELSE {"found"}]

\* The two instances of the abstract specification are the same.
LEMMA PromiseIsResolution ==
  /\ Resolution!Init => Promise!Init
  /\ [Resolution!Next]_(Resolution!vars) => [Promise!Next]_(Promise!vars)
BY DEF Resolution!Init, Promise!Init, Resolution!Next, Promise!Next, Resolution!vars,
       Promise!vars, Resolution!Outcomes, Promise!Outcomes, Resolution!PutQuestion,
       Promise!PutQuestion, Resolution!Learn, Promise!Learn, Resolution!Lose, Promise!Lose,
       Resolution!Tell, Promise!Tell

(***************************************************************************)
(* A device gets predictions only if a key of its own request, of one of   *)
(* the hours, was put to the API and resolved; and no other instance, hour *)
(* or execution changes what a key was resolved to.                        *)
(***************************************************************************)
THEOREM PGPSKeepsPromises == Spec => []Promise!ToldIsLearned /\ Promise!NothingIsUndone
<1>1. Promise!Spec => []Promise!ToldIsLearned
  <2>1. KeysOf \in [Devices -> SUBSET AllKeys]
    BY DEF KeysOf, AllKeys
  <2> QED
    BY <2>1, Promise!ToldWhatWasLearned
<1>2. Promise!Spec => Promise!NothingIsUndone
  BY Promise!OnlyAdds
<1> QED
  BY <1>1, <1>2, PromiseIsResolution, PGPSImplementsResolveOnce, PTL
     DEF ResolvesOnce, Resolution!Spec, Promise!Spec
=============================================================================
