--------------------- MODULE PGPSPredictionsProperties ---------------------
(***************************************************************************)
(* What the predictions of module PGPSPredictions promise.                 *)
(***************************************************************************)
EXTENDS PGPSPredictions

(***************************************************************************)
(* What the API was asked for is what the key of the entry says, although  *)
(* key and question fill in the defaults at different times: only the day  *)
(* of a request without one may be the next one.                           *)
(***************************************************************************)
QuestionMatchesKey ==
  \A x \in results :
    /\ \A f \in Fields \ {"day"} : x.parameters[f] = x.key.parameters[f]
    /\ x.parameters.day - x.key.parameters.day \in {0, 1}

(***************************************************************************)
(* The predictions a device gets have the fields of its request, with the  *)
(* day on which it asked for the default.  They start on that day or on    *)
(* the next one, whether they were made for this device or for another     *)
(* one, and whatever hours have passed on the way.                         *)
(***************************************************************************)
PredictionsMatchRequest ==
  \A d \in Devices : \A x \in delivered[d] :
    LET asked == WithDefaults(RequestOf[d], sentIn[d]) IN
    /\ \A f \in Fields \ {"day"} : x.parameters[f] = asked[f]
    /\ x.parameters.day - asked.day \in {0, 1}

\* Why: how far the hours of a request, of a key and of a question are apart.
HoursAreClose ==
  /\ \A d \in Devices :
       /\ sentIn[d] = NotSent => d \notin queue /\ ~Handled(d) /\ delivered[d] = {}
       /\ d \in queue \/ Handled(d) => sentIn[d] <= hour /\ hour <= sentIn[d] + 1
       /\ Handled(d) => sentIn[d] <= handledIn[d] /\ handledIn[d] <= hour
  /\ \A x \in running :
       /\ x.in \in Int /\ x.key.bin \in Int
       /\ x.key.bin <= x.in /\ x.in <= x.key.bin + 1
       /\ x.in <= hour /\ hour <= x.in + 1
  /\ \A x \in results :
       /\ x.in \in Int /\ x.key.bin \in Int
       /\ x.key.bin <= x.in /\ x.in <= x.key.bin + 2
  /\ \A d \in Devices : \A x \in delivered[d] :
       sentIn[d] <= x.key.bin /\ x.key.bin <= sentIn[d] + 1

\* Why: keys and questions belong to the request of some device, and a device
\* is sent what has its own key.
KeysAreOfRequests ==
  /\ \A x \in running :
       \E d \in Devices : x.request = RequestOf[d] /\ x.key = cacheKey(RequestOf[d], x.key.bin)
  /\ \A x \in results :
       \E d \in Devices :
         /\ x.key = cacheKey(RequestOf[d], x.key.bin)
         /\ x.parameters = apiParameters(RequestOf[d], x.in)
  /\ \A d \in Devices : \A x \in delivered[d] :
       x \in results /\ x.key = cacheKey(RequestOf[d], x.key.bin)

\* The limits of the schemas are no older than their instance.
LimitsAreRecent ==
  \A i \in Instances :
    loadedIn[i] # NotLoaded => loadedIn[i] <= hour /\ hour <= loadedIn[i] + MaxAge

PGPSInvariant ==
  /\ TypeOK
  /\ HoursAreClose
  /\ KeysAreOfRequests
  /\ LimitsAreRecent
  /\ QuestionMatchesKey
  /\ PredictionsMatchRequest

(***************************************************************************)
(* "Current GPS day + 2 weeks is the upper bound": however long ago the    *)
(* limits of the schemas were computed, the API is never asked for         *)
(* predictions that start later, nor for more than five days ago and the   *)
(* age of the instance.                                                    *)
(***************************************************************************)
QuestionsAreAvailable ==
  \A x \in results :
    x.accepted =>
      /\ x.parameters.day <= gpsDay(x.in) + 14
      /\ x.parameters.day >= minimumGpsDay(x.in - MaxAge)

\* Lambda replaces an instance long before it is two weeks old, and the schema
\* of a request knows GPS days until the year 2253.
ASSUME LimitsAssumption == MaxAge <= 14 * 24 /\ gpsDay(LastHour) <= 99999

(***************************************************************************)
(* "Grants some leeway": a request for the day in which it is handled is   *)
(* never refused because of its day, although a GPS day may begin before   *)
(* the API is asked, and whether the limits of the schemas were computed   *)
(* before or after that.                                                   *)
(***************************************************************************)
CurrentDayIsAccepted ==
  \A x \in results :
    /\ x.parameters.day \in {gpsDay(x.key.bin), gpsDay(x.in)}
    /\ \A f \in Fields \ {"day"} : x.parameters[f] = Default(x.in)[f]
    => x.accepted

(***************************************************************************)
(* All of this implements module ResolveOnce: the questions are the cache  *)
(* keys, an execution puts the question of its key, its result is learned  *)
(* with it, and a device is told when predictions are delivered to it.     *)
(***************************************************************************)
KeysOf == [d \in Devices |-> {cacheKey(RequestOf[d], h) : h \in FirstHour..LastHour}]

AllKeys == UNION {KeysOf[d] : d \in Devices}

Outcome(k) ==
  CASE \E x \in results : x.key = k /\ x.resolved -> "found"
    [] \E x \in results : x.key = k /\ ~x.resolved -> "nothing"
    [] OTHER -> "open"

Resolution == INSTANCE ResolveOnce WITH
  Questions <- AllKeys,
  Askers <- Devices,
  QuestionsOf <- KeysOf,
  put <- {x.key : x \in running \cup results},
  learned <- [k \in AllKeys |-> Outcome(k)],
  told <- [d \in Devices |-> IF delivered[d] = {} THEN {} ELSE {"found"}]

ResolvesOnce == Resolution!Spec
=============================================================================
