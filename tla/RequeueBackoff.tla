--------------------------- MODULE RequeueBackoff --------------------------
(***************************************************************************)
(* The numbers behind the A-GNSS fan-out: how a request that is not        *)
(* answered travels through the queue, with a delay that grows by half at  *)
(* every round, until it is older than the maximum resolution time.  The   *)
(* P-GPS fan-out does the same with another cap on the delay.              *)
(*                                                                         *)
(* The model follows one request in the worst case, when its cache key is  *)
(* never resolved.  Times are whole seconds since the request was made.    *)
(***************************************************************************)
EXTENDS Integers

CONSTANTS
  InitialDelay,       \* INITIAL_DELAY, 5 when it is not set
  DelayCap,           \* longest DelaySeconds: 900 (A-GNSS), 600 (P-GPS)
  MaxResolutionTime,  \* MAX_RESOLUTION_TIME_IN_MINUTES, in seconds: 600
  RetentionPeriod,    \* how long SQS keeps a message: 600
  Lags                \* how long a visible message may wait for an invocation

ASSUME SecondsAssumption ==
  /\ InitialDelay \in Nat /\ InitialDelay >= 2
  /\ DelayCap \in Nat
  /\ MaxResolutionTime \in Nat
  /\ RetentionPeriod \in Nat \ {0}
  /\ Lags \subseteq Nat

\* The retention period is long enough for the longest delay; the production
\* values leave a factor of almost two: 600 + 15 < 1200.
ASSUME RetentionAssumption == MaxResolutionTime + 3 * InitialDelay < 2 * RetentionPeriod

\* The cap is above the longest delay as well.
ASSUME CapAssumption == MaxResolutionTime + 3 * InitialDelay < 2 * DelayCap

VARIABLES
  age,       \* age of the request when its current message was sent
  delay,     \* DelaySeconds of that message
  requeues,  \* how often the handler sent the request again
  status     \* "queued", "cancelled" by the handler or "retired" by SQS

vars == <<age, delay, requeues, status>>

-----------------------------------------------------------------------------

TypeOK ==
  /\ age \in Nat
  /\ delay \in Nat
  /\ requeues \in Nat
  /\ status \in {"queued", "cancelled", "retired"}

\* The IoT rule sends the first message without delay and attribute.
Init ==
  /\ age = 0
  /\ delay = 0
  /\ requeues = 0
  /\ status = "queued"

\* The DelaySeconds attribute of the message, or the initial delay.
PreviousDelay == IF requeues = 0 THEN InitialDelay ELSE delay

AtMost(a, b) == IF a <= b THEN a ELSE b

\* Variant with a fault: the factor is three.
NextDelayTripled(previous) == AtMost(DelayCap, 3 * previous)

\* Variant with a fault: the attribute of the message is not used.
NextDelayForgetful(previous) == AtMost(DelayCap, (3 * InitialDelay) \div 2)

\* Math.floor(Math.min(cap, previous * 1.5))
NextDelay(previous) == AtMost(DelayCap, (3 * previous) \div 2)

\* The handler gets the message lag seconds after it became visible.
Handle(lag) ==
  LET ageInSeconds == age + delay + lag IN
  /\ status = "queued"
  /\ delay + lag < RetentionPeriod
  /\ age' = ageInSeconds
  /\ \/ /\ ageInSeconds > MaxResolutionTime
        /\ status' = "cancelled"
        /\ UNCHANGED <<delay, requeues>>
     \/ /\ ageInSeconds <= MaxResolutionTime
        /\ delay' = NextDelay(PreviousDelay)
        /\ requeues' = requeues + 1
        /\ UNCHANGED status

\* No invocation got the message in the retention period.
Retire ==
  /\ status = "queued"
  /\ age' = age + RetentionPeriod
  /\ status' = "retired"
  /\ UNCHANGED <<delay, requeues>>

Next ==
  \/ \E lag \in Lags : Handle(lag)
  \/ Retire

Spec == Init /\ [][Next]_vars

-----------------------------------------------------------------------------

(***************************************************************************)
(* A message becomes visible before SQS deletes it, so a request leaves    *)
(* the queue unseen only if no invocation came although one could.  The    *)
(* delay is also below the cap: the cap never shortens it.                 *)
(***************************************************************************)
SeenBeforeRetention == delay < RetentionPeriod /\ delay < DelayCap

(***************************************************************************)
(* "put request in queue again, with increasing delay": every delay is     *)
(* longer than the one before.  (With an initial delay of one second it    *)
(* would stay one second for ever.)                                        *)
(***************************************************************************)
DelayIncreases == [][requeues' # requeues => delay' > delay]_vars

(***************************************************************************)
(* With the production values, a request is sent again at most ten times   *)
(* before it is cancelled, however fast the invocations come.              *)
(***************************************************************************)
AtMostTenRequeues == requeues <= 10

(***************************************************************************)
(* "Eventually, messages will be discarded from the queue", in rounds and  *)
(* for any timeout: the n-th requeue comes when the request has the age of *)
(* the delays before it, which are InitialDelay + 1, + 2, ... at least, so *)
(* that n grows no faster than the square root of the resolution timeout.  *)
(***************************************************************************)
RequeuesAreBounded ==
  requeues > 0 => (requeues - 1) * (2 * InitialDelay + requeues) <= 2 * MaxResolutionTime

(***************************************************************************)
(* Why the delay stays below the retention period: the sum of the delays   *)
(* so far, which the request is at least as old as, keeps up with twice    *)
(* the current delay; and no message is sent for a request that is older   *)
(* than the maximum resolution time.                                       *)
(***************************************************************************)
DelayBehindAge ==
  /\ 2 * delay <= age + 3 * InitialDelay
  /\ requeues > 0 => delay >= 2
  /\ requeues = 0 => delay = 0
  /\ status = "queued" => age <= MaxResolutionTime
  /\ delay < RetentionPeriod
  /\ delay < DelayCap

DelayInvariant == TypeOK /\ DelayBehindAge
=============================================================================
