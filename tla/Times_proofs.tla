---------------------------- MODULE Times_proofs ----------------------------
(***************************************************************************)
(* Proofs about the times of the A-GNSS fan-out: the requeue delays, for   *)
(* every initial delay of at least two seconds, every wait for an          *)
(* invocation and every retention period that satisfies                    *)
(* RetentionAssumption; and the lifetime of cache entries, for bins and    *)
(* seconds of any length.                                                  *)
(***************************************************************************)
EXTENDS RequeueBackoff, EntryLifetime, TLAPS

-----------------------------------------------------------------------------
(* The requeue delays                                                      *)

\* The growth by half, rounded down: at least one second more, from two
\* seconds on, and never beyond the cap.
LEMMA NextDelayGrows ==
  ASSUME NEW d \in Nat, d >= 2
  PROVE  /\ NextDelay(d) \in Nat
         /\ 2 * NextDelay(d) <= 3 * d
         /\ NextDelay(d) <= DelayCap
         /\ NextDelay(d) > d \/ NextDelay(d) = DelayCap
BY SecondsAssumption DEF NextDelay, AtMost

\* The first message has no delay.
LEMMA InitDelay == Init => DelayInvariant
BY SecondsAssumption, RetentionAssumption, CapAssumption
   DEF Init, DelayInvariant, TypeOK, DelayBehindAge

\* What a round of the handler does to the delay.
LEMMA HandleDelay ==
  ASSUME DelayInvariant, NEW lag \in Lags, Handle(lag)
  PROVE  /\ DelayInvariant'
         /\ requeues' # requeues => delay' > delay
<1> DEFINE previous == PreviousDelay
           t == age + delay + lag
<1>1. lag \in Nat /\ previous \in Nat /\ previous >= 2
  BY SecondsAssumption DEF DelayInvariant, TypeOK, DelayBehindAge, PreviousDelay
<1>2. 2 * delay <= age + 3 * InitialDelay /\ delay <= previous
  BY SecondsAssumption DEF DelayInvariant, TypeOK, DelayBehindAge, PreviousDelay
<1>3. 3 * previous <= t + 3 * InitialDelay
  <2>1. CASE requeues = 0
    BY <1>1, <2>1, SecondsAssumption DEF DelayInvariant, TypeOK, PreviousDelay
  <2>2. CASE requeues # 0
    BY <1>1, <1>2, <2>2, SecondsAssumption DEF DelayInvariant, TypeOK, PreviousDelay
  <2> QED
    BY <2>1, <2>2
<1>4. CASE t > MaxResolutionTime
  <2>1. age' = t /\ status' = "cancelled" /\ UNCHANGED <<delay, requeues>>
    BY <1>1, <1>4, SecondsAssumption DEF Handle, DelayInvariant, TypeOK
  <2> QED
    BY <1>1, <2>1, SecondsAssumption DEF DelayInvariant, TypeOK, DelayBehindAge
<1>5. CASE t <= MaxResolutionTime
  <2>1. /\ age' = t
        /\ delay' = NextDelay(previous)
        /\ requeues' = requeues + 1
        /\ status' = status
    BY <1>1, <1>5, SecondsAssumption DEF Handle, DelayInvariant, TypeOK
  <2>2. /\ NextDelay(previous) \in Nat
        /\ 2 * NextDelay(previous) <= 3 * previous
        /\ NextDelay(previous) > previous \/ NextDelay(previous) = DelayCap
    BY <1>1, NextDelayGrows
  <2> HIDE DEF previous
  <2>3. delay' < RetentionPeriod /\ delay' < DelayCap
    BY <1>1, <1>3, <1>5, <2>1, <2>2, SecondsAssumption, RetentionAssumption, CapAssumption
       DEF DelayInvariant, TypeOK
  <2>4. delay' > previous
    BY <1>1, <2>1, <2>2, <2>3, SecondsAssumption
  <2> QED
    BY <1>1, <1>2, <1>3, <1>5, <2>1, <2>2, <2>3, <2>4, SecondsAssumption
       DEF DelayInvariant, TypeOK, DelayBehindAge
<1> QED
  BY <1>1, <1>4, <1>5, SecondsAssumption DEF DelayInvariant, TypeOK

\* Every step keeps the delay behind the age.
LEMMA NextDelayInvariant == DelayInvariant /\ [Next]_vars => DelayInvariant'
<1> SUFFICES ASSUME DelayInvariant, [Next]_vars PROVE DelayInvariant'
  OBVIOUS
<1>1. ASSUME NEW lag \in Lags, Handle(lag) PROVE DelayInvariant'
  BY <1>1, HandleDelay
<1>2. CASE Retire
  BY <1>2, SecondsAssumption DEF Retire, DelayInvariant, TypeOK, DelayBehindAge
<1>3. CASE UNCHANGED vars
  BY <1>3 DEF vars, DelayInvariant, TypeOK, DelayBehindAge
<1> QED
  BY <1>1, <1>2, <1>3 DEF Next

\* The invariant holds in every reachable state.
THEOREM DelayInvariantHolds == Spec => []DelayInvariant
BY InitDelay, NextDelayInvariant, PTL DEF Spec

(***************************************************************************)
(* A requeued message becomes visible before SQS deletes it, and the cap   *)
(* on DelaySeconds never applies.                                          *)
(***************************************************************************)
THEOREM AlwaysSeenBeforeRetention == Spec => []SeenBeforeRetention
<1>1. DelayInvariant => SeenBeforeRetention
  BY DEF DelayInvariant, DelayBehindAge, SeenBeforeRetention
<1> QED
  BY <1>1, DelayInvariantHolds, PTL

(***************************************************************************)
(* Every requeue has a longer delay than the one before.                   *)
(***************************************************************************)
THEOREM DelayAlwaysIncreases == Spec => DelayIncreases
<1>1. DelayInvariant /\ [Next]_vars => [requeues' # requeues => delay' > delay]_vars
  <2> SUFFICES ASSUME DelayInvariant, Next PROVE requeues' # requeues => delay' > delay
    BY DEF vars
  <2>1. ASSUME NEW lag \in Lags, Handle(lag) PROVE requeues' # requeues => delay' > delay
    BY <2>1, HandleDelay
  <2>2. CASE Retire
    BY <2>2 DEF Retire
  <2> QED
    BY <2>1, <2>2 DEF Next
<1> QED
  BY <1>1, DelayInvariantHolds, PTL DEF Spec, DelayIncreases

\* Twice the sum of InitialDelay + 1, InitialDelay + 2, ..., InitialDelay + n - 1
TwiceTheSum(n) == (n - 1) * (2 * InitialDelay + n)

LEMMA SumGrows ==
  ASSUME NEW n \in Nat \ {0}
  PROVE  /\ TwiceTheSum(n) \in Int
         /\ TwiceTheSum(n + 1) = TwiceTheSum(n) + 2 * (InitialDelay + n)
<1>1. InitialDelay \in Int /\ n \in Int
  BY SecondsAssumption
<1>2. n * (2 * InitialDelay + (n + 1)) = (n - 1) * (2 * InitialDelay + n) + 2 * (InitialDelay + n)
  BY <1>1, Z3
<1>3. (n + 1) - 1 = n
  OBVIOUS
<1> QED
  BY <1>1, <1>2, <1>3 DEF TwiceTheSum

\* A round adds the delay to the age, and every delay is a second longer at
\* least than the one before.
DelaysAddUp ==
  requeues > 0 =>
    /\ delay >= InitialDelay + requeues
    /\ TwiceTheSum(requeues) <= 2 * age
    /\ TwiceTheSum(requeues) <= 2 * MaxResolutionTime

\* Every round keeps the sum.
LEMMA NextDelaysAddUp ==
  ASSUME DelayInvariant, DelaysAddUp, [Next]_vars
  PROVE  DelaysAddUp'
<1> USE SecondsAssumption DEF DelayInvariant, TypeOK
<1>1. requeues > 0 => TwiceTheSum(requeues) \in Int
  BY SumGrows
<1>2. ASSUME UNCHANGED <<delay, requeues>>, age' \in Nat, age' >= age
      PROVE  DelaysAddUp'
  <2>1. TwiceTheSum(requeues)' = TwiceTheSum(requeues)
    BY <1>2 DEF TwiceTheSum
  <2> QED
    BY <1>1, <1>2, <2>1 DEF DelaysAddUp
<1>3. ASSUME NEW lag \in Lags, Handle(lag) PROVE DelaysAddUp'
  <2>1. lag \in Nat /\ age' = age + delay + lag
    BY <1>3 DEF Handle
  <2>2. CASE UNCHANGED <<delay, requeues>>
    BY <1>2, <2>1, <2>2
  <2>3. CASE age' <= MaxResolutionTime /\ requeues' = requeues + 1
    <3>1. delay' > delay /\ delay' \in Nat
      BY <1>3, <2>3, HandleDelay
    <3>2. delay' >= InitialDelay + requeues'
      <4>1. CASE requeues = 0
        <5>1. delay' = NextDelay(InitialDelay)
          BY <1>3, <2>3, <4>1 DEF Handle, PreviousDelay
        <5>2. NextDelay(InitialDelay) > InitialDelay
          BY CapAssumption, NextDelayGrows
        <5> QED
          BY <2>3, <3>1, <4>1, <5>1, <5>2
      <4>2. CASE requeues > 0
        BY <2>3, <3>1, <4>2 DEF DelaysAddUp
      <4> QED
        BY <4>1, <4>2
    <3>3. TwiceTheSum(requeues)' = TwiceTheSum(requeues + 1)
      BY <2>3 DEF TwiceTheSum
    <3>4. TwiceTheSum(requeues + 1) <= 2 * age'
      <4>1. CASE requeues = 0
        <5>1. TwiceTheSum(1) = 0
          BY DEF TwiceTheSum
        <5> QED
          BY <2>1, <4>1, <5>1
      <4>2. CASE requeues > 0
        <5>1. TwiceTheSum(requeues + 1) = TwiceTheSum(requeues) + 2 * (InitialDelay + requeues)
          BY <4>2, SumGrows
        <5> QED
          BY <1>1, <2>1, <4>2, <5>1 DEF DelaysAddUp
      <4> QED
        BY <4>1, <4>2
    <3>5. TwiceTheSum(requeues + 1) \in Int /\ age' \in Int
      BY <2>1, SumGrows
    <3>6. TwiceTheSum(requeues + 1) <= 2 * MaxResolutionTime
      BY <2>3, <3>4, <3>5
    <3> QED
      BY <3>2, <3>3, <3>4, <3>6 DEF DelaysAddUp
  <2> QED
    BY <1>3, <2>1, <2>2, <2>3 DEF Handle
<1>4. CASE Retire
  BY <1>2, <1>4 DEF Retire
<1>5. CASE UNCHANGED vars
  BY <1>2, <1>5 DEF vars
<1> QED
  BY <1>3, <1>4, <1>5 DEF Next

(***************************************************************************)
(* For every timeout and initial delay a request is sent again a bounded   *)
(* number of times, however fast the invocations come.                     *)
(***************************************************************************)
THEOREM RequeuesEnd == Spec => []RequeuesAreBounded
<1>1. Init => DelaysAddUp
  BY DEF Init, DelaysAddUp
<1>2. DelayInvariant /\ DelaysAddUp /\ [Next]_vars => DelaysAddUp'
  BY NextDelaysAddUp
<1>3. DelaysAddUp => RequeuesAreBounded
  BY DEF DelaysAddUp, TwiceTheSum, RequeuesAreBounded
<1> QED
  BY <1>1, <1>2, <1>3, DelayInvariantHolds, PTL DEF Spec

-----------------------------------------------------------------------------
(* The production values                                                   *)

\* INITIAL_DELAY, the resolution timeout of ten minutes, and a cap that no delay
\* reaches
Production == InitialDelay = 5 /\ MaxResolutionTime = 600 /\ DelayCap >= 600

\* The delay after each requeue, and the sum of the delays before it
RoundsAddUp ==
  \/ requeues = 0
  \/ requeues = 1 /\ delay = 7
  \/ requeues = 2 /\ delay = 10 /\ age >= 7
  \/ requeues = 3 /\ delay = 15 /\ age >= 17
  \/ requeues = 4 /\ delay = 22 /\ age >= 32
  \/ requeues = 5 /\ delay = 33 /\ age >= 54
  \/ requeues = 6 /\ delay = 49 /\ age >= 87
  \/ requeues = 7 /\ delay = 73 /\ age >= 136
  \/ requeues = 8 /\ delay = 109 /\ age >= 209
  \/ requeues = 9 /\ delay = 163 /\ age >= 318
  \/ requeues = 10 /\ delay = 244 /\ age >= 481

\* A round adds its delay to the age, and takes the next one.  After the tenth
\* requeue the request is cancelled.
LEMMA NextRound ==
  ASSUME Production, DelayInvariant, RoundsAddUp, [Next]_vars
  PROVE  RoundsAddUp'
<1>1. ASSUME NEW lag \in Lags, Handle(lag) PROVE RoundsAddUp'
  <2>1. lag \in Nat /\ age \in Nat /\ delay \in Nat /\ requeues \in Nat /\ DelayCap \in Nat
    BY SecondsAssumption DEF DelayInvariant, TypeOK
  <2>2. age' = age + delay + lag
    BY <1>1 DEF Handle
  <2>3. CASE UNCHANGED <<delay, requeues>>
    BY <2>1, <2>2, <2>3 DEF RoundsAddUp
  <2>4. CASE age' <= 600 /\ delay' = NextDelay(PreviousDelay) /\ requeues' = requeues + 1
    <3>1. CASE requeues = 0
      BY <2>1, <2>4, <3>1 DEF RoundsAddUp, Production, PreviousDelay, NextDelay, AtMost
    <3>2. CASE requeues # 0
      <4>1. \A d \in {7, 10, 15, 22, 33, 49, 73, 109, 163, 244} :
              NextDelay(d) = (3 * d) \div 2
        BY <2>1 DEF Production, NextDelay, AtMost
      <4> QED
        BY <2>1, <2>2, <2>4, <3>2, <4>1 DEF RoundsAddUp, PreviousDelay
    <3> QED
      BY <3>1, <3>2
  <2> QED
    BY <1>1, <2>2, <2>3, <2>4 DEF Handle, Production
<1>2. CASE Retire
  BY <1>2, SecondsAssumption DEF Retire, RoundsAddUp, DelayInvariant, TypeOK
<1>3. CASE UNCHANGED vars
  BY <1>3 DEF vars, RoundsAddUp
<1> QED
  BY <1>1, <1>2, <1>3 DEF Next

(***************************************************************************)
(* In production a request is requeued at most ten times, for any waits    *)
(* for an invocation and any retention period.                             *)
(***************************************************************************)
THEOREM AtMostTenInProduction ==
  ASSUME Production
  PROVE  Spec => []AtMostTenRequeues
<1>1. Init => RoundsAddUp
  BY DEF Init, RoundsAddUp
<1>2. DelayInvariant /\ RoundsAddUp /\ [Next]_vars => RoundsAddUp'
  BY NextRound
<1>3. RoundsAddUp => AtMostTenRequeues
  BY DEF RoundsAddUp, AtMostTenRequeues
<1> QED
  BY <1>1, <1>2, <1>3, DelayInvariantHolds, PTL DEF Spec

-----------------------------------------------------------------------------
(* The lifetime of entries                                                 *)

\* What the integer quotient is, for a divisor that is not a literal.
LEMMA QuotientBounds ==
  ASSUME NEW n \in Nat, NEW d \in Nat \ {0}
  PROVE  /\ n \div d \in Nat
         /\ (n \div d) * d <= n
         /\ n < (n \div d) * d + d
BY Z3

\* Products keep the order of their first factors.
LEMMA ProductMonotone ==
  ASSUME NEW a \in Int, NEW b \in Int, NEW c \in Nat, a <= b
  PROVE  a * c <= b * c
BY Z3

\* A quotient is at least every number whose product fits.
LEMMA QuotientAtLeast ==
  ASSUME NEW n \in Nat, NEW d \in Nat \ {0}, NEW q \in Nat, q * d <= n
  PROVE  q <= n \div d
<1>1. n < (n \div d + 1) * d /\ n \div d \in Nat
  BY QuotientBounds, Z3
<1>2. SUFFICES ASSUME n \div d < q PROVE FALSE
  BY <1>1
<1>3. (n \div d + 1) * d <= q * d
  BY <1>1, <1>2, ProductMonotone
<1>4. (n \div d + 1) * d \in Nat /\ q * d \in Nat
  BY <1>1
<1> QED
  BY <1>1, <1>3, <1>4

\* A bin is as long as BinSeconds seconds, and longer than no time.
LEMMA BinMsPositive == BinMs \in Nat \ {0}
BY ClockAssumption, Z3 DEF BinMs

\* The bin of a moment starts no later than the moment.
LEMMA BinStartsBefore ==
  ASSUME NEW t \in Nat
  PROVE  BinOf(t) \in Nat /\ BinOf(t) * BinMs <= t
BY BinMsPositive, QuotientBounds DEF BinOf

\* The bin of a moment within the horizon is one of the bins.
LEMMA BinIsBin ==
  ASSUME NEW t \in 0..Horizon
  PROVE  BinOf(t) \in Bins
<1>1. t \in Nat /\ t <= Horizon /\ Horizon \in Nat
  BY ClockAssumption
<1>2. BinOf(t) \in Nat /\ BinOf(t) * BinMs <= t
  BY <1>1, BinStartsBefore
<1>3. BinOf(t) * BinMs \in Nat
  BY <1>2, BinMsPositive, ProductMonotone
<1>4. BinOf(t) * BinMs <= Horizon
  BY <1>1, <1>2, <1>3
<1>5. BinOf(t) <= Horizon \div BinMs
  BY <1>1, <1>2, <1>4, BinMsPositive, QuotientAtLeast
<1>6. Horizon \div BinMs \in Nat
  BY <1>1, BinMsPositive, QuotientBounds
<1> QED
  BY <1>2, <1>5, <1>6 DEF Bins

(***************************************************************************)
(* The time to live is not before the end of the bin of any key computed   *)
(* earlier, and leaves the execution the time it needs.                    *)
(***************************************************************************)
LEMMA TtlLongEnough ==
  ASSUME NEW t \in Nat, NEW b \in Nat, b * BinMs <= t
  PROVE  /\ Ttl(t) \in Nat
         /\ BinEnd(b) <= Ttl(t) * Second
         /\ t + ExecutionTimeout <= Ttl(t) * Second
<1> DEFINE n == 2 * t + Second
           d == 2 * Second
           seconds == n \div d
           start == b * BinSeconds
<1>1. n \in Nat /\ d \in Nat \ {0} /\ start \in Nat
  <2>1. 0 * BinSeconds <= b * BinSeconds
    BY ClockAssumption, ProductMonotone
  <2> QED
    BY <2>1, ClockAssumption
<1>2. start * Second <= t
  <2>1. b * (BinSeconds * Second) = (b * BinSeconds) * Second
    BY ClockAssumption, Z3
  <2> QED
    BY <2>1 DEF BinMs
<1>3. start <= seconds
  <2>1. start * d = 2 * (start * Second)
    BY <1>1, ClockAssumption, Z3
  <2>2. start * Second \in Nat
    BY <1>1, ClockAssumption, ProductMonotone, Z3
  <2>3. start * d <= n
    BY <1>1, <1>2, <2>1, <2>2, ClockAssumption
  <2> HIDE DEF n, d, start
  <2> QED
    BY <1>1, <2>3, QuotientAtLeast
<1>4. seconds \in Nat /\ n < seconds * d + d
  <2> HIDE DEF n, d
  <2> QED
    BY <1>1, QuotientBounds
<1>5. Ttl(t) = seconds + BinSeconds /\ Ttl(t) \in Nat
  BY <1>4, ClockAssumption DEF Ttl
<1> HIDE DEF seconds
<1>6. Ttl(t) * Second = seconds * Second + BinMs
  BY <1>4, <1>5, ClockAssumption, Z3 DEF BinMs
<1>7. BinEnd(b) = start * Second + BinMs
  BY ClockAssumption, Z3 DEF BinEnd, BinMs
<1>8. start * Second <= seconds * Second
  BY <1>1, <1>3, <1>4, ClockAssumption, ProductMonotone
<1>9. seconds * d = 2 * (seconds * Second)
  BY <1>4, ClockAssumption, Z3
<1>10. seconds * Second \in Nat /\ start * Second \in Nat
  BY <1>1, <1>4, ClockAssumption, ProductMonotone, Z3
<1>11. t <= seconds * Second + Second
  BY <1>4, <1>9, <1>10, ClockAssumption
<1>12. ExecutionTimeout + Second <= BinMs
  BY TimeoutAssumption DEF BinMs
<1> HIDE DEF start
<1> QED
  BY <1>5, <1>6, <1>7, <1>8, <1>10, <1>11, <1>12, BinMsPositive, ClockAssumption

-----------------------------------------------------------------------------

\* There is no key and no entry at the start.
LEMMA InitLifetime == LifetimeInit => LifetimeInvariant
BY ClockAssumption
   DEF LifetimeInit, LifetimeInvariant, LifetimeTypeOK, TtlBehindBinAndExecution, NoKey, NoEntry

\* Every step keeps the entries alive for long enough.
LEMMA NextLifetime == LifetimeInvariant /\ [LifetimeNext]_lifetimeVars => LifetimeInvariant'
<1> SUFFICES ASSUME LifetimeInvariant, [LifetimeNext]_lifetimeVars PROVE LifetimeInvariant'
  OBVIOUS
<1> USE DEF LifetimeInvariant
<1>0. /\ now \in Nat /\ Horizon \in Nat
      /\ Bins \subseteq Nat
      /\ BinMs \in Nat \ {0}
  BY ClockAssumption, BinMsPositive DEF LifetimeTypeOK, Bins
<1>1. CASE Tick
  <2>1. now' \in 0..Horizon /\ now' = now + 1 /\ UNCHANGED <<key, entries, running>>
    BY <1>0, <1>1 DEF Tick, LifetimeTypeOK
  <2>2. key # NoKey => key * BinMs <= now'
    <3>1. key # NoKey => key \in Nat /\ key * BinMs \in Int
      BY <1>0 DEF LifetimeTypeOK
    <3> QED
      BY <1>0, <2>1, <3>1 DEF TtlBehindBinAndExecution
  <2>3. \A b \in Bins : running[b] <= now' + ExecutionTimeout
    BY <1>0, <2>1, ClockAssumption DEF LifetimeTypeOK, TtlBehindBinAndExecution
  <2> QED
    BY <2>1, <2>2, <2>3 DEF LifetimeTypeOK, TtlBehindBinAndExecution
<1>2. CASE ComputeKey
  <2>1. key' \in Bins /\ key' * BinMs <= now
    BY <1>0, <1>2, BinIsBin, BinStartsBefore DEF ComputeKey, LifetimeTypeOK
  <2> QED
    BY <1>2, <2>1 DEF ComputeKey, LifetimeTypeOK, TtlBehindBinAndExecution
<1>3. CASE PutEntry
  <2>1. key \in Bins /\ key \in Nat /\ key * BinMs <= now
    BY <1>0, <1>3 DEF PutEntry, LifetimeTypeOK, TtlBehindBinAndExecution
  <2>2. /\ Ttl(now) \in Nat
        /\ BinEnd(key) <= Ttl(now) * Second
        /\ now + ExecutionTimeout <= Ttl(now) * Second
    BY <1>0, <2>1, TtlLongEnough
  <2>3. /\ entries' = [entries EXCEPT ![key] = Ttl(now)]
        /\ running' = [running EXCEPT ![key] =
                         IF running[key] = 0 THEN now + ExecutionTimeout ELSE running[key]]
        /\ key' = NoKey
        /\ now' = now
    BY <1>3 DEF PutEntry
  <2>4. LifetimeTypeOK'
    <3>1. entries' \in [Bins -> Nat \cup {NoEntry}]
      BY <2>2, <2>3 DEF LifetimeTypeOK
    <3>2. now + ExecutionTimeout \in Nat
      BY <1>0, ClockAssumption
    <3>3. running' \in [Bins -> Nat]
      BY <2>1, <2>3, <3>2 DEF LifetimeTypeOK
    <3> QED
      BY <2>3, <3>1, <3>3 DEF LifetimeTypeOK
  <2>5. \A b \in Bins : b # key => entries'[b] = entries[b] /\ running'[b] = running[b]
    BY <2>3 DEF LifetimeTypeOK
  <2>6. entries'[key] = Ttl(now) /\ running'[key] \in {running[key], now + ExecutionTimeout}
    BY <2>1, <2>3 DEF LifetimeTypeOK
  <2>7. \A b \in Bins : running'[b] <= now + ExecutionTimeout
    <3>1. running[key] <= now + ExecutionTimeout /\ now + ExecutionTimeout \in Nat
      BY <1>0, <2>1, ClockAssumption DEF TtlBehindBinAndExecution
    <3> QED
      BY <2>1, <2>5, <2>6, <3>1 DEF TtlBehindBinAndExecution
  <2>8. running'[key] <= Ttl(now) * Second
    <3>1. running'[key] \in Nat /\ running'[key] <= now + ExecutionTimeout
      BY <2>1, <2>4, <2>7 DEF LifetimeTypeOK
    <3>2. now + ExecutionTimeout \in Nat /\ Ttl(now) * Second \in Int
      BY <1>0, <2>2, ClockAssumption
    <3> QED
      BY <2>2, <3>1, <3>2
  <2>9. ASSUME NEW b \in Bins, entries'[b] # NoEntry
        PROVE  /\ BinEnd(b) <= entries'[b] * Second
               /\ running'[b] <= entries'[b] * Second
    <3>1. CASE b = key
      BY <2>2, <2>6, <2>8, <3>1
    <3>2. CASE b # key
      BY <2>5, <2>9, <3>2 DEF TtlBehindBinAndExecution
    <3> QED
      BY <3>1, <3>2
  <2> QED
    BY <2>3, <2>4, <2>7, <2>9 DEF TtlBehindBinAndExecution
<1>4. CASE LeaveEntry
  BY <1>4 DEF LeaveEntry, LifetimeTypeOK, TtlBehindBinAndExecution
<1>5. ASSUME NEW b \in Bins, Expire(b) PROVE LifetimeInvariant'
  BY <1>5 DEF Expire, LifetimeTypeOK, TtlBehindBinAndExecution
<1>6. CASE UNCHANGED lifetimeVars
  BY <1>6 DEF lifetimeVars, LifetimeTypeOK, TtlBehindBinAndExecution
<1> QED
  BY <1>1, <1>2, <1>3, <1>4, <1>5, <1>6 DEF LifetimeNext

\* The invariant holds in every reachable state.
THEOREM LifetimeInvariantHolds == LifetimeSpec => []LifetimeInvariant
BY InitLifetime, NextLifetime, PTL DEF LifetimeSpec

\* What the deletion of an entry implies.
LEMMA ExpiredIsOver ==
  ASSUME LifetimeInvariant, [LifetimeNext]_lifetimeVars, NEW b \in Bins,
         entries[b] # NoEntry, entries'[b] = NoEntry
  PROVE  BinEnd(b) <= now /\ running[b] <= now
<1> USE DEF LifetimeInvariant
<1>1. Expire(b)
  <2>1. CASE PutEntry
    <3>1. now \in Nat /\ key \in Bins /\ key \in Nat /\ key * BinMs <= now
      BY <2>1, ClockAssumption, BinMsPositive
         DEF PutEntry, LifetimeTypeOK, TtlBehindBinAndExecution, Bins
    <3>2. Ttl(now) \in Nat
      BY <3>1, TtlLongEnough
    <3> QED
      BY <2>1, <3>1, <3>2 DEF PutEntry, LifetimeTypeOK, NoEntry
  <2>2. ASSUME NEW c \in Bins, Expire(c) PROVE Expire(b)
    BY <2>2 DEF Expire, LifetimeTypeOK
  <2>3. CASE Tick \/ ComputeKey \/ LeaveEntry \/ UNCHANGED lifetimeVars
    BY <2>3 DEF Tick, ComputeKey, LeaveEntry, lifetimeVars
  <2> QED
    BY <2>1, <2>2, <2>3 DEF LifetimeNext
<1>2. entries[b] \in Nat /\ entries[b] * Second <= now
  BY <1>1 DEF Expire, LifetimeTypeOK
<1>3. BinEnd(b) <= entries[b] * Second /\ running[b] <= entries[b] * Second
  BY DEF TtlBehindBinAndExecution
<1>4. /\ now \in Int /\ running[b] \in Int /\ BinEnd(b) \in Int
      /\ entries[b] * Second \in Int
  <2>1. b \in Int /\ BinMs \in Int
    BY ClockAssumption, BinMsPositive DEF Bins
  <2> QED
    BY <1>2, <2>1, ClockAssumption DEF LifetimeTypeOK, BinEnd
<1> QED
  BY <1>2, <1>3, <1>4

(***************************************************************************)
(* DynamoDB deletes an entry of the cache table only after its hour.       *)
(***************************************************************************)
THEOREM EntryAlwaysOutlivesHour == LifetimeSpec => EntryOutlivesHour
<1>1. LifetimeInvariant /\ [LifetimeNext]_lifetimeVars =>
        [\A b \in Bins : entries[b] # NoEntry /\ entries'[b] = NoEntry => BinEnd(b) <= now]_lifetimeVars
  BY ExpiredIsOver
<1> QED
  BY <1>1, LifetimeInvariantHolds, PTL DEF LifetimeSpec, EntryOutlivesHour

(***************************************************************************)
(* DynamoDB deletes an entry of the cache table only after the execution   *)
(* that was started with it.                                               *)
(***************************************************************************)
THEOREM EntryAlwaysOutlivesExecution == LifetimeSpec => EntryOutlivesExecution
<1>1. LifetimeInvariant /\ [LifetimeNext]_lifetimeVars =>
        [\A b \in Bins : entries[b] # NoEntry /\ entries'[b] = NoEntry => running[b] <= now]_lifetimeVars
  BY ExpiredIsOver
<1> QED
  BY <1>1, LifetimeInvariantHolds, PTL DEF LifetimeSpec, EntryOutlivesExecution
=============================================================================
