--------------------------- MODULE EntryLifetime ---------------------------
(***************************************************************************)
(* How long an entry of the A-GNSS cache table lives.  The cache key holds *)
(* the hour the handler computed it in (agnss/cacheKey.ts); the entry's    *)
(* time to live is counted in whole seconds from the moment it is written  *)
(* (agnss/deviceRequestHandler.ts), and DynamoDB may delete it any time    *)
(* after.  The entry must not go while its hour lasts, nor while the       *)
(* execution started along with it may still update it.                    *)
(*                                                                         *)
(* One invocation and the entries it writes are followed; the clock counts *)
(* milliseconds (Second of them make a second).                            *)
(***************************************************************************)
EXTENDS Integers

CONSTANTS
  Second,            \* milliseconds in a second
  BinSeconds,        \* binHours * 60 * 60
  ExecutionTimeout,  \* milliseconds from the write of an entry to the end of
                     \* its execution: the Lambda timeout, which limits the
                     \* delay of StartExecution, and the execution's own
  Horizon            \* bound: the clock stops here

ASSUME ClockAssumption ==
  /\ Second \in Nat \ {0}
  /\ BinSeconds \in Nat \ {0}
  /\ ExecutionTimeout \in Nat
  /\ Horizon \in Nat

\* The execution ends well within the hour (6 minutes in production).
ASSUME TimeoutAssumption == ExecutionTimeout + Second <= BinSeconds * Second

VARIABLES
  now,      \* the clock
  key,      \* the bin in the cache key of the invocation, or NoKey
  entries,  \* per bin: ttl of its entry, or NoEntry
  running   \* per bin: when the execution of its key is over, or 0

lifetimeVars == <<now, key, entries, running>>

NoKey == -1

NoEntry == -1

\* binMs
BinMs == BinSeconds * Second

Bins == 0..(Horizon \div BinMs)

\* Variant with a fault: the milliseconds are taken for seconds.
BinOfSeconds(t) == t \div BinSeconds

\* Math.floor(Date.now() / binMs), the start of the bin being that times binMs
BinOf(t) == t \div BinMs

BinEnd(b) == (b + 1) * BinMs

\* Variant with a fault: the ttl is a second too early.
TtlShort(t) == (2 * t + Second) \div (2 * Second) + BinSeconds - 1

\* Variant with a fault: the length of a bin is not added.
TtlNow(t) == (2 * t + Second) \div (2 * Second)

\* Math.round(Date.now() / 1000) + binHours * 60 * 60
Ttl(t) == (2 * t + Second) \div (2 * Second) + BinSeconds

-----------------------------------------------------------------------------

LifetimeTypeOK ==
  /\ now \in 0..Horizon
  /\ key \in Bins \cup {NoKey}
  /\ entries \in [Bins -> Nat \cup {NoEntry}]
  /\ running \in [Bins -> Nat]

LifetimeInit ==
  /\ now = 0
  /\ key = NoKey
  /\ entries = [b \in Bins |-> NoEntry]
  /\ running = [b \in Bins |-> 0]

Tick ==
  /\ now < Horizon
  /\ now' = now + 1
  /\ UNCHANGED <<key, entries, running>>

\* An invocation groups its requests by cache key.
ComputeKey ==
  /\ key = NoKey
  /\ key' = BinOf(now)
  /\ UNCHANGED <<now, entries, running>>

\* The invocation writes the entry and starts the execution of the key, which
\* only happens once.
PutEntry ==
  /\ key # NoKey
  /\ entries' = [entries EXCEPT ![key] = Ttl(now)]
  /\ running' = [running EXCEPT ![key] = IF @ = 0 THEN now + ExecutionTimeout ELSE @]
  /\ key' = NoKey
  /\ UNCHANGED now

\* The invocation finds the entry, or what it does fails.
LeaveEntry ==
  /\ key # NoKey
  /\ key' = NoKey
  /\ UNCHANGED <<now, entries, running>>

\* DynamoDB deletes an entry whose time has come.
Expire(b) ==
  /\ entries[b] # NoEntry
  /\ entries[b] * Second <= now
  /\ entries' = [entries EXCEPT ![b] = NoEntry]
  /\ UNCHANGED <<now, key, running>>

LifetimeNext ==
  \/ Tick
  \/ ComputeKey
  \/ PutEntry
  \/ LeaveEntry
  \/ \E b \in Bins : Expire(b)

LifetimeSpec == LifetimeInit /\ [][LifetimeNext]_lifetimeVars

-----------------------------------------------------------------------------

(***************************************************************************)
(* An entry is deleted only when its hour is over, when no new invocation  *)
(* computes its key any more: within its hour, a resolution is not         *)
(* forgotten and made again.  Rounding to seconds could cost half of one,  *)
(* but the hour starts with a whole second.                                *)
(***************************************************************************)
EntryOutlivesHour ==
  [][\A b \in Bins : entries[b] # NoEntry /\ entries'[b] = NoEntry => BinEnd(b) <= now]_lifetimeVars

(***************************************************************************)
(* An entry is deleted only after the execution started with it is over:   *)
(* the update that ends the execution finds the entry it belongs to, and   *)
(* never creates one without the attributes of the request.                *)
(***************************************************************************)
EntryOutlivesExecution ==
  [][\A b \in Bins : entries[b] # NoEntry /\ entries'[b] = NoEntry => running[b] <= now]_lifetimeVars

(***************************************************************************)
(* Why: the ttl of an entry is at or after the end of its bin, and the     *)
(* execution ends before the ttl.                                          *)
(***************************************************************************)
TtlBehindBinAndExecution ==
  /\ key # NoKey => key * BinMs <= now
  /\ \A b \in Bins : running[b] <= now + ExecutionTimeout
  /\ \A b \in Bins :
       entries[b] # NoEntry => /\ BinEnd(b) <= entries[b] * Second
                               /\ running[b] <= entries[b] * Second

LifetimeInvariant == LifetimeTypeOK /\ TtlBehindBinAndExecution
=============================================================================
