--------------------------- MODULE HistoricalData --------------------------
(***************************************************************************)
(* Historical data: what devices publish (updates of their shadow, single  *)
(* messages, and batches of older readings) is handed by three IoT rules   *)
(* to one Lambda, which turns it into records and writes them to a table   *)
(* of Timestream.                                                          *)
(*                                                                         *)
(* A message may be delivered twice, the Lambda is invoked again when it   *)
(* dies, and it swallows every error.  Every invocation marks the records  *)
(* of a reading with a random measureGroup, so that what is written twice  *)
(* is stored twice.                                                        *)
(***************************************************************************)
EXTENDS Integers, FiniteSets

CONSTANTS
  Events,     \* what devices publish: records of kind and readings
  MaxCopies,  \* bound: invocations for an event
  MaxFaults   \* bound: failures

\* The readings of an update are the properties of the shadow, one per sensor.  A
\* reading has a sensor, an age (is it older than what the memory store of
\* the table accepts?) and values: a number, or an object with named values, some
\* of which may be null.  Two kinds have no values: of a null there is nothing at
\* all, not even the time, and a nullValue has a null in place of the values.
Kinds == {"update", "message", "batch"}

ASSUME EventAssumption ==
  /\ MaxCopies \in Nat \ {0} /\ MaxFaults \in Nat
  /\ \A e \in Events :
       /\ e.kind \in Kinds
       /\ e.kind = "update" => \A r, s \in e.readings : r.sensor = s.sensor => r = s
       /\ \A r \in e.readings :
            /\ r.type \in {"number", "object", "null", "nullValue"}
            /\ r.type \in {"null", "nullValue"} => DOMAIN r.values = {}
            /\ r.old \in BOOLEAN
            /\ \A name \in DOMAIN r.values : r.values[name] \in {"value", "null"}

VARIABLES
  pending,  \* per event: invocations of the Lambda to come
  handled,  \* invocations so far
  stored,   \* events an invocation came to its end with, without failure
  table,    \* the table's records
  faults

historicalVars == <<pending, handled, stored, table, faults>>

Fail == faults < MaxFaults /\ faults' = faults + 1

-----------------------------------------------------------------------------
(* The conversion                                                          *)

ReadingOf(e, sensors) == {r \in e.readings : r.sensor \in sensors}

Sensors == UNION {{r.sensor : r \in e.readings} : e \in Events}

\* toRecord makes no record of a null.
Values(r) == {name \in DOMAIN r.values : r.values[name] = "value"}

\* Configuration and battery are taken out of a shadow update first.
ShadowReadings(e) == ReadingOf(e, Sensors \ {"cfg", "bat"})

\* A number has no entries, and no records are made of it.
ShadowObjects(e) == {r \in ShadowReadings(e) : r.type = "object"}

ButtonAndImpact(e) == ReadingOf(e, {"btn", "impact"})

\* The readings that records are made of
Recorded(e) ==
  CASE e.kind = "update" -> ShadowObjects(e) \cup ReadingOf(e, {"bat"})
    [] e.kind = "message" -> ButtonAndImpact(e)
    [] e.kind = "batch" -> e.readings

\* A reading the conversion cannot be done with: it throws, and no record is made
\* of the whole event.  In an update these are a null value, whose entries it takes,
\* and a null battery, whose time it reads; any other null is skipped.  In a message
\* it reads the time of a null, in a batch also the entries of a null value.
Breaks(e, r) ==
  \/ e.kind = "update" /\ r \in ShadowReadings(e) /\ r.type = "nullValue"
  \/ e.kind = "update" /\ r \in ReadingOf(e, {"bat"}) /\ r.type = "null"
  \/ e.kind = "message" /\ r \in ButtonAndImpact(e) /\ r.type = "null"
  \/ e.kind = "batch" /\ r.type \in {"null", "nullValue"}

Throws(e) == \E r \in e.readings : Breaks(e, r)

\* Variant with a fault: the battery always gets a group of its own.
GroupAlways(e, r) == IF e.kind = "update" /\ r.sensor # "bat" THEN ShadowReadings(e) ELSE {r}

\* The readings whose records share a random measureGroup: those of a shadow
\* update, the battery with them if there is a record to share it with;
\* otherwise each reading has its own.
Group(e, r) ==
  LET others == {s \in ShadowObjects(e) : Values(s) # {}} IN
  IF e.kind # "update" \/ (r.sensor = "bat" /\ others = {})
    THEN {r}
    ELSE ShadowReadings(e) \cup ReadingOf(e, {"bat"})

\* Variant with a fault: the battery is forgotten without another reading.
RecordsBesideOthers(e) ==
  IF Throws(e) \/ (e.kind = "update" /\ ShadowReadings(e) = {}) THEN {}
  ELSE UNION {[event : {e}, reading : {r}, name : Values(r),
               group : {<<handled, Group(e, r)>>}] : r \in Recorded(e)}

\* The records of an event, in the next invocation
Records(e) ==
  IF Throws(e) THEN {}
  ELSE UNION {[event : {e}, reading : {r}, name : Values(r),
               group : {<<handled, Group(e, r)>>}] : r \in Recorded(e)}

\* Timestream rejects what is older than the memory store's retention period,
\* and keeps the other records of the call.
Accepted(records) == {record \in records : ~record.reading.old}

-----------------------------------------------------------------------------

HistoricalInit ==
  /\ pending = [e \in Events |-> 0]
  /\ handled = 0
  /\ stored = {}
  /\ table = {}
  /\ faults = 0

\* A rule selects the event and invokes the Lambda.
Ingest(e) ==
  /\ pending' = [pending EXCEPT ![e] = @ + 1]
  /\ UNCHANGED <<handled, stored, table, faults>>

\* The message is delivered a second time.
IngestAgain(e) ==
  /\ Fail
  /\ 0 < pending[e] /\ pending[e] < MaxCopies
  /\ pending' = [pending EXCEPT ![e] = @ + 1]
  /\ UNCHANGED <<handled, stored, table>>

\* The invocation writes all records in one call; if there are none, or the
\* event cannot be converted, it ends without.
Store(e) ==
  /\ pending[e] > 0
  /\ pending' = [pending EXCEPT ![e] = @ - 1]
  /\ handled' = handled + 1
  /\ table' = table \cup Accepted(Records(e))
  /\ stored' = stored \cup {e}
  /\ UNCHANGED faults

\* The call fails.  The error handler fails as well, the handler catches and
\* logs that, and the invocation ends like a successful one.
WriteFails(e) ==
  /\ pending[e] > 0
  /\ Fail
  /\ pending' = [pending EXCEPT ![e] = @ - 1]
  /\ handled' = handled + 1
  /\ UNCHANGED <<stored, table>>

\* The instance dies after the call, and the Lambda is invoked again.
DieAfterWrite(e) ==
  /\ pending[e] > 0
  /\ Fail
  /\ handled' = handled + 1
  /\ table' = table \cup Accepted(Records(e))
  /\ UNCHANGED <<pending, stored>>

LambdaStep == \E e \in Events : Store(e)

LambdaFault == \E e \in Events : IngestAgain(e) \/ WriteFails(e) \/ DieAfterWrite(e)

-----------------------------------------------------------------------------

HistoricalTypeOK ==
  /\ pending \in [Events -> 0..MaxCopies]
  /\ handled \in Nat
  /\ stored \in SUBSET Events
  /\ \A record \in table :
       /\ record.event \in Events
       /\ record.reading \in record.event.readings
       /\ record.name \in DOMAIN record.reading.values
       /\ record.group[1] < handled
  /\ faults \in 0..MaxFaults

(***************************************************************************)
(* Once an event has been handled, every value of every reading that the   *)
(* table can take is in it, a battery reading alone just like one beside   *)
(* others, and next to readings that are too old or a sensor that is null. *)
(* The exceptions are part of the code: the configuration, a plain number  *)
(* of a sensor other than the battery, names a rule's messages do not      *)
(* have, and events with one reading that the conversion breaks at, which  *)
(* lose the readings of all other sensors as well.                         *)
(***************************************************************************)
InTable(r, name) == \E record \in table : record.reading = r /\ record.name = name

Ignored(e, r) ==
  CASE e.kind = "update" -> r.sensor = "cfg" \/ (r.sensor # "bat" /\ r.type = "number")
    [] e.kind = "message" -> r.sensor \notin {"btn", "impact"}
    [] e.kind = "batch" -> FALSE

FreshReadingsAreStored ==
  \A e \in stored : \A r \in e.readings : \A name \in Values(r) :
    Throws(e) \/ Ignored(e, r) \/ r.old \/ InTable(r, name)

(***************************************************************************)
(* The measureGroup says which values were measured together, however      *)
(* often a message is delivered: records with the same one come from the   *)
(* same event, and two records one invocation made of a shadow update      *)
(* have the same.  Two readings of a batch never have.                     *)
(***************************************************************************)
GroupsJoinReadings ==
  \A one, other \in table :
    IF one.group = other.group
      THEN one.event = other.event /\ (one.event.kind = "update" \/ one.reading = other.reading)
      ELSE one.event.kind = "update" => one.group[1] # other.group[1]

(***************************************************************************)
(* The table holds nothing else than what FreshReadingsAreStored asks for: *)
(* no null, nothing of an event that the conversion breaks at.  A second   *)
(* record of a value is from another invocation for the same event.        *)
(***************************************************************************)
OnlyFreshReadingsAreStored ==
  /\ \A record \in table :
       /\ record.reading \in record.event.readings
       /\ record.name \in Values(record.reading)
       /\ ~Throws(record.event)
       /\ ~Ignored(record.event, record.reading)
       /\ ~record.reading.old
  /\ \A one, other \in table :
       one.reading = other.reading /\ one.name = other.name /\ one.group[1] = other.group[1] =>
         one = other
=============================================================================
