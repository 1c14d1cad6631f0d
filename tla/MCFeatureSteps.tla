--------------------------- MODULE MCFeatureSteps --------------------------
(***************************************************************************)
(* Events for TLC: an update of the shadow with the battery beside other   *)
(* readings and a sensor that is null, one with the battery alone, a batch *)
(* with readings of different ages, a message, and events that the         *)
(* conversion breaks at.                                                   *)
(***************************************************************************)
EXTENDS FeatureSteps

NumberOf(sensor, old) ==
  [sensor |-> sensor, old |-> old, type |-> "number", values |-> [v |-> "value"]]

Configuration == [sensor |-> "cfg", old |-> FALSE, type |-> "object", values |-> [act |-> "value"]]

Environment ==
  [sensor |-> "env", old |-> FALSE, type |-> "object", values |-> [temp |-> "value", hum |-> "null"]]

OldPosition ==
  [sensor |-> "gnss", old |-> TRUE, type |-> "object", values |-> [lat |-> "value", lng |-> "value"]]

\* Nothing at all of a sensor, or a null in place of its values
Null(sensor) == [sensor |-> sensor, old |-> FALSE, type |-> "null", values |-> <<>>]

NullValue(sensor) == [Null(sensor) EXCEPT !.type = "nullValue"]

FullUpdate ==
  [kind |-> "update", readings |-> {Configuration, Environment, Null("gnss"), NumberOf("bat", FALSE)}]

BatteryUpdate == [kind |-> "update", readings |-> {NumberOf("bat", FALSE)}]

Batch == [kind |-> "batch", readings |-> {OldPosition, Environment, NumberOf("btn", FALSE)}]

NullBatch == [kind |-> "batch", readings |-> {NullValue("dev"), NumberOf("btn", FALSE)}]

NullBattery == [kind |-> "update", readings |-> {Environment, Null("bat")}]

NullUpdate == [kind |-> "update", readings |-> {Environment, NullValue("dev")}]

NullImpact == [kind |-> "message", readings |-> {NumberOf("btn", FALSE), Null("impact")}]

Button == [kind |-> "message", readings |-> {NumberOf("btn", FALSE)}]

SomeEvents ==
  {FullUpdate, BatteryUpdate, Batch, NullBatch, NullBattery, NullUpdate, NullImpact, Button}
=============================================================================
