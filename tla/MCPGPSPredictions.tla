------------------------- MODULE MCPGPSPredictions -------------------------
(***************************************************************************)
(* A small instance of the P-GPS predictions for TLC: the hours around the *)
(* begin of a GPS day, hours of October 2024 as in production.             *)
(***************************************************************************)
EXTENDS PGPSPredictionsProperties, TLC

CONSTANTS d1, d2, d3, i1

\* The GPS day at the start of the clock.
Today == gpsDay(FirstHour)

NoFields == <<>>

\* Devices without any field and with that day, which share keys until the next
\* day begins, and one for a day that becomes available then.
AroundToday ==
  (d1 :> NoFields) @@ (d2 :> ("day" :> Today)) @@ (d3 :> ("day" :> Today + 15 @@ "n" :> 168))
=============================================================================
